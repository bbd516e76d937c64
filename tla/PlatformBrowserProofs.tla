------------------------- MODULE PlatformBrowserProofs -------------------------
(* Proofs about a page that shows a platform, for any bounds.              *)
EXTENDS PlatformBrowser, TLAPS

USE BrowserAssumption

------------------------------------------------------------------------------
(* The platform.                                                           *)

\* The states the feed speaks of.
LEMMA ViewFacts ==
  /\ AtRest \in View
  /\ Untold \notin View
  /\ Blank \notin View
  /\ Blank.complete = FALSE
  /\ [AtRest EXCEPT !.mode = "BREAK", !.state = "RUNNING"] \in View
BY DEF AtRest, Untold, Blank, View

\* Whatever the platform does keeps the types and FeedInv.
LEMMA BecomesFacts ==
  ASSUME NEW v \in View, Becomes(v), v.mode = "BREAK" => v.state # "IDLE"
  PROVE  FeedTypeOK' /\ FeedInv'
BY ViewFacts DEF Becomes, FeedTypeOK, FeedInv

LEMMA UpdateFacts ==
  ASSUME FeedTypeOK, FeedInv, Update
  PROVE  FeedTypeOK' /\ FeedInv' /\ told' \in View /\ known'
<1>. live \in View
  BY DEF FeedTypeOK
<1>. DEFINE Good(v) == v \in View /\ (v.mode = "BREAK" => v.state # "IDLE")
<1>1. ASSUME NEW v, Good(v), Becomes(v)
      PROVE  FeedTypeOK' /\ FeedInv' /\ told' \in View /\ known'
  BY <1>1, BecomesFacts DEF Becomes
<1>. HIDE DEF Good
<1>2. CASE Vote
  <2>1. PICK c \in {live.complete, TRUE} : Becomes([live EXCEPT !.complete = c])
    BY <1>2 DEF Vote
  <2>2. Good([live EXCEPT !.complete = c])
    BY <1>2 DEF Good, View, FeedInv, Vote, Locked, InBreakNow
  <2>. QED
    BY <1>1, <2>1, <2>2
<1>3. CASE PressClock
  <2>. DEFINE v == [live EXCEPT !.complete = FALSE,
                       !.state = IF @ = "RUNNING" THEN "IDLE" ELSE "RUNNING"]
  <2>1. Good(v)
    BY <1>3 DEF Good, View, PressClock, Locked, InBreakNow
  <2>2. Becomes(v)
    BY <1>3 DEF PressClock
  <2>. QED
    BY <1>1, <2>1, <2>2
<1>4. CASE Reset
  <2>. DEFINE v == [live EXCEPT !.complete = FALSE, !.state = IF InBreakNow THEN @ ELSE "IDLE"]
  <2>1. Good(v)
    BY DEF Good, View, FeedInv, InBreakNow
  <2>2. Becomes(v)
    BY <1>4 DEF Reset
  <2>. QED
    BY <1>1, <2>1, <2>2
<1>5. CASE ToggleAttemptChange
  <2>. DEFINE v == [live EXCEPT !.attemptChange = ~@]
  <2>1. Good(v)
    BY DEF Good, View, FeedInv
  <2>2. Becomes(v)
    BY <1>5 DEF ToggleAttemptChange
  <2>. QED
    BY <1>1, <2>1, <2>2
<1>6. CASE Reseat
  <2>1. PICK c \in BOOLEAN : Becomes([live EXCEPT !.complete = c])
    BY <1>6 DEF Reseat
  <2>2. Good([live EXCEPT !.complete = c])
    BY DEF Good, View, FeedInv
  <2>. QED
    BY <1>1, <2>1, <2>2
<1>7. CASE StartBreak
  <2>. DEFINE v == [live EXCEPT !.mode = "BREAK", !.state = "RUNNING"]
  <2>1. Good(v)
    BY DEF Good, View
  <2>2. Becomes(v)
    BY <1>7 DEF StartBreak
  <2>. QED
    BY <1>1, <2>1, <2>2
<1>8. CASE EndBreak
  <2>. DEFINE v == [live EXCEPT !.mode = "ACTIVE", !.state = "IDLE"]
  <2>1. Good(v)
    BY DEF Good, View
  <2>2. Becomes(v)
    BY <1>8 DEF EndBreak
  <2>. QED
    BY <1>1, <2>1, <2>2
<1>9. CASE Tick
  <2>1. Good(live)
    BY DEF Good, FeedInv
  <2>. QED
    BY <1>1, <1>9, <2>1 DEF Tick
<1>. QED
  BY <1>2, <1>3, <1>4, <1>5, <1>6, <1>7, <1>8, <1>9 DEF Update

LEMMA UnseenFacts ==
  ASSUME FeedTypeOK, FeedInv, RunsOut \/ LeavesUntold \/ Appears \/ Vanishes
  PROVE  FeedTypeOK' /\ FeedInv' /\ told' \in {told, Untold}
<1>1. CASE RunsOut
  <2>. live \in View /\ live.state = "RUNNING" /\ told \in View \cup {Untold}
    BY <1>1 DEF RunsOut, FeedTypeOK
  <2>. live' = [live EXCEPT !.state = "EXPIRED"] /\ told' = told /\ known' = known
    BY <1>1 DEF RunsOut
  <2>1. FeedTypeOK'
    BY DEF FeedTypeOK, View
  <2>2. known /\ live # AtRest
    BY DEF FeedInv, AtRest
  <2>3. told = Untold =>
          live = [AtRest EXCEPT !.mode = "BREAK", !.state = "RUNNING"]
    BY <2>2 DEF FeedInv, AtRest
  <2>4. told # Untold =>
          /\ told.mode = live'.mode /\ told.attemptChange = live'.attemptChange
          /\ told.state = "RUNNING" /\ live'.state = "EXPIRED"
          /\ live'.complete => told.complete
    BY DEF FeedInv, View
  <2>5. told = Untold => live' = [AtRest EXCEPT !.mode = "BREAK", !.state = "EXPIRED"]
    BY <2>3 DEF AtRest
  <2>. QED
    BY <2>1, <2>2, <2>4, <2>5 DEF FeedInv, View
<1>4. CASE LeavesUntold
  <2>. live \in View /\ told \in View \cup {Untold} /\ known
       /\ live' = [live EXCEPT !.complete = FALSE] /\ told' = told /\ known' = known
    BY <1>4 DEF LeavesUntold, FeedTypeOK
  <2>1. FeedTypeOK'
    BY DEF FeedTypeOK, View
  <2>2. told = Untold => live.complete = FALSE
    <3>1. AtRest.complete = FALSE
      BY DEF AtRest
    <3>2. \A s : [AtRest EXCEPT !.mode = "BREAK", !.state = s].complete = FALSE
      BY <3>1, ViewFacts DEF View
    <3>. QED
      BY <3>1, <3>2 DEF FeedInv
  <2>3. told = Untold => live' = live
    BY <2>2 DEF View
  <2>. QED
    BY <2>1, <2>3 DEF FeedInv, View
<1>2. CASE Appears
  BY <1>2, ViewFacts DEF Appears, FeedTypeOK, FeedInv, AtRest
<1>3. CASE Vanishes
  BY <1>3, ViewFacts DEF Vanishes, FeedTypeOK, FeedInv, AtRest
<1>. QED
  BY <1>1, <1>2, <1>3, <1>4

------------------------------------------------------------------------------
(* The page.                                                               *)

\* A page of a platform is never behind, and its lights are those of the votes
\* it shows.
RoomInv ==
  /\ socket # "joined" => inbox = <<>> /\ ~fresh
  /\ inbox # <<>> /\ told # Untold => inbox[Len(inbox)] = told
  /\ fresh => heard[run]

LightsInv ==
  /\ wasComplete = shown.complete
  /\ LightsNeedVotes
  /\ RevealSurvivesUpdates

PageInv == RoomInv /\ CaughtUp /\ LightsInv

BrowserInv == BrowserTypeOK /\ FeedInv /\ PageInv

\* Showing a state keeps the lights with the votes, as both branches of the
\* reveal effect do.
LEMMA ShowFacts ==
  ASSUME BrowserTypeOK, LightsInv, NEW v \in View, Show(v)
  PROVE  /\ LightsInv'
         /\ shown' = v
         /\ <<wasComplete, revealTimer, revealed, disturbed>>' \in
              BOOLEAN \X BOOLEAN \X BOOLEAN \X BOOLEAN
<1>. v.complete \in BOOLEAN /\ shown.complete \in BOOLEAN
  BY ViewFacts DEF View, BrowserTypeOK
<1>. wasComplete \in BOOLEAN /\ revealTimer \in BOOLEAN /\ revealed \in BOOLEAN
     /\ disturbed \in BOOLEAN
  BY DEF BrowserTypeOK
<1>1. CASE v = shown
  BY <1>1 DEF Show, EffectRuns, LightsInv, LightsNeedVotes, RevealSurvivesUpdates
<1>2. CASE v # shown
  <2>1. /\ shown' = v
        /\ revealTimer' = (v.complete /\ ~wasComplete)
        /\ revealed' = (revealed /\ v.complete)
        /\ wasComplete' = v.complete
        /\ disturbed' = (v.complete /\ shown.complete /\ (disturbed \/ revealTimer))
    BY <1>2 DEF Show, EffectRuns, StartsTimer, LightsAfter
  <2>. QED
    BY <2>1 DEF LightsInv, LightsNeedVotes, RevealSurvivesUpdates
<1>. QED
  BY <1>1, <1>2

LEMMA LightsKept ==
  LightsInv /\ UNCHANGED <<shown, revealVars>> => LightsInv'
BY DEF LightsInv, LightsNeedVotes, RevealSurvivesUpdates, revealVars

LEMMA RoomKept ==
  RoomInv /\ CaughtUp /\ UNCHANGED <<run, heard, socket, inbox, fresh, shown, told>>
    => RoomInv' /\ CaughtUp'
BY DEF RoomInv, CaughtUp

\* An update of the platform reaches a page in the room as the last one.
LEMMA EmitFacts ==
  ASSUME BrowserTypeOK, RoomInv, CaughtUp, told' \in View, EmitPlatformUpdate,
         UNCHANGED <<run, heard, socket, fresh, shown>>
  PROVE  inbox' \in Seq(View) /\ RoomInv' /\ CaughtUp'
<1>. inbox \in Seq(View)
  BY DEF BrowserTypeOK
<1>1. CASE socket = "joined"
  <2>1. inbox' = Append(inbox, told')
    BY <1>1 DEF EmitPlatformUpdate
  <2>2. inbox' \in Seq(View) /\ inbox' # <<>> /\ inbox'[Len(inbox')] = told'
    BY <2>1
  <2>. QED
    BY <1>1, <2>2 DEF RoomInv, CaughtUp
<1>2. CASE socket # "joined"
  <2>1. inbox' = <<>> /\ inbox = <<>> /\ ~fresh
    BY <1>2 DEF EmitPlatformUpdate, RoomInv
  <2>. QED
    BY <1>2, <2>1 DEF RoomInv, CaughtUp
<1>. QED
  BY <1>1, <1>2

LEMMA MovesFacts == BrowserTypeOK /\ Moves => moves' \in 0..MaxMoves
BY DEF BrowserTypeOK, Moves

\* Losing the socket leaves nothing behind.
LEMMA LoseFacts ==
  ASSUME LoseSocket, BrowserTypeOK
  PROVE  /\ RoomInv' /\ CaughtUp'
         /\ socket' = "down" /\ inbox' = <<>> /\ inbox' \in Seq(View)
         /\ ~fresh' /\ fresh' \in BOOLEAN
         /\ connected' \in {"unknown", "yes", "no"}
<1>1. /\ socket' = "down" /\ inbox' = <<>> /\ fresh' = FALSE
      /\ connected' \in {connected, "no"}
  BY DEF LoseSocket
<1>2. connected' \in {"unknown", "yes", "no"}
  BY <1>1 DEF BrowserTypeOK
<1>3. <<>> \in Seq(View)
  OBVIOUS
<1>4. RoomInv' /\ CaughtUp'
  BY <1>1 DEF RoomInv, CaughtUp
<1>. QED
  BY <1>1, <1>2, <1>3, <1>4

LEMMA InitBrowserInv == BrowserInit => BrowserInv
<1>. SUFFICES ASSUME BrowserInit PROVE BrowserInv
  OBVIOUS
<1>1. BrowserTypeOK
  <2>1. ensure \in [Runs -> Ensure]
        /\ \A i \in Runs : ensure[i].phase = "answered" => ensure[i].state \in View
    BY DEF BrowserInit, Ensure, Runs, Asked, Unasked
  <2>2. inbox \in Seq(View) /\ requests \subseteq Kinds /\ moves \in 0..MaxMoves
    BY DEF BrowserInit
  <2>3. /\ FeedTypeOK /\ run \in Runs /\ heard \in [Runs -> BOOLEAN]
        /\ socket = "down" /\ connected = "unknown" /\ shown = Blank
        /\ ~wasComplete /\ ~revealTimer /\ ~revealed /\ ~fresh /\ ~disturbed
        /\ wasComplete \in BOOLEAN /\ revealTimer \in BOOLEAN /\ revealed \in BOOLEAN
        /\ fresh \in BOOLEAN /\ disturbed \in BOOLEAN
    BY DEF BrowserInit, Runs
  <2>. QED
    BY <2>1, <2>2, <2>3 DEF BrowserTypeOK
<1>2. PageInv
  BY ViewFacts DEF BrowserInit, PageInv, RoomInv, CaughtUp, LightsInv, LightsNeedVotes,
                   RevealSurvivesUpdates
<1>. QED
  BY <1>1, <1>2 DEF BrowserInit, BrowserInv

\* What a step of the platform leaves to show.
LEMMA ServerSteps ==
  ASSUME BrowserInv, ServerSide
  PROVE  BrowserInv'
<1>. USE DEF BrowserInv
<1>. FeedTypeOK /\ LightsInv /\ RoomInv /\ CaughtUp
  BY DEF BrowserTypeOK, PageInv
<1>1. CASE PlatformUpdates
  <2>1. FeedTypeOK' /\ FeedInv' /\ told' \in View
    BY <1>1, UpdateFacts DEF PlatformUpdates
  <2>2. UNCHANGED <<socketVars, shown, revealVars, requests>> /\ EmitPlatformUpdate /\ Moves
    BY <1>1 DEF PlatformUpdates
  <2>3. inbox' \in Seq(View) /\ RoomInv' /\ CaughtUp'
    BY <2>1, <2>2, EmitFacts DEF socketVars
  <2>4. LightsInv'
    BY <2>2, LightsKept
  <2>5. BrowserTypeOK'
    BY <2>1, <2>2, <2>3, MovesFacts DEF BrowserTypeOK, socketVars, revealVars
  <2>. QED
    BY <2>1, <2>3, <2>4, <2>5 DEF PageInv
<1>2. CASE PlatformMovesUnseen
  <2>1. FeedTypeOK' /\ FeedInv' /\ told' \in {told, Untold}
    BY <1>2, UnseenFacts DEF PlatformMovesUnseen
  <2>2. UNCHANGED pageVars /\ Moves
    BY <1>2 DEF PlatformMovesUnseen
  <2>3. RoomInv' /\ CaughtUp' /\ LightsInv'
    BY <2>1, <2>2, LightsKept DEF pageVars, socketVars, RoomInv, CaughtUp
  <2>4. BrowserTypeOK'
    BY <2>1, <2>2, MovesFacts DEF BrowserTypeOK, pageVars, socketVars, revealVars
  <2>. QED
    BY <2>1, <2>3, <2>4 DEF PageInv
<1>3. ASSUME NEW what \in Kinds, Serve(what)
      PROVE  BrowserInv'
  <2>1. Update
    BY <1>3 DEF Serve, Accepted, Update, Kinds
  <2>2. FeedTypeOK' /\ FeedInv' /\ told' \in View
    BY <2>1, UpdateFacts
  <2>3. /\ UNCHANGED <<socketVars, shown, revealVars>> /\ EmitPlatformUpdate /\ Moves
        /\ requests' \subseteq requests
    BY <1>3 DEF Serve
  <2>4. inbox' \in Seq(View) /\ RoomInv' /\ CaughtUp'
    BY <2>2, <2>3, EmitFacts DEF socketVars
  <2>5. LightsInv'
    BY <2>3, LightsKept
  <2>6. BrowserTypeOK'
    BY <2>2, <2>3, <2>4, MovesFacts DEF BrowserTypeOK, socketVars, revealVars
  <2>. QED
    BY <2>2, <2>4, <2>5, <2>6 DEF PageInv
<1>4. ASSUME NEW what \in Kinds, RequestFails(what)
      PROVE  BrowserInv'
  <2>1. UNCHANGED <<feedVars, socketVars, inbox, shown, revealVars, moves>>
        /\ requests' \subseteq requests
    BY <1>4 DEF RequestFails
  <2>. USE <2>1 DEF feedVars, socketVars, revealVars
  <2>2. FeedTypeOK' /\ FeedInv'
    BY DEF FeedTypeOK, FeedInv
  <2>3. BrowserTypeOK'
    BY <2>2 DEF BrowserTypeOK
  <2>. QED
    BY <2>2, <2>3, RoomKept, LightsKept DEF PageInv
<1>5. ASSUME NEW i \in Runs, EnsureHandled(i)
      PROVE  BrowserInv'
  <2>1. FeedTypeOK' /\ FeedInv' /\ told' = told /\ moves' \in 0..MaxMoves
    <3>1. CASE UNCHANGED <<feedVars, moves>>
      BY <3>1 DEF feedVars, FeedTypeOK, FeedInv, BrowserTypeOK
    <3>2. CASE Appears /\ Moves
      BY <3>2, UnseenFacts, MovesFacts DEF Appears
    <3>. QED
      BY <1>5, <3>1, <3>2 DEF EnsureHandled
  <2>2. /\ UNCHANGED <<run, heard, socket, connected, inbox, shown, revealVars, requests, fresh>>
        /\ ensure' = [ensure EXCEPT ![i] = [phase |-> "answered", state |-> live']]
    BY <1>5 DEF EnsureHandled, EnsureReply
  <2>3. live' \in View
    BY <2>1 DEF FeedTypeOK
  <2>4. ensure' \in [Runs -> Ensure]
        /\ \A j \in Runs : ensure'[j].phase = "answered" => ensure'[j].state \in View
    BY <2>2, <2>3 DEF BrowserTypeOK, Ensure
  <2>5. BrowserTypeOK'
    BY <2>1, <2>2, <2>4 DEF BrowserTypeOK, revealVars
  <2>. QED
    BY <2>1, <2>2, <2>5, RoomKept, LightsKept DEF PageInv
<1>6. CASE ServerJoins
  <2>1. /\ UNCHANGED <<feedVars, run, ensure, heard, connected, inbox, shown, revealVars,
                       requests, fresh, moves>>
        /\ socket = "up" /\ socket' = "joined"
    BY <1>6 DEF ServerJoins
  <2>2. FeedTypeOK' /\ FeedInv'
    BY <2>1 DEF feedVars, FeedTypeOK, FeedInv
  <2>3. BrowserTypeOK'
    BY <2>1, <2>2 DEF BrowserTypeOK, revealVars
  <2>4. RoomInv' /\ CaughtUp'
    BY <2>1 DEF RoomInv, CaughtUp, feedVars
  <2>. QED
    BY <2>1, <2>2, <2>3, <2>4, LightsKept DEF PageInv
<1>7. CASE BackendRestarts
  <2>1. FeedTypeOK' /\ FeedInv'
    BY <1>7, UnseenFacts DEF BackendRestarts
  <2>2. /\ LoseSocket /\ Moves /\ requests' = {} /\ UNCHANGED <<run, heard, shown, revealVars>>
        /\ ensure' = [i \in Runs |-> IF ensure[i].phase = "none" THEN ensure[i] ELSE Over]
    BY <1>7 DEF BackendRestarts
  <2>3. Over \in Ensure /\ Over.phase # "answered"
    BY DEF Over, Ensure
  <2>4. ensure' \in [Runs -> Ensure]
        /\ \A j \in Runs : ensure'[j].phase = "answered" => ensure'[j].state \in View
    BY <2>2, <2>3 DEF BrowserTypeOK
  <2>5. BrowserTypeOK'
    BY <2>1, <2>2, <2>4, LoseFacts, MovesFacts DEF BrowserTypeOK, revealVars
  <2>. QED
    BY <2>1, <2>2, <2>5, LoseFacts, LightsKept DEF PageInv
<1>. QED
  BY <1>1, <1>2, <1>3, <1>4, <1>5, <1>6, <1>7 DEF ServerSide

\* What the page does leaves the platform alone.
LEMMA FeedKept ==
  FeedTypeOK /\ FeedInv /\ UNCHANGED feedVars => FeedTypeOK' /\ FeedInv'
BY DEF feedVars, FeedTypeOK, FeedInv

LEMMA OverFacts ==
  ASSUME BrowserTypeOK, NEW i \in Runs, ensure' = [ensure EXCEPT ![i] = Over]
  PROVE  /\ ensure' \in [Runs -> Ensure]
         /\ \A j \in Runs : ensure'[j].phase = "answered" => ensure'[j].state \in View
BY DEF BrowserTypeOK, Over, Ensure

\* The answer of a request never replaces an update of the same run.
LEMMA EnsureAnsweredStep ==
  ASSUME BrowserInv, NEW i \in Runs, EnsureAnswered(i)
  PROVE  BrowserInv'
<1>. USE DEF BrowserInv
<1>. FeedTypeOK /\ LightsInv /\ RoomInv /\ CaughtUp
  BY DEF BrowserTypeOK, PageInv
<1>1. /\ ensure[i].phase = "answered"
      /\ ensure' = [ensure EXCEPT ![i] = Over]
      /\ UNCHANGED <<feedVars, run, heard, socket, connected, inbox, requests, moves>>
  BY DEF EnsureAnswered
<1>2. ensure[i].state \in View
  BY <1>1 DEF BrowserTypeOK
<1>3. FeedTypeOK' /\ FeedInv'
  BY <1>1, FeedKept
<1>4. CASE heard[i]
  <2>1. UNCHANGED <<shown, revealVars, fresh>>
    BY <1>4 DEF EnsureAnswered, Overtaken
  <2>2. RoomInv' /\ CaughtUp'
    BY <1>1, <2>1, RoomKept DEF feedVars
  <2>3. BrowserTypeOK'
    BY <1>1, <1>3, <2>1, OverFacts DEF BrowserTypeOK, revealVars
  <2>. QED
    BY <1>3, <2>1, <2>2, <2>3, LightsKept DEF PageInv
<1>5. CASE ~heard[i]
  <2>1. Show(ensure[i].state) /\ fresh' = (fresh /\ i = run)
    BY <1>5 DEF EnsureAnswered, Overtaken
  <2>2. fresh' = FALSE
    BY <1>5, <2>1 DEF RoomInv
  <2>3. RoomInv' /\ CaughtUp'
    BY <1>1, <2>2 DEF RoomInv, CaughtUp, feedVars
  <2>4. /\ LightsInv' /\ shown' \in View
        /\ <<wasComplete, revealTimer, revealed, disturbed>>' \in
             BOOLEAN \X BOOLEAN \X BOOLEAN \X BOOLEAN
    BY <1>2, <2>1, ShowFacts
  <2>5. BrowserTypeOK'
    BY <1>1, <1>3, <2>2, <2>4, OverFacts DEF BrowserTypeOK
  <2>. QED
    BY <1>3, <2>3, <2>4, <2>5 DEF PageInv
<1>. QED
  BY <1>4, <1>5

\* Once the last update under way is taken, the page shows what was told last.
LEMMA TakeUpdateStep ==
  ASSUME BrowserInv, TakeUpdate
  PROVE  BrowserInv'
<1>. USE DEF BrowserInv
<1>. FeedTypeOK /\ LightsInv /\ RoomInv /\ inbox \in Seq(View) /\ run \in Runs
     /\ heard \in [Runs -> BOOLEAN]
  BY DEF BrowserTypeOK, PageInv
<1>1. /\ inbox # <<>> /\ inbox' = Tail(inbox) /\ heard' = [heard EXCEPT ![run] = TRUE]
      /\ fresh' = TRUE /\ Show(Head(inbox))
      /\ UNCHANGED <<feedVars, run, ensure, socket, connected, requests, moves>>
  BY DEF TakeUpdate
<1>2. FeedTypeOK' /\ FeedInv'
  BY <1>1, FeedKept
<1>3. Head(inbox) \in View /\ Head(inbox) = inbox[1] /\ inbox' \in Seq(View)
      /\ Len(inbox) \in Nat \ {0} /\ Len(inbox') = Len(inbox) - 1
      /\ \A k \in 1..Len(inbox') : inbox'[k] = inbox[k + 1]
  BY <1>1
<1>4. /\ LightsInv' /\ shown' = Head(inbox)
      /\ <<wasComplete, revealTimer, revealed, disturbed>>' \in
           BOOLEAN \X BOOLEAN \X BOOLEAN \X BOOLEAN
  BY <1>1, <1>3, ShowFacts
<1>5. heard' \in [Runs -> BOOLEAN] /\ heard'[run']
  BY <1>1
<1>6. socket = "joined"
  BY <1>1 DEF RoomInv
<1>7. told # Untold => inbox[Len(inbox)] = told
  BY <1>1 DEF RoomInv
<1>8. CASE inbox' = <<>>
  <2>1. Len(inbox) = 1
    BY <1>3, <1>8
  <2>2. told' # Untold => shown' = told'
    BY <1>1, <1>3, <1>4, <1>7, <2>1 DEF feedVars
  <2>. QED
    BY <1>1, <1>2, <1>3, <1>4, <1>5, <1>6, <1>8, <2>2
       DEF BrowserTypeOK, PageInv, RoomInv, CaughtUp, feedVars
<1>9. CASE inbox' # <<>>
  <2>1. Len(inbox') \in Nat \ {0}
    BY <1>3, <1>9
  <2>2. inbox'[Len(inbox')] = inbox[Len(inbox)]
    BY <1>3, <2>1
  <2>. QED
    BY <1>1, <1>2, <1>3, <1>4, <1>5, <1>6, <1>7, <1>9, <2>2
       DEF BrowserTypeOK, PageInv, RoomInv, CaughtUp, feedVars
<1>. QED
  BY <1>8, <1>9

LEMMA PageSteps ==
  ASSUME BrowserInv, PageSide
  PROVE  BrowserInv'
<1>. USE DEF BrowserInv
<1>. FeedTypeOK /\ LightsInv /\ RoomInv /\ CaughtUp
  BY DEF BrowserTypeOK, PageInv
<1>1. ASSUME NEW i \in Runs, EnsureAnswered(i) PROVE BrowserInv'
  BY <1>1, EnsureAnsweredStep
<1>2. ASSUME NEW i \in Runs, EnsureFails(i) PROVE BrowserInv'
  <2>1. /\ ensure' = [ensure EXCEPT ![i] = Over]
        /\ UNCHANGED <<feedVars, run, heard, socket, connected, inbox, shown, revealVars,
                       requests, fresh, moves>>
    BY <1>2 DEF EnsureFails
  <2>2. BrowserTypeOK'
    BY <2>1, FeedKept, OverFacts DEF BrowserTypeOK, revealVars
  <2>. QED
    BY <2>1, <2>2, FeedKept, RoomKept, LightsKept DEF PageInv, feedVars
<1>3. CASE TakeUpdate
  BY <1>3, TakeUpdateStep
<1>4. CASE Connect
  <2>1. /\ socket = "down" /\ socket' = "up" /\ connected' = "yes"
        /\ UNCHANGED <<feedVars, run, ensure, heard, inbox, shown, revealVars, requests,
                       fresh, moves>>
    BY <1>4 DEF Connect
  <2>2. BrowserTypeOK'
    BY <2>1, FeedKept DEF BrowserTypeOK, revealVars
  <2>3. RoomInv' /\ CaughtUp'
    BY <2>1 DEF RoomInv, CaughtUp
  <2>. QED
    BY <2>1, <2>2, <2>3, FeedKept, LightsKept DEF PageInv
<1>5. CASE Disconnect
  <2>1. LoseSocket /\ UNCHANGED <<feedVars, run, ensure, heard, shown, revealVars, requests, moves>>
    BY <1>5 DEF Disconnect
  <2>2. BrowserTypeOK'
    BY <2>1, FeedKept, LoseFacts DEF BrowserTypeOK, revealVars
  <2>. QED
    BY <2>1, <2>2, FeedKept, LoseFacts, LightsKept DEF PageInv
<1>6. CASE SummaryArrives
  <2>1. /\ run' = 2 /\ ensure' = [ensure EXCEPT ![2] = Asked] /\ LoseSocket
        /\ UNCHANGED <<feedVars, heard, shown, revealVars, requests, moves>>
    BY <1>6 DEF SummaryArrives
  <2>2. ensure' \in [Runs -> Ensure]
        /\ \A j \in Runs : ensure'[j].phase = "answered" => ensure'[j].state \in View
    BY <2>1 DEF BrowserTypeOK, Ensure, Asked
  <2>3. BrowserTypeOK'
    BY <2>1, <2>2, FeedKept, LoseFacts DEF BrowserTypeOK, revealVars, Runs
  <2>. QED
    BY <2>1, <2>3, FeedKept, LoseFacts, LightsKept DEF PageInv
<1>7. CASE RevealFires
  <2>1. /\ revealTimer = TRUE /\ revealTimer' = FALSE /\ revealed' = TRUE
        /\ UNCHANGED <<feedVars, socketVars, inbox, shown, wasComplete, disturbed, requests,
                       moves>>
    BY <1>7 DEF RevealFires, BrowserTypeOK
  <2>2. BrowserTypeOK'
    BY <2>1, FeedKept DEF BrowserTypeOK, socketVars
  <2>3. LightsInv'
    BY <2>1 DEF LightsInv, LightsNeedVotes, RevealSurvivesUpdates
  <2>4. RoomInv' /\ CaughtUp'
    BY <2>1, RoomKept DEF socketVars, feedVars
  <2>. QED
    BY <2>1, <2>2, <2>3, <2>4, FeedKept DEF PageInv
<1>8. CASE Reload
  <2>. USE <1>8 DEF Reload
  <2>1. FeedTypeOK' /\ FeedInv'
    BY FeedKept
  <2>2. ensure' \in [Runs -> Ensure]
        /\ \A j \in Runs : ensure'[j].phase = "answered" => ensure'[j].state \in View
    BY DEF Ensure, Runs, Asked, Unasked
  <2>3. <<>> \in Seq(View)
    OBVIOUS
  <2>4. BrowserTypeOK'
    BY <2>1, <2>2, <2>3 DEF BrowserTypeOK, Runs
  <2>5. PageInv'
    BY ViewFacts DEF PageInv, RoomInv, CaughtUp, LightsInv, LightsNeedVotes, RevealSurvivesUpdates
  <2>. QED
    BY <2>1, <2>4, <2>5
<1>. QED
  BY <1>1, <1>2, <1>3, <1>4, <1>5, <1>6, <1>7, <1>8 DEF PageSide

\* A key changes nothing but the requests under way.
LEMMA KeySteps ==
  ASSUME BrowserInv, Keys
  PROVE  BrowserInv'
<1>. USE DEF BrowserInv
<1>1. PICK what \in Kinds : Request(what)
  BY DEF Keys, PressEnter, PressSpace, PressVoteKey, ClickAttemptChange, ClickStartBreak, Kinds
<1>2. /\ requests' = requests \cup {what}
      /\ UNCHANGED <<feedVars, socketVars, inbox, shown, revealVars, moves>>
  BY <1>1 DEF Request
<1>3. FeedTypeOK /\ FeedTypeOK' /\ FeedInv'
  BY <1>2, FeedKept DEF BrowserTypeOK
<1>4. BrowserTypeOK'
  BY <1>2, <1>3 DEF BrowserTypeOK, socketVars, revealVars
<1>5. RoomInv' /\ CaughtUp'
  BY <1>2, RoomKept DEF PageInv, socketVars, feedVars
<1>. QED
  BY <1>2, <1>3, <1>4, <1>5, LightsKept DEF PageInv

LEMMA BrowserStep == BrowserInv /\ [BrowserNext]_browserVars => BrowserInv'
<1>. SUFFICES ASSUME BrowserInv, [BrowserNext]_browserVars PROVE BrowserInv'
  OBVIOUS
<1>1. CASE BrowserNext
  BY <1>1, ServerSteps, PageSteps, KeySteps DEF BrowserNext
<1>2. CASE UNCHANGED browserVars
  <2>. USE <1>2 DEF browserVars, pageVars, socketVars, revealVars, BrowserInv
  <2>1. FeedTypeOK' /\ FeedInv'
    BY FeedKept DEF BrowserTypeOK
  <2>2. BrowserTypeOK'
    BY <2>1 DEF BrowserTypeOK
  <2>. QED
    BY <2>1, <2>2, RoomKept, LightsKept DEF PageInv, feedVars
<1>. QED
  BY <1>1, <1>2

\* The inductive invariant of a page.
THEOREM BrowserInvariant == BrowserSpec => []BrowserInv
BY InitBrowserInv, BrowserStep, PTL DEF BrowserSpec

\* The types hold for any bounds (BrowserTypeOK).
THEOREM BrowserTypesAlways == BrowserSpec => []BrowserTypeOK
<1>1. BrowserInv => BrowserTypeOK
  BY DEF BrowserInv
<1>. QED
  BY <1>1, BrowserInvariant, PTL

\* A page that has heard from its room shows what the room was told last,
\* whatever answers and reconnections come in between.
THEOREM CaughtUpAlways == BrowserSpec => []CaughtUp
<1>1. BrowserInv => CaughtUp
  BY DEF BrowserInv, PageInv
<1>. QED
  BY <1>1, BrowserInvariant, PTL

\* No decision is lit, or about to be, without a complete set of votes.
THEOREM LightsNeedVotesAlways == BrowserSpec => []LightsNeedVotes
<1>1. BrowserInv => LightsNeedVotes
  BY DEF BrowserInv, PageInv, LightsInv
<1>. QED
  BY <1>1, BrowserInvariant, PTL

\* A complete set whose effect is not run again is lit or about to be.
THEOREM RevealSurvivesUpdatesAlways == BrowserSpec => []RevealSurvivesUpdates
<1>1. BrowserInv => RevealSurvivesUpdates
  BY DEF BrowserInv, PageInv, LightsInv
<1>. QED
  BY <1>1, BrowserInvariant, PTL

\* The space bar of a page that is up to date resets no break and no attempt
\* change: what it judges by is what the platform is.
THEOREM KeysRespectBreaksAlways == BrowserSpec => KeysRespectBreaks
<1>1. BrowserInv /\ [BrowserNext]_browserVars =>
        (PressSpace /\ fresh /\ inbox = <<>> /\ told # Untold => ~Locked)
  <2>. SUFFICES ASSUME BrowserInv, PressSpace, fresh, inbox = <<>>, told # Untold
                PROVE  ~Locked
    OBVIOUS
  <2>1. shown = told /\ live \in View
    BY DEF BrowserInv, PageInv, CaughtUp, BrowserTypeOK, FeedTypeOK
  <2>2. told.mode = live.mode /\ told.attemptChange = live.attemptChange
    BY DEF BrowserInv, FeedInv, View, BrowserTypeOK, FeedTypeOK
  <2>. QED
    BY <2>1, <2>2 DEF PressSpace, KeysOpen, Locked, InBreakNow
<1>. QED
  BY <1>1, BrowserInvariant, PTL DEF BrowserSpec, KeysRespectBreaks

------------------------------------------------------------------------------
(* The page and its platform.                                              *)

\* A page that is up to date is right about the mode and the attempt-change lock
\* of its platform.  It may show a clock as running that ran out since the last
\* update, and a vote set as complete that a remote left since without an update
\* (a failed replace, or a transfer under another platform's name), but no set
\* as incomplete that is complete.
THEOREM UpToDatePageIsTrue ==
  BrowserSpec => [](fresh /\ inbox = <<>> /\ told # Untold =>
                      /\ shown.mode = live.mode
                      /\ shown.attemptChange = live.attemptChange
                      /\ \/ shown.state = live.state
                         \/ shown.state = "RUNNING" /\ live.state = "EXPIRED"
                      /\ live.complete => shown.complete)
<1>1. BrowserInv => (fresh /\ inbox = <<>> /\ told # Untold =>
                       /\ shown.mode = live.mode
                       /\ shown.attemptChange = live.attemptChange
                       /\ \/ shown.state = live.state
                          \/ shown.state = "RUNNING" /\ live.state = "EXPIRED"
                       /\ live.complete => shown.complete)
  BY DEF BrowserInv, PageInv, CaughtUp, FeedInv
<1>. QED
  BY <1>1, BrowserInvariant, PTL

=============================================================================
