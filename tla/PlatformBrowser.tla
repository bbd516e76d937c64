---------------------------- MODULE PlatformBrowser ----------------------------
(***************************************************************************)
(* One page that shows a platform (usePlatformState.ts on top of           *)
(* usePlatformSocket.ts and useMeetSummary.ts, with the room of            *)
(* platform.gateway.ts).                                                   *)
(*                                                                         *)
(* The page learns the platform's state in two ways that race: the answer  *)
(* to its POST /platforms/ensure and the updates of its socket.  Its       *)
(* socket effect runs twice, once without the platform's name and again    *)
(* when the meet summary brings the name; the request of the first run is  *)
(* never cancelled.  From the state it shows it decides when to light the  *)
(* decision, and which keys to pass on.                                    *)
(*                                                                         *)
(* A handler with the rendering and the effects that follow is one step.   *)
(***************************************************************************)
EXTENDS PlatformFeed, Sequences, FiniteSets

CONSTANTS
  MaxInbox,      \* bound: updates under way to the page
  MaxMoves,      \* bound: steps of the platform that are looked at
  MaxRequests    \* bound: requests of the page under way

ASSUME BrowserAssumption ==
  MaxInbox \in Nat /\ MaxMoves \in Nat /\ MaxRequests \in Nat

Kinds == {"vote", "clock", "reset", "attempt-change", "break"}

Runs == {1, 2}
Blank == [AtRest EXCEPT !.mode = "none"]     \* the page has no state yet
Unasked == [phase |-> "none", state |-> Blank]
Asked == [phase |-> "asked", state |-> Blank]
Over == [phase |-> "over", state |-> Blank]

VARIABLES
  run,           \* which run of the socket effect is the current one
  ensure,        \* ensure[i]: the request of run i and its answer
  heard,         \* heard[i]: wsUpdated of run i
  socket,        \* "down", "up", or "joined" the platform's room
  connected,     \* what the page says of its connection
  inbox,         \* updates on their way through the socket
  shown,         \* the state the page shows, or Blank
  wasComplete,   \* the refs and states of the reveal effect
  revealTimer,
  revealed,
  requests,      \* requests on their way to the platform
  fresh,         \* history: what is shown came through the socket since it
                 \*   joined, and no answer of an earlier run came after it
  disturbed,     \* history: the shown set's effect ran again before its lights
  moves          \* how many steps the platform made

socketVars == <<run, ensure, heard, socket, connected, fresh>>
revealVars == <<wasComplete, revealTimer, revealed, disturbed>>
pageVars == <<socketVars, inbox, shown, revealVars, requests>>
browserVars == <<feedVars, pageVars, moves>>

------------------------------------------------------------------------------
(* The server side: the platform and the page's room.                      *)

\* emitPlatformUpdate reaches the sockets that are in the room.
EmitPlatformUpdate ==
  IF socket = "joined"
    THEN Len(inbox) < MaxInbox /\ inbox' = Append(inbox, told')
    ELSE UNCHANGED inbox

Moves == moves < MaxMoves /\ moves' = moves + 1

\* Others, and the service's own timers, change the platform.
PlatformUpdates ==
  /\ Update
  /\ EmitPlatformUpdate
  /\ Moves
  /\ UNCHANGED <<socketVars, shown, revealVars, requests>>

PlatformMovesUnseen ==
  /\ RunsOut \/ LeavesUntold \/ Appears \/ Vanishes
  /\ Moves
  /\ UNCHANGED pageVars

\* A request of the page arrives; it is carried out,
Accepted(what) ==
  CASE what = "vote" -> Vote
    [] what = "clock" -> PressClock
    [] what = "reset" -> Reset
    [] what = "attempt-change" -> ToggleAttemptChange
    [] what = "break" -> StartBreak

Serve(what) ==
  /\ what \in requests
  /\ Accepted(what)
  /\ EmitPlatformUpdate
  /\ Moves
  /\ requests' = requests \ {what}
  /\ UNCHANGED <<socketVars, shown, revealVars>>

\* or it is lost or refused, which the page only logs.
RequestFails(what) ==
  /\ what \in requests
  /\ requests' = requests \ {what}
  /\ UNCHANGED <<feedVars, socketVars, inbox, shown, revealVars, moves>>

EnsureRepliesTold == told'
EnsureReply == live'

\* POST /platforms/ensure makes the platform if need be and answers its state.
EnsureHandled(i) ==
  /\ ensure[i].phase = "asked"
  /\ IF known THEN UNCHANGED <<feedVars, moves>> ELSE Appears /\ Moves
  /\ ensure' = [ensure EXCEPT ![i] = [phase |-> "answered", state |-> EnsureReply]]
  /\ UNCHANGED <<run, heard, socket, connected, inbox, shown, revealVars, requests, fresh>>

\* handleJoin
ServerJoins ==
  /\ socket = "up"
  /\ socket' = "joined"
  /\ UNCHANGED <<feedVars, run, ensure, heard, connected, inbox, shown, revealVars,
                 requests, fresh, moves>>

------------------------------------------------------------------------------
(* The page: its state arrives.                                            *)

\* The reveal effect runs when one of its dependencies changed.
EffectRunsOnUpdate(v) == TRUE
EffectRuns(v) == v # shown

KeepLights(v) == revealed
LightsAfter(v) == revealed /\ v.complete

StartsTimerWhileClockRuns(v) == v.complete /\ ~wasComplete /\ v.state = "RUNNING"
StartsTimer(v) == v.complete /\ ~wasComplete

Show(v) ==
  /\ shown' = v
  /\ IF EffectRuns(v)
       THEN /\ revealTimer' = StartsTimer(v)
            /\ revealed' = LightsAfter(v)
            /\ wasComplete' = v.complete
       ELSE UNCHANGED <<revealTimer, revealed, wasComplete>>
  /\ disturbed' = (v.complete /\ shown.complete /\
                     (disturbed \/ (v # shown /\ revealTimer)))

\* The answer of an ensure request, for the current run or an earlier one.
NeverOvertaken(i) == FALSE
Overtaken(i) == heard[i]

EnsureAnswered(i) ==
  /\ ensure[i].phase = "answered"
  /\ ensure' = [ensure EXCEPT ![i] = Over]
  /\ IF Overtaken(i)
       THEN UNCHANGED <<shown, revealVars, fresh>>
       ELSE /\ Show(ensure[i].state)
            /\ fresh' = (fresh /\ i = run)
  /\ UNCHANGED <<feedVars, run, heard, socket, connected, inbox, requests, moves>>

EnsureFails(i) ==
  /\ ensure[i].phase \in {"asked", "answered"}
  /\ ensure' = [ensure EXCEPT ![i] = Over]
  /\ UNCHANGED <<feedVars, run, heard, socket, connected, inbox, shown, revealVars,
                 requests, fresh, moves>>

\* platform:updated
TakeUpdate ==
  /\ inbox # <<>>
  /\ inbox' = Tail(inbox)
  /\ heard' = [heard EXCEPT ![run] = TRUE]
  /\ fresh' = TRUE
  /\ Show(Head(inbox))
  /\ UNCHANGED <<feedVars, run, ensure, socket, connected, requests, moves>>

\* connect: the page asks to join the room, at first and again.
Connect ==
  /\ socket = "down"
  /\ socket' = "up"
  /\ connected' = "yes"
  /\ UNCHANGED <<feedVars, run, ensure, heard, inbox, shown, revealVars, requests,
                 fresh, moves>>

LoseSocket ==
  /\ socket' = "down"
  /\ connected' = IF socket = "down" THEN connected ELSE "no"
  /\ inbox' = <<>>
  /\ fresh' = FALSE

Disconnect ==
  /\ socket # "down"
  /\ LoseSocket
  /\ UNCHANGED <<feedVars, run, ensure, heard, shown, revealVars, requests, moves>>

\* The meet summary gives the platform a name: the socket effect is cleaned
\* up and runs again, with a socket and an ensure request of its own.
SummaryArrives ==
  /\ run = 1
  /\ run' = 2
  /\ ensure' = [ensure EXCEPT ![2] = Asked]
  /\ LoseSocket
  /\ UNCHANGED <<feedVars, heard, shown, revealVars, requests, moves>>

\* The timer of the reveal effect.
RevealFires ==
  /\ revealTimer
  /\ revealTimer' = FALSE
  /\ revealed' = TRUE
  /\ UNCHANGED <<feedVars, socketVars, inbox, shown, wasComplete, disturbed, requests,
                 moves>>

------------------------------------------------------------------------------
(* The page: keys and buttons.  Keys are judged by the state shown.        *)

KeysPass == TRUE
KeysOpen == shown.mode # "BREAK" /\ ~shown.attemptChange

Request(what) ==
  /\ what \notin requests
  /\ Cardinality(requests) < MaxRequests
  /\ requests' = requests \cup {what}
  /\ UNCHANGED <<feedVars, socketVars, inbox, shown, revealVars, moves>>

PressEnter == KeysOpen /\ Request("clock")
PressSpace == KeysOpen /\ Request("reset")
PressVoteKey == KeysOpen /\ shown.state # "IDLE" /\ Request("vote")
ClickAttemptChange == Request("attempt-change")
ClickStartBreak == Request("break")

------------------------------------------------------------------------------
(* The page is opened anew; the backend restarts.                          *)

Reload ==
  /\ run' = 1
  /\ ensure' = [i \in Runs |-> IF i = 1 THEN Asked ELSE Unasked]
  /\ heard' = [i \in Runs |-> FALSE]
  /\ socket' = "down"
  /\ connected' = "unknown"
  /\ inbox' = <<>>
  /\ shown' = Blank
  /\ wasComplete' = FALSE
  /\ revealTimer' = FALSE
  /\ revealed' = FALSE
  /\ fresh' = FALSE
  /\ disturbed' = FALSE
  /\ UNCHANGED <<feedVars, requests, moves>>

\* Platforms are only in memory; the page's socket connects again, but the
\* page does not ask again for a platform it has asked for.
BackendRestarts ==
  /\ Vanishes
  /\ Moves
  /\ LoseSocket
  /\ ensure' = [i \in Runs |->
       IF ensure[i].phase = "none" THEN ensure[i] ELSE Over]
  /\ requests' = {}
  /\ UNCHANGED <<run, heard, shown, revealVars>>

\* The page may be opened at any moment of a meet.
BrowserInit ==
  /\ FeedTypeOK
  /\ FeedInv
  /\ run = 1
  /\ ensure = [i \in Runs |-> IF i = 1 THEN Asked ELSE Unasked]
  /\ heard = [i \in Runs |-> FALSE]
  /\ socket = "down"
  /\ connected = "unknown"
  /\ inbox = <<>>
  /\ shown = Blank
  /\ wasComplete = FALSE
  /\ revealTimer = FALSE
  /\ revealed = FALSE
  /\ requests = {}
  /\ fresh = FALSE
  /\ disturbed = FALSE
  /\ moves = 0

ServerSide ==
  \/ PlatformUpdates
  \/ PlatformMovesUnseen
  \/ \E what \in Kinds : Serve(what) \/ RequestFails(what)
  \/ \E i \in Runs : EnsureHandled(i)
  \/ ServerJoins
  \/ BackendRestarts

PageSide ==
  \/ \E i \in Runs : EnsureAnswered(i) \/ EnsureFails(i)
  \/ TakeUpdate
  \/ Connect
  \/ Disconnect
  \/ SummaryArrives
  \/ RevealFires
  \/ Reload

Keys ==
  \/ PressEnter
  \/ PressSpace
  \/ PressVoteKey
  \/ ClickAttemptChange
  \/ ClickStartBreak

BrowserNext == ServerSide \/ PageSide \/ Keys

\* A browser runs the timers it was set, and nothing else is sure to happen.
BrowserFairness == WF_browserVars(RevealFires)

BrowserSpec == BrowserInit /\ [][BrowserNext]_browserVars
FairBrowserSpec == BrowserSpec /\ BrowserFairness

------------------------------------------------------------------------------
(* Properties.                                                             *)

Ensure == [phase : {"none", "asked", "answered", "over"}, state : View \cup {Blank}]

\* The types of the variables; an answer is shown only once it is there.
BrowserTypeOK ==
  /\ FeedTypeOK
  /\ run \in Runs
  /\ ensure \in [Runs -> Ensure]
  /\ \A i \in Runs : ensure[i].phase = "answered" => ensure[i].state \in View
  /\ heard \in [Runs -> BOOLEAN]
  /\ socket \in {"down", "up", "joined"}
  /\ connected \in {"unknown", "yes", "no"}
  /\ inbox \in Seq(View)
  /\ shown \in View \cup {Blank}
  /\ <<wasComplete, revealTimer, revealed, fresh, disturbed>> \in
       BOOLEAN \X BOOLEAN \X BOOLEAN \X BOOLEAN \X BOOLEAN
  /\ requests \subseteq Kinds
  /\ moves \in 0..MaxMoves

\* A page that has taken an update since it last joined its room, and has none
\* under way, shows what the room was last told: neither the answer of its own
\* ensure request, whenever it comes, nor a lost and renewed connection can
\* leave it behind.  (Before that first update it may show anything older.)
CaughtUp == fresh /\ inbox = <<>> /\ told # Untold => shown = told

\* Lights belong to the votes on the page: a page whose platform has no
\* complete set shows no decision and is not about to, whatever was shown
\* before and however late the timer fires (the two branches of the effect).
LightsNeedVotes == revealed \/ revealTimer => shown.complete

\* "Routine backend updates (vote events, etc.) do not cancel the reveal
\* timer": a complete set is lit, or about to be, unless clock state, mode or
\* the attempt-change lock changed between the third vote and the lights.
RevealSurvivesUpdates == shown.complete /\ ~disturbed => revealed \/ revealTimer

\* The space bar of a page that is up to date never stops a break or resets an
\* attempt during an attempt change, which the backend itself would not refuse.
KeysRespectBreaks ==
  [][PressSpace /\ fresh /\ inbox = <<>> /\ told # Untold => ~Locked]_browserVars

\* A complete set that stays on the page undisturbed is lit in the end.
LightsShown == (shown.complete /\ ~disturbed) ~> (revealed \/ ~shown.complete \/ disturbed)

=============================================================================
