----------------------------- MODULE MeetDirector -----------------------------
(***************************************************************************)
(* Day control on the director's page (DirectorView.tsx, useMeetSummary.ts *)
(* and postActiveDay of platformHelpers.ts): starting a day tests the      *)
(* credentials of its platforms, stores their sessions and then makes it   *)
(* the active day of everyone.                                             *)
(*                                                                         *)
(* The page shows its own idea of the active day at once and does not wait *)
(* for the backend to agree; a start goes on with the days completed when  *)
(* it was clicked, also when the page is left.                             *)
(***************************************************************************)
EXTENDS MeetConfig

CONSTANTS
  MaxStarts,     \* bound: starts of a day under way
  MaxPosts       \* bound: active days on their way to the backend

ASSUME DirectorAssumption == {MaxStarts, MaxPosts} \subseteq Nat \ {0}

VARIABLES
  loadedConfig,   \* the form the page works with, or NoConfig
  configPending,
  summary,        \* the request for the summary and its answer
  shownDay,       \* the active day and the completed days the page shows
  shownCompleted,
  starts,         \* starts of a day under way
  posts,          \* active days on their way to the backend
  crossed         \* history: two writes of the active day overlapped, or one
                  \*   with a load of it, or one was lost with the backend

directorVars ==
  <<loadedConfig, configPending, summary, shownDay, shownCompleted, starts, posts, crossed>>

JobStates == {"testing", "storing", "ok", "failed"}
Start ==
  [day : DayNumbers, completed : SUBSET DayNumbers, here : BOOLEAN,
   credentials : [Slots -> Credentials], jobs : [Slots -> JobStates \cup {"none"}]]

NoSummary == [phase |-> "none", day |-> FirstDay]
AskedSummary == [phase |-> "asked", day |-> FirstDay]

------------------------------------------------------------------------------
(* Loading.                                                                *)

ConfigArrives ==
  /\ configPending
  /\ configPending' = FALSE
  /\ loadedConfig' = config
  /\ UNCHANGED <<summary, shownDay, shownCompleted, starts, posts, crossed, serviceVars>>

ConfigFails ==
  /\ configPending
  /\ configPending' = FALSE
  /\ UNCHANGED <<loadedConfig, summary, shownDay, shownCompleted, starts, posts, crossed,
                 serviceVars>>

\* GET /meet-config/summary: there is none before the first save.
GetSummary ==
  /\ summary.phase = "asked"
  /\ summary' = IF config = NoConfig THEN NoSummary
                ELSE [phase |-> "answered", day |-> activeDay]
  /\ crossed' = (crossed \/ config = NoConfig)
  /\ UNCHANGED <<loadedConfig, configPending, shownDay, shownCompleted, starts, posts,
                 serviceVars>>

SummaryArrives ==
  /\ summary.phase = "answered"
  /\ summary' = NoSummary
  /\ shownDay' = summary.day.index
  /\ shownCompleted' = summary.day.completed
  /\ UNCHANGED <<loadedConfig, configPending, starts, posts, crossed, serviceVars>>

SummaryFails ==
  /\ summary.phase # "none"
  /\ summary' = NoSummary
  /\ crossed' = TRUE
  /\ UNCHANGED <<loadedConfig, configPending, shownDay, shownCompleted, starts, posts,
                 serviceVars>>

------------------------------------------------------------------------------
(* Starting and completing a day.                                          *)

\* The page's idea of the active day is written while nothing else is under way.
Undisturbed(others) == posts = {} /\ others = {} /\ summary.phase = "none"

PostActiveDay(index, completed) ==
  /\ Cardinality(posts) < MaxPosts
  /\ posts' = posts \cup {[index |-> index, completed |-> completed]}

\* Day control is there for a meet of several days.
Shows(d) == loadedConfig # NoConfig /\ loadedConfig.numDays > 1 /\ d <= loadedConfig.numDays

Linked(d) ==
  {i \in DOMAIN loadedConfig.days[d].ids :
     NoMeet \notin {loadedConfig.days[d].meet, loadedConfig.days[d].ids[i].meet}}

NewStart(d) ==
  [day |-> d, completed |-> shownCompleted, here |-> TRUE,
   credentials |-> [i \in Slots |->
     IF i \in Linked(d) THEN CredentialsOf(loadedConfig, d, i) ELSE NoSession],
   jobs |-> [i \in Slots |-> IF i \in Linked(d) THEN "testing" ELSE "none"]]

HandleStartDay(d) ==
  /\ Shows(d)
  /\ d # shownDay
  /\ \A s \in starts : ~s.here
  /\ IF Linked(d) = {}
       THEN /\ shownDay' = d
            /\ PostActiveDay(d, shownCompleted)
            /\ UNCHANGED starts
       ELSE /\ Cardinality(starts) < MaxStarts
            /\ starts' = starts \cup {NewStart(d)}
            /\ UNCHANGED <<shownDay, posts>>
  /\ crossed' = (crossed \/ ~Undisturbed(starts))
  /\ UNCHANGED <<loadedConfig, configPending, summary, shownCompleted, serviceVars>>

JobBecomes(s, i, state) ==
  /\ starts' = (starts \ {s}) \cup {[s EXCEPT !.jobs[i] = state]}
  /\ UNCHANGED <<loadedConfig, configPending, summary, shownDay, shownCompleted, posts, crossed>>

JobTested(s, i) ==
  /\ s.jobs[i] = "testing"
  /\ Accepts(s.credentials[i])
  /\ JobBecomes(s, i, "storing")
  /\ UNCHANGED serviceVars

JobFails(s, i) ==
  /\ s.jobs[i] = "testing"
  /\ JobBecomes(s, i, "failed")
  /\ UNCHANGED serviceVars

\* Nobody looks at the answer: a session that was refused counts as stored.
JobStored(s, i) ==
  /\ s.jobs[i] = "storing"
  /\ JobBecomes(s, i, "ok")
  /\ StoreSession(i, s.credentials[i]) \/ UNCHANGED serviceVars

\* The request or its answer is lost.
JobStoreLost(s, i) ==
  /\ s.jobs[i] = "storing"
  /\ JobBecomes(s, i, "failed")
  /\ StoreSession(i, s.credentials[i]) \/ UNCHANGED serviceVars

\* Once every platform is done, one that is connected is enough.
PostsDayShown(s) == PostActiveDay(shownDay, s.completed)
PostsDayStarted(s) == PostActiveDay(s.day, s.completed)

StartSettles(s) ==
  /\ \A i \in Slots : s.jobs[i] \notin {"testing", "storing"}
  /\ starts' = starts \ {s}
  /\ IF \E i \in Slots : s.jobs[i] = "ok"
       THEN /\ PostsDayStarted(s)
            /\ shownDay' = IF s.here THEN s.day ELSE shownDay
            /\ crossed' = (crossed \/ ~s.here \/ ~Undisturbed(starts \ {s}))
       ELSE UNCHANGED <<posts, shownDay, crossed>>
  /\ UNCHANGED <<loadedConfig, configPending, summary, shownCompleted, serviceVars>>

\* The button is there for the active day only.
HandleMarkComplete ==
  /\ Shows(shownDay)
  /\ shownDay \notin shownCompleted
  /\ shownCompleted' = shownCompleted \cup {shownDay}
  /\ PostActiveDay(shownDay, shownCompleted')
  /\ crossed' = (crossed \/ ~Undisturbed(starts))
  /\ UNCHANGED <<loadedConfig, configPending, summary, shownDay, starts, serviceVars>>

PostLands(p) ==
  /\ posts' = posts \ {p}
  /\ SetActiveDay(p)
  /\ UNCHANGED <<loadedConfig, configPending, summary, shownDay, shownCompleted, starts, crossed>>

\* Only logged: the page goes on with what it shows.
PostLost(p) ==
  /\ posts' = posts \ {p}
  /\ crossed' = TRUE
  /\ UNCHANGED <<loadedConfig, configPending, summary, shownDay, shownCompleted, starts,
                 serviceVars>>

------------------------------------------------------------------------------
DirectorClicks == HandleMarkComplete \/ \E d \in DayNumbers : HandleStartDay(d)

DirectorAnswers ==
  \/ ConfigArrives
  \/ ConfigFails
  \/ GetSummary
  \/ SummaryArrives
  \/ SummaryFails
  \/ \E s \in starts :
       \/ StartSettles(s)
       \/ \E i \in Slots :
            JobTested(s, i) \/ JobFails(s, i) \/ JobStored(s, i) \/ JobStoreLost(s, i)
  \/ \E p \in posts : PostLands(p) \/ PostLost(p)

\* The page opens, or is left: what it asked for is shown to nobody, but its
\* starts and posts go on.
FreshDirector(open) ==
  /\ loadedConfig' = NoConfig
  /\ configPending' = open
  /\ summary' = IF open THEN AskedSummary ELSE NoSummary
  /\ shownDay' = 1
  /\ shownCompleted' = {}
  /\ starts' = {[s EXCEPT !.here = FALSE] : s \in starts}
  /\ crossed' = (starts # {} \/ posts # {})
  /\ UNCHANGED posts

DirectorInit ==
  /\ loadedConfig = NoConfig
  /\ configPending = FALSE
  /\ summary = NoSummary
  /\ shownDay = 1
  /\ shownCompleted = {}
  /\ starts = {}
  /\ posts = {}
  /\ crossed = FALSE

DirectorTypeOK ==
  /\ loadedConfig \in Form \cup {NoConfig}
  /\ configPending \in BOOLEAN
  /\ summary \in [phase : {"none", "asked", "answered"}, day : ActiveDay]
  /\ shownDay \in DayNumbers
  /\ shownCompleted \subseteq DayNumbers
  /\ \A s \in starts : s \in Start
  /\ posts \subseteq ActiveDay
  /\ crossed \in BOOLEAN

=============================================================================
