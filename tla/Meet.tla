--------------------------------- MODULE Meet ---------------------------------
(***************************************************************************)
(* A meet as it is set up and run from one browser: the setup page, the    *)
(* director's page, the backend's meet configuration and LiftingCast.      *)
(* Both pages read the saved form and write the sessions of the platforms; *)
(* what either asked for goes on when the user moves to the other.         *)
(***************************************************************************)
EXTENDS MeetSetup, MeetDirector

CONSTANTS
  SavedForms,    \* forms that may have been saved before
  MaxClicks,     \* bound: what the user does
  MaxRestarts    \* bound: restarts of the backend

ASSUME MeetBounds ==
  /\ SavedForms \subseteq Form
  /\ \A saved \in SavedForms : FitsItself(saved)
  /\ MaxClicks \in Nat /\ MaxRestarts \in Nat

VARIABLES
  page,      \* "setup", "director" or "other"
  clicks,
  restarts

tabVars == <<page, clicks, restarts>>
meetVars == <<serviceVars, setupVars, directorVars, tabVars>>

Click == clicks < MaxClicks /\ clicks' = clicks + 1

\* Going to a page mounts it, and unmounts the one the user comes from.
Open(q) ==
  /\ Click
  /\ page # q
  /\ page' = q
  /\ FreshSetup(q = "setup")
  /\ FreshDirector(q = "director")
  /\ UNCHANGED <<restarts, serviceVars>>

SetupClick ==
  /\ page = "setup"
  /\ Click
  /\ SetupClicks
  /\ UNCHANGED <<page, restarts, directorVars>>

DirectorClick ==
  /\ page = "director"
  /\ Click
  /\ DirectorClicks
  /\ UNCHANGED <<page, restarts, setupVars>>

SetupAnswer == SetupAnswers /\ UNCHANGED <<tabVars, directorVars>>

DirectorAnswer == DirectorAnswers /\ UNCHANGED <<tabVars, setupVars>>

\* The pages stay as they are.
BackendRestarts ==
  /\ restarts < MaxRestarts
  /\ restarts' = restarts + 1
  /\ ForgetEverything
  /\ crossed' = TRUE
  /\ UNCHANGED <<setupVars, loadedConfig, configPending, summary, shownDay, shownCompleted,
                 starts, posts, page, clicks>>

\* A backend that just started, or one with a form saved from this tab.
MeetInit ==
  /\ \/ ServiceInit /\ adminToken = NoToken
     \/ /\ config \in SavedForms
        /\ adminPassword \in AdminPasswords
        /\ validTokens = {1} /\ issued = 1 /\ adminToken = 1
        /\ activeDay = FirstDay
        /\ sessions = [i \in Slots |-> NoSession]
  /\ SetupInit
  /\ DirectorInit
  /\ page = "other" /\ clicks = 0 /\ restarts = 0

MeetNext ==
  \/ \E q \in {"setup", "director"} : Open(q)
  \/ SetupClick
  \/ DirectorClick
  \/ SetupAnswer
  \/ DirectorAnswer
  \/ BackendRestarts

MeetSpec == MeetInit /\ [][MeetNext]_meetVars

------------------------------------------------------------------------------
(* Properties.                                                             *)

\* The types of the variables, and the shape of a form on the page: as many
\* days, and as many platforms on each, as it says (resizeDays, handleImport).
MeetTypeOK ==
  /\ ServiceTypeOK
  /\ DirectorTypeOK
  /\ form \in Form /\ FitsItself(form)
  /\ status \in [DayNumbers -> [Slots -> {"idle", "loading", "success", "error"}]]
  /\ tests \subseteq Test
  /\ \A s \in stores : s.slot \in Slots /\ s.credentials \in Credentials
  /\ adminToken \in 0..issued

\* Reports go out only with credentials LiftingCast has accepted: every session
\* of a platform was tested as it is stored, from either page, although neither
\* waits for its requests and the form may have changed in between.
SessionsVerified == \A i \in Slots : sessions[i] = NoSession \/ Accepts(sessions[i])

\* "Optimistic local mirror ... kept in sync": when nothing is under way, the
\* director sees the active day everybody else is given, as long as the writes
\* of it neither overlapped nor were lost (postActiveDay's callers do not wait).
DirectorInStep ==
  page = "director" /\ summary.phase = "none" /\ starts = {} /\ posts = {} /\ ~crossed =>
    activeDay = [index |-> shownDay, completed |-> shownCompleted]

\* "Connected" never stays up over an edit: whatever part of the form is edited or
\* imported, a platform that was tested shows no result any more if the meet, the
\* id or the password that counts for it is another one now.  (A loaded form takes
\* no result down, and a test that is answered after the edit still shows.)
EditsTakeResultsDown ==
  [][Editing \/ ImportArrives =>
       \A d \in DOMAIN form.days \cap DOMAIN form'.days :
         \A i \in DOMAIN form.days[d].ids \cap DOMAIN form'.days[d].ids :
           CredentialsOf(form', d, i) # CredentialsOf(form, d, i) =>
             status'[d][i] \notin {"success", "error"}]_meetVars

\* Changing the number of days never changes the password that counts for a day
\* that stays: it moves between the day and the shared field as it must.
KeepsPassword ==
  [][(\E n \in DayNumbers : HandleNumDaysChange(n)) =>
       \A d \in DOMAIN form.days \cap DOMAIN form'.days :
         EffectivePassword(form', d) = EffectivePassword(form, d)]_meetVars

\* An import takes every day's platforms from that day's own meet, unless the
\* first meet was changed while its list was being fetched: a list is not
\* matched with the meet it was asked for.
ImportedDaysMatch ==
  [][ImportArrives /\ ~overlapped =>
       \A d \in DOMAIN form'.days : \A i \in DOMAIN form'.days[d].ids :
         form'.days[d].ids[i].meet \in {form'.days[d].meet, NoMeet}]_meetVars

=============================================================================
