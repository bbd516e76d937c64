------------------------------- MODULE MeetSetup -------------------------------
(***************************************************************************)
(* The setup page of a meet (MeetSetup.tsx): a form that is loaded, edited *)
(* or imported from LiftingCast, whose credentials are tested, and that is *)
(* saved with a token from an unlock.                                      *)
(*                                                                         *)
(* Nothing the page asks for is cancelled, and its handlers go on with     *)
(* what they read before they waited.  A request and its answer are one    *)
(* step, which stands for the moment the backend handles it; what else may *)
(* happen between click and answer happens in between.  Days and platforms *)
(* are numbered from 1.                                                    *)
(***************************************************************************)
EXTENDS MeetConfig

CONSTANTS
  MeetOrder,     \* the meets in the order of their dates
  MaxTests,      \* bound: tests of credentials under way
  MaxSaves       \* bound: saves under way

ASSUME SetupAssumption ==
  /\ MeetOrder \in Seq(Meets)
  /\ \A m \in Meets : \E k \in DOMAIN MeetOrder : MeetOrder[k] = m
  /\ \A k, l \in DOMAIN MeetOrder : MeetOrder[k] = MeetOrder[l] => k = l
  /\ {MaxTests, MaxSaves} \subseteq Nat

VARIABLES
  form,
  loading,       \* the saved form has not arrived yet
  status,        \* status[d][i]: what the test of platform i of day d showed
  tests,         \* tests under way, with the credentials they were made with
  idleTimers,    \* tests whose success goes away after five seconds
  stores,        \* sessions on their way to the backend after a test
  browsing,
  lcMeets,       \* the meets LiftingCast listed, by date
  selected,
  preview,       \* the meet whose platforms lcPlatforms are, or NoMeet
  listing,       \* the meets whose platforms are being fetched
  importing,     \* what the import under way was started with
  adminToken,    \* the token in the tab's session storage
  unlockPrompt,
  unlocking,     \* the password being checked and the form to save then
  saves,         \* the saves under way
  overlapped     \* history: the primary meet changed while a list was fetched

formVars == <<form, loading>>
testVars == <<status, tests, idleTimers>>
importVars == <<browsing, lcMeets, selected, preview, listing, importing, overlapped>>
saveVars == <<adminToken, unlockPrompt, unlocking, saves>>
setupVars == <<formVars, testVars, stores, importVars, saveVars>>

Keys == DayNumbers \X Slots

\* A test under way, of the page that is open or of one that was left.
Test ==
  [day : DayNumbers, slot : Slots, credentials : Credentials, of : {"form", "left"}]

\* A save under way; the one made by an unlock closes the prompt.
SaveRequest == [token : Tokens, form : Form, closes : BOOLEAN]

EmptyDay(n) == [meet |-> NoMeet, password |-> NoPassword, ids |-> [i \in 1..n |-> NoId]]
EmptyForm ==
  [numDays |-> 1, numPlatforms |-> 1, perDay |-> FALSE, password |-> NoPassword,
   days |-> <<EmptyDay(1)>>]

NoImport == [meets |-> <<>>, preview |-> NoMeet]
NotUnlocking == [password |-> NoPassword, form |-> EmptyForm]

------------------------------------------------------------------------------
(* Editing.                                                                *)

\* resetAllTestStatuses and clearDayKeys: the results of tests under way will
\* be shown all the same, though they may not fit the form any more.
ForgetNothing(keys) == UNCHANGED status
ForgetTests(keys) ==
  status' = [d \in DayNumbers |-> [i \in Slots |->
               IF <<d, i>> \in keys THEN "idle" ELSE status[d][i]]]

Edit(newForm) ==
  /\ form' = newForm
  /\ UNCHANGED <<loading, tests, idleTimers, stores, importVars, saveVars, serviceVars>>

ResizeDaysOnly(days, nd, np) ==
  [d \in 1..nd |-> IF d \in DOMAIN days THEN days[d] ELSE EmptyDay(np)]

ResizeDays(days, nd, np) ==
  [d \in 1..nd |->
     IF d \in DOMAIN days
       THEN [days[d] EXCEPT !.ids = [i \in 1..np |-> IF i \in DOMAIN @ THEN @[i] ELSE NoId]]
       ELSE EmptyDay(np)]

\* From one day to several the password of day 1 becomes the shared one; back
\* to one day it becomes the day's again.  Otherwise the results stay: those of
\* a day or platform that goes away show again when it comes back.
SharedPasswordStays == form.password
PromotedPassword == IF form.numDays = 1 THEN form.days[1].password ELSE form.password

HandleNumDaysChange(n) ==
  LET days == ResizeDays(form.days, n, form.numPlatforms) IN
  IF form.numDays > 1 /\ n = 1 /\ ~form.perDay
    THEN /\ Edit([form EXCEPT !.numDays = 1,
                              !.days = <<[days[1] EXCEPT !.password = form.password]>>])
         /\ ForgetTests(Keys)
    ELSE /\ Edit([form EXCEPT !.numDays = n, !.days = days,
                    !.password = IF n > 1 THEN PromotedPassword ELSE @])
         /\ UNCHANGED status

HandleNumPlatformsChange(n) ==
  /\ Edit([form EXCEPT !.numPlatforms = n, !.days = ResizeDays(@, form.numDays, n)])
  /\ UNCHANGED status

\* The checkbox is there for several days only.
HandlePerDayPasswordsChange(checked) ==
  /\ form.numDays > 1
  /\ form.perDay # checked
  /\ Edit([form EXCEPT !.perDay = checked,
             !.days = [d \in DOMAIN @ |->
                         IF checked THEN [@[d] EXCEPT !.password = form.password] ELSE @[d]]])
  /\ ForgetTests(Keys)

\* The shared password, where it is asked for.
SetPassword(pw) ==
  /\ form.numDays > 1 /\ ~form.perDay
  /\ Edit([form EXCEPT !.password = pw])
  /\ ForgetTests(Keys)

UpdateDayPassword(d, pw) ==
  /\ form.perDay \/ form.numDays = 1
  /\ Edit([form EXCEPT !.days[d].password = pw])
  /\ ForgetTests({d} \X (1..form.numPlatforms))

UpdateDayMeetId(d, m) ==
  /\ Edit([form EXCEPT !.days[d].meet = m])
  /\ ForgetTests(Keys)

UpdatePlatformId(d, i, id) ==
  /\ Edit([form EXCEPT !.days[d].ids[i] = id])
  /\ ForgetTests(Keys)

Editing ==
  \/ \E n \in DayNumbers : HandleNumDaysChange(n)
  \/ \E n \in Slots : HandleNumPlatformsChange(n)
  \/ \E checked \in BOOLEAN : HandlePerDayPasswordsChange(checked)
  \/ \E pw \in Passwords : SetPassword(pw)
  \/ \E d \in DOMAIN form.days :
       \/ \E pw \in Passwords : UpdateDayPassword(d, pw)
       \/ \E m \in Meets : UpdateDayMeetId(d, m)
       \/ \E i \in DOMAIN form.days[d].ids, m \in Meets :
            \E n \in 1..PlatformCount[m] :
              UpdatePlatformId(d, i, [meet |-> m, number |-> n])

\* The saved form arrives, also over what was typed and tested in the meantime:
\* no result is taken down.
LoadArrives ==
  /\ loading
  /\ loading' = FALSE
  /\ form' = IF config = NoConfig THEN form ELSE config
  /\ UNCHANGED <<testVars, stores, importVars, saveVars, serviceVars>>

------------------------------------------------------------------------------
(* Testing credentials.                                                    *)

\* The button needs a meet, a platform and a password, and no test under way.
HandleTestConnection(d, i) ==
  LET c == CredentialsOf(form, d, i) IN
  /\ status[d][i] # "loading"
  /\ NoMeet \notin {c.meet, c.id.meet} /\ c.password # NoPassword
  /\ Cardinality(tests) < MaxTests
  /\ status' = [status EXCEPT ![d][i] = "loading"]
  /\ tests' = tests \cup {[day |-> d, slot |-> i, credentials |-> c, of |-> "form"]}
  /\ UNCHANGED <<formVars, idleTimers, stores, importVars, saveVars, serviceVars>>

\* The page shows a result, unless it was left.
Result(t, shown) ==
  /\ tests' = tests \ {t}
  /\ status' = IF t.of = "left" THEN status
               ELSE [status EXCEPT ![t.day][t.slot] = shown]

\* A success also stores the session it was about, fire and forget.
SessionOfForm(t) ==
  IF t.day \in DOMAIN form.days /\ t.slot \in DOMAIN form.days[t.day].ids
    THEN CredentialsOf(form, t.day, t.slot)
    ELSE t.credentials
SessionTested(t) == t.credentials

TestAnswered(t) ==
  /\ t \in tests
  /\ Accepts(t.credentials)
  /\ Result(t, "success")
  /\ idleTimers' = IF t.of = "left" THEN idleTimers ELSE idleTimers \cup {<<t.day, t.slot>>}
  /\ stores' = stores \cup {[slot |-> t.slot, credentials |-> SessionTested(t)]}
  /\ UNCHANGED <<formVars, importVars, saveVars, serviceVars>>

\* LiftingCast refuses, or something on the way to it fails.
TestFails(t) ==
  /\ t \in tests
  /\ Result(t, "error")
  /\ UNCHANGED <<formVars, idleTimers, stores, importVars, saveVars, serviceVars>>

\* The five seconds are over, whatever the status is by now.
TestGoesIdle(d, i) ==
  /\ <<d, i>> \in idleTimers
  /\ idleTimers' = idleTimers \ {<<d, i>>}
  /\ status' = [status EXCEPT ![d][i] = "idle"]
  /\ UNCHANGED <<formVars, tests, stores, importVars, saveVars, serviceVars>>

StoreArrives(s) ==
  /\ s \in stores
  /\ stores' = stores \ {s}
  /\ StoreSession(s.slot, s.credentials)
  /\ UNCHANGED <<formVars, testVars, importVars, saveVars>>

StoreLost(s) ==
  /\ s \in stores
  /\ stores' = stores \ {s}
  /\ UNCHANGED <<formVars, testVars, importVars, saveVars, serviceVars>>

------------------------------------------------------------------------------
(* Importing from LiftingCast.                                             *)

HandleBrowse ==
  /\ ~browsing
  /\ browsing' = TRUE
  /\ lcMeets' = <<>>
  /\ selected' = {}
  /\ preview' = NoMeet
  /\ overlapped' = (overlapped \/ listing # {})
  /\ UNCHANGED <<formVars, testVars, stores, listing, importing, saveVars, serviceVars>>

BrowseAnswered ==
  /\ browsing
  /\ browsing' = FALSE
  /\ lcMeets' \in {<<>>, MeetOrder}
  /\ UNCHANGED <<formVars, testVars, stores, selected, preview, listing, importing,
                 overlapped, saveVars, serviceVars>>

\* selectedMeetIds keeps the order of lcMeets.
Earlier(m, n) ==
  \E k, l \in DOMAIN MeetOrder : k < l /\ MeetOrder[k] = m /\ MeetOrder[l] = n
IsInOrder(s) == \A i, j \in DOMAIN s : i < j => Earlier(s[i], s[j])
InOrder(S) == CHOOSE s \in [1..Cardinality(S) -> S] : IsInOrder(s)
Primary(S) == IF S = {} THEN NoMeet ELSE InOrder(S)[1]

\* A new primary meet replaces the preview: it is cleared and fetched anew.
HandleToggleMeet(m) ==
  LET next == IF m \in selected THEN selected \ {m} ELSE selected \cup {m} IN
  /\ \E k \in DOMAIN lcMeets : lcMeets[k] = m
  /\ selected' = next
  /\ IF Primary(next) = Primary(selected)
       THEN UNCHANGED <<preview, listing, overlapped>>
       ELSE /\ preview' = NoMeet
            /\ listing' = listing \cup ({Primary(next)} \ {NoMeet})
            /\ overlapped' = (overlapped \/ listing # {})
  /\ UNCHANGED <<formVars, testVars, stores, browsing, lcMeets, importing, saveVars,
                 serviceVars>>

\* fetchPlatformsForMeet comes back, for a meet that may be primary no more.
ListArrives(m) ==
  /\ m \in listing
  /\ listing' = listing \ {m}
  /\ preview' = m
  /\ UNCHANGED <<formVars, testVars, stores, browsing, lcMeets, selected, importing,
                 overlapped, saveVars, serviceVars>>

ListFails(m) ==
  /\ m \in listing
  /\ listing' = listing \ {m}
  /\ UNCHANGED <<formVars, testVars, stores, browsing, lcMeets, selected, preview,
                 importing, overlapped, saveVars, serviceVars>>

HandleImport ==
  /\ importing = NoImport
  /\ selected # {} /\ preview # NoMeet
  /\ importing' = [meets |-> InOrder(selected), preview |-> preview]
  /\ UNCHANGED <<formVars, testVars, stores, browsing, lcMeets, selected, preview,
                 listing, overlapped, saveVars, serviceVars>>

\* The first meet's platforms are those "already fetched for preview".
PlatformsOfFirstDay(d) == importing.preview
PlatformsOfDay(d) == IF d = 1 THEN importing.preview ELSE importing.meets[d]

ImportedDay(d) ==
  LET m == PlatformsOfDay(d) IN
  [meet |-> importing.meets[d], password |-> NoPassword,
   ids |-> [i \in 1..PlatformCount[importing.preview] |->
              IF i <= PlatformCount[m] THEN [meet |-> m, number |-> i] ELSE NoId]]

ImportArrives ==
  LET days == Len(importing.meets) IN
  /\ importing # NoImport
  /\ form' = [form EXCEPT !.numDays = days,
                          !.numPlatforms = PlatformCount[importing.preview],
                          !.days = [d \in 1..days |-> ImportedDay(d)]]
  /\ ForgetTests(Keys)
  /\ importing' = NoImport
  /\ UNCHANGED <<loading, tests, idleTimers, stores, browsing, lcMeets, selected,
                 preview, listing, overlapped, saveVars, serviceVars>>

ImportFails ==
  /\ importing # NoImport
  /\ importing' = NoImport
  /\ UNCHANGED <<formVars, testVars, stores, browsing, lcMeets, selected, preview,
                 listing, overlapped, saveVars, serviceVars>>

------------------------------------------------------------------------------
(* Saving.                                                                 *)

\* With a token the form is sent, without one the page asks to unlock first.  The
\* button is always there: several saves may be under way.
SendForm(token, sent, closes) ==
  /\ Cardinality(saves) < MaxSaves
  /\ saves' = saves \cup {[token |-> token, form |-> sent, closes |-> closes]}

HandleSave ==
  /\ IF adminToken # NoToken
       THEN SendForm(adminToken, form, FALSE) /\ UNCHANGED unlockPrompt
       ELSE unlockPrompt' = TRUE /\ UNCHANGED saves
  /\ UNCHANGED <<formVars, testVars, stores, importVars, adminToken, unlocking,
                 serviceVars>>

\* A stale token is dropped, with the one the page has by now, and the page asks
\* to unlock again.
SaveAnswered(s) ==
  /\ s \in saves
  /\ saves' = saves \ {s}
  /\ IF RequireToken(s.token)
       THEN /\ Save(s.form)
            /\ unlockPrompt' = (unlockPrompt /\ ~s.closes)
            /\ UNCHANGED adminToken
       ELSE /\ adminToken' = NoToken
            /\ unlockPrompt' = TRUE
            /\ UNCHANGED serviceVars
  /\ UNCHANGED <<formVars, testVars, stores, importVars, unlocking>>

\* The request or its answer is lost: "could not reach the server".
SaveLost(s) ==
  /\ s \in saves
  /\ saves' = saves \ {s}
  /\ \/ UNCHANGED serviceVars
     \/ RequireToken(s.token) /\ Save(s.form)
  /\ UNCHANGED <<formVars, testVars, stores, importVars, adminToken, unlockPrompt,
                 unlocking>>

\* Unlocking saves the form as it was when the password was entered; its button
\* stays disabled until that save is answered.
HandleUnlockSubmit(pw) ==
  /\ unlockPrompt
  /\ unlocking = NotUnlocking /\ \A s \in saves : ~s.closes
  /\ unlocking' = [password |-> pw, form |-> form]
  /\ UNCHANGED <<formVars, testVars, stores, importVars, adminToken, unlockPrompt,
                 saves, serviceVars>>

UnlockAnswered ==
  /\ unlocking # NotUnlocking
  /\ unlocking' = NotUnlocking
  /\ IF PasswordFits(unlocking.password)
       THEN /\ Unlock(unlocking.password)
            /\ adminToken' = issued'
            /\ SendForm(issued', unlocking.form, TRUE)
       ELSE UNCHANGED <<serviceVars, adminToken, saves>>
  /\ UNCHANGED <<formVars, testVars, stores, importVars, unlockPrompt>>

UnlockLost ==
  /\ unlocking # NotUnlocking
  /\ unlocking' = NotUnlocking
  /\ \/ UNCHANGED serviceVars
     \/ PasswordFits(unlocking.password) /\ Unlock(unlocking.password)
  /\ UNCHANGED <<formVars, testVars, stores, importVars, adminToken, unlockPrompt, saves>>

CancelUnlock ==
  /\ unlockPrompt
  /\ unlockPrompt' = FALSE
  /\ UNCHANGED <<formVars, testVars, stores, importVars, adminToken, unlocking, saves,
                 serviceVars>>

------------------------------------------------------------------------------
\* What the user does on the page, and what happens to its requests.
SetupClicks ==
  \/ Editing
  \/ \E d \in DOMAIN form.days : \E i \in DOMAIN form.days[d].ids : HandleTestConnection(d, i)
  \/ HandleBrowse
  \/ \E m \in Meets : HandleToggleMeet(m)
  \/ HandleImport
  \/ HandleSave
  \/ \E pw \in AdminPasswords : HandleUnlockSubmit(pw)
  \/ CancelUnlock

SetupAnswers ==
  \/ LoadArrives
  \/ \E t \in tests : TestAnswered(t) \/ TestFails(t)
  \/ \E d \in DayNumbers, i \in Slots : TestGoesIdle(d, i)
  \/ \E s \in stores : StoreArrives(s) \/ StoreLost(s)
  \/ BrowseAnswered
  \/ \E m \in Meets : ListArrives(m) \/ ListFails(m)
  \/ ImportArrives
  \/ ImportFails
  \/ \E s \in saves : SaveAnswered(s) \/ SaveLost(s)
  \/ UnlockAnswered
  \/ UnlockLost

\* The page opens, or is left: tests and sessions under way go on, the other
\* requests have nobody to answer to.  (Bound: not while a save is under way.)
FreshSetup(open) ==
  /\ saves = {} /\ unlocking = NotUnlocking
  /\ loading' = open
  /\ form' = EmptyForm
  /\ status' = [d \in DayNumbers |-> [i \in Slots |-> "idle"]]
  /\ idleTimers' = {}
  /\ tests' = {[t EXCEPT !.of = "left"] : t \in tests}
  /\ browsing' = FALSE
  /\ lcMeets' = <<>>
  /\ selected' = {}
  /\ preview' = NoMeet
  /\ listing' = {}
  /\ importing' = NoImport
  /\ unlockPrompt' = FALSE
  /\ overlapped' = FALSE
  /\ UNCHANGED <<stores, adminToken, unlocking, saves>>

SetupInit ==
  /\ form = EmptyForm
  /\ loading = FALSE
  /\ status = [d \in DayNumbers |-> [i \in Slots |-> "idle"]]
  /\ tests = {} /\ idleTimers = {} /\ stores = {}
  /\ browsing = FALSE
  /\ lcMeets = <<>>
  /\ selected = {}
  /\ preview = NoMeet
  /\ listing = {}
  /\ importing = NoImport
  /\ overlapped = FALSE
  /\ unlockPrompt = FALSE
  /\ unlocking = NotUnlocking
  /\ saves = {}

=============================================================================
