------------------------------ MODULE MeetConfig ------------------------------
(***************************************************************************)
(* The configuration of a meet on the backend (meet-config.service.ts and  *)
(* its controller), the LiftingCast sessions of its platforms              *)
(* (storeSession of liftingcast.service.ts), and what LiftingCast answers  *)
(* to a test of credentials (testConnection).                              *)
(*                                                                         *)
(* Each handler is an operator on the service's variables; the pages that  *)
(* call them are MeetSetup and MeetDirector, and Meet puts all together.   *)
(* Everything is in memory: a restart forgets it.  The relay that may      *)
(* stand in for LiftingCast and the names of things are left out.          *)
(***************************************************************************)
EXTENDS Integers, Sequences, FiniteSets

CONSTANTS
  Meets,            \* meet ids at LiftingCast
  PlatformCount,    \* PlatformCount[m]: how many platforms meet m has there
  PasswordOf,       \* PasswordOf[m]: the password it was published with
  Passwords,        \* LiftingCast passwords that are typed
  AdminPasswords,   \* setup passwords that are typed
  MaxDays,          \* bound: days of a meet
  MaxPlatforms,     \* bound: platforms of a day
  MaxTokens         \* bound: unlock tokens handed out

NoMeet == "no meet"
NoPassword == ""

ASSUME MeetAssumption ==
  /\ PlatformCount \in [Meets -> 1..MaxPlatforms]
  /\ PasswordOf \in [Meets -> Passwords]
  /\ IsFiniteSet(Meets) /\ Cardinality(Meets) <= MaxDays
  /\ NoMeet \notin Meets
  /\ NoPassword \notin Passwords \cup AdminPasswords
  /\ {MaxDays, MaxPlatforms, MaxTokens} \subseteq Nat \ {0}

DayNumbers == 1..MaxDays
Slots == 1..MaxPlatforms

\* A LiftingCast platform id names one platform of one meet.
PlatformIds == [meet : Meets, number : Slots]
NoId == [meet |-> NoMeet, number |-> 0]

Day ==
  [meet : Meets \cup {NoMeet}, password : Passwords \cup {NoPassword},
   ids : Seq(PlatformIds \cup {NoId})]

Form ==
  [numDays : DayNumbers, numPlatforms : Slots, perDay : BOOLEAN,
   password : Passwords \cup {NoPassword}, days : Seq(Day)]

\* It has the days it says, with as many platforms each.
FitsItself(form) ==
  /\ Len(form.days) = form.numDays
  /\ \A d \in DOMAIN form.days : Len(form.days[d].ids) = form.numPlatforms

NoConfig == [numDays |-> 0]

\* What a test or a session of a platform is about.
Credentials ==
  [meet : Meets \cup {NoMeet}, id : PlatformIds \cup {NoId},
   password : Passwords \cup {NoPassword}]
NoSession == [meet |-> NoMeet, id |-> NoId, password |-> NoPassword]

\* The password that counts for day d of a form.
EffectivePassword(form, d) ==
  IF form.numDays = 1 \/ form.perDay THEN form.days[d].password ELSE form.password

CredentialsOf(form, d, i) ==
  [meet |-> form.days[d].meet, id |-> form.days[d].ids[i],
   password |-> EffectivePassword(form, d)]

Tokens == 1..MaxTokens
NoToken == 0

ActiveDay == [index : DayNumbers, completed : SUBSET DayNumbers]
FirstDay == [index |-> 1, completed |-> {}]

VARIABLES
  config,          \* the saved form, or NoConfig
  adminPassword,   \* the password of the first unlock
  validTokens,
  issued,          \* how many tokens were ever handed out
  activeDay,
  sessions         \* sessions[i]: the LiftingCast session of platform i

serviceVars == <<config, adminPassword, validTokens, issued, activeDay, sessions>>

------------------------------------------------------------------------------
(* Handlers.                                                               *)

\* POST /meet-config/unlock: the first password becomes the password.
PasswordFits(pw) == adminPassword \in {NoPassword, pw}

Unlock(pw) ==
  /\ issued < MaxTokens
  /\ adminPassword' = pw
  /\ issued' = issued + 1
  /\ validTokens' = validTokens \cup {issued'}
  /\ UNCHANGED <<config, activeDay, sessions>>

\* POST /meet-config
RequireToken(token) == token \in validTokens

Save(form) ==
  /\ config' = form
  /\ UNCHANGED <<adminPassword, validTokens, issued, activeDay, sessions>>

\* POST /meet-config/active-day
SetActiveDay(day) ==
  /\ activeDay' = day
  /\ UNCHANGED <<config, adminPassword, validTokens, issued, sessions>>

\* POST /liftingcast/session/:platformId
StoreSession(i, credentials) ==
  /\ sessions' = [sessions EXCEPT ![i] = credentials]
  /\ UNCHANGED <<config, adminPassword, validTokens, issued, activeDay>>

\* The process ends and starts again.
ForgetEverything ==
  /\ config' = NoConfig
  /\ adminPassword' = NoPassword
  /\ validTokens' = {}
  /\ activeDay' = FirstDay
  /\ sessions' = [i \in Slots |-> NoSession]
  /\ UNCHANGED issued

ServiceInit ==
  /\ config = NoConfig
  /\ adminPassword = NoPassword
  /\ validTokens = {}
  /\ issued = 0
  /\ activeDay = FirstDay
  /\ sessions = [i \in Slots |-> NoSession]

------------------------------------------------------------------------------
(* LiftingCast.                                                            *)

\* It has the meet under that password, and the platform is one of the meet's.
Accepts(c) ==
  /\ c.meet \in Meets
  /\ c.password = PasswordOf[c.meet]
  /\ c.id \in {[meet |-> c.meet, number |-> n] : n \in 1..PlatformCount[c.meet]}

ServiceTypeOK ==
  /\ config \in Form \cup {NoConfig}
  /\ adminPassword \in AdminPasswords \cup {NoPassword}
  /\ issued \in 0..MaxTokens
  /\ validTokens \subseteq 1..issued
  /\ activeDay \in ActiveDay
  /\ sessions \in [Slots -> Credentials]

=============================================================================
