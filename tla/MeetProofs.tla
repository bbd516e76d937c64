------------------------------ MODULE MeetProofs ------------------------------
(***************************************************************************)
(* A meet run from one browser, for any meets, passwords, forms and        *)
(* bounds: the types, that an edit takes down the results that do not fit  *)
(* any more, that no session is stored untested, that a change of the      *)
(* number of days and an import keep what belongs together, and that the   *)
(* director is in step with the backend as long as writes of the active    *)
(* day do not overlap.                                                     *)
(***************************************************************************)
EXTENDS Meet, TLAPS, WellFoundedInduction, FiniteSetTheorems

------------------------------------------------------------------------------
(* Forms.                                                                  *)

LEMMA BoundFacts ==
  /\ MaxDays \in Nat \ {0} /\ MaxPlatforms \in Nat \ {0} /\ MaxTokens \in Nat \ {0}
  /\ 1 \in DayNumbers /\ 1 \in Slots /\ DayNumbers \subseteq Nat /\ Slots \subseteq Nat
  /\ \A n \in DayNumbers : \A d \in 1..n : d \in DayNumbers
  /\ \A n \in Slots : \A i \in 1..n : i \in Slots
BY MeetAssumption DEF DayNumbers, Slots

Good(f) == f \in Form /\ FitsItself(f)

\* A form by its parts.
GoodDay(day, n) ==
  /\ day \in Day
  /\ DOMAIN day.ids = 1..n
  /\ day.ids \in [1..n -> PlatformIds \cup {NoId}]

LEMMA GoodFacts ==
  ASSUME NEW f, Good(f)
  PROVE  /\ f.numDays \in DayNumbers /\ f.numPlatforms \in Slots /\ f.perDay \in BOOLEAN
         /\ f.password \in Passwords \cup {NoPassword}
         /\ DOMAIN f.days = 1..f.numDays
         /\ f.days \in Seq(Day)
         /\ \A d \in 1..f.numDays : GoodDay(f.days[d], f.numPlatforms)
<1>1. /\ f.numDays \in DayNumbers /\ f.numPlatforms \in Slots /\ f.perDay \in BOOLEAN
      /\ f.password \in Passwords \cup {NoPassword} /\ f.days \in Seq(Day)
      /\ Len(f.days) = f.numDays
  BY DEF Good, Form, FitsItself
<1>2. DOMAIN f.days = 1..f.numDays
  BY <1>1
<1>3. ASSUME NEW d \in 1..f.numDays PROVE GoodDay(f.days[d], f.numPlatforms)
  <2>1. f.days[d] \in Day /\ Len(f.days[d].ids) = f.numPlatforms
    BY <1>1, <1>2 DEF Good, FitsItself
  <2>2. f.days[d].ids \in Seq(PlatformIds \cup {NoId})
    BY <2>1 DEF Day
  <2>. QED
    BY <2>1, <2>2 DEF GoodDay
<1>. QED
  BY <1>1, <1>2, <1>3

LEMMA GoodForm ==
  ASSUME NEW f, NEW n \in DayNumbers, NEW np \in Slots,
         DOMAIN f = {"numDays", "numPlatforms", "perDay", "password", "days"},
         f = [numDays |-> f.numDays, numPlatforms |-> f.numPlatforms, perDay |-> f.perDay,
              password |-> f.password, days |-> f.days],
         f.numDays = n, f.numPlatforms = np, f.perDay \in BOOLEAN,
         f.password \in Passwords \cup {NoPassword},
         DOMAIN f.days = 1..n, f.days = [d \in 1..n |-> f.days[d]],
         \A d \in 1..n : GoodDay(f.days[d], np)
  PROVE  Good(f)
<1>1. n \in Nat /\ np \in Nat
  BY DEF DayNumbers, Slots
<1>2. f.days \in [1..n -> Day]
  BY DEF GoodDay
<1>3. f.days \in Seq(Day) /\ Len(f.days) = n
  BY <1>1, <1>2
<1>4. ASSUME NEW d \in 1..n PROVE Len(f.days[d].ids) = np
  BY <1>1 DEF GoodDay, Day
<1>5. f \in Form
  BY <1>3 DEF Form
<1>. QED
  BY <1>3, <1>4, <1>5 DEF Good, FitsItself

LEMMA EmptyDayFacts ==
  ASSUME NEW np \in Slots PROVE GoodDay(EmptyDay(np), np)
<1>1. np \in Nat
  BY DEF Slots
<1>2. EmptyDay(np).ids \in [1..np -> PlatformIds \cup {NoId}]
  BY DEF EmptyDay
<1>3. EmptyDay(np).ids \in Seq(PlatformIds \cup {NoId})
  BY <1>1, <1>2
<1>4. EmptyDay(np) \in Day
  BY <1>3 DEF EmptyDay, Day
<1>. QED
  BY <1>2, <1>4 DEF GoodDay

LEMMA EmptyFormFacts == Good(EmptyForm)
<1>1. 1 \in DayNumbers /\ 1 \in Slots
  BY BoundFacts
<1>2. EmptyForm.days = <<EmptyDay(1)>> /\ EmptyForm.numDays = 1 /\ EmptyForm.numPlatforms = 1
      /\ EmptyForm.perDay = FALSE /\ EmptyForm.password = NoPassword
  BY DEF EmptyForm
<1>3. EmptyForm.days = [d \in 1..1 |-> EmptyForm.days[d]] /\ EmptyForm.days[1] = EmptyDay(1)
  BY <1>2
<1>4. EmptyForm = [numDays |-> EmptyForm.numDays, numPlatforms |-> EmptyForm.numPlatforms,
        perDay |-> EmptyForm.perDay, password |-> EmptyForm.password, days |-> EmptyForm.days]
  BY DEF EmptyForm
<1>5. DOMAIN EmptyForm = {"numDays", "numPlatforms", "perDay", "password", "days"}
  BY DEF EmptyForm
<1>6. \A d \in 1..1 : GoodDay(EmptyForm.days[d], 1)
  BY <1>1, <1>3, EmptyDayFacts
<1>7. DOMAIN EmptyForm.days = 1..1 /\ EmptyForm.perDay \in BOOLEAN
  BY <1>2, <1>3
<1>. QED
  BY <1>1, <1>2, <1>3, <1>4, <1>5, <1>6, <1>7, GoodForm

LEMMA CredentialsFacts ==
  ASSUME NEW f, Good(f), NEW d \in DOMAIN f.days, NEW i \in DOMAIN f.days[d].ids
  PROVE  CredentialsOf(f, d, i) \in Credentials /\ d \in DayNumbers /\ i \in Slots
<1>1. d \in 1..f.numDays /\ GoodDay(f.days[d], f.numPlatforms)
  BY GoodFacts
<1>2. EffectivePassword(f, d) \in Passwords \cup {NoPassword}
  BY <1>1, GoodFacts DEF EffectivePassword, GoodDay, Day
<1>3. d \in DayNumbers /\ i \in Slots
  BY <1>1, GoodFacts, BoundFacts DEF GoodDay
<1>. QED
  BY <1>1, <1>2, <1>3 DEF CredentialsOf, Credentials, GoodDay, Day

\* Resizing keeps what both sizes have.
Resized(days, f, n, np) ==
  /\ DOMAIN days = 1..n /\ days = [d \in 1..n |-> days[d]]
  /\ \A d \in 1..n : GoodDay(days[d], np)
  /\ \A d \in (1..n) \cap DOMAIN f.days :
       /\ days[d].meet = f.days[d].meet /\ days[d].password = f.days[d].password
       /\ \A i \in (1..np) \cap DOMAIN f.days[d].ids : days[d].ids[i] = f.days[d].ids[i]

LEMMA ResizeFacts ==
  ASSUME NEW f, Good(f), NEW n \in DayNumbers, NEW np \in Slots
  PROVE  Resized(ResizeDays(f.days, n, np), f, n, np)
<1>. DEFINE days == ResizeDays(f.days, n, np)
<1>1. days = [d \in 1..n |->
        IF d \in DOMAIN f.days
          THEN [f.days[d] EXCEPT !.ids = [i \in 1..np |-> IF i \in DOMAIN f.days[d].ids
                                            THEN f.days[d].ids[i] ELSE NoId]]
          ELSE EmptyDay(np)]
  BY DEF ResizeDays
<1>. HIDE DEF days
<1>2. ASSUME NEW d \in (1..n) \cap DOMAIN f.days
      PROVE  /\ GoodDay(days[d], np)
             /\ days[d].meet = f.days[d].meet /\ days[d].password = f.days[d].password
             /\ \A i \in (1..np) \cap DOMAIN f.days[d].ids : days[d].ids[i] = f.days[d].ids[i]
  <2>. DEFINE ids == [i \in 1..np |-> IF i \in DOMAIN f.days[d].ids THEN f.days[d].ids[i] ELSE NoId]
  <2>1. GoodDay(f.days[d], f.numPlatforms)
    BY GoodFacts
  <2>2. ids \in [1..np -> PlatformIds \cup {NoId}]
    BY <2>1 DEF GoodDay
  <2>3. np \in Nat
    BY DEF Slots
  <2>4. ids \in Seq(PlatformIds \cup {NoId})
    BY <2>2, <2>3
  <2>5. \A i \in (1..np) \cap DOMAIN f.days[d].ids : ids[i] = f.days[d].ids[i]
    OBVIOUS
  <2>6. days[d] = [f.days[d] EXCEPT !.ids = ids]
    BY <1>1
  <2>. HIDE DEF ids
  <2>7. /\ days[d] \in Day /\ days[d].ids = ids /\ days[d].meet = f.days[d].meet
        /\ days[d].password = f.days[d].password
    BY <2>1, <2>4, <2>6 DEF GoodDay, Day
  <2>. QED
    BY <2>2, <2>5, <2>7 DEF GoodDay
<1>3. ASSUME NEW d \in 1..n, d \notin DOMAIN f.days PROVE GoodDay(days[d], np)
  BY <1>1, <1>3, EmptyDayFacts
<1>4. DOMAIN days = 1..n /\ days = [d \in 1..n |-> days[d]]
  BY <1>1
<1>. QED
  BY <1>2, <1>3, <1>4 DEF days, Resized

\* An edit, by what it makes of the form.
LEMMA FormEdited ==
  ASSUME Good(form), NEW n \in DayNumbers, NEW np \in Slots, NEW perDay \in BOOLEAN,
         NEW pw \in Passwords \cup {NoPassword}, NEW days,
         form' = [numDays |-> n, numPlatforms |-> np, perDay |-> perDay,
                  password |-> pw, days |-> days],
         DOMAIN days = 1..n, days = [d \in 1..n |-> days[d]],
         \A d \in 1..n : GoodDay(days[d], np)
  PROVE  Good(form')
<1>1. /\ form'.numDays = n /\ form'.numPlatforms = np /\ form'.perDay = perDay
      /\ form'.password = pw /\ form'.days = days
      /\ DOMAIN form' = {"numDays", "numPlatforms", "perDay", "password", "days"}
  OBVIOUS
<1>. QED
  BY <1>1, GoodForm

LEMMA DayIs ==
  ASSUME NEW day, NEW np \in Slots, GoodDay(day, np), NEW m \in Meets \cup {NoMeet},
         NEW pw \in Passwords \cup {NoPassword}, NEW ids \in [1..np -> PlatformIds \cup {NoId}]
  PROVE  /\ GoodDay([day EXCEPT !.meet = m], np)
         /\ GoodDay([day EXCEPT !.password = pw], np)
         /\ GoodDay([day EXCEPT !.ids = ids], np)
         /\ [day EXCEPT !.password = pw].password = pw
         /\ [day EXCEPT !.password = pw].meet = day.meet
         /\ [day EXCEPT !.password = pw].ids = day.ids
<1>1. ids \in Seq(PlatformIds \cup {NoId})
  <2>1. np \in Nat
    BY BoundFacts
  <2>. QED
    BY <2>1
<1>. QED
  BY <1>1 DEF GoodDay, Day

LEMMA NumDaysKeepsForm ==
  ASSUME Good(form), NEW n \in DayNumbers, HandleNumDaysChange(n)
  PROVE  Good(form')
<1>. DEFINE days == ResizeDays(form.days, n, form.numPlatforms)
            pw == IF n > 1 THEN PromotedPassword ELSE form.password
<1>1. /\ form.numDays \in DayNumbers /\ form.numPlatforms \in Slots /\ form.perDay \in BOOLEAN
      /\ form.password \in Passwords \cup {NoPassword}
  BY GoodFacts
<1>2. /\ DOMAIN days = 1..n /\ days = [d \in 1..n |-> days[d]]
      /\ \A d \in 1..n : GoodDay(days[d], form.numPlatforms)
  <2>1. Resized(days, form, n, form.numPlatforms)
    BY <1>1, ResizeFacts
  <2>. HIDE DEF days
  <2>. QED
    BY <2>1 DEF Resized
<1>3. pw \in Passwords \cup {NoPassword}
  <2>1. 1 \in 1..form.numDays
    BY <1>1 DEF DayNumbers
  <2>2. form.days[1].password \in Passwords \cup {NoPassword}
    BY <2>1, GoodFacts DEF GoodDay, Day
  <2>. QED
    BY <1>1, <2>2 DEF PromotedPassword
<1>4. CASE form.numDays > 1 /\ n = 1 /\ ~form.perDay
  <2>. DEFINE one == <<[days[1] EXCEPT !.password = form.password]>>
  <2>1. form' = [form EXCEPT !.numDays = 1, !.days = one]
    BY <1>4 DEF HandleNumDaysChange, Edit
  <2>2. GoodDay([days[1] EXCEPT !.password = form.password], form.numPlatforms)
    <3>1. GoodDay(days[1], form.numPlatforms)
      BY <1>2, <1>4
    <3>. HIDE DEF days
    <3>2. form.numPlatforms \in Slots /\ NoMeet \in Meets \cup {NoMeet}
          /\ days[1].ids \in [1..form.numPlatforms -> PlatformIds \cup {NoId}]
      BY <1>1, <3>1 DEF GoodDay
    <3>. QED
      BY <1>1, <3>1, <3>2, DayIs
  <2>. HIDE DEF days
  <2>3. /\ DOMAIN one = 1..1 /\ one = [d \in 1..1 |-> one[d]]
        /\ \A d \in 1..1 : GoodDay(one[d], form.numPlatforms)
    BY <2>2
  <2>. HIDE DEF one
  <2>4. form' = [numDays |-> 1, numPlatforms |-> form.numPlatforms, perDay |-> form.perDay,
                 password |-> form.password, days |-> one]
    BY <2>1 DEF Good, Form
  <2>. QED
    BY <1>1, <2>3, <2>4, BoundFacts, FormEdited
<1>5. CASE ~(form.numDays > 1 /\ n = 1 /\ ~form.perDay)
  <2>1. form' = [form EXCEPT !.numDays = n, !.days = days, !.password = pw]
    BY <1>5 DEF HandleNumDaysChange, Edit
  <2>. HIDE DEF days, pw
  <2>2. form' = [numDays |-> n, numPlatforms |-> form.numPlatforms, perDay |-> form.perDay,
                 password |-> pw, days |-> days]
    BY <2>1 DEF Good, Form
  <2>. QED
    BY <1>1, <1>2, <1>3, <2>2, FormEdited
<1>. QED
  BY <1>4, <1>5

LEMMA NumPlatformsKeepsForm ==
  ASSUME Good(form), NEW np \in Slots, HandleNumPlatformsChange(np)
  PROVE  Good(form')
<1>. DEFINE days == ResizeDays(form.days, form.numDays, np)
<1>1. /\ form.numDays \in DayNumbers /\ form.perDay \in BOOLEAN
      /\ form.password \in Passwords \cup {NoPassword}
  BY GoodFacts
<1>2. /\ DOMAIN days = 1..form.numDays /\ days = [d \in 1..form.numDays |-> days[d]]
      /\ \A d \in 1..form.numDays : GoodDay(days[d], np)
  <2>1. Resized(days, form, form.numDays, np)
    BY <1>1, ResizeFacts
  <2>. HIDE DEF days
  <2>. QED
    BY <2>1 DEF Resized
<1>3. form' = [form EXCEPT !.numPlatforms = np, !.days = days]
  BY DEF HandleNumPlatformsChange, Edit
<1>. HIDE DEF days
<1>4. form' = [numDays |-> form.numDays, numPlatforms |-> np, perDay |-> form.perDay,
               password |-> form.password, days |-> days]
  BY <1>3 DEF Good, Form
<1>. QED
  BY <1>1, <1>2, <1>4, FormEdited

\* The edits that replace days one by one.
LEMMA DaysKeepForm ==
  ASSUME Good(form), NEW days, NEW perDay \in BOOLEAN, NEW pw \in Passwords \cup {NoPassword},
         form' = [form EXCEPT !.days = days, !.perDay = perDay, !.password = pw],
         DOMAIN days = DOMAIN form.days, days = [d \in DOMAIN form.days |-> days[d]],
         \A d \in DOMAIN form.days : GoodDay(days[d], form.numPlatforms)
  PROVE  Good(form')
<1>1. /\ form.numDays \in DayNumbers /\ form.numPlatforms \in Slots
      /\ DOMAIN form.days = 1..form.numDays
  BY GoodFacts
<1>2. form' = [numDays |-> form.numDays, numPlatforms |-> form.numPlatforms, perDay |-> perDay,
               password |-> pw, days |-> days]
  BY DEF Good, Form
<1>3. /\ DOMAIN days = 1..form.numDays /\ days = [d \in 1..form.numDays |-> days[d]]
      /\ \A d \in 1..form.numDays : GoodDay(days[d], form.numPlatforms)
  BY <1>1
<1>. QED
  BY <1>1, <1>2, <1>3, FormEdited

\* The edits of one day, or of the passwords of all.
LEMMA DayEditsKeepForm ==
  ASSUME Good(form),
         \/ \E checked \in BOOLEAN : HandlePerDayPasswordsChange(checked)
         \/ \E pw \in Passwords : SetPassword(pw)
         \/ \E d \in DOMAIN form.days :
              \/ \E pw \in Passwords : UpdateDayPassword(d, pw)
              \/ \E m \in Meets : UpdateDayMeetId(d, m)
              \/ \E i \in DOMAIN form.days[d].ids, m \in Meets :
                   \E n \in 1..PlatformCount[m] :
                     UpdatePlatformId(d, i, [meet |-> m, number |-> n])
  PROVE  Good(form')
<1>1. /\ form.numPlatforms \in Slots /\ form.perDay \in BOOLEAN
      /\ form.password \in Passwords \cup {NoPassword}
      /\ \A d \in DOMAIN form.days : GoodDay(form.days[d], form.numPlatforms)
      /\ form.days = [d \in DOMAIN form.days |-> form.days[d]]
  <2>1. form.numDays \in Nat /\ form.days \in Seq(Day) /\ Len(form.days) = form.numDays
    BY GoodFacts, BoundFacts DEF Good, FitsItself
  <2>2. form.days = [d \in DOMAIN form.days |-> form.days[d]]
    BY <2>1
  <2>. QED
    BY <2>2, GoodFacts
<1>2. ASSUME NEW pw \in Passwords \cup {NoPassword}, NEW d \in DOMAIN form.days
      PROVE  GoodDay([form.days[d] EXCEPT !.password = pw], form.numPlatforms)
  <2>1. GoodDay(form.days[d], form.numPlatforms)
    BY <1>1
  <2>2. form.days[d].ids \in [1..form.numPlatforms -> PlatformIds \cup {NoId}]
    BY <2>1 DEF GoodDay
  <2>. QED
    BY <1>1, <2>1, <2>2, DayIs
<1>3. ASSUME NEW d \in DOMAIN form.days, NEW day, GoodDay(day, form.numPlatforms),
             form' = [form EXCEPT !.days = [form.days EXCEPT ![d] = day]]
      PROVE  Good(form')
  <2>. DEFINE days == [form.days EXCEPT ![d] = day]
  <2>1. /\ DOMAIN days = DOMAIN form.days /\ days = [e \in DOMAIN form.days |-> days[e]]
        /\ \A e \in DOMAIN form.days : GoodDay(days[e], form.numPlatforms)
    BY <1>1, <1>3
  <2>2. form' = [form EXCEPT !.days = days, !.perDay = form.perDay, !.password = form.password]
    BY <1>3 DEF Good, Form
  <2>. HIDE DEF days
  <2>. QED
    BY <1>1, <2>1, <2>2, DaysKeepForm
<1>4. ASSUME NEW checked \in BOOLEAN, HandlePerDayPasswordsChange(checked) PROVE Good(form')
  <2>. DEFINE days == [d \in DOMAIN form.days |->
                         IF checked THEN [form.days[d] EXCEPT !.password = form.password]
                                    ELSE form.days[d]]
  <2>1. /\ DOMAIN days = DOMAIN form.days /\ days = [d \in DOMAIN form.days |-> days[d]]
        /\ \A d \in DOMAIN form.days : GoodDay(days[d], form.numPlatforms)
    BY <1>1, <1>2
  <2>2. form' = [form EXCEPT !.perDay = checked, !.days = days]
    BY <1>4 DEF HandlePerDayPasswordsChange, Edit
  <2>. HIDE DEF days
  <2>3. form' = [form EXCEPT !.days = days, !.perDay = checked, !.password = form.password]
    BY <2>2 DEF Good, Form
  <2>. QED
    BY <1>1, <2>1, <2>3, DaysKeepForm
<1>5. ASSUME NEW pw \in Passwords, SetPassword(pw) PROVE Good(form')
  <2>1. form' = [form EXCEPT !.password = pw]
    BY <1>5 DEF SetPassword, Edit
  <2>2. form' = [form EXCEPT !.days = form.days, !.perDay = form.perDay, !.password = pw]
    BY <2>1 DEF Good, Form
  <2>. QED
    BY <1>1, <2>2, DaysKeepForm
<1>6. ASSUME NEW d \in DOMAIN form.days, NEW pw \in Passwords, UpdateDayPassword(d, pw)
      PROVE  Good(form')
  <2>1. form' = [form EXCEPT !.days = [form.days EXCEPT ![d] = [form.days[d] EXCEPT !.password = pw]]]
    BY <1>6 DEF UpdateDayPassword, Edit
  <2>. QED
    BY <1>2, <1>3, <2>1
<1>7. ASSUME NEW d \in DOMAIN form.days, NEW m \in Meets, UpdateDayMeetId(d, m)
      PROVE  Good(form')
  <2>1. form' = [form EXCEPT !.days = [form.days EXCEPT ![d] = [form.days[d] EXCEPT !.meet = m]]]
    BY <1>7 DEF UpdateDayMeetId, Edit
  <2>2. GoodDay([form.days[d] EXCEPT !.meet = m], form.numPlatforms)
    <3>1. GoodDay(form.days[d], form.numPlatforms)
      BY <1>1
    <3>2. form.days[d].ids \in [1..form.numPlatforms -> PlatformIds \cup {NoId}]
      BY <3>1 DEF GoodDay
    <3>. QED
      BY <1>1, <3>1, <3>2, DayIs
  <2>. QED
    BY <1>3, <2>1, <2>2
<1>8. ASSUME NEW d \in DOMAIN form.days, NEW i \in DOMAIN form.days[d].ids, NEW m \in Meets,
             NEW n \in 1..PlatformCount[m], UpdatePlatformId(d, i, [meet |-> m, number |-> n])
      PROVE  Good(form')
  <2>. DEFINE id == [meet |-> m, number |-> n]
              ids == [form.days[d].ids EXCEPT ![i] = id]
  <2>1. id \in PlatformIds
    <3>1. PlatformCount[m] \in Slots
      BY MeetAssumption DEF Slots
    <3>2. n \in Slots
      BY <3>1, BoundFacts
    <3>. QED
      BY <3>2 DEF PlatformIds
  <2>2. form' = [form EXCEPT !.days = [form.days EXCEPT ![d] = [form.days[d] EXCEPT !.ids = ids]]]
    BY <1>8 DEF UpdatePlatformId, Edit
  <2>. HIDE DEF id
  <2>3. GoodDay(form.days[d], form.numPlatforms)
    BY <1>1
  <2>4. ids \in [1..form.numPlatforms -> PlatformIds \cup {NoId}]
    BY <2>1, <2>3 DEF GoodDay
  <2>. HIDE DEF ids
  <2>5. GoodDay([form.days[d] EXCEPT !.ids = ids], form.numPlatforms)
    BY <1>1, <2>3, <2>4, DayIs
  <2>. QED
    BY <1>3, <2>2, <2>5
<1>. QED
  BY <1>4, <1>5, <1>6, <1>7, <1>8

LEMMA EditingKeepsForm ==
  ASSUME Good(form), Editing
  PROVE  Good(form')
BY NumDaysKeepsForm, NumPlatformsKeepsForm, DayEditsKeepForm DEF Editing

------------------------------------------------------------------------------
(* Meets in the order of their dates.                                      *)

\* The least-number principle: a number with a property is not below all others
\* that have it unless one of them is the least.
LEMMA LeastNumber ==
  ASSUME NEW S, S \subseteq Nat, S # {}
  PROVE  \E x \in S : \A y \in S : x <= y
<1>1. PICK R : IsWellFoundedOn(R, Nat) /\ \A x, y \in Nat : x < y => <<x, y>> \in R
  <2>. DEFINE R == OpToRel(<, Nat)
  <2>1. IsWellFoundedOn(R, Nat)
    BY NatLessThanWellFounded
  <2>2. \A x, y \in Nat : x < y => <<x, y>> \in R
    BY DEF OpToRel
  <2>. HIDE DEF R
  <2>. QED
    BY <2>1, <2>2
<1>2. IsWellFoundedOn(R, Nat)
  BY <1>1
<1>3. \E x \in S : \A y \in S : ~(<<y, x>> \in R)
  BY <1>2, WFMin, Zenon
<1>4. PICK x \in S : \A y \in S : ~(<<y, x>> \in R)
  BY <1>3, Zenon
<1>5. ASSUME NEW y \in S, y < x PROVE FALSE
  <2>1. x \in Nat /\ y \in Nat
    OBVIOUS
  <2>. QED
    BY <1>1, <1>4, <1>5, <2>1, Zenon
<1>. QED
  BY <1>5

\* Some meet of a set comes last in the order of dates.
LEMMA LastMeet ==
  ASSUME NEW S, S \subseteq Meets, S # {}
  PROVE  \E last \in S : \A m \in S \ {last} : Earlier(m, last)
<1>. DEFINE N == Len(MeetOrder)
            Left == {N - k : k \in {l \in DOMAIN MeetOrder : MeetOrder[l] \in S}}
<1>0. N \in Nat /\ DOMAIN MeetOrder = 1..N
  OBVIOUS
<1>1. Left \subseteq Nat
  BY <1>0
<1>2. Left # {}
  <2>1. PICK m \in S : TRUE
    OBVIOUS
  <2>2. PICK k \in DOMAIN MeetOrder : MeetOrder[k] = m
    BY SetupAssumption
  <2>3. N - k \in Left
    BY <2>1, <2>2
  <2>. QED
    BY <2>3
<1>3. PICK x \in Left : \A y \in Left : x <= y
  BY <1>1, <1>2, LeastNumber
<1>4. PICK k \in DOMAIN MeetOrder : MeetOrder[k] \in S /\ x = N - k
  OBVIOUS
<1>5. ASSUME NEW m \in S \ {MeetOrder[k]} PROVE Earlier(m, MeetOrder[k])
  <2>1. PICK j \in DOMAIN MeetOrder : MeetOrder[j] = m
    BY SetupAssumption
  <2>2. N - j \in Left
    BY <2>1
  <2>3. N - k <= N - j /\ j # k
    BY <1>3, <1>4, <2>1, <2>2
  <2>4. j < k
    BY <1>0, <2>3
  <2>. QED
    BY <2>1, <2>4 DEF Earlier
<1>. QED
  BY <1>4, <1>5

\* So every set of meets has an arrangement by date.
Arranged(S) == \E s \in [1..Cardinality(S) -> S] : IsInOrder(s)

LEMMA ArrangeOneMore ==
  ASSUME NEW S, IsFiniteSet(S), NEW last \in S, \A m \in S \ {last} : Earlier(m, last),
         Arranged(S \ {last})
  PROVE  Arranged(S)
<1>. DEFINE n == Cardinality(S)
<1>1. n \in Nat \ {0} /\ Cardinality(S \ {last}) = n - 1
  BY FS_RemoveElement, FS_CardinalityType, FS_EmptySet
<1>2. PICK s \in [1..(n - 1) -> S \ {last}] : IsInOrder(s)
  BY <1>1 DEF Arranged
<1>. DEFINE t == [i \in 1..n |-> IF i = n THEN last ELSE s[i]]
<1>. HIDE DEF n
<1>3. \A i \in 1..n : i # n => i \in 1..(n - 1)
  BY <1>1
<1>4. t \in [1..n -> S]
  BY <1>2, <1>3
<1>5. IsInOrder(t)
  <2>1. SUFFICES ASSUME NEW i \in 1..n, NEW j \in 1..n, i < j
                 PROVE  Earlier(t[i], t[j])
    BY DEF IsInOrder
  <2>2. i \in 1..(n - 1) /\ t[i] = s[i]
    BY <1>1, <2>1
  <2>3. CASE j = n
    BY <1>2, <2>2, <2>3
  <2>4. CASE j # n
    BY <1>2, <1>3, <2>1, <2>2, <2>4 DEF IsInOrder
  <2>. QED
    BY <2>3, <2>4
<1>. QED
  BY <1>4, <1>5 DEF Arranged, n

LEMMA MeetsArranged ==
  ASSUME NEW S, S \subseteq Meets
  PROVE  IsFiniteSet(S) /\ Arranged(S)
<1>0. IsFiniteSet(S)
  BY FS_Subset, MeetAssumption
<1>. DEFINE Bad == {n \in Nat : \E T \in SUBSET Meets : Cardinality(T) = n /\ ~Arranged(T)}
<1>1. Bad = {}
  <2>1. SUFFICES ASSUME Bad # {} PROVE FALSE
    OBVIOUS
  <2>2. PICK n \in Bad : \A k \in Bad : n <= k
    BY <2>1, LeastNumber
  <2>3. PICK T \in SUBSET Meets : Cardinality(T) = n /\ ~Arranged(T)
    OBVIOUS
  <2>4. IsFiniteSet(T)
    BY FS_Subset, MeetAssumption
  <2>5. CASE T = {}
    <3>1. <<>> \in [1..0 -> {}] /\ IsInOrder(<<>>)
      BY DEF IsInOrder
    <3>. QED
      BY <2>3, <2>5, <3>1, FS_EmptySet DEF Arranged
  <2>6. CASE T # {}
    <3>1. PICK last \in T : \A m \in T \ {last} : Earlier(m, last)
      BY <2>6, LastMeet
    <3>2. Cardinality(T \ {last}) = n - 1 /\ n - 1 \in Nat
      <4>1. Cardinality(T) = n /\ n \in Nat /\ n # 0
        BY <2>3, <2>4, <2>6, FS_EmptySet
      <4>2. Cardinality(T \ {last}) = n - 1
        BY <2>3, <2>4, FS_RemoveElement
      <4>. QED
        BY <4>1, <4>2
    <3>3. n - 1 \notin Bad
      BY <2>2, <3>2
    <3>4. Arranged(T \ {last})
      BY <3>2, <3>3
    <3>. QED
      BY <2>3, <2>4, <3>1, <3>4, ArrangeOneMore
  <2>. QED
    BY <2>5, <2>6
<1>2. Cardinality(S) \in Nat
  BY <1>0, FS_CardinalityType
<1>. QED
  BY <1>0, <1>1, <1>2

\* What is imported of the selected meets is as many of them, in order.
LEMMA InOrderFacts ==
  ASSUME NEW S, S \subseteq Meets
  PROVE  InOrder(S) \in [1..Cardinality(S) -> S] /\ IsInOrder(InOrder(S))
BY MeetsArranged DEF Arranged, InOrder

------------------------------------------------------------------------------
(* Types.                                                                  *)

OnFile(f) == f = NoConfig \/ Good(f)

ServiceTypes == ServiceTypeOK /\ OnFile(config)

SaveTypes ==
  /\ Good(form) /\ Good(unlocking.form) /\ \A s \in saves : Good(s.form)
  /\ unlocking.password \in AdminPasswords \cup {NoPassword}
  /\ adminToken \in 0..issued

Statuses == {"idle", "loading", "success", "error"}

TestTypes ==
  /\ status \in [DayNumbers -> [Slots -> Statuses]]
  /\ tests \subseteq Test
  /\ idleTimers \subseteq Keys
  /\ \A s \in stores : s.slot \in Slots /\ s.credentials \in Credentials

ImportTypes ==
  /\ selected \subseteq Meets /\ listing \subseteq Meets /\ preview \in Meets \cup {NoMeet}
  /\ importing # NoImport =>
       importing.preview \in Meets /\ \E n \in DayNumbers : importing.meets \in [1..n -> Meets]

DirectorTypes == DirectorTypeOK /\ OnFile(loadedConfig)

MeetTypes == ServiceTypes /\ SaveTypes /\ TestTypes /\ ImportTypes /\ DirectorTypes

\* What a step may do to the backend.
ServiceOp ==
  \/ UNCHANGED serviceVars
  \/ \E pw \in AdminPasswords \cup {NoPassword} : Unlock(pw)
  \/ \E f : Good(f) /\ Save(f)
  \/ \E day \in ActiveDay : SetActiveDay(day)
  \/ \E i \in Slots, c \in Credentials : StoreSession(i, c)
  \/ ForgetEverything

LEMMA StartingPoints ==
  /\ FirstDay \in ActiveDay /\ NoSession \in Credentials
  /\ [i \in Slots |-> NoSession] \in [Slots -> Credentials]
BY BoundFacts DEF FirstDay, ActiveDay, NoSession, Credentials

LEMMA ServiceStep ==
  ASSUME ServiceTypes, ServiceOp
  PROVE  ServiceTypes' /\ issued \in Nat /\ issued' \in Nat /\ issued <= issued'
<1>0. issued \in Nat /\ validTokens \subseteq 1..issued
  BY BoundFacts DEF ServiceTypes, ServiceTypeOK
<1>1. CASE UNCHANGED serviceVars
  BY <1>0, <1>1 DEF ServiceTypes, ServiceTypeOK, serviceVars, OnFile, Good
<1>2. ASSUME NEW pw \in AdminPasswords \cup {NoPassword}, Unlock(pw)
      PROVE  ServiceTypes' /\ issued' \in Nat /\ issued <= issued'
  <2>1. /\ issued' = issued + 1 /\ issued' \in 0..MaxTokens
        /\ validTokens' = validTokens \cup {issued'} /\ validTokens' \subseteq 1..issued'
    BY <1>0, <1>2, BoundFacts DEF Unlock
  <2>2. adminPassword' = pw /\ UNCHANGED <<config, activeDay, sessions>>
    BY <1>2 DEF Unlock
  <2>. QED
    BY <1>0, <2>1, <2>2 DEF ServiceTypes, ServiceTypeOK, OnFile, Good
<1>3. ASSUME NEW f, Good(f), Save(f)
      PROVE  ServiceTypes' /\ issued' \in Nat /\ issued <= issued'
  BY <1>0, <1>3 DEF Save, ServiceTypes, ServiceTypeOK, OnFile, Good
<1>4. ASSUME NEW day \in ActiveDay, SetActiveDay(day)
      PROVE  ServiceTypes' /\ issued' \in Nat /\ issued <= issued'
  BY <1>0, <1>4 DEF SetActiveDay, ServiceTypes, ServiceTypeOK, OnFile, Good
<1>5. ASSUME NEW i \in Slots, NEW c \in Credentials, StoreSession(i, c)
      PROVE  ServiceTypes' /\ issued' \in Nat /\ issued <= issued'
  BY <1>0, <1>5 DEF StoreSession, ServiceTypes, ServiceTypeOK, OnFile, Good
<1>6. CASE ForgetEverything
  BY <1>0, <1>6, StartingPoints
     DEF ForgetEverything, ServiceTypes, ServiceTypeOK, OnFile
<1>. QED
  BY <1>0, <1>1, <1>2, <1>3, <1>4, <1>5, <1>6 DEF ServiceOp

------------------------------------------------------------------------------
(* Tests of credentials.                                                   *)

LEMMA ForgetTestsTypes ==
  ASSUME TestTypes, NEW keys, ForgetTests(keys) \/ UNCHANGED status,
         UNCHANGED <<tests, idleTimers, stores>>
  PROVE  TestTypes'
<1>1. CASE ForgetTests(keys)
  BY <1>1 DEF ForgetTests, TestTypes, Statuses
<1>2. CASE UNCHANGED status
  BY <1>2 DEF TestTypes
<1>. QED
  BY <1>1, <1>2

LEMMA ResultTypes ==
  ASSUME TestTypes, NEW t \in tests, NEW shown \in Statuses, Result(t, shown)
  PROVE  status' \in [DayNumbers -> [Slots -> Statuses]] /\ tests' \subseteq Test
<1>1. t.day \in DayNumbers /\ t.slot \in Slots
  BY DEF TestTypes, Test
<1>. QED
  BY <1>1 DEF TestTypes, Result

\* What is asked of LiftingCast, and what comes of it.
LEMMA TestsTypes ==
  ASSUME TestTypes, Good(form),
         \/ \E d \in DOMAIN form.days : \E i \in DOMAIN form.days[d].ids :
              HandleTestConnection(d, i)
         \/ \E t \in tests : TestAnswered(t) \/ TestFails(t)
         \/ \E d \in DayNumbers, i \in Slots : TestGoesIdle(d, i)
         \/ \E s \in stores : StoreArrives(s) \/ StoreLost(s)
  PROVE  TestTypes'
<1>1. ASSUME NEW d \in DOMAIN form.days, NEW i \in DOMAIN form.days[d].ids,
             HandleTestConnection(d, i)
      PROVE  TestTypes'
  <2>1. CredentialsOf(form, d, i) \in Credentials /\ d \in DayNumbers /\ i \in Slots
    BY CredentialsFacts
  <2>2. [day |-> d, slot |-> i, credentials |-> CredentialsOf(form, d, i), of |-> "form"] \in Test
    BY <2>1 DEF Test
  <2>3. /\ status' = [status EXCEPT ![d][i] = "loading"]
        /\ tests' = tests \cup {[day |-> d, slot |-> i, credentials |-> CredentialsOf(form, d, i),
                                 of |-> "form"]}
        /\ UNCHANGED <<idleTimers, stores>>
    BY <1>1 DEF HandleTestConnection
  <2>. QED
    BY <2>1, <2>2, <2>3 DEF TestTypes, Statuses
<1>2. ASSUME NEW t \in tests, TestAnswered(t) \/ TestFails(t) PROVE TestTypes'
  <2>1. t.day \in DayNumbers /\ t.slot \in Slots /\ t.credentials \in Credentials
    BY DEF TestTypes, Test
  <2>2. /\ \E shown \in Statuses : Result(t, shown)
        /\ idleTimers' \in {idleTimers, idleTimers \cup {<<t.day, t.slot>>}}
        /\ stores' \in {stores, stores \cup {[slot |-> t.slot, credentials |-> t.credentials]}}
    BY <1>2 DEF TestAnswered, TestFails, SessionTested, Statuses
  <2>3. idleTimers' \subseteq Keys
    BY <2>1, <2>2 DEF TestTypes, Keys
  <2>4. \A s \in stores' : s.slot \in Slots /\ s.credentials \in Credentials
    BY <2>1, <2>2 DEF TestTypes
  <2>. QED
    BY <2>2, <2>3, <2>4, ResultTypes DEF TestTypes
<1>3. ASSUME NEW d \in DayNumbers, NEW i \in Slots, TestGoesIdle(d, i) PROVE TestTypes'
  BY <1>3 DEF TestGoesIdle, TestTypes, Statuses
<1>4. ASSUME NEW s \in stores, StoreArrives(s) \/ StoreLost(s) PROVE TestTypes'
  BY <1>4 DEF StoreArrives, StoreLost, TestTypes, testVars
<1>. QED
  BY <1>1, <1>2, <1>3, <1>4

\* Every edit resets results or leaves them.
LEMMA EditingForgets ==
  ASSUME Editing
  PROVE  /\ \E keys : ForgetTests(keys) \/ UNCHANGED status
         /\ UNCHANGED <<loading, tests, idleTimers, stores, importVars, saveVars, serviceVars>>
BY DEF Editing, HandleNumDaysChange, HandleNumPlatformsChange, HandlePerDayPasswordsChange,
   SetPassword, UpdateDayPassword, UpdateDayMeetId, UpdatePlatformId, Edit

\* Clicks and answers that have nothing to do with tests.
OtherClicks ==
  \/ HandleBrowse \/ HandleImport \/ HandleSave \/ CancelUnlock
  \/ \E m \in Meets : HandleToggleMeet(m)
  \/ \E pw \in AdminPasswords : HandleUnlockSubmit(pw)

OtherAnswers ==
  \/ BrowseAnswered \/ ImportFails
  \/ \E m \in Meets : ListArrives(m) \/ ListFails(m)
  \/ \E s \in saves : SaveAnswered(s) \/ SaveLost(s)
  \/ UnlockAnswered \/ UnlockLost

LEMMA OthersLeaveTests ==
  ASSUME OtherClicks \/ OtherAnswers
  PROVE  UNCHANGED <<formVars, testVars, stores>>
<1>1. CASE OtherClicks
  BY <1>1 DEF OtherClicks, HandleBrowse, HandleImport, HandleSave, CancelUnlock,
     HandleToggleMeet, HandleUnlockSubmit
<1>2. CASE OtherAnswers
  BY <1>2 DEF OtherAnswers, BrowseAnswered, ImportFails, ListArrives, ListFails, SaveAnswered,
     SaveLost, UnlockAnswered, UnlockLost
<1>. QED
  BY <1>1, <1>2

LEMMA SetupKeepsTestTypes ==
  ASSUME TestTypes, Good(form), SetupClicks \/ SetupAnswers
  PROVE  TestTypes'
<1>1. CASE Editing
  BY <1>1, EditingForgets, ForgetTestsTypes
<1>2. CASE \/ \E d \in DOMAIN form.days : \E i \in DOMAIN form.days[d].ids :
                HandleTestConnection(d, i)
           \/ \E t \in tests : TestAnswered(t) \/ TestFails(t)
           \/ \E d \in DayNumbers, i \in Slots : TestGoesIdle(d, i)
           \/ \E s \in stores : StoreArrives(s) \/ StoreLost(s)
  BY <1>2, TestsTypes
<1>3. CASE OtherClicks \/ OtherAnswers
  BY <1>3, OthersLeaveTests DEF TestTypes, testVars
<1>4. CASE ImportArrives
  BY <1>4, ForgetTestsTypes DEF ImportArrives
<1>5. CASE LoadArrives
  BY <1>5 DEF LoadArrives, TestTypes, testVars
<1>. QED
  BY <1>1, <1>2, <1>3, <1>4, <1>5 DEF SetupClicks, SetupAnswers, OtherClicks, OtherAnswers

------------------------------------------------------------------------------
(* Importing.                                                              *)

\* The meet that comes first in time is one of those selected.
LEMMA PrimaryFacts ==
  ASSUME NEW S, S \subseteq Meets
  PROVE  /\ Primary(S) \in S \cup {NoMeet}
         /\ S # {} => /\ Cardinality(S) \in DayNumbers
                      /\ InOrder(S) \in [1..Cardinality(S) -> S]
                      /\ Primary(S) = InOrder(S)[1]
<1>1. CASE S = {}
  BY <1>1 DEF Primary
<1>2. CASE S # {}
  <2>1. /\ IsFiniteSet(S) /\ Cardinality(S) \in Nat /\ Cardinality(S) <= Cardinality(Meets)
        /\ Cardinality(S) # 0
    BY <1>2, MeetAssumption, FS_Subset, FS_CardinalityType, FS_EmptySet
  <2>2. Cardinality(Meets) \in Nat /\ Cardinality(Meets) <= MaxDays
    BY MeetAssumption, FS_CardinalityType
  <2>3. Cardinality(S) \in DayNumbers /\ 1 \in 1..Cardinality(S)
    BY <2>1, <2>2, MeetAssumption DEF DayNumbers
  <2>4. InOrder(S) \in [1..Cardinality(S) -> S]
    BY InOrderFacts
  <2>. QED
    BY <1>2, <2>3, <2>4 DEF Primary
<1>. QED
  BY <1>1, <1>2

LEMMA ImportedDayFacts ==
  ASSUME ImportTypes, importing # NoImport, NEW d \in DOMAIN importing.meets
  PROVE  /\ PlatformCount[importing.preview] \in Slots
         /\ GoodDay(ImportedDay(d), PlatformCount[importing.preview])
<1>1. PICK n \in DayNumbers : importing.meets \in [1..n -> Meets]
  BY DEF ImportTypes
<1>2. /\ importing.preview \in Meets /\ importing.meets[d] \in Meets
      /\ PlatformsOfDay(d) \in Meets
  BY <1>1 DEF ImportTypes, PlatformsOfDay
<1>3. \A m \in Meets : PlatformCount[m] \in Slots
  BY MeetAssumption DEF Slots
<1>. DEFINE np == PlatformCount[importing.preview]
            ids == [i \in 1..np |-> IF i <= PlatformCount[PlatformsOfDay(d)]
                                      THEN [meet |-> PlatformsOfDay(d), number |-> i] ELSE NoId]
<1>4. np \in Slots /\ np \in Nat
  BY <1>2, <1>3, BoundFacts
<1>5. ids \in [1..np -> PlatformIds \cup {NoId}]
  BY <1>2, <1>4, BoundFacts DEF PlatformIds
<1>6. ids \in Seq(PlatformIds \cup {NoId})
  BY <1>4, <1>5
<1>7. ImportedDay(d) = [meet |-> importing.meets[d], password |-> NoPassword, ids |-> ids]
  BY DEF ImportedDay
<1>. HIDE DEF np, ids
<1>8. GoodDay(ImportedDay(d), np)
  BY <1>2, <1>5, <1>6, <1>7 DEF GoodDay, Day
<1>. QED
  BY <1>4, <1>8 DEF np

LEMMA ImportKeepsForm ==
  ASSUME Good(form), ImportTypes, ImportArrives
  PROVE  Good(form')
<1>0. importing # NoImport
  BY DEF ImportArrives
<1>1. PICK n \in DayNumbers : importing.meets \in [1..n -> Meets]
  BY <1>0 DEF ImportTypes
<1>. DEFINE np == PlatformCount[importing.preview]
            days == [d \in 1..n |-> ImportedDay(d)]
<1>2. n \in Nat /\ Len(importing.meets) = n /\ DOMAIN importing.meets = 1..n
      /\ 1 \in 1..n
  BY <1>1, BoundFacts DEF DayNumbers
<1>3. np \in Slots /\ \A d \in 1..n : GoodDay(days[d], np)
  BY <1>0, <1>2, ImportedDayFacts
<1>4. DOMAIN days = 1..n /\ days = [d \in 1..n |-> days[d]]
  OBVIOUS
<1>5. form' = [form EXCEPT !.numDays = n, !.numPlatforms = np, !.days = days]
  BY <1>2 DEF ImportArrives
<1>. HIDE DEF np, days
<1>6. form' = [numDays |-> n, numPlatforms |-> np, perDay |-> form.perDay,
               password |-> form.password, days |-> days]
  BY <1>5 DEF Good, Form
<1>. QED
  BY <1>3, <1>4, <1>6, GoodFacts, FormEdited

LEMMA SetupKeepsImportTypes ==
  ASSUME ImportTypes, SetupClicks \/ SetupAnswers
  PROVE  ImportTypes'
<1>1. CASE HandleBrowse \/ BrowseAnswered
  BY <1>1 DEF HandleBrowse, BrowseAnswered, ImportTypes
<1>2. ASSUME NEW m \in Meets, HandleToggleMeet(m) PROVE ImportTypes'
  <2>. DEFINE next == IF m \in selected THEN selected \ {m} ELSE selected \cup {m}
  <2>1. next \subseteq Meets
    BY DEF ImportTypes
  <2>2. /\ selected' = next /\ UNCHANGED importing
        /\ \/ UNCHANGED <<preview, listing>>
           \/ preview' = NoMeet /\ listing' = listing \cup ({Primary(next)} \ {NoMeet})
    BY <1>2 DEF HandleToggleMeet
  <2>. HIDE DEF next
  <2>3. Primary(next) \in Meets \cup {NoMeet}
    BY <2>1, PrimaryFacts
  <2>. QED
    BY <2>1, <2>2, <2>3 DEF ImportTypes
<1>3. ASSUME NEW m \in Meets, ListArrives(m) \/ ListFails(m) PROVE ImportTypes'
  BY <1>3 DEF ListArrives, ListFails, ImportTypes
<1>4. CASE HandleImport
  <2>1. /\ importing' = [meets |-> InOrder(selected), preview |-> preview]
        /\ selected # {} /\ preview # NoMeet /\ UNCHANGED <<selected, listing, preview>>
    BY <1>4 DEF HandleImport
  <2>2. /\ Cardinality(selected) \in DayNumbers
        /\ InOrder(selected) \in [1..Cardinality(selected) -> selected]
    BY <2>1, PrimaryFacts DEF ImportTypes
  <2>3. InOrder(selected) \in [1..Cardinality(selected) -> Meets]
    BY <2>2 DEF ImportTypes
  <2>. QED
    BY <2>1, <2>2, <2>3 DEF ImportTypes
<1>5. CASE ImportArrives \/ ImportFails
  BY <1>5 DEF ImportArrives, ImportFails, ImportTypes
<1>6. CASE UNCHANGED importVars
  BY <1>6 DEF importVars, ImportTypes
<1>7. CASE \/ Editing
           \/ \E d \in DOMAIN form.days : \E i \in DOMAIN form.days[d].ids :
                HandleTestConnection(d, i)
           \/ HandleSave \/ CancelUnlock \/ \E pw \in AdminPasswords : HandleUnlockSubmit(pw)
  BY <1>6, <1>7, EditingForgets DEF HandleTestConnection, HandleSave, CancelUnlock,
     HandleUnlockSubmit
<1>8. CASE \/ LoadArrives
           \/ \E t \in tests : TestAnswered(t) \/ TestFails(t)
           \/ \E d \in DayNumbers, i \in Slots : TestGoesIdle(d, i)
           \/ \E s \in stores : StoreArrives(s) \/ StoreLost(s)
           \/ \E s \in saves : SaveAnswered(s) \/ SaveLost(s)
           \/ UnlockAnswered \/ UnlockLost
  BY <1>6, <1>8 DEF LoadArrives, TestAnswered, TestFails, TestGoesIdle, StoreArrives, StoreLost,
     SaveAnswered, SaveLost, UnlockAnswered, UnlockLost
<1>. QED
  BY <1>1, <1>2, <1>3, <1>4, <1>5, <1>7, <1>8 DEF SetupClicks, SetupAnswers

------------------------------------------------------------------------------
(* Saving.                                                                 *)

LEMMA SetupServiceOp ==
  ASSUME TestTypes, SaveTypes, SetupClicks \/ SetupAnswers
  PROVE  ServiceOp
<1>1. CASE \/ Editing
           \/ \E d \in DOMAIN form.days : \E i \in DOMAIN form.days[d].ids :
                HandleTestConnection(d, i)
           \/ OtherClicks
  BY <1>1, EditingForgets DEF HandleTestConnection, OtherClicks, HandleBrowse, HandleImport,
     HandleSave, CancelUnlock, HandleToggleMeet, HandleUnlockSubmit, ServiceOp
<1>2. CASE \/ LoadArrives
           \/ \E t \in tests : TestAnswered(t) \/ TestFails(t)
           \/ \E d \in DayNumbers, i \in Slots : TestGoesIdle(d, i)
           \/ BrowseAnswered \/ ImportArrives \/ ImportFails
           \/ \E m \in Meets : ListArrives(m) \/ ListFails(m)
  BY <1>2 DEF LoadArrives, TestAnswered, TestFails, TestGoesIdle, BrowseAnswered, ImportArrives,
     ImportFails, ListArrives, ListFails, ServiceOp
<1>3. ASSUME NEW s \in stores, StoreArrives(s) \/ StoreLost(s) PROVE ServiceOp
  BY <1>3 DEF StoreArrives, StoreLost, TestTypes, ServiceOp
<1>4. ASSUME NEW s \in saves, SaveAnswered(s) \/ SaveLost(s) PROVE ServiceOp
  BY <1>4 DEF SaveAnswered, SaveLost, SaveTypes, ServiceOp
<1>5. CASE UnlockAnswered \/ UnlockLost
  BY <1>5 DEF UnlockAnswered, UnlockLost, SaveTypes, ServiceOp
<1>. QED
  BY <1>1, <1>2, <1>3, <1>4, <1>5 DEF SetupClicks, SetupAnswers, OtherClicks

LEMMA SetupKeepsForm ==
  ASSUME Good(form), OnFile(config), ImportTypes, SetupClicks \/ SetupAnswers
  PROVE  Good(form')
<1>1. CASE Editing
  BY <1>1, EditingKeepsForm
<1>2. CASE ImportArrives
  BY <1>2, ImportKeepsForm
<1>3. CASE LoadArrives
  BY <1>3 DEF LoadArrives, OnFile, Good
<1>4. CASE \/ OtherClicks \/ OtherAnswers
           \/ \E d \in DOMAIN form.days : \E i \in DOMAIN form.days[d].ids :
                HandleTestConnection(d, i)
           \/ \E t \in tests : TestAnswered(t) \/ TestFails(t)
           \/ \E d \in DayNumbers, i \in Slots : TestGoesIdle(d, i)
           \/ \E s \in stores : StoreArrives(s) \/ StoreLost(s)
  <2>1. form' = form
    BY <1>4, OthersLeaveTests DEF HandleTestConnection, TestAnswered, TestFails, TestGoesIdle,
       StoreArrives, StoreLost, formVars
  <2>. QED
    BY <2>1 DEF Good
<1>. QED
  BY <1>1, <1>2, <1>3, <1>4 DEF SetupClicks, SetupAnswers, OtherClicks, OtherAnswers

LEMMA SetupKeepsSaveTypes ==
  ASSUME ServiceTypes, SaveTypes, TestTypes, ImportTypes, SetupClicks \/ SetupAnswers
  PROVE  SaveTypes'
<1>1. Good(form')
  BY SetupKeepsForm DEF ServiceTypes, SaveTypes
<1>2. issued \in Nat /\ issued' \in Nat /\ issued <= issued'
  BY ServiceStep, SetupServiceOp
<1>3. adminToken \in 0..issued'
  BY <1>2 DEF SaveTypes
<1>4. Good(NotUnlocking.form) /\ NotUnlocking.password = NoPassword
  BY EmptyFormFacts DEF NotUnlocking
<1>5. CASE UNCHANGED saveVars
  BY <1>1, <1>3, <1>5 DEF saveVars, SaveTypes, Good
<1>6. CASE HandleSave
  <2>1. /\ \A s \in saves' : s \in saves \/ s.form = form
        /\ UNCHANGED <<unlocking, adminToken>>
    BY <1>6 DEF HandleSave, SendForm
  <2>. QED
    BY <1>1, <1>3, <2>1 DEF SaveTypes, Good
<1>7. ASSUME NEW s \in saves, SaveAnswered(s) \/ SaveLost(s) PROVE SaveTypes'
  <2>1. saves' \subseteq saves /\ UNCHANGED unlocking /\ adminToken' \in {adminToken, NoToken}
    BY <1>7 DEF SaveAnswered, SaveLost
  <2>2. adminToken' \in 0..issued'
    BY <1>2, <1>3, <2>1 DEF NoToken
  <2>. QED
    BY <1>1, <2>1, <2>2 DEF SaveTypes, Good
<1>8. ASSUME NEW pw \in AdminPasswords, HandleUnlockSubmit(pw) PROVE SaveTypes'
  <2>1. unlocking' = [password |-> pw, form |-> form] /\ UNCHANGED <<saves, adminToken>>
    BY <1>8 DEF HandleUnlockSubmit
  <2>. QED
    BY <1>1, <1>3, <2>1 DEF SaveTypes, Good
<1>9. CASE UnlockAnswered
  <2>1. /\ unlocking' = NotUnlocking
        /\ adminToken' \in {issued', adminToken}
        /\ \A s \in saves' : s \in saves \/ s.form = unlocking.form
    BY <1>9 DEF UnlockAnswered, SendForm
  <2>2. adminToken' \in 0..issued'
    BY <1>2, <1>3, <2>1
  <2>. QED
    BY <1>1, <1>4, <2>1, <2>2 DEF SaveTypes, Good
<1>10. CASE UnlockLost \/ CancelUnlock
  <2>1. unlocking' \in {unlocking, NotUnlocking} /\ UNCHANGED <<saves, adminToken>>
    BY <1>10 DEF UnlockLost, CancelUnlock
  <2>. QED
    BY <1>1, <1>3, <1>4, <2>1 DEF SaveTypes, Good
<1>11. CASE \/ Editing \/ HandleBrowse \/ HandleImport
            \/ \E d \in DOMAIN form.days : \E i \in DOMAIN form.days[d].ids :
                 HandleTestConnection(d, i)
            \/ \E m \in Meets : HandleToggleMeet(m)
  BY <1>5, <1>11, EditingForgets DEF HandleBrowse, HandleImport, HandleTestConnection,
     HandleToggleMeet
<1>12. CASE \/ LoadArrives \/ BrowseAnswered \/ ImportArrives \/ ImportFails
            \/ \E t \in tests : TestAnswered(t) \/ TestFails(t)
            \/ \E d \in DayNumbers, i \in Slots : TestGoesIdle(d, i)
            \/ \E s \in stores : StoreArrives(s) \/ StoreLost(s)
            \/ \E m \in Meets : ListArrives(m) \/ ListFails(m)
  <2>1. UNCHANGED saveVars
    BY <1>12 DEF LoadArrives, BrowseAnswered, ImportArrives, ImportFails, TestAnswered,
       TestFails, TestGoesIdle, StoreArrives, StoreLost, ListArrives, ListFails, saveVars
  <2>. QED
    BY <1>5, <2>1
<1>. QED
  BY <1>5, <1>6, <1>7, <1>8, <1>9, <1>10, <1>11, <1>12 DEF SetupClicks, SetupAnswers

------------------------------------------------------------------------------
(* The director's page.                                                    *)

LEMMA ActiveDayFacts ==
  ASSUME NEW d \in DayNumbers, NEW completed \in SUBSET DayNumbers
  PROVE  [index |-> d, completed |-> completed] \in ActiveDay
BY DEF ActiveDay

LEMMA NewStartTypes ==
  ASSUME DirectorTypes, NEW d \in DayNumbers, Shows(d)
  PROVE  NewStart(d) \in Start
<1>1. Good(loadedConfig) /\ d <= loadedConfig.numDays
  BY DEF DirectorTypes, OnFile, Shows
<1>2. d \in DOMAIN loadedConfig.days
  BY <1>1, GoodFacts DEF DayNumbers
<1>. DEFINE creds == [i \in Slots |-> IF i \in Linked(d) THEN CredentialsOf(loadedConfig, d, i)
                                                      ELSE NoSession]
            jobs == [i \in Slots |-> IF i \in Linked(d) THEN "testing" ELSE "none"]
<1>3. \A i \in Linked(d) : CredentialsOf(loadedConfig, d, i) \in Credentials
  BY <1>1, <1>2, CredentialsFacts DEF Linked
<1>4. creds \in [Slots -> Credentials]
  BY <1>3, StartingPoints
<1>5. jobs \in [Slots -> JobStates \cup {"none"}]
  BY DEF JobStates
<1>6. NewStart(d) = [day |-> d, completed |-> shownCompleted, here |-> TRUE,
                     credentials |-> creds, jobs |-> jobs]
  BY DEF NewStart
<1>. HIDE DEF creds, jobs
<1>. QED
  BY <1>4, <1>5, <1>6 DEF Start, DirectorTypes, DirectorTypeOK

LEMMA LoadKeepsDirectorTypes ==
  ASSUME ServiceTypes, DirectorTypes,
         ConfigArrives \/ ConfigFails \/ GetSummary \/ SummaryArrives \/ SummaryFails
  PROVE  DirectorTypes'
<1>1. UNCHANGED <<starts, posts>>
  BY DEF ConfigArrives, ConfigFails, GetSummary, SummaryArrives, SummaryFails
<1>2. CASE ConfigArrives \/ ConfigFails
  <2>1. /\ UNCHANGED <<summary, shownDay, shownCompleted, crossed>>
        /\ configPending' = FALSE /\ loadedConfig' \in {config, loadedConfig}
    BY <1>2 DEF ConfigArrives, ConfigFails
  <2>. QED
    BY <1>1, <2>1 DEF ServiceTypes, ServiceTypeOK, DirectorTypes, DirectorTypeOK, OnFile, Good
<1>3. CASE GetSummary \/ SummaryArrives \/ SummaryFails
  <2>1. summary.day \in ActiveDay
    BY DEF DirectorTypes, DirectorTypeOK
  <2>2. /\ UNCHANGED <<loadedConfig, configPending>> /\ crossed' \in BOOLEAN
        /\ summary' \in [phase : {"none", "asked", "answered"}, day : ActiveDay]
        /\ shownDay' \in {shownDay, summary.day.index}
        /\ shownCompleted' \in {shownCompleted, summary.day.completed}
    <3>1. /\ crossed \in BOOLEAN /\ activeDay \in ActiveDay
          /\ summary \in [phase : {"none", "asked", "answered"}, day : ActiveDay]
      BY DEF ServiceTypes, ServiceTypeOK, DirectorTypes, DirectorTypeOK
    <3>2. NoSummary \in [phase : {"none", "asked", "answered"}, day : ActiveDay]
      BY StartingPoints DEF NoSummary
    <3>3. [phase |-> "answered", day |-> activeDay] \in
            [phase : {"none", "asked", "answered"}, day : ActiveDay]
      BY <3>1
    <3>4. CASE GetSummary
      BY <3>1, <3>2, <3>3, <3>4 DEF GetSummary
    <3>5. CASE SummaryArrives \/ SummaryFails
      BY <3>1, <3>2, <3>5 DEF SummaryArrives, SummaryFails
    <3>. QED
      BY <1>3, <3>4, <3>5
  <2>3. shownDay' \in DayNumbers /\ shownCompleted' \subseteq DayNumbers
    BY <2>1, <2>2 DEF ActiveDay, DirectorTypes, DirectorTypeOK
  <2>. QED
    BY <1>1, <2>2, <2>3 DEF DirectorTypes, DirectorTypeOK, OnFile, Good
<1>. QED
  BY <1>2, <1>3

LEMMA StartKeepsDirectorTypes ==
  ASSUME DirectorTypes,
         \/ DirectorClicks
         \/ \E s \in starts : StartSettles(s)
         \/ \E p \in posts : PostLands(p) \/ PostLost(p)
  PROVE  DirectorTypes'
<1>1. ASSUME NEW d \in DayNumbers, HandleStartDay(d) PROVE DirectorTypes'
  <2>1. /\ UNCHANGED <<loadedConfig, configPending, summary, shownCompleted>>
        /\ crossed' \in BOOLEAN /\ shownDay' \in {d, shownDay}
        /\ starts' \in {starts, starts \cup {NewStart(d)}}
        /\ posts' \in {posts, posts \cup {[index |-> d, completed |-> shownCompleted]}}
    BY <1>1 DEF HandleStartDay, PostActiveDay, DirectorTypes, DirectorTypeOK
  <2>2. NewStart(d) \in Start /\ [index |-> d, completed |-> shownCompleted] \in ActiveDay
    BY <1>1, NewStartTypes, ActiveDayFacts DEF HandleStartDay, DirectorTypes, DirectorTypeOK
  <2>. QED
    BY <2>1, <2>2 DEF DirectorTypes, DirectorTypeOK, OnFile, Good
<1>2. CASE HandleMarkComplete
  <2>1. /\ UNCHANGED <<loadedConfig, configPending, summary, shownDay, starts>>
        /\ crossed' \in BOOLEAN /\ shownCompleted' = shownCompleted \cup {shownDay}
        /\ posts' = posts \cup {[index |-> shownDay, completed |-> shownCompleted']}
    BY <1>2 DEF HandleMarkComplete, PostActiveDay, DirectorTypes, DirectorTypeOK
  <2>2. shownCompleted' \in SUBSET DayNumbers
    BY <2>1 DEF DirectorTypes, DirectorTypeOK
  <2>3. [index |-> shownDay, completed |-> shownCompleted'] \in ActiveDay
    BY <2>2, ActiveDayFacts DEF DirectorTypes, DirectorTypeOK
  <2>. QED
    BY <2>1, <2>2, <2>3 DEF DirectorTypes, DirectorTypeOK, OnFile, Good
<1>3. ASSUME NEW s \in starts, StartSettles(s) PROVE DirectorTypes'
  <2>1. /\ UNCHANGED <<loadedConfig, configPending, summary, shownCompleted>>
        /\ crossed' \in BOOLEAN /\ shownDay' \in {s.day, shownDay}
        /\ starts' = starts \ {s}
        /\ posts' \in {posts, posts \cup {[index |-> s.day, completed |-> s.completed]}}
    BY <1>3 DEF StartSettles, PostsDayStarted, PostActiveDay, DirectorTypes, DirectorTypeOK
  <2>2. s.day \in DayNumbers /\ s.completed \in SUBSET DayNumbers
    BY DEF DirectorTypes, DirectorTypeOK, Start
  <2>3. [index |-> s.day, completed |-> s.completed] \in ActiveDay
    BY <2>2, ActiveDayFacts
  <2>. QED
    BY <2>1, <2>2, <2>3 DEF DirectorTypes, DirectorTypeOK, OnFile, Good
<1>4. ASSUME NEW p \in posts, PostLands(p) \/ PostLost(p) PROVE DirectorTypes'
  <2>1. /\ UNCHANGED <<loadedConfig, configPending, summary, shownDay, shownCompleted, starts>>
        /\ crossed' \in BOOLEAN /\ posts' = posts \ {p}
    BY <1>4 DEF PostLands, PostLost, DirectorTypes, DirectorTypeOK
  <2>. QED
    BY <2>1 DEF DirectorTypes, DirectorTypeOK, OnFile, Good
<1>. QED
  BY <1>1, <1>2, <1>3, <1>4 DEF DirectorClicks

LEMMA JobsKeepDirectorTypes ==
  ASSUME DirectorTypes, NEW s \in starts, NEW i \in Slots,
         JobTested(s, i) \/ JobFails(s, i) \/ JobStored(s, i) \/ JobStoreLost(s, i)
  PROVE  DirectorTypes' /\ ServiceOp
<1>1. s \in Start
  BY DEF DirectorTypes, DirectorTypeOK
<1>2. PICK state \in JobStates : JobBecomes(s, i, state)
  BY DEF JobTested, JobFails, JobStored, JobStoreLost, JobStates
<1>3. [s EXCEPT !.jobs[i] = state] \in Start
  <2>. DEFINE jobs == [s.jobs EXCEPT ![i] = state]
  <2>1. s.jobs \in [Slots -> JobStates \cup {"none"}]
    BY <1>1 DEF Start
  <2>2. jobs \in [Slots -> JobStates \cup {"none"}]
    BY <2>1
  <2>3. [s EXCEPT !.jobs[i] = state] = [s EXCEPT !.jobs = jobs]
    OBVIOUS
  <2>. HIDE DEF jobs
  <2>. QED
    BY <1>1, <2>2, <2>3 DEF Start
<1>4. DirectorTypes'
  <2>1. /\ UNCHANGED <<loadedConfig, configPending, summary, shownDay, shownCompleted, posts,
                       crossed>>
        /\ starts' = (starts \ {s}) \cup {[s EXCEPT !.jobs[i] = state]}
    BY <1>2 DEF JobBecomes
  <2>. QED
    BY <1>3, <2>1 DEF DirectorTypes, DirectorTypeOK, OnFile, Good
<1>5. ServiceOp
  <2>1. s.credentials[i] \in Credentials
    BY <1>1 DEF Start
  <2>. QED
    BY <2>1 DEF JobTested, JobFails, JobStored, JobStoreLost, ServiceOp
<1>. QED
  BY <1>4, <1>5

LEMMA DirectorKeepsTypes ==
  ASSUME ServiceTypes, DirectorTypes, DirectorClicks \/ DirectorAnswers
  PROVE  DirectorTypes' /\ ServiceOp
<1>1. CASE ConfigArrives \/ ConfigFails \/ GetSummary \/ SummaryArrives \/ SummaryFails
  <2>1. ServiceOp
    BY <1>1 DEF ConfigArrives, ConfigFails, GetSummary, SummaryArrives, SummaryFails, ServiceOp
  <2>. QED
    BY <1>1, <2>1, LoadKeepsDirectorTypes
<1>2. CASE DirectorClicks \/ \E s \in starts : StartSettles(s)
  <2>1. ServiceOp
    BY <1>2 DEF DirectorClicks, HandleMarkComplete, HandleStartDay, StartSettles, ServiceOp
  <2>. QED
    BY <1>2, <2>1, StartKeepsDirectorTypes
<1>3. ASSUME NEW p \in posts, PostLands(p) \/ PostLost(p) PROVE DirectorTypes' /\ ServiceOp
  <2>1. p \in ActiveDay
    BY DEF DirectorTypes, DirectorTypeOK
  <2>2. ServiceOp
    BY <1>3, <2>1 DEF PostLands, PostLost, ServiceOp
  <2>. QED
    BY <1>3, <2>2, StartKeepsDirectorTypes
<1>4. ASSUME NEW s \in starts, NEW i \in Slots,
             JobTested(s, i) \/ JobFails(s, i) \/ JobStored(s, i) \/ JobStoreLost(s, i)
      PROVE  DirectorTypes' /\ ServiceOp
  BY <1>4, JobsKeepDirectorTypes
<1>. QED
  BY <1>1, <1>2, <1>3, <1>4 DEF DirectorAnswers

------------------------------------------------------------------------------
(* The whole.                                                              *)

LEMMA FreshKeepsTypes ==
  ASSUME MeetTypes, NEW q, Open(q)
  PROVE  MeetTypes'
<1>1. /\ UNCHANGED serviceVars /\ FreshSetup(q = "setup") /\ FreshDirector(q = "director")
  BY DEF Open
<1>2. ServiceTypes' /\ issued' = issued
  BY <1>1, ServiceStep DEF ServiceOp, MeetTypes, serviceVars
<1>3. SaveTypes'
  BY <1>1, <1>2, EmptyFormFacts DEF FreshSetup, MeetTypes, SaveTypes, Good
<1>4. TestTypes'
  <2>1. \A t \in Test : [t EXCEPT !.of = "left"] \in Test
    BY DEF Test
  <2>2. tests' \subseteq Test
    BY <1>1, <2>1 DEF FreshSetup, MeetTypes, TestTypes
  <2>. QED
    BY <1>1, <2>2 DEF FreshSetup, MeetTypes, TestTypes, Statuses
<1>5. ImportTypes'
  BY <1>1 DEF FreshSetup, ImportTypes
<1>6. DirectorTypes'
  <2>1. \A s \in Start : [s EXCEPT !.here = FALSE] \in Start
    BY DEF Start
  <2>2. \A s \in starts' : s \in Start
    BY <1>1, <2>1 DEF FreshDirector, MeetTypes, DirectorTypes, DirectorTypeOK
  <2>3. summary' \in [phase : {"none", "asked", "answered"}, day : ActiveDay]
    BY <1>1, StartingPoints DEF FreshDirector, AskedSummary, NoSummary
  <2>. QED
    BY <1>1, <2>2, <2>3, BoundFacts DEF FreshDirector, MeetTypes, DirectorTypes, DirectorTypeOK,
       OnFile
<1>. QED
  BY <1>2, <1>3, <1>4, <1>5, <1>6 DEF MeetTypes

LEMMA TypesStep ==
  ASSUME MeetTypes, [MeetNext]_meetVars
  PROVE  MeetTypes'
<1>1. ASSUME NEW q, Open(q) PROVE MeetTypes'
  BY <1>1, FreshKeepsTypes
<1>2. CASE SetupClick \/ SetupAnswer
  <2>1. (SetupClicks \/ SetupAnswers) /\ UNCHANGED directorVars
    BY <1>2 DEF SetupClick, SetupAnswer
  <2>2. ServiceTypes'
    BY <2>1, SetupServiceOp, ServiceStep DEF MeetTypes
  <2>3. SaveTypes' /\ TestTypes' /\ ImportTypes'
    BY <2>1, SetupKeepsSaveTypes, SetupKeepsTestTypes, SetupKeepsImportTypes
       DEF MeetTypes, SaveTypes
  <2>4. DirectorTypes'
    BY <2>1 DEF MeetTypes, DirectorTypes, DirectorTypeOK, directorVars, OnFile, Good
  <2>. QED
    BY <2>2, <2>3, <2>4 DEF MeetTypes
<1>3. CASE DirectorClick \/ DirectorAnswer
  <2>1. (DirectorClicks \/ DirectorAnswers) /\ UNCHANGED setupVars
    BY <1>3 DEF DirectorClick, DirectorAnswer
  <2>2. DirectorTypes' /\ ServiceTypes' /\ issued \in Nat /\ issued' \in Nat /\ issued <= issued'
    BY <2>1, DirectorKeepsTypes, ServiceStep DEF MeetTypes
  <2>3. adminToken' \in 0..issued'
    BY <2>1, <2>2 DEF setupVars, saveVars, MeetTypes, SaveTypes
  <2>4. SaveTypes' /\ TestTypes' /\ ImportTypes'
    BY <2>1, <2>3 DEF setupVars, formVars, testVars, importVars, saveVars, MeetTypes, SaveTypes,
       TestTypes, ImportTypes, Good
  <2>. QED
    BY <2>2, <2>4 DEF MeetTypes
<1>4. CASE BackendRestarts
  <2>1. /\ ForgetEverything /\ UNCHANGED <<setupVars, loadedConfig, configPending, summary,
                                           shownDay, shownCompleted, starts, posts>>
        /\ crossed' = TRUE
    BY <1>4 DEF BackendRestarts
  <2>2. ServiceTypes' /\ issued' = issued
    BY <2>1, ServiceStep DEF ServiceOp, MeetTypes, ForgetEverything
  <2>3. SaveTypes' /\ TestTypes' /\ ImportTypes'
    BY <2>1, <2>2 DEF setupVars, formVars, testVars, importVars, saveVars, MeetTypes, SaveTypes,
       TestTypes, ImportTypes, Good
  <2>4. DirectorTypes'
    BY <2>1 DEF MeetTypes, DirectorTypes, DirectorTypeOK, OnFile, Good
  <2>. QED
    BY <2>2, <2>3, <2>4 DEF MeetTypes
<1>5. CASE UNCHANGED meetVars
  <2>1. ServiceTypes' /\ issued' = issued
    BY <1>5, ServiceStep DEF ServiceOp, MeetTypes, meetVars, serviceVars
  <2>2. SaveTypes' /\ TestTypes' /\ ImportTypes'
    BY <1>5, <2>1 DEF meetVars, setupVars, formVars, testVars, importVars, saveVars, MeetTypes,
       SaveTypes, TestTypes, ImportTypes, Good
  <2>3. DirectorTypes'
    BY <1>5 DEF meetVars, directorVars, MeetTypes, DirectorTypes, DirectorTypeOK, OnFile, Good
  <2>. QED
    BY <2>1, <2>2, <2>3 DEF MeetTypes
<1>. QED
  BY <1>1, <1>2, <1>3, <1>4, <1>5 DEF MeetNext

LEMMA TypesInit ==
  ASSUME MeetInit
  PROVE  MeetTypes
<1>1. SetupInit /\ DirectorInit
  BY DEF MeetInit
<1>2. ServiceTypes /\ adminToken \in 0..issued
  <2>1. CASE ServiceInit /\ adminToken = NoToken
    BY <2>1, StartingPoints, BoundFacts DEF ServiceInit, ServiceTypes, ServiceTypeOK, OnFile,
       NoToken
  <2>2. CASE /\ config \in SavedForms /\ adminPassword \in AdminPasswords
             /\ validTokens = {1} /\ issued = 1 /\ adminToken = 1
             /\ activeDay = FirstDay /\ sessions = [i \in Slots |-> NoSession]
    <3>1. Good(config)
      BY <2>2, MeetBounds DEF Good
    <3>2. issued \in 0..MaxTokens /\ validTokens \subseteq 1..issued /\ adminToken \in 0..issued
      BY <2>2, BoundFacts
    <3>. QED
      BY <2>2, <3>1, <3>2, StartingPoints DEF ServiceTypes, ServiceTypeOK, OnFile, Good
  <2>. QED
    BY <2>1, <2>2 DEF MeetInit
<1>3. SaveTypes
  BY <1>1, <1>2, EmptyFormFacts DEF SetupInit, SaveTypes, NotUnlocking
<1>4. TestTypes
  BY <1>1 DEF SetupInit, TestTypes, Statuses
<1>5. ImportTypes
  BY <1>1 DEF SetupInit, ImportTypes
<1>6. DirectorTypes
  BY <1>1, StartingPoints, BoundFacts DEF DirectorInit, DirectorTypes, DirectorTypeOK, OnFile,
     NoSummary
<1>. QED
  BY <1>2, <1>3, <1>4, <1>5, <1>6 DEF MeetTypes

LEMMA TypesInvariant == MeetSpec => []MeetTypes
BY TypesInit, TypesStep, PTL DEF MeetSpec

\* The types of a meet, and with them the shape of the form on the page: edits,
\* loads and imports leave it as many days as it says, and as many platforms on
\* each (resizeDays, handleImport).
THEOREM MeetTypesAlways == MeetSpec => []MeetTypeOK
<1>1. MeetTypes => MeetTypeOK
  BY DEF MeetTypes, ServiceTypes, SaveTypes, TestTypes, Statuses, ImportTypes, DirectorTypes,
     MeetTypeOK, Good
<1>. QED
  BY <1>1, TypesInvariant, PTL

\* Every form that is saved, or about to be, or that the director works with,
\* has that shape too: no day or platform is looked up that is not there
\* (handleSave, handleUnlockSubmit, handleStartDay).
THEOREM SavedFormsFit ==
  MeetSpec => [](\A f \in {config, unlocking.form, loadedConfig} \cup {s.form : s \in saves} :
                   f = NoConfig \/ (f \in Form /\ FitsItself(f)))
<1>1. MeetTypes => \A f \in {config, unlocking.form, loadedConfig} \cup {s.form : s \in saves} :
                     f = NoConfig \/ (f \in Form /\ FitsItself(f))
  BY DEF MeetTypes, ServiceTypes, SaveTypes, DirectorTypes, OnFile, Good
<1>. QED
  BY <1>1, TypesInvariant, PTL

------------------------------------------------------------------------------
(* Imported days match.                                                    *)

\* As long as the primary meet does not change while its list is fetched, the
\* platforms on the page, those under way and those of an import are its own.
ImportInv ==
  ~overlapped =>
    /\ preview \in {NoMeet, Primary(selected)}
    /\ listing \subseteq {Primary(selected)}
    /\ importing # NoImport => importing.meets[1] = importing.preview

LEMMA SetupKeepsImports ==
  ASSUME ImportTypes, ImportInv, SetupClicks \/ SetupAnswers
  PROVE  ImportInv'
<1>1. CASE HandleBrowse
  BY <1>1 DEF HandleBrowse, ImportInv
<1>2. CASE BrowseAnswered
  BY <1>2 DEF BrowseAnswered, ImportInv, Primary
<1>3. ASSUME NEW m \in Meets, HandleToggleMeet(m) PROVE ImportInv'
  <2>1. /\ UNCHANGED importing
        /\ \/ Primary(selected') = Primary(selected) /\ UNCHANGED <<preview, listing, overlapped>>
           \/ /\ preview' = NoMeet
              /\ listing' = listing \cup ({Primary(selected')} \ {NoMeet})
              /\ overlapped' = (overlapped \/ listing # {})
    BY <1>3 DEF HandleToggleMeet
  <2>. QED
    BY <2>1 DEF ImportInv, Primary
<1>4. ASSUME NEW m \in Meets, ListArrives(m) \/ ListFails(m) PROVE ImportInv'
  <2>1. /\ UNCHANGED <<selected, importing, overlapped>> /\ m \in listing
        /\ listing' = listing \ {m} /\ preview' \in {preview, m}
    BY <1>4 DEF ListArrives, ListFails
  <2>. QED
    BY <2>1 DEF ImportInv, Primary
<1>5. CASE HandleImport
  <2>1. /\ importing' = [meets |-> InOrder(selected), preview |-> preview]
        /\ selected # {} /\ preview # NoMeet /\ UNCHANGED <<selected, listing, preview, overlapped>>
    BY <1>5 DEF HandleImport
  <2>2. Primary(selected) = InOrder(selected)[1]
    BY <2>1, PrimaryFacts DEF ImportTypes
  <2>. QED
    BY <2>1, <2>2 DEF ImportInv, Primary
<1>6. CASE ImportArrives \/ ImportFails
  BY <1>6 DEF ImportArrives, ImportFails, ImportInv, Primary
<1>7. CASE UNCHANGED importVars
  BY <1>7 DEF importVars, ImportInv, Primary
<1>8. CASE \/ Editing
           \/ \E d \in DOMAIN form.days : \E i \in DOMAIN form.days[d].ids :
                HandleTestConnection(d, i)
           \/ HandleSave \/ CancelUnlock \/ \E pw \in AdminPasswords : HandleUnlockSubmit(pw)
  BY <1>7, <1>8, EditingForgets DEF HandleTestConnection, HandleSave, CancelUnlock,
     HandleUnlockSubmit
<1>9. CASE \/ LoadArrives
           \/ \E t \in tests : TestAnswered(t) \/ TestFails(t)
           \/ \E d \in DayNumbers, i \in Slots : TestGoesIdle(d, i)
           \/ \E s \in stores : StoreArrives(s) \/ StoreLost(s)
           \/ \E s \in saves : SaveAnswered(s) \/ SaveLost(s)
           \/ UnlockAnswered \/ UnlockLost
  BY <1>7, <1>9 DEF LoadArrives, TestAnswered, TestFails, TestGoesIdle, StoreArrives, StoreLost,
     SaveAnswered, SaveLost, UnlockAnswered, UnlockLost
<1>. QED
  BY <1>1, <1>2, <1>3, <1>4, <1>5, <1>6, <1>8, <1>9 DEF SetupClicks, SetupAnswers

LEMMA ImportsStep ==
  ASSUME MeetTypes, ImportInv, [MeetNext]_meetVars
  PROVE  ImportInv'
<1>1. ASSUME NEW q, Open(q) PROVE ImportInv'
  BY <1>1 DEF Open, FreshSetup, ImportInv
<1>2. CASE SetupClick \/ SetupAnswer
  BY <1>2, SetupKeepsImports DEF SetupClick, SetupAnswer, MeetTypes
<1>3. CASE DirectorClick \/ DirectorAnswer \/ BackendRestarts \/ UNCHANGED meetVars
  <2>1. UNCHANGED importVars
    BY <1>3 DEF DirectorClick, DirectorAnswer, BackendRestarts, meetVars, setupVars
  <2>. QED
    BY <2>1 DEF importVars, ImportInv, Primary
<1>. QED
  BY <1>1, <1>2, <1>3 DEF MeetNext

LEMMA ImportsInvariant == MeetSpec => []ImportInv
<1>1. MeetInit => ImportInv
  BY DEF MeetInit, SetupInit, ImportInv
<1>. QED
  BY <1>1, ImportsStep, TypesInvariant, PTL DEF MeetSpec

LEMMA ImportMatches ==
  ASSUME MeetTypes, ImportInv, ImportArrives, ~overlapped,
         NEW d \in DOMAIN form'.days, NEW i \in DOMAIN form'.days[d].ids
  PROVE  form'.days[d].ids[i].meet \in {form'.days[d].meet, NoMeet}
<1>1. importing # NoImport /\ importing.meets[1] = importing.preview
  BY DEF ImportArrives, ImportInv
<1>. DEFINE days == [e \in 1..Len(importing.meets) |-> ImportedDay(e)]
<1>2. form'.days = days
  <2>1. form' = [form EXCEPT !.numDays = Len(importing.meets),
                             !.numPlatforms = PlatformCount[importing.preview], !.days = days]
    BY DEF ImportArrives
  <2>. HIDE DEF days
  <2>. QED
    BY <2>1 DEF MeetTypes, SaveTypes, Good, Form
<1>3. d \in 1..Len(importing.meets) /\ form'.days[d] = ImportedDay(d)
  BY <1>2
<1>4. ImportedDay(d).meet = importing.meets[d] /\ PlatformsOfDay(d) = importing.meets[d]
  BY <1>1 DEF ImportedDay, PlatformsOfDay
<1>5. ImportedDay(d).ids[i] \in {NoId, [meet |-> importing.meets[d], number |-> i]}
  BY <1>3, <1>4 DEF ImportedDay
<1>. QED
  BY <1>3, <1>4, <1>5 DEF NoId

\* An import that no change of the primary meet overlapped gives each day the
\* platforms of its own meet.
THEOREM ImportedDaysMatchAlways == MeetSpec => ImportedDaysMatch
<1>1. ASSUME MeetTypes, ImportInv
      PROVE  ImportArrives /\ ~overlapped =>
               \A d \in DOMAIN form'.days : \A i \in DOMAIN form'.days[d].ids :
                 form'.days[d].ids[i].meet \in {form'.days[d].meet, NoMeet}
  BY <1>1, ImportMatches
<1>. QED
  BY <1>1, TypesInvariant, ImportsInvariant, PTL DEF MeetSpec, ImportedDaysMatch

------------------------------------------------------------------------------
(* The password of a day that stays.                                       *)

LEMMA DaysChangeKeepsPassword ==
  ASSUME Good(form), NEW n \in DayNumbers, HandleNumDaysChange(n),
         NEW d \in DOMAIN form.days \cap DOMAIN form'.days
  PROVE  EffectivePassword(form', d) = EffectivePassword(form, d)
<1>. DEFINE days == ResizeDays(form.days, n, form.numPlatforms)
            pw == IF n > 1 THEN PromotedPassword ELSE form.password
<1>1. /\ form.numDays \in DayNumbers /\ form.numPlatforms \in Slots
      /\ DOMAIN form.days = 1..form.numDays
  BY GoodFacts
<1>2. /\ DOMAIN days = 1..n
      /\ \A e \in (1..n) \cap DOMAIN form.days : days[e].password = form.days[e].password
      /\ \A e \in 1..n : GoodDay(days[e], form.numPlatforms)
  <2>1. Resized(days, form, n, form.numPlatforms)
    BY <1>1, ResizeFacts
  <2>. HIDE DEF days
  <2>. QED
    BY <2>1 DEF Resized
<1>3. CASE form.numDays > 1 /\ n = 1 /\ ~form.perDay
  <2>. DEFINE one == <<[days[1] EXCEPT !.password = form.password]>>
  <2>1. form' = [form EXCEPT !.numDays = 1, !.days = one]
    BY <1>3 DEF HandleNumDaysChange, Edit
  <2>2. days[1] \in Day
    BY <1>2, <1>3 DEF GoodDay
  <2>. HIDE DEF days
  <2>3. DOMAIN one = {1} /\ one[1].password = form.password
    BY <2>2 DEF Day
  <2>. HIDE DEF one
  <2>4. form'.numDays = 1 /\ form'.days = one
    BY <2>1 DEF Good, Form
  <2>5. d = 1 /\ EffectivePassword(form', d) = form.password
    BY <2>3, <2>4 DEF EffectivePassword
  <2>. QED
    BY <1>3, <2>5 DEF EffectivePassword
<1>4. CASE ~(form.numDays > 1 /\ n = 1 /\ ~form.perDay)
  <2>1. form' = [form EXCEPT !.numDays = n, !.days = days, !.password = pw]
    BY <1>4 DEF HandleNumDaysChange, Edit
  <2>. HIDE DEF days, pw
  <2>2. /\ form'.numDays = n /\ form'.days = days /\ form'.password = pw
        /\ form'.perDay = form.perDay
    BY <2>1 DEF Good, Form
  <2>3. d \in (1..n) \cap DOMAIN form.days /\ days[d].password = form.days[d].password
    BY <1>2, <2>2
  <2>4. n \in Nat /\ form.numDays \in Nat /\ n # 0 /\ form.numDays # 0
    BY <1>1 DEF DayNumbers
  <2>5. CASE form.perDay
    BY <2>2, <2>3, <2>5 DEF EffectivePassword
  <2>6. CASE ~form.perDay /\ n = 1
    <3>1. form.numDays = 1
      BY <1>4, <2>4, <2>6
    <3>. QED
      BY <2>2, <2>3, <2>6, <3>1 DEF EffectivePassword
  <2>7. CASE ~form.perDay /\ n # 1 /\ form.numDays = 1
    <3>1. d = 1 /\ pw = form.days[1].password
      BY <1>1, <2>3, <2>4, <2>7 DEF pw, PromotedPassword
    <3>. QED
      BY <2>2, <2>7, <3>1 DEF EffectivePassword
  <2>8. CASE ~form.perDay /\ n # 1 /\ form.numDays # 1
    <3>1. pw = form.password
      BY <2>8 DEF pw, PromotedPassword
    <3>. QED
      BY <2>2, <2>8, <3>1 DEF EffectivePassword
  <2>. QED
    BY <2>5, <2>6, <2>7, <2>8
<1>. QED
  BY <1>3, <1>4

\* A change of the number of days leaves every day that stays the password that
\* counted for it.
THEOREM KeepsPasswordAlways == MeetSpec => KeepsPassword
<1>1. ASSUME MeetTypes
      PROVE  (\E n \in DayNumbers : HandleNumDaysChange(n)) =>
               \A d \in DOMAIN form.days \cap DOMAIN form'.days :
                 EffectivePassword(form', d) = EffectivePassword(form, d)
  BY <1>1, DaysChangeKeepsPassword DEF MeetTypes, SaveTypes
<1>. QED
  BY <1>1, TypesInvariant, PTL DEF MeetSpec, KeepsPassword

------------------------------------------------------------------------------
(* Edits take results down.                                                *)

\* Where both forms have a platform.
Both(d, i) ==
  /\ d \in DOMAIN form.days \cap DOMAIN form'.days
  /\ i \in DOMAIN form.days[d].ids \cap DOMAIN form'.days[d].ids

Same(d, i) == CredentialsOf(form', d, i) = CredentialsOf(form, d, i)

TakenDown ==
  \A d \in DOMAIN form.days \cap DOMAIN form'.days :
    \A i \in DOMAIN form.days[d].ids \cap DOMAIN form'.days[d].ids :
      ~Same(d, i) => status'[d][i] \notin {"success", "error"}

\* It is enough to reset the results of all that changes.
LEMMA ForgetsEnough ==
  ASSUME Good(form), NEW keys, ForgetTests(keys),
         \A d, i : Both(d, i) /\ <<d, i>> \notin keys => Same(d, i)
  PROVE  TakenDown
<1>. SUFFICES ASSUME NEW d, NEW i, Both(d, i), ~Same(d, i)
              PROVE  status'[d][i] \notin {"success", "error"}
  BY DEF TakenDown, Both
<1>1. <<d, i>> \in keys
  OBVIOUS
<1>2. d \in DayNumbers /\ i \in Slots
  BY CredentialsFacts DEF Both
<1>. QED
  BY <1>1, <1>2 DEF ForgetTests

LEMMA ForgetsAll ==
  ASSUME Good(form), ForgetTests(Keys)
  PROVE  TakenDown
<1>1. \A d, i : Both(d, i) => <<d, i>> \in Keys
  BY CredentialsFacts DEF Both, Keys
<1>. QED
  BY <1>1, ForgetsEnough

LEMMA DaysChangeTakesDown ==
  ASSUME Good(form), NEW n \in DayNumbers, HandleNumDaysChange(n)
  PROVE  TakenDown
<1>. DEFINE days == ResizeDays(form.days, n, form.numPlatforms)
            pw == IF n > 1 THEN PromotedPassword ELSE form.password
<1>1. CASE form.numDays > 1 /\ n = 1 /\ ~form.perDay
  BY <1>1, ForgetsAll DEF HandleNumDaysChange
<1>2. CASE ~(form.numDays > 1 /\ n = 1 /\ ~form.perDay)
  <2>1. form' = [form EXCEPT !.numDays = n, !.days = days, !.password = pw]
    BY <1>2 DEF HandleNumDaysChange, Edit
  <2>2. /\ form.numDays \in DayNumbers /\ form.numPlatforms \in Slots
        /\ DOMAIN form.days = 1..form.numDays
        /\ \A d \in 1..form.numDays : GoodDay(form.days[d], form.numPlatforms)
    BY GoodFacts
  <2>3. Resized(days, form, n, form.numPlatforms)
    BY <2>2, ResizeFacts
  <2>. HIDE DEF days, pw
  <2>4. form'.days = days
    BY <2>1 DEF Good, Form
  <2>5. ASSUME NEW d, NEW i, Both(d, i) PROVE Same(d, i)
    <3>1. /\ d \in (1..n) \cap DOMAIN form.days
          /\ i \in (1..form.numPlatforms) \cap DOMAIN form.days[d].ids
      BY <2>2, <2>3, <2>4, <2>5 DEF Both, Resized, GoodDay
    <3>2. days[d].meet = form.days[d].meet /\ days[d].ids[i] = form.days[d].ids[i]
      BY <2>3, <3>1 DEF Resized
    <3>3. EffectivePassword(form', d) = EffectivePassword(form, d)
      BY <2>5, DaysChangeKeepsPassword DEF Both
    <3>. QED
      BY <2>4, <3>2, <3>3 DEF Same, CredentialsOf
  <2>. QED
    BY <2>5 DEF TakenDown, Both
<1>. QED
  BY <1>1, <1>2

LEMMA PlatformsChangeTakesDown ==
  ASSUME Good(form), NEW np \in Slots, HandleNumPlatformsChange(np)
  PROVE  TakenDown
<1>. DEFINE days == ResizeDays(form.days, form.numDays, np)
<1>1. form' = [form EXCEPT !.numPlatforms = np, !.days = days]
  BY DEF HandleNumPlatformsChange, Edit
<1>2. form.numDays \in DayNumbers /\ DOMAIN form.days = 1..form.numDays
  BY GoodFacts
<1>3. Resized(days, form, form.numDays, np)
  BY <1>2, ResizeFacts
<1>. HIDE DEF days
<1>4. /\ form'.days = days /\ form'.numDays = form.numDays /\ form'.perDay = form.perDay
      /\ form'.password = form.password
  BY <1>1 DEF Good, Form
<1>5. ASSUME NEW d, NEW i, Both(d, i) PROVE Same(d, i)
  <2>1. d \in (1..form.numDays) \cap DOMAIN form.days /\ i \in (1..np) \cap DOMAIN form.days[d].ids
    BY <1>2, <1>3, <1>4, <1>5 DEF Both, Resized, GoodDay
  <2>2. /\ days[d].meet = form.days[d].meet /\ days[d].password = form.days[d].password
        /\ days[d].ids[i] = form.days[d].ids[i]
    BY <1>3, <2>1 DEF Resized
  <2>3. EffectivePassword(form', d) = EffectivePassword(form, d)
    BY <1>4, <2>2 DEF EffectivePassword
  <2>. QED
    BY <1>4, <2>2, <2>3 DEF Same, CredentialsOf
<1>. QED
  BY <1>5 DEF TakenDown, Both

LEMMA DayPasswordTakesDown ==
  ASSUME Good(form), NEW e \in DOMAIN form.days, NEW pw, UpdateDayPassword(e, pw)
  PROVE  TakenDown
<1>. DEFINE days == [form.days EXCEPT ![e] = [form.days[e] EXCEPT !.password = pw]]
<1>1. /\ form' = [form EXCEPT !.days = days]
      /\ ForgetTests({e} \X (1..form.numPlatforms))
  BY DEF UpdateDayPassword, Edit
<1>2. /\ DOMAIN form.days = 1..form.numDays
      /\ \A d \in 1..form.numDays : GoodDay(form.days[d], form.numPlatforms)
  BY GoodFacts
<1>3. DOMAIN days = DOMAIN form.days /\ \A d \in DOMAIN form.days : d # e => days[d] = form.days[d]
  OBVIOUS
<1>. HIDE DEF days
<1>4. /\ form'.days = days /\ form'.numDays = form.numDays /\ form'.perDay = form.perDay
      /\ form'.password = form.password
  BY <1>1 DEF Good, Form
<1>5. ASSUME NEW d, NEW i, Both(d, i), <<d, i>> \notin {e} \X (1..form.numPlatforms)
      PROVE  Same(d, i)
  <2>1. d \in DOMAIN form.days /\ i \in 1..form.numPlatforms /\ d # e
    BY <1>2, <1>5 DEF Both, GoodDay
  <2>2. days[d] = form.days[d]
    BY <1>3, <2>1
  <2>3. EffectivePassword(form', d) = EffectivePassword(form, d)
    BY <1>4, <2>2 DEF EffectivePassword
  <2>. QED
    BY <1>4, <2>2, <2>3 DEF Same, CredentialsOf
<1>. QED
  BY <1>1, <1>5, ForgetsEnough

LEMMA EditingTakesDown ==
  ASSUME Good(form), Editing \/ ImportArrives
  PROVE  TakenDown
<1>1. ASSUME NEW checked \in BOOLEAN, HandlePerDayPasswordsChange(checked) PROVE TakenDown
  BY <1>1, ForgetsAll DEF HandlePerDayPasswordsChange
<1>2. ASSUME NEW pw \in Passwords, SetPassword(pw) PROVE TakenDown
  BY <1>2, ForgetsAll DEF SetPassword
<1>3. ASSUME NEW d \in DOMAIN form.days, NEW m \in Meets, UpdateDayMeetId(d, m) PROVE TakenDown
  BY <1>3, ForgetsAll DEF UpdateDayMeetId
<1>4. ASSUME NEW d \in DOMAIN form.days, NEW i \in DOMAIN form.days[d].ids, NEW id,
             UpdatePlatformId(d, i, id)
      PROVE  TakenDown
  BY <1>4, ForgetsAll DEF UpdatePlatformId
<1>5. CASE ImportArrives
  BY <1>5, ForgetsAll DEF ImportArrives
<1>. QED
  BY <1>1, <1>2, <1>3, <1>4, <1>5, DaysChangeTakesDown, PlatformsChangeTakesDown,
     DayPasswordTakesDown DEF Editing

\* Whatever is edited or imported, a platform whose credentials it changes shows
\* no result of a test any more (resetAllTestStatuses, clearDayKeys, and the two
\* changes of size that keep results because they keep the credentials).
THEOREM EditsTakeResultsDownAlways == MeetSpec => EditsTakeResultsDown
<1>1. ASSUME MeetTypes
      PROVE  Editing \/ ImportArrives =>
               \A d \in DOMAIN form.days \cap DOMAIN form'.days :
                 \A i \in DOMAIN form.days[d].ids \cap DOMAIN form'.days[d].ids :
                   CredentialsOf(form', d, i) # CredentialsOf(form, d, i) =>
                     status'[d][i] \notin {"success", "error"}
  BY <1>1, EditingTakesDown DEF MeetTypes, SaveTypes, TakenDown, Same
<1>. QED
  BY <1>1, TypesInvariant, PTL DEF MeetSpec, EditsTakeResultsDown

------------------------------------------------------------------------------
(* Sessions on their way.                                                  *)

\* What the fields of a start are, as far as the proofs need it.
StartShape(s) ==
  /\ s = [day |-> s.day, completed |-> s.completed, here |-> s.here,
          credentials |-> s.credentials, jobs |-> s.jobs]
  /\ s.jobs \in [Slots -> JobStates \cup {"none"}]

Stored(s) == \A i \in Slots : s.jobs[i] = "storing" => Accepts(s.credentials[i])

\* Whatever is on its way into the sessions has been accepted.
SessionsInv ==
  /\ sessions = [i \in Slots |-> sessions[i]]
  /\ SessionsVerified
  /\ \A s \in stores : Accepts(s.credentials)
  /\ \A s \in starts : StartShape(s) /\ Stored(s)

------------------------------------------------------------------------------
(* Lemmas on the parts.                                                    *)

LEMMA StoreKeeps ==
  ASSUME SessionsInv, NEW i, NEW c, StoreSession(i, c), Accepts(c)
  PROVE  sessions' = [k \in Slots |-> sessions'[k]] /\ SessionsVerified'
<1>1. sessions' = [sessions EXCEPT ![i] = c]
  BY DEF StoreSession
<1>2. \A k \in Slots : sessions'[k] \in {sessions[k], c}
  BY <1>1 DEF SessionsInv
<1>3. sessions' = [k \in Slots |-> sessions'[k]]
  BY <1>1 DEF SessionsInv
<1>4. SessionsVerified'
  BY <1>2 DEF SessionsInv, SessionsVerified, Accepts, NoSession
<1>. QED
  BY <1>3, <1>4

LEMMA JobShape ==
  ASSUME NEW s, StartShape(s), Stored(s), NEW i \in Slots, NEW state \in JobStates,
         state = "storing" => Accepts(s.credentials[i])
  PROVE  LET n == [s EXCEPT !.jobs[i] = state] IN
         /\ StartShape(n) /\ Stored(n)
         /\ n.day = s.day /\ n.completed = s.completed /\ n.here = s.here
<1>. DEFINE n == [s EXCEPT !.jobs[i] = state]
            jobs == [s.jobs EXCEPT ![i] = state]
<1>1. n = [day |-> s.day, completed |-> s.completed, here |-> s.here,
           credentials |-> s.credentials, jobs |-> jobs]
  <2>1. n = [s EXCEPT !.jobs = jobs]
    OBVIOUS
  <2>. HIDE DEF n, jobs
  <2>. QED
    BY <2>1 DEF StartShape
<1>0. s.jobs \in [Slots -> JobStates \cup {"none"}]
  BY DEF StartShape
<1>2. jobs \in [Slots -> JobStates \cup {"none"}]
  BY <1>0
<1>3. \A k \in Slots : jobs[k] = IF k = i THEN state ELSE s.jobs[k]
  BY <1>0
<1>. HIDE DEF n, jobs
<1>4. /\ n.day = s.day /\ n.completed = s.completed /\ n.here = s.here
      /\ n.credentials = s.credentials /\ n.jobs = jobs
  BY <1>1
<1>5. StartShape(n)
  BY <1>1, <1>2, <1>4 DEF StartShape
<1>6. Stored(n)
  BY <1>3, <1>4 DEF Stored
<1>. QED
  BY <1>4, <1>5, <1>6 DEF n

LEMMA LeftShape ==
  ASSUME NEW s, StartShape(s), Stored(s)
  PROVE  StartShape([s EXCEPT !.here = FALSE]) /\ Stored([s EXCEPT !.here = FALSE])
<1>. DEFINE n == [s EXCEPT !.here = FALSE]
<1>0. n = [s EXCEPT !.here = FALSE]
  OBVIOUS
<1>. HIDE DEF n
<1>1. n = [day |-> s.day, completed |-> s.completed, here |-> FALSE,
           credentials |-> s.credentials, jobs |-> s.jobs]
  BY <1>0 DEF StartShape
<1>2. /\ n.day = s.day /\ n.completed = s.completed /\ n.here = FALSE
      /\ n.credentials = s.credentials /\ n.jobs = s.jobs
  BY <1>1
<1>3. StartShape(n)
  BY <1>1, <1>2 DEF StartShape
<1>4. Stored(n)
  BY <1>2 DEF Stored
<1>. QED
  BY <1>3, <1>4 DEF n

LEMMA NewShape ==
  ASSUME NEW d
  PROVE  /\ StartShape(NewStart(d)) /\ Stored(NewStart(d))
         /\ NewStart(d).day = d /\ NewStart(d).completed = shownCompleted
         /\ NewStart(d).here = TRUE
<1>. DEFINE jobs == [i \in Slots |-> IF i \in Linked(d) THEN "testing" ELSE "none"]
<1>1. jobs \in [Slots -> JobStates \cup {"none"}] /\ \A i \in Slots : jobs[i] # "storing"
  BY DEF JobStates
<1>2. NewStart(d).jobs = jobs /\ NewStart(d).day = d /\ NewStart(d).here = TRUE
      /\ NewStart(d).completed = shownCompleted
  BY DEF NewStart
<1>3. NewStart(d) = [day |-> NewStart(d).day, completed |-> NewStart(d).completed,
                     here |-> NewStart(d).here, credentials |-> NewStart(d).credentials,
                     jobs |-> NewStart(d).jobs]
  BY DEF NewStart
<1>. HIDE DEF jobs
<1>. QED
  BY <1>1, <1>2, <1>3 DEF StartShape, Stored

------------------------------------------------------------------------------
(* The setup page.                                                         *)

\* Clicks leave the backend alone, and what is on its way to it.
LEMMA SetupClicksFacts ==
  ASSUME SetupClicks
  PROVE  UNCHANGED <<activeDay, sessions, stores>>
<1>1. CASE Editing
  BY <1>1 DEF Editing, HandleNumDaysChange, HandleNumPlatformsChange,
     HandlePerDayPasswordsChange, SetPassword, UpdateDayPassword, UpdateDayMeetId,
     UpdatePlatformId, Edit, serviceVars
<1>2. CASE \E d \in DOMAIN form.days : \E i \in DOMAIN form.days[d].ids :
             HandleTestConnection(d, i)
  BY <1>2 DEF HandleTestConnection, serviceVars
<1>3. CASE HandleBrowse \/ (\E m \in Meets : HandleToggleMeet(m)) \/ HandleImport
  BY <1>3 DEF HandleBrowse, HandleToggleMeet, HandleImport, serviceVars
<1>4. CASE HandleSave \/ (\E pw \in AdminPasswords : HandleUnlockSubmit(pw)) \/ CancelUnlock
  BY <1>4 DEF HandleSave, HandleUnlockSubmit, CancelUnlock, serviceVars
<1>. QED
  BY <1>1, <1>2, <1>3, <1>4 DEF SetupClicks

\* A test that LiftingCast accepted adds a session to those on their way; one
\* that arrives is stored, and nothing else touches them or the active day.
LEMMA SetupAnswersFacts ==
  ASSUME SetupAnswers
  PROVE  /\ activeDay' = activeDay
         /\ \/ UNCHANGED <<sessions, stores>>
            \/ /\ UNCHANGED sessions
               /\ \E t \in tests :
                    /\ Accepts(t.credentials)
                    /\ stores' = stores \cup {[slot |-> t.slot, credentials |-> t.credentials]}
            \/ \E s \in stores :
                 /\ stores' = stores \ {s}
                 /\ UNCHANGED sessions \/ StoreSession(s.slot, s.credentials)
<1>1. CASE LoadArrives
  BY <1>1 DEF LoadArrives, serviceVars
<1>2. ASSUME NEW t \in tests, TestAnswered(t)
      PROVE  /\ activeDay' = activeDay /\ UNCHANGED sessions
             /\ Accepts(t.credentials)
             /\ stores' = stores \cup {[slot |-> t.slot, credentials |-> t.credentials]}
  BY <1>2 DEF TestAnswered, SessionTested, serviceVars
<1>3. CASE \/ \E t \in tests : TestFails(t)
           \/ \E d \in DayNumbers, i \in Slots : TestGoesIdle(d, i)
  BY <1>3 DEF TestFails, TestGoesIdle, serviceVars
<1>4. ASSUME NEW s \in stores, StoreArrives(s) \/ StoreLost(s)
      PROVE  /\ activeDay' = activeDay
             /\ stores' = stores \ {s}
             /\ UNCHANGED sessions \/ StoreSession(s.slot, s.credentials)
  BY <1>4 DEF StoreArrives, StoreLost, StoreSession, serviceVars
<1>5. CASE \/ BrowseAnswered \/ ImportArrives \/ ImportFails
           \/ \E m \in Meets : ListArrives(m) \/ ListFails(m)
  BY <1>5 DEF BrowseAnswered, ImportArrives, ImportFails, ListArrives, ListFails, serviceVars
<1>6. ASSUME NEW s \in saves, SaveAnswered(s) \/ SaveLost(s)
      PROVE  UNCHANGED <<activeDay, sessions, stores>>
  BY <1>6 DEF SaveAnswered, SaveLost, Save, serviceVars
<1>7. CASE UnlockAnswered \/ UnlockLost
  BY <1>7 DEF UnlockAnswered, UnlockLost, Unlock, serviceVars
<1>. QED
  BY <1>1, <1>2, <1>3, <1>4, <1>5, <1>6, <1>7 DEF SetupAnswers

------------------------------------------------------------------------------
(* Sessions are verified.                                                  *)

LEMMA JobStep ==
  ASSUME SessionsInv, NEW s \in starts, NEW i \in Slots,
         JobTested(s, i) \/ JobFails(s, i) \/ JobStored(s, i) \/ JobStoreLost(s, i),
         UNCHANGED stores
  PROVE  /\ SessionsInv'
         /\ activeDay' = activeDay
         /\ UNCHANGED <<summary, shownDay, shownCompleted, posts, crossed>>
         /\ \E n : /\ starts' = (starts \ {s}) \cup {n}
                   /\ n.completed = s.completed /\ n.here = s.here
<1>1. StartShape(s) /\ Stored(s)
  BY DEF SessionsInv
<1>2. PICK state \in JobStates :
        /\ starts' = (starts \ {s}) \cup {[s EXCEPT !.jobs[i] = state]}
        /\ UNCHANGED <<summary, shownDay, shownCompleted, posts, crossed>>
        /\ state = "storing" => Accepts(s.credentials[i])
  BY DEF JobTested, JobFails, JobStored, JobStoreLost, JobBecomes, JobStates
<1>. DEFINE n == [s EXCEPT !.jobs[i] = state]
<1>3. StartShape(n) /\ Stored(n) /\ n.completed = s.completed /\ n.here = s.here
  BY <1>1, <1>2, JobShape
<1>4. /\ activeDay' = activeDay
      /\ UNCHANGED sessions \/ (StoreSession(i, s.credentials[i]) /\ Accepts(s.credentials[i]))
  BY <1>1 DEF JobTested, JobFails, JobStored, JobStoreLost, StoreSession, serviceVars, Stored
<1>5. sessions' = [k \in Slots |-> sessions'[k]] /\ SessionsVerified'
  BY <1>4, StoreKeeps DEF SessionsInv, SessionsVerified, Accepts
<1>. HIDE DEF n
<1>6. starts' = (starts \ {s}) \cup {n}
  BY <1>2 DEF n
<1>7. \A t \in starts' : StartShape(t) /\ Stored(t)
  BY <1>3, <1>6 DEF SessionsInv
<1>8. \A t \in stores' : Accepts(t.credentials)
  BY DEF SessionsInv
<1>9. SessionsInv'
  BY <1>5, <1>7, <1>8 DEF SessionsInv, Stored, Accepts, StartShape, JobStates, Slots
<1>. QED
  BY <1>2, <1>3, <1>4, <1>6, <1>9

\* A start is new, goes on as it was, or is gone.
LEMMA StartsKeep ==
  ASSUME SessionsInv, UNCHANGED <<sessions, stores>>,
         \A t \in starts' : t \in starts \/ (StartShape(t) /\ Stored(t))
  PROVE  SessionsInv'
<1>1. \A t \in starts' : StartShape(t) /\ Stored(t)
  BY DEF SessionsInv
<1>2. SessionsVerified'
  BY DEF SessionsInv, SessionsVerified, Accepts
<1>3. sessions' = [k \in Slots |-> sessions'[k]]
  BY DEF SessionsInv
<1>4. \A t \in stores' : Accepts(t.credentials)
  BY DEF SessionsInv
<1>. QED
  BY <1>1, <1>2, <1>3, <1>4 DEF SessionsInv, Stored, Accepts, StartShape, JobStates, Slots

LEMMA SetupKeepsSessions ==
  ASSUME SessionsInv, SetupClicks \/ SetupAnswers, UNCHANGED starts
  PROVE  SessionsInv'
<1>1. CASE UNCHANGED <<sessions, stores>>
  BY <1>1, StartsKeep
<1>2. CASE /\ UNCHANGED sessions
           /\ \E t \in tests :
                /\ Accepts(t.credentials)
                /\ stores' = stores \cup {[slot |-> t.slot, credentials |-> t.credentials]}
  <2>1. \A s \in stores' : Accepts(s.credentials)
    BY <1>2 DEF SessionsInv
  <2>. QED
    BY <1>2, <2>1 DEF SessionsInv, SessionsVerified, Stored, StartShape, Accepts
<1>3. ASSUME NEW s \in stores, stores' = stores \ {s},
             UNCHANGED sessions \/ StoreSession(s.slot, s.credentials)
      PROVE  SessionsInv'
  <2>1. Accepts(s.credentials)
    BY DEF SessionsInv
  <2>2. sessions' = [k \in Slots |-> sessions'[k]] /\ SessionsVerified'
    BY <1>3, <2>1, StoreKeeps DEF SessionsInv, SessionsVerified, Accepts
  <2>3. \A t \in stores' : Accepts(t.credentials)
    BY <1>3 DEF SessionsInv
  <2>. QED
    BY <2>2, <2>3 DEF SessionsInv, Stored, StartShape, Accepts
<1>. QED
  BY <1>1, <1>2, <1>3, SetupClicksFacts, SetupAnswersFacts

\* What the director's page does apart from the jobs of a start.
LEMMA DirectorKeepsSessions ==
  ASSUME SessionsInv, UNCHANGED stores, DirectorClicks \/ DirectorAnswers
  PROVE  SessionsInv'
<1>1. CASE \/ ConfigArrives \/ ConfigFails \/ GetSummary \/ SummaryArrives \/ SummaryFails
           \/ HandleMarkComplete
           \/ \E p \in posts : PostLands(p) \/ PostLost(p)
  <2>1. UNCHANGED <<sessions, starts>>
    BY <1>1 DEF ConfigArrives, ConfigFails, GetSummary, SummaryArrives, SummaryFails,
       HandleMarkComplete, PostActiveDay, PostLands, PostLost, SetActiveDay, serviceVars
  <2>. QED
    BY <2>1, StartsKeep
<1>2. ASSUME NEW d \in DayNumbers, HandleStartDay(d) PROVE SessionsInv'
  <2>1. /\ UNCHANGED sessions
        /\ starts' = starts \/ starts' = starts \cup {NewStart(d)}
    BY <1>2 DEF HandleStartDay, serviceVars
  <2>2. StartShape(NewStart(d)) /\ Stored(NewStart(d))
    BY NewShape
  <2>. HIDE DEF NewStart
  <2>. QED
    BY <2>1, <2>2, StartsKeep
<1>3. ASSUME NEW s \in starts, StartSettles(s) PROVE SessionsInv'
  BY <1>3, StartsKeep DEF StartSettles, serviceVars
<1>4. ASSUME NEW s \in starts, NEW i \in Slots,
             JobTested(s, i) \/ JobFails(s, i) \/ JobStored(s, i) \/ JobStoreLost(s, i)
      PROVE  SessionsInv'
  BY <1>4, JobStep
<1>. QED
  BY <1>1, <1>2, <1>3, <1>4 DEF DirectorClicks, DirectorAnswers

LEMMA SessionsStep ==
  ASSUME SessionsInv, [MeetNext]_meetVars
  PROVE  SessionsInv'
<1>1. ASSUME NEW q, Open(q) PROVE SessionsInv'
  <2>1. /\ UNCHANGED <<sessions, stores>>
        /\ starts' = {[s EXCEPT !.here = FALSE] : s \in starts}
    BY <1>1 DEF Open, FreshSetup, FreshDirector, serviceVars
  <2>2. \A t \in starts' : StartShape(t) /\ Stored(t)
    <3>1. SUFFICES ASSUME NEW s \in starts
                   PROVE  /\ StartShape([s EXCEPT !.here = FALSE])
                          /\ Stored([s EXCEPT !.here = FALSE])
      BY <2>1
    <3>. QED
      BY LeftShape DEF SessionsInv
  <2>. QED
    BY <2>1, <2>2, StartsKeep
<1>2. CASE SetupClick \/ SetupAnswer
  BY <1>2, SetupKeepsSessions DEF SetupClick, SetupAnswer, directorVars
<1>3. CASE DirectorClick \/ DirectorAnswer
  BY <1>3, DirectorKeepsSessions DEF DirectorClick, DirectorAnswer, setupVars
<1>4. CASE BackendRestarts
  <2>1. UNCHANGED <<stores, starts>> /\ sessions' = [i \in Slots |-> NoSession]
    BY <1>4 DEF BackendRestarts, ForgetEverything, setupVars
  <2>. QED
    BY <2>1 DEF SessionsInv, SessionsVerified, Stored, StartShape, Accepts
<1>5. CASE UNCHANGED meetVars
  BY <1>5, StartsKeep DEF meetVars, serviceVars, setupVars, directorVars
<1>. QED
  BY <1>1, <1>2, <1>3, <1>4, <1>5 DEF MeetNext

LEMMA SessionsInvariant == MeetSpec => []SessionsInv
<1>1. MeetInit => SessionsInv
  BY DEF MeetInit, ServiceInit, SetupInit, DirectorInit, SessionsInv, SessionsVerified
<1>. QED
  BY <1>1, SessionsStep, PTL DEF MeetSpec

\* Sessions are only ever stored with credentials LiftingCast accepted, from
\* the setup page and from a day that is started.
THEOREM SessionsVerifiedAlways == MeetSpec => []SessionsVerified
BY SessionsInvariant, PTL DEF SessionsInv

------------------------------------------------------------------------------
(* The director is in step.                                                *)

Pair(x) == x = [index |-> x.index, completed |-> x.completed]
ShownNow == [index |-> shownDay, completed |-> shownCompleted]

\* As long as nothing overlaps, one thing at a time is under way: the summary,
\* a start, or a post of what the page shows.
OneAtATime ==
  /\ summary.phase # "none" => starts = {} /\ posts = {}
  /\ summary.phase = "answered" => summary.day = activeDay
  /\ \A s \in starts : s.here = TRUE /\ s.completed = shownCompleted /\ starts = {s}
  /\ starts # {} => posts = {}
  /\ \A p \in posts : p = ShownNow
  /\ posts = {} /\ summary.phase = "none" => activeDay = ShownNow

DirectorInv ==
  /\ Pair(activeDay)
  /\ \A p \in posts : Pair(p)
  /\ page = "director" /\ ~crossed => OneAtATime

LEMMA DirectorClicksKeep ==
  ASSUME DirectorInv, DirectorClicks, UNCHANGED page
  PROVE  DirectorInv'
<1>1. ASSUME NEW d \in DayNumbers, HandleStartDay(d) PROVE DirectorInv'
  <2>. DEFINE p == [index |-> d, completed |-> shownCompleted]
  <2>0. Pair(p)
    BY DEF Pair
  <2>1. NewStart(d).here = TRUE /\ NewStart(d).completed = shownCompleted
    BY NewShape
  <2>2. /\ activeDay' = activeDay /\ UNCHANGED <<summary, shownCompleted>>
        /\ \/ shownDay' = d /\ posts' = posts \cup {p} /\ UNCHANGED starts
           \/ starts' = starts \cup {NewStart(d)} /\ UNCHANGED <<shownDay, posts>>
        /\ ~crossed' => ~crossed /\ posts = {} /\ starts = {} /\ summary.phase = "none"
    BY <1>1 DEF HandleStartDay, PostActiveDay, Undisturbed, serviceVars
  <2>. HIDE DEF p
  <2>3. Pair(activeDay)' /\ \A x \in posts' : Pair(x)
    BY <2>0, <2>2 DEF DirectorInv, Pair
  <2>4. ASSUME page' = "director", ~crossed' PROVE OneAtATime'
    <3>1. ~crossed /\ posts = {} /\ starts = {} /\ summary.phase = "none" /\ OneAtATime
      BY <2>2, <2>4 DEF DirectorInv
    <3>2. CASE shownDay' = d /\ posts' = posts \cup {p} /\ UNCHANGED starts
      <4>1. posts' = {p} /\ p = ShownNow'
        BY <2>2, <3>1, <3>2 DEF p, ShownNow
      <4>. QED
        BY <2>2, <3>1, <3>2, <4>1 DEF OneAtATime
    <3>3. CASE starts' = starts \cup {NewStart(d)} /\ UNCHANGED <<shownDay, posts>>
      <4>1. starts' = {NewStart(d)} /\ ShownNow' = ShownNow
        BY <2>2, <3>1, <3>3 DEF ShownNow
      <4>. QED
        BY <2>1, <2>2, <3>1, <3>3, <4>1 DEF OneAtATime
    <3>. QED
      BY <2>2, <3>2, <3>3
  <2>. QED
    BY <2>3, <2>4 DEF DirectorInv, Pair
<1>2. CASE HandleMarkComplete
  <2>. DEFINE p == [index |-> shownDay, completed |-> shownCompleted']
  <2>0. Pair(p)
    BY DEF Pair
  <2>1. /\ activeDay' = activeDay /\ UNCHANGED <<summary, shownDay, starts>>
        /\ posts' = posts \cup {p}
        /\ ~crossed' => ~crossed /\ posts = {} /\ starts = {} /\ summary.phase = "none"
    BY <1>2 DEF HandleMarkComplete, PostActiveDay, Undisturbed, serviceVars
  <2>2. p = ShownNow'
    BY <2>1 DEF ShownNow
  <2>. HIDE DEF p
  <2>3. Pair(activeDay)' /\ \A x \in posts' : Pair(x)
    BY <2>0, <2>1 DEF DirectorInv, Pair
  <2>4. ASSUME page' = "director", ~crossed' PROVE OneAtATime'
    <3>1. posts' = {p} /\ starts' = {} /\ summary'.phase = "none"
      BY <2>1, <2>4
    <3>. QED
      BY <2>2, <3>1 DEF OneAtATime
  <2>. QED
    BY <2>3, <2>4 DEF DirectorInv, Pair
<1>. QED
  BY <1>1, <1>2 DEF DirectorClicks

LEMMA SummaryKeeps ==
  ASSUME DirectorInv, UNCHANGED page,
         ConfigArrives \/ ConfigFails \/ GetSummary \/ SummaryArrives \/ SummaryFails
  PROVE  DirectorInv'
<1>1. /\ UNCHANGED <<activeDay, starts, posts>>
      /\ \/ UNCHANGED <<summary, shownDay, shownCompleted, crossed>>
         \/ /\ summary.phase = "asked" /\ UNCHANGED <<shownDay, shownCompleted>>
            /\ ~crossed' => ~crossed /\ summary'.phase = "answered" /\ summary'.day = activeDay
         \/ /\ summary.phase = "answered" /\ summary'.phase = "none" /\ UNCHANGED crossed
            /\ shownDay' = summary.day.index /\ shownCompleted' = summary.day.completed
         \/ crossed'
  <2>1. CASE ConfigArrives \/ ConfigFails
    BY <2>1 DEF ConfigArrives, ConfigFails, serviceVars
  <2>2. CASE GetSummary
    BY <2>2 DEF GetSummary, serviceVars
  <2>3. CASE SummaryArrives
    BY <2>3 DEF SummaryArrives, serviceVars, NoSummary
  <2>4. CASE SummaryFails
    BY <2>4 DEF SummaryFails, serviceVars
  <2>. QED
    BY <2>1, <2>2, <2>3, <2>4
<1>2. Pair(activeDay)' /\ \A x \in posts' : Pair(x)
  BY <1>1 DEF DirectorInv, Pair
<1>3. ASSUME page' = "director", ~crossed' PROVE OneAtATime'
  <2>1. OneAtATime
    BY <1>1, <1>3 DEF DirectorInv
  <2>2. CASE UNCHANGED <<summary, shownDay, shownCompleted, crossed>>
    BY <1>1, <2>1, <2>2 DEF OneAtATime, ShownNow
  <2>3. CASE /\ summary.phase = "asked" /\ UNCHANGED <<shownDay, shownCompleted>>
             /\ summary'.phase = "answered" /\ summary'.day = activeDay
    BY <1>1, <2>1, <2>3 DEF OneAtATime
  <2>4. CASE /\ summary.phase = "answered" /\ summary'.phase = "none"
             /\ shownDay' = summary.day.index /\ shownCompleted' = summary.day.completed
    <3>1. starts = {} /\ posts = {} /\ summary.day = activeDay
      BY <2>1, <2>4 DEF OneAtATime
    <3>2. activeDay' = ShownNow'
      BY <1>1, <2>4, <3>1 DEF ShownNow, DirectorInv, Pair
    <3>. QED
      BY <1>1, <2>4, <3>1, <3>2 DEF OneAtATime
  <2>. QED
    BY <1>1, <1>3, <2>2, <2>3, <2>4
<1>. QED
  BY <1>2, <1>3 DEF DirectorInv, Pair

LEMMA SettlesKeeps ==
  ASSUME DirectorInv, UNCHANGED page, NEW s \in starts, StartSettles(s)
  PROVE  DirectorInv'
<1>. DEFINE p == [index |-> s.day, completed |-> s.completed]
<1>0. Pair(p)
  BY DEF Pair
<1>1. /\ activeDay' = activeDay /\ UNCHANGED <<summary, shownCompleted>>
      /\ starts' = starts \ {s}
      /\ \/ UNCHANGED <<posts, shownDay, crossed>>
         \/ /\ posts' = posts \cup {p}
            /\ s.here = TRUE => shownDay' = s.day
            /\ ~crossed' => ~crossed /\ posts = {} /\ starts \ {s} = {} /\ summary.phase = "none"
  BY DEF StartSettles, PostsDayStarted, PostActiveDay, Undisturbed, serviceVars
<1>. HIDE DEF p
<1>2. Pair(activeDay)' /\ \A x \in posts' : Pair(x)
  BY <1>0, <1>1 DEF DirectorInv, Pair
<1>3. ASSUME page' = "director", ~crossed' PROVE OneAtATime'
  <2>1. OneAtATime
    BY <1>1, <1>3 DEF DirectorInv
  <2>2. /\ starts' = {} /\ posts = {} /\ summary.phase = "none"
        /\ s.here = TRUE /\ s.completed = shownCompleted /\ activeDay = ShownNow
    BY <1>1, <2>1 DEF OneAtATime
  <2>3. CASE UNCHANGED <<posts, shownDay, crossed>>
    BY <1>1, <2>2, <2>3 DEF OneAtATime, ShownNow
  <2>4. CASE posts' = posts \cup {p} /\ shownDay' = s.day
    <3>1. posts' = {p} /\ p = ShownNow'
      BY <1>1, <2>2, <2>4 DEF p, ShownNow
    <3>. QED
      BY <1>1, <2>2, <3>1 DEF OneAtATime
  <2>. QED
    BY <1>1, <2>2, <2>3, <2>4
<1>. QED
  BY <1>2, <1>3 DEF DirectorInv, Pair

LEMMA JobsKeep ==
  ASSUME DirectorInv, SessionsInv, UNCHANGED <<page, stores>>, NEW s \in starts, NEW i \in Slots,
         JobTested(s, i) \/ JobFails(s, i) \/ JobStored(s, i) \/ JobStoreLost(s, i)
  PROVE  DirectorInv'
<1>1. /\ activeDay' = activeDay
      /\ UNCHANGED <<summary, shownDay, shownCompleted, posts, crossed>>
  BY JobStep
<1>2. PICK n : /\ starts' = (starts \ {s}) \cup {n}
               /\ n.completed = s.completed /\ n.here = s.here
  BY JobStep
<1>3. ASSUME OneAtATime PROVE OneAtATime'
  <2>1. starts = {s} /\ s.here = TRUE /\ s.completed = shownCompleted
    BY <1>3 DEF OneAtATime
  <2>2. starts' = {n} /\ n.here = TRUE /\ n.completed = shownCompleted
    BY <1>2, <2>1
  <2>. QED
    BY <1>1, <1>3, <2>1, <2>2 DEF OneAtATime, ShownNow
<1>. QED
  BY <1>1, <1>3 DEF DirectorInv, Pair

LEMMA PostsKeep ==
  ASSUME DirectorInv, UNCHANGED page, NEW p \in posts, PostLands(p) \/ PostLost(p)
  PROVE  DirectorInv'
<1>1. CASE PostLost(p)
  BY <1>1 DEF PostLost, DirectorInv, Pair, serviceVars
<1>2. CASE PostLands(p)
  <2>1. /\ activeDay' = p /\ posts' = posts \ {p}
        /\ UNCHANGED <<summary, shownDay, shownCompleted, starts, crossed>>
    BY <1>2 DEF PostLands, SetActiveDay
  <2>2. Pair(activeDay)' /\ \A x \in posts' : Pair(x)
    BY <2>1 DEF DirectorInv, Pair
  <2>3. ASSUME OneAtATime PROVE OneAtATime'
    <3>1. p = ShownNow /\ posts = {p} /\ starts = {} /\ summary.phase = "none"
      BY <2>3 DEF OneAtATime
    <3>. QED
      BY <2>1, <3>1 DEF OneAtATime, ShownNow
  <2>. QED
    BY <2>1, <2>2, <2>3 DEF DirectorInv, Pair
<1>. QED
  BY <1>1, <1>2

LEMMA DirectorStep ==
  ASSUME DirectorInv, SessionsInv, [MeetNext]_meetVars
  PROVE  DirectorInv'
<1>1. ASSUME NEW q, Open(q) PROVE DirectorInv'
  <2>1. /\ UNCHANGED <<activeDay, posts>> /\ page' = q
        /\ summary' = (IF q = "director" THEN AskedSummary ELSE NoSummary)
        /\ starts' = {[s EXCEPT !.here = FALSE] : s \in starts}
        /\ crossed' = (starts # {} \/ posts # {})
    BY <1>1 DEF Open, FreshDirector, serviceVars
  <2>2. ASSUME q = "director", ~crossed' PROVE OneAtATime'
    <3>1. posts' = {} /\ starts' = {} /\ summary'.phase = "asked"
      BY <2>1, <2>2 DEF AskedSummary
    <3>. QED
      BY <3>1 DEF OneAtATime
  <2>. QED
    BY <2>1, <2>2 DEF DirectorInv, Pair
<1>2. CASE SetupClick \/ SetupAnswer
  <2>1. UNCHANGED <<page, directorVars>> /\ activeDay' = activeDay
    BY <1>2, SetupClicksFacts, SetupAnswersFacts DEF SetupClick, SetupAnswer, tabVars
  <2>. QED
    BY <2>1 DEF directorVars, DirectorInv, OneAtATime, ShownNow, Pair
<1>3. CASE DirectorClick
  BY <1>3, DirectorClicksKeep DEF DirectorClick
<1>4. CASE DirectorAnswer
  BY <1>4, SummaryKeeps, SettlesKeeps, JobsKeep, PostsKeep
     DEF DirectorAnswer, DirectorAnswers, tabVars, setupVars
<1>5. CASE BackendRestarts
  <2>1. crossed' = TRUE /\ activeDay' = FirstDay /\ UNCHANGED posts
    BY <1>5 DEF BackendRestarts, ForgetEverything
  <2>. QED
    BY <2>1 DEF DirectorInv, Pair, FirstDay
<1>6. CASE UNCHANGED meetVars
  BY <1>6 DEF meetVars, serviceVars, directorVars, tabVars, DirectorInv, OneAtATime,
     ShownNow, Pair
<1>. QED
  BY <1>1, <1>2, <1>3, <1>4, <1>5, <1>6 DEF MeetNext

\* Whenever nothing is under way the director shows the day everybody else is
\* given, unless writes of it overlapped or one was lost.
THEOREM DirectorInStepAlways == MeetSpec => []DirectorInStep
<1>1. MeetInit => DirectorInv
  BY DEF MeetInit, ServiceInit, DirectorInit, DirectorInv, Pair, FirstDay
<1>2. DirectorInv => DirectorInStep
  BY DEF DirectorInv, OneAtATime, DirectorInStep, ShownNow
<1>. QED
  BY <1>1, <1>2, DirectorStep, SessionsInvariant, PTL DEF MeetSpec

==============================================================================
