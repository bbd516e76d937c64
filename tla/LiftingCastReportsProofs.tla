----------------------- MODULE LiftingCastReportsProofs -----------------------
(* Proofs about the reports to LiftingCast, for any number of platforms,     *)
(* sessions and chains: a clock report that runs alone brings LC in step,    *)
(* and LC is not moved on from an attempt before its lights.                 *)
EXTENDS LiftingCastReports, TLAPS

USE ActivityAssumption, ReportsAssumption

------------------------------------------------------------------------------
(* The inductive invariant.                                                *)

\* A chain has a session to go on to.
SessionKept(p) == Active(p) # {} => HasSession(p)

\* A clock chain that is alone carries the length its platform's clock has,
\* and after its first post LC has that length too.
ClockChainsOK(p) ==
  \A s \in ClockChains(p) :
    LET c == chain[p][s] IN
    c.alone =>
      /\ ClockChains(p) = {s}
      /\ c.at = session[p]
      /\ c.length = face[p].duration
      /\ c.calls \in {SetThenReset, ResetOnly} => ~face[p].running
      /\ c.calls \in {<<"start_clock">>, ResetOnly} => lc[session[p]].length = c.length

InStepOK(p) ==
  inStep[p] =>
    /\ ClockChains(p) = {}
    /\ HasSession(p)
    /\ lc[session[p]].length = face[p].duration
    /\ face[p].running => lc[session[p]].running

DecisionChainsOK(p) ==
  \A s \in DecisionChains(p) :
    LET c == chain[p][s] IN
    c.alone =>
      /\ DecisionChains(p) = {s}
      /\ c.at = session[p]
      /\ c.calls = <<"next_attempt">> => lc[session[p]].lights

\* No other platform posts to the session of p.
Apart(p) ==
  \A q \in Platforms \ {p} :
    HasSession(p) =>
      /\ session[q] # session[p]
      /\ \A s \in Active(q) : chain[q][s].at # session[p]

PlatformOK(p) ==
  /\ SessionKept(p)
  /\ ClockChainsOK(p)
  /\ InStepOK(p)
  /\ DecisionChainsOK(p)
  /\ Apart(p)

ReportsInv == ReportsTypeOK /\ \A p \in Platforms : PlatformOK(p)

------------------------------------------------------------------------------
(* Calls and chains.                                                       *)

LEMMA CallFacts ==
  /\ Head(SetThenStart) = "clock" /\ Len(SetThenStart) = 2
  /\ Tail(SetThenStart) = <<"start_clock">>
  /\ Head(SetThenReset) = "clock" /\ Len(SetThenReset) = 2
  /\ Tail(SetThenReset) = ResetOnly
  /\ Head(ResetOnly) = "reset_clock" /\ Len(ResetOnly) = 1
  /\ Head(LightsFirst) = "lights" /\ Len(LightsFirst) = 2
  /\ Tail(LightsFirst) = <<"next_attempt">>
  /\ Head(<<"start_clock">>) = "start_clock" /\ Len(<<"start_clock">>) = 1
  /\ Head(<<"next_attempt">>) = "next_attempt" /\ Len(<<"next_attempt">>) = 1
BY DEF SetThenStart, SetThenReset, ResetOnly, LightsFirst

LEMMA SuffixesApart ==
  /\ \A x \in Suffixes : x # <<>>
  /\ \A x \in Suffixes : x \in {SetThenStart, SetThenReset} <=> Head(x) = "clock"
  /\ \A x \in Suffixes : x = <<"start_clock">> <=> Head(x) = "start_clock"
  /\ \A x \in Suffixes : x = ResetOnly <=> Head(x) = "reset_clock"
  /\ \A x \in Suffixes : x = LightsFirst <=> Head(x) = "lights"
  /\ \A x \in Suffixes : x = <<"next_attempt">> <=> Head(x) = "next_attempt"
BY CallFacts DEF Suffixes, SetThenStart, SetThenReset, ResetOnly, LightsFirst

Chain == [calls : Suffixes, length : Nat, at : LcPlatforms, alone : BOOLEAN]

LEMMA ChainFacts ==
  /\ Idle \notin Chain
  /\ Chains = {Idle} \cup Chain
  /\ \A c \in Chain : OnClock(c) <=> c.calls \notin {LightsFirst, <<"next_attempt">>}
  /\ ~OnClock(Idle)
<1>1. Idle \notin Chain /\ Chains = {Idle} \cup Chain
  BY SuffixesApart DEF Chain, Chains, Idle
<1>2. ASSUME NEW c \in Chain
      PROVE  OnClock(c) <=> c.calls \notin {LightsFirst, <<"next_attempt">>}
  <2>1. c # Idle /\ c.calls \in Suffixes
    BY <1>1 DEF Chain
  <2>. QED
    BY <2>1, CallFacts DEF OnClock, Suffixes
<1>. QED
  BY <1>1, <1>2 DEF OnClock

\* A chain that meets another stays as it is but for being alone.
LEMMA MetFacts ==
  ASSUME NEW c \in Chains
  PROVE  /\ Met(c) \in Chains
         /\ Met(c) = Idle <=> c = Idle
         /\ OnClock(Met(c)) <=> OnClock(c)
         /\ c # Idle => Met(c).at = c.at /\ ~Met(c).alone
<1>1. CASE c = Idle
  BY <1>1, ChainFacts DEF Met
<1>2. CASE c # Idle
  <2>1. c \in Chain
    BY <1>2, ChainFacts
  <2>2. Met(c) = [c EXCEPT !.alone = FALSE]
    BY <1>2 DEF Met
  <2>3. Met(c) \in Chain /\ Met(c).calls = c.calls /\ Met(c).at = c.at /\ ~Met(c).alone
    BY <2>1, <2>2 DEF Chain
  <2>. QED
    BY <1>2, <2>1, <2>3, ChainFacts
<1>. QED
  BY <1>1, <1>2

\* A new chain takes a free slot and leaves the others, but for meeting kin.
LEMMA JoinedFacts ==
  ASSUME NEW f \in [Slots -> Chains], NEW kin, NEW new \in Chain,
         {s \in Slots : f[s] # Idle} # Slots
  PROVE  /\ Joined(f, kin, new) \in [Slots -> Chains]
         /\ \E free \in Slots :
              /\ f[free] = Idle
              /\ Joined(f, kin, new)[free] = new
              /\ \A s \in Slots \ {free} :
                   Joined(f, kin, new)[s] = IF s \in kin THEN Met(f[s]) ELSE f[s]
<1>. DEFINE free == CHOOSE s \in Slots : f[s] = Idle
<1>1. free \in Slots /\ f[free] = Idle
  OBVIOUS
<1>. HIDE DEF free
<1>2. Joined(f, kin, new) = [s \in Slots |-> IF s = free THEN new
                                            ELSE IF s \in kin THEN Met(f[s]) ELSE f[s]]
  BY DEF Joined, free
<1>3. \A s \in Slots : f[s] \in Chains /\ Met(f[s]) \in Chains
  BY MetFacts
<1>4. new \in Chains
  BY ChainFacts
<1>. QED
  BY <1>1, <1>2, <1>3, <1>4

------------------------------------------------------------------------------
(* What the steps do to one platform.                                      *)

LEMMA InitInv == ReportsInit => ReportsInv
<1>. SUFFICES ASSUME ReportsInit PROVE ReportsInv
  OBVIOUS
<1>1. ReportsTypeOK
  BY ChainFacts DEF ReportsInit, ReportsTypeOK, ActivityInit, ActivityTypeOK, Faces
<1>2. ASSUME NEW p \in Platforms
      PROVE  /\ Active(p) = {} /\ ClockChains(p) = {} /\ DecisionChains(p) = {}
             /\ ~HasSession(p) /\ ~inStep[p]
  BY ChainFacts DEF ReportsInit, Active, ClockChains, DecisionChains, HasSession
<1>3. ASSUME NEW p \in Platforms PROVE PlatformOK(p)
  BY <1>2 DEF PlatformOK, SessionKept, ClockChainsOK, InStepOK, DecisionChainsOK, Apart
<1>. QED
  BY <1>1, <1>3 DEF ReportsInv

\* A platform whose chains, session and clock stay keeps its part of the
\* invariant if LC's platform it reports to does, too.
LEMMA Untouched ==
  ASSUME NEW p \in Platforms, ClockChainsOK(p), InStepOK(p), DecisionChainsOK(p),
         chain'[p] = chain[p], session'[p] = session[p], inStep'[p] = inStep[p],
         face'[p].duration = face[p].duration, face'[p].running => face[p].running,
         HasSession(p) => lc'[session[p]] = lc[session[p]], SessionKept(p)
  PROVE  ClockChainsOK(p)' /\ InStepOK(p)' /\ DecisionChainsOK(p)'
<1>1. /\ Active(p)' = Active(p)
      /\ ClockChains(p)' = ClockChains(p)
      /\ DecisionChains(p)' = DecisionChains(p)
      /\ HasSession(p)' = HasSession(p)
  BY DEF Active, ClockChains, DecisionChains, HasSession
<1>2. ClockChains(p) # {} \/ DecisionChains(p) # {} => HasSession(p)
  BY DEF SessionKept, Active, ClockChains, DecisionChains, OnClock
<1>3. ClockChainsOK(p)'
  BY <1>1, <1>2 DEF ClockChainsOK, ClockChains
<1>4. InStepOK(p)'
  BY <1>1 DEF InStepOK
<1>5. DecisionChainsOK(p)'
  BY <1>1, <1>2 DEF DecisionChainsOK, DecisionChains
<1>. QED
  BY <1>3, <1>4, <1>5

\* A clock report: a lone one carries the length the clock now has.
LEMMA ClockReportInv ==
  ASSUME ReportsInv, NEW S \in SUBSET Platforms, NEW x \in Faces,
         NEW calls \in {SetThenStart, SetThenReset, ResetOnly},
         Show(S, x), ReportClocks(S, calls), platforms' = platforms,
         calls # SetThenStart => ~x.running,
         calls = ResetOnly => \A p \in S : face[p].duration = x.duration
  PROVE  ReportsInv'
<1>. DEFINE telling == {p \in S : HasSession(p)}
<1>. USE DEF ReportsInv
<1>1. /\ face' \in [Platforms -> Faces] /\ ActivityTypeOK'
      /\ \A p \in S : face'[p] = x
      /\ \A p \in Platforms \ S : face'[p] = face[p]
  BY DEF Show, ReportsTypeOK, ActivityTypeOK
<1>2. x.duration \in Nat
  BY DEF Faces, AtRest, Attempt, Break
<1>3. ASSUME NEW p \in telling
      PROVE  /\ ClockChain(p, calls) \in Chain
             /\ OnClock(ClockChain(p, calls))
             /\ ClockChain(p, calls).length = face'[p].duration
             /\ ClockChain(p, calls).at = session[p]
             /\ ClockChain(p, calls).calls = calls
             /\ ClockChain(p, calls).alone =>
                  ClockChains(p) = {} /\ (calls = ResetOnly => inStep[p])
  <2>1. session[p] \in LcPlatforms
    BY DEF HasSession, ReportsTypeOK
  <2>2. ClockChain(p, calls) \in Chain
    BY <1>1, <1>2, <2>1 DEF ClockChain, Chain, Suffixes, ReportsTypeOK
  <2>3. calls # LightsFirst /\ calls # <<"next_attempt">>
    BY CallFacts
  <2>4. calls = ResetOnly => Head(calls) # "clock"
    BY CallFacts
  <2>. QED
    BY <2>2, <2>3, <2>4, ChainFacts DEF ClockChain
<1>4. /\ session' = session /\ lc' = lc
      /\ \A p \in Platforms : inStep'[p] = (inStep[p] /\ p \notin telling)
      /\ \A p \in Platforms \ telling : chain'[p] = chain[p]
      /\ \A p \in telling : /\ Active(p) # Slots
                            /\ chain'[p] = Joined(chain[p], ClockChains(p), ClockChain(p, calls))
  BY DEF ReportClocks
<1>5. ASSUME NEW p \in telling
      PROVE  /\ chain'[p] \in [Slots -> Chains]
             /\ \E free \in Slots :
                  /\ chain[p][free] = Idle
                  /\ chain'[p][free] = ClockChain(p, calls)
                  /\ \A s \in Slots \ {free} :
                       chain'[p][s] = IF s \in ClockChains(p) THEN Met(chain[p][s])
                                                              ELSE chain[p][s]
  <2>1. chain[p] \in [Slots -> Chains] /\ ClockChain(p, calls) \in Chain
    BY <1>3 DEF ReportsTypeOK
  <2>2. {s \in Slots : chain[p][s] # Idle} # Slots
    BY <1>4 DEF Active
  <2>3. chain'[p] = Joined(chain[p], ClockChains(p), ClockChain(p, calls))
    BY <1>4
  <2>. HIDE DEF telling
  <2>. QED
    BY <2>1, <2>2, <2>3, JoinedFacts
<1>6. ReportsTypeOK'
  <2>1. chain' \in [Platforms -> [Slots -> Chains]]
    <3>1. \A p \in Platforms : chain'[p] \in [Slots -> Chains]
      BY <1>4, <1>5 DEF ReportsTypeOK
    <3>. QED
      BY <3>1 DEF ReportClocks
  <2>2. inStep' \in [Platforms -> BOOLEAN]
    BY DEF ReportClocks, ReportsTypeOK
  <2>. QED
    BY <1>1, <1>4, <2>1, <2>2 DEF ReportsTypeOK
<1>7. ASSUME NEW p \in telling
      PROVE  /\ SessionKept(p)' /\ ClockChainsOK(p)' /\ InStepOK(p)' /\ DecisionChainsOK(p)'
             /\ \A s \in Active(p)' : chain'[p][s].at = session[p] \/
                                       (s \in Active(p) /\ chain'[p][s].at = chain[p][s].at)
  <2>0. p \in Platforms /\ PlatformOK(p) /\ chain[p] \in [Slots -> Chains]
    BY DEF ReportsTypeOK
  <2>1. PICK free \in Slots :
          /\ chain[p][free] = Idle
          /\ chain'[p][free] = ClockChain(p, calls)
          /\ \A s \in Slots \ {free} :
               chain'[p][s] = IF s \in ClockChains(p) THEN Met(chain[p][s])
                                                      ELSE chain[p][s]
    BY <1>5
  <2>2. /\ ClockChains(p)' = ClockChains(p) \cup {free}
        /\ DecisionChains(p)' = DecisionChains(p)
        /\ Active(p)' = Active(p) \cup {free}
        /\ free \notin Active(p)
        /\ ClockChains(p) \subseteq Active(p)
    BY <2>0, <2>1, <1>3, ChainFacts, MetFacts DEF ClockChains, DecisionChains, Active
  <2>3. \A s \in ClockChains(p) : ~chain'[p][s].alone
    BY <2>0, <2>1, <2>2, MetFacts DEF Active, ClockChains
  <2>4. \A s \in DecisionChains(p) : chain'[p][s] = chain[p][s]
    BY <2>1, <2>2 DEF DecisionChains, Active
  <2>5. ClockChainsOK(p)'
    <3>1. ASSUME chain'[p][free].alone
          PROVE  /\ ClockChains(p)' = {free}
                 /\ calls = ResetOnly => lc[session[p]].length = face'[p].duration
      BY <2>0, <2>1, <2>2, <3>1, <1>1, <1>3 DEF PlatformOK, InStepOK
    <3>2. /\ chain'[p][free].length = face'[p].duration /\ chain'[p][free].at = session'[p]
          /\ chain'[p][free].calls = calls /\ face'[p] = x
      BY <2>1, <1>1, <1>3, <1>4
    <3>3. calls # <<"start_clock">>
      BY CallFacts
    <3>4. calls = SetThenStart => calls \notin {SetThenReset, ResetOnly}
      BY CallFacts
    <3>. QED
      BY <2>2, <2>3, <3>1, <3>2, <3>3, <3>4, <1>4 DEF ClockChainsOK
  <2>6. DecisionChainsOK(p)'
    BY <2>0, <2>2, <2>4, <1>4 DEF PlatformOK, DecisionChainsOK
  <2>7. SessionKept(p)' /\ InStepOK(p)'
    BY <1>4, <2>0 DEF SessionKept, InStepOK, HasSession
  <2>8. \A s \in Active(p)' : chain'[p][s].at = session[p] \/
                              (s \in Active(p) /\ chain'[p][s].at = chain[p][s].at)
    BY <2>0, <2>1, <2>2, <1>3, MetFacts DEF Active
  <2>. QED
    BY <2>5, <2>6, <2>7, <2>8
<1>8. ASSUME NEW p \in Platforms, p \notin telling
      PROVE  SessionKept(p)' /\ ClockChainsOK(p)' /\ InStepOK(p)' /\ DecisionChainsOK(p)'
  <2>1. SessionKept(p)'
    BY <1>4, <1>8 DEF SessionKept, PlatformOK, HasSession, Active
  <2>2. CASE p \in S
    <3>1. ~HasSession(p)
      BY <2>2, <1>8
    <3>2. Active(p) = {} /\ ~inStep[p]
      BY <3>1, <1>8 DEF PlatformOK, SessionKept, InStepOK
    <3>3. Active(p)' = {} /\ ClockChains(p)' = {} /\ DecisionChains(p)' = {} /\ ~inStep'[p]
      BY <3>2, <1>4, <1>8 DEF Active, ClockChains, DecisionChains, OnClock
    <3>. QED
      BY <2>1, <3>3 DEF ClockChainsOK, InStepOK, DecisionChainsOK
  <2>3. CASE p \notin S
    <3>1. face'[p] = face[p] /\ inStep'[p] = inStep[p]
      BY <2>3, <1>1, <1>4 DEF ReportsTypeOK
    <3>. QED
      BY <2>1, <3>1, <1>4, <1>8, Untouched DEF PlatformOK
  <2>. QED
    BY <2>2, <2>3
<1>9. ASSUME NEW p \in Platforms PROVE Apart(p)'
  <2>. SUFFICES ASSUME NEW q \in Platforms \ {p}, HasSession(p)'
                PROVE  /\ session'[q] # session'[p]
                       /\ \A s \in Active(q)' : chain'[q][s].at # session'[p]
    BY DEF Apart
  <2>1. /\ HasSession(p) /\ session[q] # session[p]
        /\ \A s \in Active(q) : chain[q][s].at # session[p]
    BY <1>4 DEF PlatformOK, Apart, HasSession
  <2>2. CASE q \in telling
    BY <2>1, <2>2, <1>4, <1>7
  <2>3. CASE q \notin telling
    BY <2>1, <2>3, <1>4 DEF Active
  <2>. QED
    BY <2>2, <2>3
<1>. QED
  BY <1>6, <1>7, <1>8, <1>9 DEF PlatformOK

\* Apart, from what a step does to the sessions and the chains.
LEMMA StillApart ==
  ASSUME \A p \in Platforms : Apart(p), session' = session,
         \A q \in Platforms : \A s \in Active(q)' :
           chain'[q][s].at = session[q] \/
           (s \in Active(q) /\ chain'[q][s].at = chain[q][s].at)
  PROVE  \A p \in Platforms : Apart(p)'
<1>. SUFFICES ASSUME NEW p \in Platforms, NEW q \in Platforms \ {p}, HasSession(p)'
              PROVE  /\ session'[q] # session'[p]
                     /\ \A s \in Active(q)' : chain'[q][s].at # session'[p]
  BY DEF Apart
<1>1. /\ session[q] # session[p]
      /\ \A s \in Active(q) : chain[q][s].at # session[p]
  BY DEF Apart, HasSession
<1>. QED
  BY <1>1

LEMMA DecisionReportInv ==
  ASSUME ReportsInv, NEW p \in Platforms, DecisionReported(p)
  PROVE  ReportsInv'
<1>. USE DEF ReportsInv
<1>1. /\ session' = session /\ lc' = lc /\ inStep' = inStep
      /\ platforms' = platforms /\ face' = face
  BY DEF DecisionReported, ReportLights, activityVars
<1>2. ASSUME NEW q \in Platforms, chain'[q] = chain[q]
      PROVE  /\ SessionKept(q)' /\ ClockChainsOK(q)' /\ InStepOK(q)' /\ DecisionChainsOK(q)'
             /\ \A s \in Active(q)' : s \in Active(q) /\ chain'[q][s].at = chain[q][s].at
  <2>1. SessionKept(q)'
    BY <1>1, <1>2 DEF PlatformOK, SessionKept, HasSession, Active
  <2>. QED
    BY <1>1, <1>2, <2>1, Untouched DEF PlatformOK, Active
<1>3. CASE ~HasSession(p)
  <2>1. chain' = chain
    BY <1>3 DEF DecisionReported, ReportLights
  <2>2. \A q \in Platforms : Apart(q)'
    BY <1>1, <1>2, <2>1, StillApart DEF PlatformOK
  <2>3. ReportsTypeOK'
    BY <1>1, <2>1 DEF ReportsTypeOK, ActivityTypeOK
  <2>. QED
    BY <1>2, <2>1, <2>2, <2>3 DEF PlatformOK
<1>4. CASE HasSession(p)
  <2>. DEFINE new == DecisionChain(p)
  <2>1. /\ new \in Chain /\ ~OnClock(new) /\ new.at = session[p]
        /\ new.calls # <<"next_attempt">>
        /\ new.alone => DecisionChains(p) = {}
    <3>1. session[p] \in LcPlatforms
      BY <1>4 DEF HasSession, ReportsTypeOK
    <3>2. new \in Chain /\ new.calls = LightsFirst
      BY <3>1 DEF DecisionChain, DecisionCalls, Chain, Suffixes
    <3>. QED
      BY <3>2, CallFacts, ChainFacts DEF DecisionChain
  <2>. HIDE DEF new
  <2>2. /\ chain' = [chain EXCEPT ![p] = Joined(chain[p], DecisionChains(p), new)]
        /\ Active(p) # Slots
        /\ chain[p] \in [Slots -> Chains]
    BY <1>4 DEF DecisionReported, ReportLights, ReportsTypeOK, new
  <2>3. /\ chain'[p] \in [Slots -> Chains]
        /\ \E free \in Slots :
             /\ chain[p][free] = Idle
             /\ chain'[p][free] = new
             /\ \A s \in Slots \ {free} :
                  chain'[p][s] = IF s \in DecisionChains(p) THEN Met(chain[p][s])
                                                            ELSE chain[p][s]
    <3>1. chain'[p] = Joined(chain[p], DecisionChains(p), new)
      BY <2>2 DEF ReportsTypeOK
    <3>2. {s \in Slots : chain[p][s] # Idle} # Slots
      BY <2>2 DEF Active
    <3>. QED
      BY <2>1, <2>2, <3>1, <3>2, JoinedFacts
  <2>4. PICK free \in Slots :
          /\ chain[p][free] = Idle
          /\ chain'[p][free] = new
          /\ \A s \in Slots \ {free} :
               chain'[p][s] = IF s \in DecisionChains(p) THEN Met(chain[p][s])
                                                         ELSE chain[p][s]
    BY <2>3
  <2>5. /\ ClockChains(p)' = ClockChains(p)
        /\ DecisionChains(p)' = DecisionChains(p) \cup {free}
        /\ Active(p)' = Active(p) \cup {free}
        /\ free \notin Active(p) /\ ClockChains(p) \subseteq Active(p)
    <3>1. \A s \in Slots : /\ chain[p][s] \in Chains
                           /\ OnClock(Met(chain[p][s])) <=> OnClock(chain[p][s])
                           /\ Met(chain[p][s]) = Idle <=> chain[p][s] = Idle
                           /\ chain[p][s] = Idle => ~OnClock(chain[p][s])
      BY <2>2, MetFacts, ChainFacts
    <3>2. new # Idle
      BY <2>1, ChainFacts
    <3>3. \A s \in Slots \ {free} : /\ OnClock(chain'[p][s]) <=> OnClock(chain[p][s])
                                    /\ chain'[p][s] = Idle <=> chain[p][s] = Idle
      BY <2>4, <3>1
    <3>4. ClockChains(p)' = ClockChains(p)
      BY <2>1, <2>4, <3>1, <3>3 DEF ClockChains
    <3>5. Active(p)' = Active(p) \cup {free} /\ free \notin Active(p)
      BY <2>4, <3>2, <3>3 DEF Active
    <3>6. ClockChains(p) \subseteq Active(p)
      BY <3>1 DEF ClockChains, Active
    <3>. QED
      BY <3>4, <3>5, <3>6 DEF DecisionChains
  <2>6. \A s \in DecisionChains(p) : ~chain'[p][s].alone
    BY <2>2, <2>4, <2>5, MetFacts DEF Active, DecisionChains
  <2>7. \A s \in ClockChains(p) : chain'[p][s] = chain[p][s]
    BY <2>4, <2>5 DEF DecisionChains, Active
  <2>8. DecisionChainsOK(p)'
    BY <1>1, <2>1, <2>4, <2>5, <2>6 DEF DecisionChainsOK
  <2>9. ClockChainsOK(p)' /\ InStepOK(p)' /\ SessionKept(p)'
    BY <1>1, <1>4, <2>5, <2>7
       DEF PlatformOK, ClockChainsOK, InStepOK, SessionKept, HasSession
  <2>10. \A s \in Active(p)' : chain'[p][s].at = session[p] \/
                               (s \in Active(p) /\ chain'[p][s].at = chain[p][s].at)
    BY <2>1, <2>2, <2>4, <2>5, MetFacts DEF Active
  <2>11. \A q \in Platforms \ {p} : chain'[q] = chain[q]
    BY <2>2 DEF ReportsTypeOK
  <2>12. \A q \in Platforms : Apart(q)'
    BY <1>1, <1>2, <2>10, <2>11, StillApart DEF PlatformOK
  <2>13. ReportsTypeOK'
    BY <1>1, <2>2, <2>3 DEF ReportsTypeOK, ActivityTypeOK
  <2>. QED
    BY <1>2, <2>8, <2>9, <2>11, <2>12, <2>13 DEF PlatformOK
<1>. QED
  BY <1>3, <1>4

LEMMA ComesOrGoesInv ==
  ASSUME ReportsInv, NEW p \in Platforms, ComesOrGoes(p)
  PROVE  ReportsInv'
<1>. USE DEF ReportsInv
<1>1. /\ session' = session /\ lc' = lc
      /\ inStep' = [inStep EXCEPT ![p] = FALSE]
      /\ chain' = [chain EXCEPT ![p] =
           [s \in Slots |-> IF s \in ClockChains(p) THEN Met(chain[p][s]) ELSE chain[p][s]]]
  BY DEF ComesOrGoes
<1>2. ActivityTypeOK' /\ \A q \in Platforms \ {p} : face'[q] = face[q]
  BY DEF ComesOrGoes, Go, Come, Show, ReportsTypeOK, ActivityTypeOK, Faces
<1>3. \A s \in Slots : chain'[p][s] = IF s \in ClockChains(p) THEN Met(chain[p][s])
                                                            ELSE chain[p][s]
  BY <1>1 DEF ReportsTypeOK
<1>4. /\ chain[p] \in [Slots -> Chains]
      /\ \A s \in Slots : Met(chain[p][s]) \in Chains
  BY MetFacts DEF ReportsTypeOK
<1>5. ReportsTypeOK'
  BY <1>1, <1>2, <1>4 DEF ReportsTypeOK
<1>6. /\ Active(p)' = Active(p) /\ ClockChains(p)' = ClockChains(p)
      /\ DecisionChains(p)' = DecisionChains(p)
  BY <1>3, <1>4, MetFacts DEF Active, ClockChains, DecisionChains
<1>7. \A s \in Active(p) : chain'[p][s].at = chain[p][s].at
  BY <1>3, <1>4, MetFacts DEF Active
<1>8. /\ \A s \in ClockChains(p) : ~chain'[p][s].alone
      /\ \A s \in DecisionChains(p) : chain'[p][s] = chain[p][s]
  BY <1>3, <1>4, MetFacts, ChainFacts DEF ClockChains, DecisionChains, Active
<1>9. SessionKept(p)' /\ ClockChainsOK(p)' /\ InStepOK(p)' /\ DecisionChainsOK(p)'
  <2>1. ClockChainsOK(p)'
    BY <1>6, <1>8 DEF ClockChainsOK
  <2>2. InStepOK(p)'
    BY <1>1 DEF InStepOK, ReportsTypeOK
  <2>3. DecisionChainsOK(p)'
    <3>1. session' = session /\ lc' = lc
      BY <1>1
    <3>. QED
      BY <3>1, <1>6, <1>8 DEF PlatformOK, DecisionChainsOK
  <2>4. SessionKept(p)'
    BY <1>1, <1>6 DEF PlatformOK, SessionKept, HasSession
  <2>. QED
    BY <2>1, <2>2, <2>3, <2>4
<1>10. ASSUME NEW q \in Platforms \ {p}
       PROVE  /\ SessionKept(q)' /\ ClockChainsOK(q)' /\ InStepOK(q)' /\ DecisionChainsOK(q)'
              /\ chain'[q] = chain[q]
  <2>1. chain'[q] = chain[q] /\ inStep'[q] = inStep[q] /\ session'[q] = session[q]
    BY <1>1 DEF ReportsTypeOK
  <2>2. SessionKept(q)'
    BY <2>1 DEF PlatformOK, SessionKept, HasSession, Active
  <2>. QED
    BY <1>1, <1>2, <2>1, <2>2, Untouched DEF PlatformOK
<1>11. \A q \in Platforms : Apart(q)'
  <2>1. ASSUME NEW q \in Platforms, NEW s \in Active(q)'
        PROVE  s \in Active(q) /\ chain'[q][s].at = chain[q][s].at
    <3>1. CASE q = p
      BY <2>1, <3>1, <1>6, <1>7
    <3>2. CASE q # p
      BY <2>1, <3>2, <1>10 DEF Active
    <3>. QED
      BY <3>1, <3>2
  <2>. QED
    BY <1>1, <2>1, StillApart DEF PlatformOK
<1>. QED
  BY <1>5, <1>9, <1>10, <1>11 DEF PlatformOK

LEMMA StoreSessionInv ==
  ASSUME ReportsInv, NEW p \in Platforms, NEW l \in LcPlatforms, StoreSession(p, l)
  PROVE  ReportsInv'
<1>. USE DEF ReportsInv
<1>1. /\ session' = [session EXCEPT ![p] = l] /\ lc' = lc /\ face' = face
      /\ platforms' = platforms
      /\ inStep' = [inStep EXCEPT ![p] = FALSE]
      /\ chain' = [chain EXCEPT ![p] = [s \in Slots |-> Met(chain[p][s])]]
  BY DEF StoreSession, activityVars
<1>2. /\ chain[p] \in [Slots -> Chains]
      /\ \A s \in Slots : chain'[p][s] = Met(chain[p][s]) /\ Met(chain[p][s]) \in Chains
  BY <1>1, MetFacts DEF ReportsTypeOK
<1>3. ReportsTypeOK'
  BY <1>1, <1>2 DEF ReportsTypeOK, ActivityTypeOK
<1>4. /\ Active(p)' = Active(p) /\ ClockChains(p)' = ClockChains(p)
      /\ DecisionChains(p)' = DecisionChains(p)
      /\ \A s \in Active(p) : ~chain'[p][s].alone /\ chain'[p][s].at = chain[p][s].at
      /\ ClockChains(p) \subseteq Active(p)
  BY <1>2, MetFacts, ChainFacts DEF Active, ClockChains, DecisionChains
<1>5. session'[p] = l /\ l # NoSession /\ ~inStep'[p]
  BY <1>1 DEF ReportsTypeOK
<1>6. SessionKept(p)' /\ ClockChainsOK(p)' /\ InStepOK(p)' /\ DecisionChainsOK(p)'
  BY <1>4, <1>5
     DEF SessionKept, HasSession, ClockChainsOK, InStepOK, DecisionChainsOK, DecisionChains
<1>7. ASSUME NEW q \in Platforms \ {p}
      PROVE  /\ SessionKept(q)' /\ ClockChainsOK(q)' /\ InStepOK(q)' /\ DecisionChainsOK(q)'
             /\ chain'[q] = chain[q] /\ session'[q] = session[q]
  <2>1. chain'[q] = chain[q] /\ inStep'[q] = inStep[q] /\ session'[q] = session[q]
    BY <1>1 DEF ReportsTypeOK
  <2>2. SessionKept(q)'
    BY <2>1 DEF PlatformOK, SessionKept, HasSession, Active
  <2>. QED
    BY <1>1, <2>1, <2>2, Untouched DEF PlatformOK
<1>8. ASSUME NEW q \in Platforms PROVE Apart(q)'
  <2>1. CASE q = p
    <3>1. ASSUME NEW o \in Platforms \ {p}
          PROVE  session[o] # l /\ \A s \in Active(o) : chain[o][s].at # l
      BY DEF StoreSession
    <3>. QED
      BY <2>1, <3>1, <1>5, <1>7 DEF Apart, Active
  <2>2. CASE q # p
    <3>2. session[q] # l
      BY <2>2 DEF StoreSession
    <3>3. ASSUME HasSession(q), NEW o \in Platforms \ {q}
          PROVE  /\ session'[o] # session[q]
                 /\ \A s \in Active(o)' : chain'[o][s].at # session[q]
      <4>1. session[o] # session[q] /\ \A s \in Active(o) : chain[o][s].at # session[q]
        BY <3>3 DEF PlatformOK, Apart
      <4>2. CASE o = p
        BY <4>1, <4>2, <3>2, <3>3, <1>4, <1>5
      <4>3. CASE o # p
        BY <4>1, <4>3, <1>7 DEF Active
      <4>. QED
        BY <4>2, <4>3
    <3>. QED
      BY <2>2, <3>3, <1>7 DEF Apart, HasSession
  <2>. QED
    BY <2>1, <2>2
<1>. QED
  BY <1>3, <1>6, <1>7, <1>8 DEF PlatformOK

------------------------------------------------------------------------------
(* The posts.                                                              *)

LcClock == [length : Nat, running : BOOLEAN, lights : BOOLEAN]

\* What a post of a chain does at LC: clock posts leave the lights alone, and
\* decision posts the clock.
LEMMA HandledFacts ==
  ASSUME NEW x \in LcClock, NEW c \in Chain
  PROVE  LET y == Handled(x, Head(c.calls), c.length) IN
         /\ y \in LcClock
         /\ OnClock(c) => y.lights = x.lights
         /\ ~OnClock(c) => y.length = x.length /\ y.running = x.running
         /\ c.calls \in {SetThenStart, SetThenReset} => y.length = c.length
         /\ c.calls = <<"start_clock">> => y.length = x.length /\ y.running
         /\ c.calls = ResetOnly => y.length = x.length
         /\ c.calls = LightsFirst => y.lights
<1>. DEFINE y == Handled(x, Head(c.calls), c.length)
<1>0. c.calls \in Suffixes /\ c.length \in Nat
  BY DEF Chain
<1>. USE ChainFacts, SuffixesApart DEF LcClock
<1>1. CASE c.calls \in {SetThenStart, SetThenReset}
  <2>1. Head(c.calls) = "clock"
    BY <1>0, <1>1
  <2>2. y = [x EXCEPT !.length = c.length]
    BY <2>1 DEF Handled
  <2>. QED
    BY <1>0, <1>1, <2>1, <2>2, CallFacts
<1>2. CASE c.calls = <<"start_clock">>
  <2>1. y = [x EXCEPT !.running = TRUE]
    BY <1>2, CallFacts DEF Handled
  <2>. QED
    BY <1>0, <1>2, <2>1, CallFacts
<1>3. CASE c.calls = ResetOnly
  <2>1. y = [x EXCEPT !.running = FALSE]
    BY <1>3, CallFacts DEF Handled
  <2>. QED
    BY <1>0, <1>3, <2>1, CallFacts
<1>4. CASE c.calls = LightsFirst
  <2>1. y = [x EXCEPT !.lights = TRUE]
    BY <1>4, CallFacts DEF Handled
  <2>. QED
    BY <1>0, <1>4, <2>1, CallFacts
<1>5. CASE c.calls = <<"next_attempt">>
  <2>1. y = [x EXCEPT !.lights = FALSE]
    BY <1>5, CallFacts DEF Handled
  <2>. QED
    BY <1>0, <1>5, <2>1, CallFacts
<1>. QED
  BY <1>0, <1>1, <1>2, <1>3, <1>4, <1>5 DEF Suffixes

\* How a chain goes on after an answer.
LEMMA GoesOnFacts ==
  ASSUME NEW p \in Platforms, session[p] \in LcPlatforms, NEW c \in Chain
  PROVE  LET d == GoesOn(p, c) IN
         /\ d \in Chains
         /\ d = Idle => Len(c.calls) = 1
         /\ d # Idle => /\ d.at = session[p] /\ d.alone = c.alone /\ d.length = c.length
                        /\ d.calls = Tail(c.calls)
                        /\ OnClock(d) <=> OnClock(c)
                        /\ c.calls \in {SetThenStart, SetThenReset, LightsFirst}
<1>1. CASE c.calls \in {ResetOnly, <<"start_clock">>, <<"next_attempt">>}
  <2>1. GoesOn(p, c) = Idle /\ Len(c.calls) = 1
    BY <1>1, CallFacts DEF GoesOn
  <2>. QED
    BY <2>1, ChainFacts
<1>2. CASE c.calls \in {SetThenStart, SetThenReset, LightsFirst}
  <2>. DEFINE d == [c EXCEPT !.calls = Tail(c.calls), !.at = session[p]]
  <2>1. GoesOn(p, c) = d
    <3>1. Len(c.calls) = 2
      BY <1>2, CallFacts
    <3>. QED
      BY <3>1 DEF GoesOn
  <2>2. d \in Chain /\ d.calls = Tail(c.calls) /\ d.at = session[p]
        /\ d.alone = c.alone /\ d.length = c.length
    BY <1>2, CallFacts DEF Chain, Suffixes
  <2>3. OnClock(d) <=> OnClock(c)
    BY <1>2, <2>2, CallFacts, SuffixesApart, ChainFacts
  <2>. HIDE DEF d
  <2>. QED
    BY <1>2, <2>1, <2>2, <2>3, ChainFacts
<1>. QED
  BY <1>1, <1>2 DEF Chain, Suffixes

\* What both outcomes of a post have in common.
LEMMA PostFacts ==
  ASSUME ReportsInv, NEW p \in Platforms, NEW s \in Slots,
         PostSucceeds(p, s) \/ PostFails(p, s)
  PROVE  LET c == chain[p][s] IN
         /\ c \in Chain /\ c.at \in LcPlatforms /\ session[p] \in LcPlatforms
         /\ HasSession(p)
         /\ session' = session /\ platforms' = platforms /\ face' = face
         /\ lc' \in [LcPlatforms -> LcClock]
         /\ \A l \in LcPlatforms \ {c.at} : lc'[l] = lc[l]
         /\ \A l \in LcPlatforms :
              /\ OnClock(c) => lc'[l].lights = lc[l].lights
              /\ ~OnClock(c) => lc'[l].length = lc[l].length /\ lc'[l].running = lc[l].running
         /\ \A q \in Platforms \ {p} : inStep'[q] = inStep[q] /\ chain'[q] = chain[q]
         /\ \A t \in Slots \ {s} : chain'[p][t] = chain[p][t]
         /\ chain' \in [Platforms -> [Slots -> Chains]]
         /\ chain'[p][s] = Idle \/ chain'[p][s] = GoesOn(p, c)
         /\ inStep' \in [Platforms -> BOOLEAN]
<1>. DEFINE c == chain[p][s]
<1>0. /\ lc \in [LcPlatforms -> LcClock] /\ chain \in [Platforms -> [Slots -> Chains]]
      /\ inStep \in [Platforms -> BOOLEAN]
      /\ session \in [Platforms -> LcPlatforms \cup {NoSession}]
  BY DEF ReportsInv, ReportsTypeOK, LcClock
<1>1. c \in Chain /\ c.at \in LcPlatforms /\ s \in Active(p)
  BY <1>0, ChainFacts DEF PostSucceeds, PostFails, Chain, Active
<1>2. HasSession(p) /\ session[p] \in LcPlatforms
  BY <1>0, <1>1 DEF ReportsInv, PlatformOK, SessionKept, HasSession
<1>3. session' = session /\ platforms' = platforms /\ face' = face
  BY DEF PostSucceeds, PostFails, activityVars
<1>. DEFINE y == Handled(lc[c.at], Head(c.calls), c.length)
<1>4. lc' = lc \/ lc' = [lc EXCEPT ![c.at] = y]
  BY DEF PostSucceeds, PostFails, LcHandles
<1>5. /\ y \in LcClock
      /\ OnClock(c) => y.lights = lc[c.at].lights
      /\ ~OnClock(c) => y.length = lc[c.at].length /\ y.running = lc[c.at].running
  BY <1>0, <1>1, HandledFacts
<1>6. \E d \in {Idle, GoesOn(p, c)} : chain' = [chain EXCEPT ![p][s] = d]
  BY DEF PostSucceeds, PostFails, AfterFailure, StopsAfterFailure
<1>7. Idle \in Chains /\ GoesOn(p, c) \in Chains
  BY <1>1, <1>2, GoesOnFacts, ChainFacts
<1>8. /\ inStep' \in [Platforms -> BOOLEAN]
      /\ \A q \in Platforms \ {p} : inStep'[q] = inStep[q]
  BY <1>0 DEF PostSucceeds, PostFails
<1>. HIDE DEF y, c
<1>9. /\ lc' \in [LcPlatforms -> LcClock]
      /\ \A l \in LcPlatforms \ {c.at} : lc'[l] = lc[l]
      /\ \A l \in LcPlatforms :
           /\ OnClock(c) => lc'[l].lights = lc[l].lights
           /\ ~OnClock(c) => lc'[l].length = lc[l].length /\ lc'[l].running = lc[l].running
  <2>1. CASE lc' = lc
    BY <1>0, <2>1
  <2>2. CASE lc' = [lc EXCEPT ![c.at] = y]
    <3>1. lc'[c.at] = y /\ \A l \in LcPlatforms \ {c.at} : lc'[l] = lc[l]
      BY <1>0, <1>1, <2>2
    <3>2. lc' \in [LcPlatforms -> LcClock]
      BY <1>0, <1>1, <1>5, <2>2
    <3>. QED
      BY <3>1, <3>2, <1>5
  <2>. QED
    BY <1>4, <2>1, <2>2
<1>10. PICK d \in {Idle, GoesOn(p, c)} : chain' = [chain EXCEPT ![p][s] = d]
  BY <1>6
<1>11. /\ \A q \in Platforms \ {p} : chain'[q] = chain[q]
       /\ \A t \in Slots \ {s} : chain'[p][t] = chain[p][t]
       /\ chain' \in [Platforms -> [Slots -> Chains]]
       /\ chain'[p][s] = Idle \/ chain'[p][s] = GoesOn(p, c)
  BY <1>0, <1>7, <1>10
<1>. QED
  BY <1>1, <1>2, <1>3, <1>8, <1>9, <1>11 DEF c

\* The chains of the posting platform: the post's slot is emptied or goes on.
LEMMA PostChains ==
  ASSUME ReportsInv, NEW p \in Platforms, NEW s \in Slots,
         PostSucceeds(p, s) \/ PostFails(p, s)
  PROVE  LET c == chain[p][s] IN
         /\ Active(p)' \subseteq Active(p)
         /\ ClockChains(p)' \subseteq ClockChains(p)
         /\ DecisionChains(p)' \subseteq DecisionChains(p)
         /\ \A t \in Slots \ {s} : chain'[p][t] = chain[p][t]
         /\ s \in Active(p)
         /\ OnClock(c) <=> s \in ClockChains(p)
         /\ ~OnClock(c) <=> s \in DecisionChains(p)
         /\ chain'[p][s] = Idle => s \notin ClockChains(p)'
<1>. DEFINE c == chain[p][s]
<1>1. /\ c \in Chain /\ session[p] \in LcPlatforms
      /\ \A t \in Slots \ {s} : chain'[p][t] = chain[p][t]
      /\ chain'[p][s] = Idle \/ chain'[p][s] = GoesOn(p, c)
  BY PostFacts
<1>2. GoesOn(p, c) # Idle => (OnClock(GoesOn(p, c)) <=> OnClock(c))
  BY <1>1, GoesOnFacts
<1>3. ~OnClock(Idle) /\ c # Idle
  BY <1>1, ChainFacts
<1>4. \A t \in Slots : chain'[p][t] # Idle =>
        chain[p][t] # Idle /\ (OnClock(chain'[p][t]) <=> OnClock(chain[p][t]))
  BY <1>1, <1>2, <1>3
<1>5. \A t \in Slots : OnClock(chain'[p][t]) => chain'[p][t] # Idle
  BY <1>3
<1>6. \A t \in Slots : OnClock(chain[p][t]) => chain[p][t] # Idle
  BY <1>3
<1>. HIDE DEF c
<1>7. Active(p)' \subseteq Active(p) /\ ClockChains(p)' \subseteq ClockChains(p)
  BY <1>4, <1>5 DEF Active, ClockChains
<1>8. DecisionChains(p)' \subseteq DecisionChains(p)
  BY <1>4 DEF DecisionChains, Active, ClockChains
<1>9. /\ s \in Active(p)
      /\ OnClock(c) <=> s \in ClockChains(p)
      /\ ~OnClock(c) <=> s \in DecisionChains(p)
      /\ chain'[p][s] = Idle => s \notin ClockChains(p)'
  BY <1>3 DEF Active, ClockChains, DecisionChains, c
<1>. QED
  BY <1>1, <1>7, <1>8, <1>9 DEF c

LEMMA PostInv ==
  ASSUME ReportsInv, NEW p \in Platforms, NEW s \in Slots,
         PostSucceeds(p, s) \/ PostFails(p, s)
  PROVE  ReportsInv'
<1>. DEFINE c == chain[p][s]
            l == session[p]
<1>1. /\ c \in Chain /\ c.at \in LcPlatforms /\ l \in LcPlatforms /\ HasSession(p)
      /\ session' = session /\ platforms' = platforms /\ face' = face
      /\ lc' \in [LcPlatforms -> LcClock]
      /\ \A k \in LcPlatforms \ {c.at} : lc'[k] = lc[k]
      /\ \A q \in Platforms \ {p} : inStep'[q] = inStep[q] /\ chain'[q] = chain[q]
      /\ chain' \in [Platforms -> [Slots -> Chains]]
      /\ inStep' \in [Platforms -> BOOLEAN]
      /\ chain'[p][s] = Idle \/ chain'[p][s] = GoesOn(p, c)
  BY PostFacts
<1>2. /\ OnClock(c) => lc'[l].lights = lc[l].lights
      /\ ~OnClock(c) => lc'[l].length = lc[l].length /\ lc'[l].running = lc[l].running
  BY PostFacts
<1>3. /\ Active(p)' \subseteq Active(p)
      /\ ClockChains(p)' \subseteq ClockChains(p)
      /\ DecisionChains(p)' \subseteq DecisionChains(p)
      /\ \A t \in Slots \ {s} : chain'[p][t] = chain[p][t]
      /\ s \in Active(p)
      /\ OnClock(c) <=> s \in ClockChains(p)
      /\ ~OnClock(c) <=> s \in DecisionChains(p)
  BY PostChains
<1>4. PlatformOK(p) /\ \A q \in Platforms : Apart(q)
  BY DEF ReportsInv, PlatformOK
<1>5. ReportsTypeOK'
  BY <1>1 DEF ReportsInv, ReportsTypeOK, ActivityTypeOK, LcClock
<1>6. \A t \in ClockChains(p) \cup DecisionChains(p) : t \in Slots
  BY DEF ClockChains, DecisionChains, Active
\* A chain that goes on is the answered one, one call further.
<1>7. ASSUME chain'[p][s] # Idle
      PROVE  LET d == chain'[p][s] IN
             /\ d.at = l /\ d.alone = c.alone /\ d.length = c.length
             /\ d.calls = Tail(c.calls)
             /\ c.calls \in {SetThenStart, SetThenReset, LightsFirst}
             /\ PostSucceeds(p, s)
  <2>1. chain'[p][s] = GoesOn(p, c) /\ GoesOn(p, c) # Idle
    BY <1>1, <1>7
  <2>2. PostSucceeds(p, s)
    <3>1. PostFails(p, s) => chain'[p][s] = Idle
      BY DEF PostFails, AfterFailure, StopsAfterFailure, ReportsInv, ReportsTypeOK
    <3>. QED
      BY <1>7, <3>1
  <2>. QED
    BY <1>1, <2>1, <2>2, GoesOnFacts
\* What an accepted post of a chain with the right session leaves at LC.
<1>8. ASSUME PostSucceeds(p, s), c.at = l
      PROVE  /\ c.calls \in {SetThenStart, SetThenReset} => lc'[l].length = c.length
             /\ c.calls = <<"start_clock">> => lc'[l].length = lc[l].length /\ lc'[l].running
             /\ c.calls = ResetOnly => lc'[l].length = lc[l].length
             /\ c.calls = LightsFirst => lc'[l].lights
  <2>1. lc[l] \in LcClock /\ lc' = [lc EXCEPT ![l] = Handled(lc[l], Head(c.calls), c.length)]
    BY <1>1, <1>8 DEF PostSucceeds, LcHandles, ReportsInv, ReportsTypeOK, LcClock
  <2>2. lc'[l] = Handled(lc[l], Head(c.calls), c.length)
    BY <1>1, <2>1 DEF ReportsInv, ReportsTypeOK
  <2>3. /\ c.calls \in {SetThenStart, SetThenReset} => lc'[l].length = c.length
        /\ c.calls = <<"start_clock">> => lc'[l].length = lc[l].length /\ lc'[l].running
        /\ c.calls = ResetOnly => lc'[l].length = lc[l].length
        /\ c.calls = LightsFirst => lc'[l].lights
    <3>1. c \in Chain
      BY <1>1
    <3>. HIDE DEF c, l
    <3>. QED
      BY <2>1, <2>2, <3>1, HandledFacts
  <2>. QED
    BY <2>3
<1>. HIDE DEF c, l
<1>9. ClockChainsOK(p)'
  <2>. SUFFICES ASSUME NEW t \in ClockChains(p)', chain'[p][t].alone
                PROVE  /\ ClockChains(p)' = {t}
                       /\ chain'[p][t].at = l
                       /\ chain'[p][t].length = face[p].duration
                       /\ chain'[p][t].calls \in {SetThenReset, ResetOnly} => ~face[p].running
                       /\ chain'[p][t].calls \in {<<"start_clock">>, ResetOnly}
                            => lc'[l].length = chain'[p][t].length
    BY <1>1 DEF ClockChainsOK, l
  <2>0. t \in ClockChains(p) /\ t \in Slots
    BY <1>3, <1>6
  <2>1. CASE t # s
    <3>1. chain'[p][t] = chain[p][t]
      BY <1>3, <2>0, <2>1
    <3>2. ClockChains(p) = {t} /\ chain[p][t].at = l /\ chain[p][t].length = face[p].duration
          /\ (chain[p][t].calls \in {SetThenReset, ResetOnly} => ~face[p].running)
          /\ (chain[p][t].calls \in {<<"start_clock">>, ResetOnly}
                 => lc[l].length = chain[p][t].length)
      BY <1>4, <2>0, <3>1 DEF PlatformOK, ClockChainsOK, l
    <3>3. ~OnClock(c)
      BY <1>3, <2>1, <3>2
    <3>. QED
      BY <1>2, <1>3, <3>1, <3>2, <3>3
  <2>2. CASE t = s
    <3>1. chain'[p][s] # Idle
      BY <2>2, ChainFacts DEF ClockChains
    <3>2. OnClock(c)
      BY <1>3, <2>0, <2>2
    <3>3. /\ chain'[p][s].at = l /\ c.alone /\ chain'[p][s].length = c.length
          /\ chain'[p][s].calls = Tail(c.calls) /\ PostSucceeds(p, s)
          /\ c.calls \in {SetThenStart, SetThenReset, LightsFirst}
      BY <1>7, <2>2, <3>1
    <3>4. /\ ClockChains(p) = {s} /\ c.at = l /\ c.length = face[p].duration
          /\ c.calls = SetThenReset => ~face[p].running
      BY <1>4, <2>0, <2>2, <3>3 DEF PlatformOK, ClockChainsOK, l, c
    <3>5. c.calls \in {SetThenStart, SetThenReset}
      BY <1>1, <3>2, <3>3, ChainFacts
    <3>6. lc'[l].length = c.length
      BY <1>8, <3>3, <3>4, <3>5
    <3>7. chain'[p][s].calls \in {SetThenReset, ResetOnly} => c.calls = SetThenReset
      <4>1. <<"start_clock">> # SetThenReset /\ <<"start_clock">> # ResetOnly
        BY CallFacts
      <4>. QED
        BY <3>3, <3>5, <4>1, CallFacts
    <3>. QED
      BY <1>3, <2>2, <3>3, <3>4, <3>6, <3>7
  <2>. QED
    BY <2>1, <2>2
<1>10. DecisionChainsOK(p)'
  <2>. SUFFICES ASSUME NEW t \in DecisionChains(p)', chain'[p][t].alone
                PROVE  /\ DecisionChains(p)' = {t}
                       /\ chain'[p][t].at = l
                       /\ chain'[p][t].calls = <<"next_attempt">> => lc'[l].lights
    BY <1>1 DEF DecisionChainsOK, l
  <2>0. t \in DecisionChains(p) /\ t \in Slots
    BY <1>3, <1>6
  <2>1. CASE t # s
    <3>1. chain'[p][t] = chain[p][t]
      BY <1>3, <2>0, <2>1
    <3>2. /\ DecisionChains(p) = {t} /\ chain[p][t].at = l
          /\ chain[p][t].calls = <<"next_attempt">> => lc[l].lights
      BY <1>4, <2>0, <3>1 DEF PlatformOK, DecisionChainsOK, l
    <3>3. OnClock(c)
      BY <1>3, <2>1, <3>2
    <3>. QED
      BY <1>2, <1>3, <3>1, <3>2, <3>3
  <2>2. CASE t = s
    <3>1. chain'[p][s] # Idle
      BY <2>2 DEF DecisionChains, Active
    <3>2. ~OnClock(c)
      BY <1>3, <2>0, <2>2
    <3>3. /\ chain'[p][s].at = l /\ c.alone /\ PostSucceeds(p, s)
          /\ c.calls \in {SetThenStart, SetThenReset, LightsFirst}
      BY <1>7, <2>2, <3>1
    <3>4. DecisionChains(p) = {s} /\ c.at = l
      BY <1>4, <2>0, <2>2, <3>3 DEF PlatformOK, DecisionChainsOK, l, c
    <3>5. c.calls = LightsFirst
      <4>1. SetThenStart # LightsFirst /\ SetThenReset # LightsFirst
            /\ SetThenStart # <<"next_attempt">> /\ SetThenReset # <<"next_attempt">>
        BY CallFacts
      <4>. QED
        BY <1>1, <3>2, <3>3, <4>1, ChainFacts
    <3>6. lc'[l].lights
      BY <1>8, <3>3, <3>4, <3>5
    <3>. QED
      BY <1>3, <2>2, <3>3, <3>4, <3>6
  <2>. QED
    BY <2>1, <2>2
<1>11. InStepOK(p)'
  <2>. SUFFICES ASSUME inStep'[p]
                PROVE  /\ ClockChains(p)' = {}
                       /\ lc'[l].length = face[p].duration
                       /\ face[p].running => lc'[l].running
    BY <1>1 DEF InStepOK, HasSession, l
  <2>1. CASE inStep[p]
    <3>1. /\ ClockChains(p) = {} /\ lc[l].length = face[p].duration
          /\ face[p].running => lc[l].running
      BY <1>4, <2>1 DEF PlatformOK, InStepOK, l
    <3>. QED
      BY <1>2, <1>3, <3>1
  <2>2. CASE ~inStep[p]
    <3>1. PostSucceeds(p, s) /\ OnClock(c) /\ Len(c.calls) = 1 /\ c.alone
      <4>1. inStep \in [Platforms -> BOOLEAN]
        BY DEF ReportsInv, ReportsTypeOK
      <4>. QED
        BY <2>2, <4>1 DEF PostSucceeds, PostFails, c
    <3>2. s \in ClockChains(p)
      BY <1>3, <3>1
    <3>3. /\ ClockChains(p) = {s} /\ c.at = l /\ c.length = face[p].duration
          /\ c.calls = ResetOnly => ~face[p].running
          /\ c.calls \in {<<"start_clock">>, ResetOnly} => lc[l].length = c.length
      BY <1>4, <3>1, <3>2 DEF PlatformOK, ClockChainsOK, l, c
    <3>4. c.calls \in {<<"start_clock">>, ResetOnly}
      <4>1. c.calls \in Suffixes /\ c.calls \notin {LightsFirst, <<"next_attempt">>}
        BY <1>1, <3>1, ChainFacts DEF Chain
      <4>2. Len(SetThenStart) # 1 /\ Len(SetThenReset) # 1
        BY CallFacts
      <4>. QED
        BY <3>1, <4>1, <4>2 DEF Suffixes
    <3>5. /\ lc'[l].length = face[p].duration
          /\ face[p].running => lc'[l].running
      BY <1>8, <3>1, <3>3, <3>4
    <3>6. s \notin ClockChains(p)'
      <4>1. chain'[p][s] = Idle
        <5>1. Len(SetThenStart) # 1 /\ Len(SetThenReset) # 1 /\ Len(LightsFirst) # 1
          BY CallFacts
        <5>. QED
          BY <1>7, <3>1, <5>1
      <4>. QED
        BY <4>1, PostChains
    <3>. QED
      BY <1>3, <3>3, <3>5, <3>6
  <2>. QED
    BY <2>1, <2>2
<1>12. SessionKept(p)'
  BY <1>1 DEF SessionKept, HasSession
<1>13. ASSUME NEW q \in Platforms \ {p}
       PROVE  SessionKept(q)' /\ ClockChainsOK(q)' /\ InStepOK(q)' /\ DecisionChainsOK(q)'
  <2>1. chain'[q] = chain[q] /\ inStep'[q] = inStep[q] /\ PlatformOK(q)
    BY <1>1 DEF ReportsInv
  <2>2. SessionKept(q)'
    BY <1>1, <2>1 DEF PlatformOK, SessionKept, HasSession, Active
  <2>3. ASSUME HasSession(q) PROVE lc'[session[q]] = lc[session[q]]
    <3>1. session[q] # c.at
      BY <1>3, <2>1, <2>3 DEF PlatformOK, Apart, c
    <3>2. session[q] \in LcPlatforms
      BY <2>3 DEF ReportsInv, ReportsTypeOK, HasSession
    <3>. QED
      BY <1>1, <3>1, <3>2
  <2>. QED
    BY <1>1, <2>1, <2>2, <2>3, Untouched DEF PlatformOK
<1>14. \A q \in Platforms : Apart(q)'
  <2>1. ASSUME NEW q \in Platforms, NEW t \in Active(q)'
        PROVE  chain'[q][t].at = session[q] \/
               (t \in Active(q) /\ chain'[q][t].at = chain[q][t].at)
    <3>1. CASE q # p
      BY <1>1, <2>1, <3>1 DEF Active
    <3>2. CASE q = p /\ t = s
      <4>1. chain'[p][s] # Idle
        BY <2>1, <3>2 DEF Active
      <4>. QED
        BY <1>7, <3>2, <4>1 DEF l
    <3>3. CASE q = p /\ t # s
      <4>1. t \in Slots
        BY <2>1 DEF Active
      <4>. QED
        BY <1>3, <2>1, <3>3, <4>1
    <3>. QED
      BY <3>1, <3>2, <3>3
  <2>. QED
    BY <1>1, <1>4, <2>1, StillApart
<1>. QED
  BY <1>5, <1>9, <1>10, <1>11, <1>12, <1>13, <1>14 DEF ReportsInv, PlatformOK

------------------------------------------------------------------------------
(* Every step, and the theorems.                                           *)

LEMMA FaceFacts ==
  /\ AtRest \in Faces /\ Attempt \in Faces /\ ~AtRest.running
  /\ \A d \in Lengths : Break(d) \in Faces
  /\ \A x \in Faces : x.mode # "BREAK" => x.duration = AtRest.duration
<1>1. /\ AtRest.duration = ActiveDuration /\ Attempt.duration = ActiveDuration
      /\ ~AtRest.running
  BY DEF AtRest, Attempt
<1>2. \A d \in Lengths : Break(d).mode = "BREAK"
  BY DEF Break
<1>. QED
  BY <1>1, <1>2 DEF Faces

\* A reset is not reported, but it only stops a clock and keeps its length.
LEMMA ResetInv ==
  ASSUME ReportsInv, NEW p \in Platforms, ResetUnreported(p)
  PROVE  ReportsInv'
<1>. USE DEF ReportsInv
<1>1. /\ session' = session /\ lc' = lc /\ inStep' = inStep /\ chain' = chain
      /\ platforms' = platforms /\ p \in platforms \ InBreaks /\ Show({p}, AtRest)
  BY DEF ResetUnreported, ResetClock, reportVars
<1>2. face \in [Platforms -> Faces]
  BY DEF ReportsTypeOK, ActivityTypeOK
<1>3. /\ face' \in [Platforms -> Faces]
      /\ face'[p] = AtRest /\ \A q \in Platforms \ {p} : face'[q] = face[q]
  BY <1>1, <1>2, FaceFacts DEF Show
<1>4. face[p].duration = AtRest.duration
  BY <1>1, <1>2, FaceFacts DEF InBreaks
<1>5. ReportsTypeOK'
  BY <1>1, <1>3 DEF ReportsTypeOK, ActivityTypeOK
<1>6. ASSUME NEW q \in Platforms PROVE PlatformOK(q)'
  <2>1. SessionKept(q)' /\ Apart(q)'
    BY <1>1 DEF PlatformOK, SessionKept, Apart, HasSession, Active
  <2>2. face'[q].duration = face[q].duration /\ (face'[q].running => face[q].running)
    BY <1>3, <1>4, FaceFacts
  <2>. QED
    BY <1>1, <2>1, <2>2, Untouched DEF PlatformOK
<1>. QED
  BY <1>5, <1>6

LEMMA StepInv == ReportsInv /\ [ReportsNext]_allVars => ReportsInv'
<1>. SUFFICES ASSUME ReportsInv, [ReportsNext]_allVars PROVE ReportsInv'
  OBVIOUS
<1>. USE FaceFacts
<1>0. face \in [Platforms -> Faces] /\ platforms \subseteq Platforms
  BY DEF ReportsInv, ReportsTypeOK, ActivityTypeOK
<1>1. ASSUME NEW p \in Platforms, StartAttemptReported(p)
      PROVE  ReportsInv'
  <2>1. Show({p}, Attempt) /\ ReportClocks({p}, SetThenStart) /\ platforms' = platforms
    BY <1>1 DEF StartAttemptReported, StartAttempt
  <2>2. SetThenStart # ResetOnly
    BY CallFacts
  <2>. QED
    BY <2>1, <2>2, ClockReportInv
<1>2. ASSUME NEW p \in Platforms, StopAttemptReported(p)
      PROVE  ReportsInv'
  <2>1. /\ Show({p}, AtRest) /\ ReportClocks({p}, ResetOnly) /\ platforms' = platforms
        /\ face[p].mode # "BREAK"
    BY <1>2 DEF StopAttemptReported, StopAttempt, InBreaks
  <2>2. \A q \in {p} : face[q].duration = AtRest.duration
    BY <1>0, <2>1
  <2>. QED
    BY <2>1, <2>2, ClockReportInv
<1>3. ASSUME NEW S \in SUBSET Platforms, NEW d \in Lengths, StartBreaksReported(S, d)
      PROVE  ReportsInv'
  <2>1. Show(S, Break(d)) /\ ReportClocks(S, SetThenStart) /\ platforms' = platforms
    BY <1>3 DEF StartBreaksReported, StartBreaks
  <2>2. SetThenStart # ResetOnly
    BY CallFacts
  <2>. QED
    BY <2>1, <2>2, ClockReportInv
<1>4. ASSUME NEW S \in SUBSET Platforms, EndBreaksReported(S)
      PROVE  ReportsInv'
  <2>1. Show(S, AtRest) /\ ReportClocks(S, SetThenReset) /\ platforms' = platforms
    BY <1>4 DEF EndBreaksReported, EndBreaks, BreakEndTold
  <2>2. SetThenReset # ResetOnly
    BY CallFacts
  <2>. QED
    BY <2>1, <2>2, ClockReportInv
<1>5. CASE UNCHANGED allVars
  <2>1. ASSUME NEW p \in Platforms PROVE PlatformOK(p)'
    BY <1>5 DEF ReportsInv, PlatformOK, SessionKept, ClockChainsOK, InStepOK, DecisionChainsOK,
                Apart, HasSession, Active, ClockChains, DecisionChains,
                allVars, activityVars, reportVars
  <2>2. ReportsTypeOK'
    BY <1>5 DEF ReportsInv, ReportsTypeOK, ActivityTypeOK, allVars, activityVars, reportVars
  <2>. QED
    BY <2>1, <2>2 DEF ReportsInv
<1>. QED
  BY <1>1, <1>2, <1>3, <1>4, <1>5, ResetInv, DecisionReportInv, ComesOrGoesInv,
     StoreSessionInv, PostInv DEF ReportsNext

\* Whatever posts fail, overtake each other or change their session.
LEMMA ReportsInvariant == ReportsSpec => []ReportsInv
BY InitInv, StepInv, PTL DEF ReportsSpec

\* Types: a chain never posts without a session (getSessionUrl never throws in
\* the middle of a chain).
THEOREM ReportsTypeCorrect == ReportsSpec => []ReportsTypeOK
<1>1. ReportsInv => ReportsTypeOK
  BY DEF ReportsInv
<1>. QED
  BY <1>1, ReportsInvariant, PTL

\* A clock report that ran alone leaves LC's clock with the length of the
\* platform's, and counting if that one is, whatever went wrong before
\* (pressClockButton, startPlatformBreak, notifyLcClockResetToActive).
THEOREM ClockInStepAlways == ReportsSpec => []ClockInStep
<1>1. ReportsInv => ClockInStep
  BY DEF ReportsInv, ReportsTypeOK, ActivityTypeOK, PlatformOK, InStepOK, ClockInStep
<1>. QED
  BY <1>1, ReportsInvariant, PTL

\* LC moves on only from an attempt whose lights it accepted, unless reports
\* of decisions overlapped or the session changed (castVote's chain).
THEOREM AdvanceAfterLightsAlways == ReportsSpec => []AdvanceAfterLights
<1>1. ReportsInv => AdvanceAfterLights
  <2>. SUFFICES ASSUME ReportsInv, NEW p \in Platforms, NEW s \in Active(p),
                       chain[p][s].alone, Head(chain[p][s].calls) = "next_attempt"
                PROVE  lc[chain[p][s].at].lights
    BY DEF AdvanceAfterLights
  <2>1. chain[p][s] \in Chain /\ s \in Slots
    BY ChainFacts DEF ReportsInv, ReportsTypeOK, Active
  <2>2. chain[p][s].calls = <<"next_attempt">>
    BY <2>1, SuffixesApart DEF Chain
  <2>3. s \in DecisionChains(p)
    BY <2>1, <2>2, ChainFacts DEF DecisionChains, ClockChains
  <2>. QED
    BY <2>2, <2>3 DEF ReportsInv, PlatformOK, DecisionChainsOK
<1>. QED
  BY <1>1, ReportsInvariant, PTL

=============================================================================
