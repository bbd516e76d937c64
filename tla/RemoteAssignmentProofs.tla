------------------------ MODULE RemoteAssignmentProofs ------------------------
(* Proofs about the placement of remotes, for any number of platforms and    *)
(* remotes: every remote is in one place, no platform has more than three    *)
(* active ones, and RemoteAssignment implements RemotePlacement.             *)
EXTENDS RemoteAssignment, FiniteSetTheorems, TLAPS

USE AssignmentAssumption

LEMMA DeskFacts ==
  /\ DeskRole \in [Keyboard -> ActiveRoles]
  /\ ActiveRoles \subseteq ValidRoles
BY DEF DeskRole, Keyboard, ActiveRoles, ValidRoles

LEMMA InitTypes == Init => TypeOK
BY DeskFacts DEF Init, TypeOK, ValidRoles

\* SetRole with a role that is valid, given to a remote of the right kind.
LEMMA SetRoleTypes ==
  ASSUME TypeOK, NEW p \in Platforms, NEW id \in Keyboard \cup Physical, NEW rl \in ActiveRoles \cup {None},
         NEW given, given = Effective(p, id, rl), SetRole(p, id, given)
  PROVE  /\ role' \in [Physical -> ValidRoles]
         /\ kbRole' \in [Platforms -> [Keyboard -> ActiveRoles]]
<1>1. CASE id \in Keyboard
  <2>1. kbRole[p][id] \in ActiveRoles
    BY <1>1 DEF TypeOK
  <2>2. given \in ActiveRoles
    BY <1>1, <2>1 DEF Effective, Role, None
  <2>3. /\ kbRole' = [kbRole EXCEPT ![p][id] = given]
        /\ role' = role
    BY <1>1 DEF SetRole
  <2>. QED
    BY <1>1, <2>2, <2>3 DEF TypeOK
<1>2. CASE id \notin Keyboard
  <2>1. given \in ValidRoles
    BY <1>2 DEF Effective, Role, None, TypeOK, ValidRoles
  <2>2. role' = [role EXCEPT ![id] = given] /\ kbRole' = kbRole
    BY <1>2 DEF SetRole
  <2>. QED
    BY <1>2, <2>1, <2>2 DEF TypeOK
<1>. QED
  BY <1>1, <1>2

\* Bench, of an id that the director names, keeps remotes where they may be.
LEMMA BenchTypes ==
  ASSUME TypeOK, NEW p \in Platforms, NEW id \in Moved, Bench(p, id)
  PROVE  /\ active' \in [Platforms -> SUBSET (Physical \cup Keyboard)]
         /\ benched' \in [Platforms -> SUBSET Keyboard]
         /\ pool' \subseteq Physical
BY DEF Bench, Moved, TypeOK

\* A remote that is deactivated or transferred leaves one platform, or is on none.
Freed(id) ==
  /\ \E q \in platforms : id \in active[q] /\ Bench(q, id)
  /\ UNCHANGED <<platforms, role, kbRole, hardware, home>>

LEMMA FreedOrStill ==
  ASSUME NEW p, NEW id, DeactivateRemote(p, id) \/ TransferRemote(id, p)
  PROVE  Freed(id) \/ UNCHANGED vars
BY DEF DeactivateRemote, TransferRemote, Freed, vars, placeVars

LEMMA StepTypes == TypeOK /\ [Next]_vars => TypeOK'
<1>. SUFFICES ASSUME TypeOK, [Next]_vars PROVE TypeOK'
  OBVIOUS
<1>1. ASSUME NEW p \in Platforms, PlatformRequest(p)
      PROVE  TypeOK'
  <2>1. CASE EnsurePlatform(p)
    BY <2>1 DEF EnsurePlatform, TypeOK
  <2>2. CASE CreatePlatform(p)
    BY <2>2 DEF CreatePlatform, TypeOK
  <2>3. CASE DeletePlatform(p)
    BY <2>3, DeskFacts DEF DeletePlatform, TypeOK, ValidRoles
  <2>. QED
    BY <1>1, <2>1, <2>2, <2>3 DEF PlatformRequest
<1>2. ASSUME NEW r \in Physical, NEW hw \in HardwareTypes, RegisterPhysicalRemote(r, hw)
      PROVE  TypeOK'
  BY <1>2 DEF RegisterPhysicalRemote, IntoPool, TypeOK
<1>3. ASSUME NEW p \in Platforms, NEW r \in OldFirmware, NEW rl \in DirectorRoles \cup {"spare"},
             RegisterRemote(p, r, rl)
      PROVE  TypeOK'
  BY <1>3 DEF RegisterRemote, IntoPool, TypeOK, ValidRoles
<1>4. ASSUME NEW p \in Platforms, NEW id \in Moved, NEW rl \in DirectorRoles \cup {None},
             ActivateRemote(p, id, rl)
      PROVE  TypeOK'
  <2>1. id \in Keyboard \cup Physical /\ rl \in ActiveRoles \cup {None}
    BY DEF Moved
  <2>2. role' \in [Physical -> ValidRoles] /\ kbRole' \in [Platforms -> [Keyboard -> ActiveRoles]]
    <3>1. CASE id \in Physical
      BY <1>4, <2>1, <3>1, SetRoleTypes DEF ActivateRemote
    <3>2. CASE id \notin Physical
      BY <1>4, <3>2 DEF ActivateRemote, TypeOK
    <3>. QED
      BY <3>1, <3>2
  <2>3. home' \in [Physical -> Platforms \cup {None}]
    BY <1>4 DEF ActivateRemote, SetHome, TypeOK
  <2>4. /\ active' \in [Platforms -> SUBSET (Physical \cup Keyboard)]
        /\ benched' \in [Platforms -> SUBSET Keyboard]
        /\ pool' \subseteq Physical
    BY <1>4, <2>1 DEF ActivateRemote, TypeOK
  <2>5. UNCHANGED <<platforms, hardware>>
    BY <1>4 DEF ActivateRemote
  <2>. QED
    BY <2>2, <2>3, <2>4, <2>5 DEF TypeOK
<1>5. ASSUME NEW id \in Moved, Freed(id)
      PROVE  TypeOK'
  <2>1. /\ \E q \in Platforms : Bench(q, id)
        /\ UNCHANGED <<platforms, role, kbRole, hardware, home>>
    BY <1>5 DEF Freed, TypeOK
  <2>. QED
    BY <2>1, BenchTypes DEF TypeOK
<1>6. ASSUME NEW p \in Platforms, NEW i \in Moved, NEW o \in Moved,
             NEW rl \in DirectorRoles \cup {None}, ReplaceRemote(p, i, o, rl)
      PROVE  TypeOK'
  <2>1. /\ i \in Keyboard \cup Physical
        /\ o \in Keyboard \cup Physical
        /\ rl \in ActiveRoles \cup {None}
    BY DEF Moved
  <2>2. role' \in [Physical -> ValidRoles] /\ kbRole' \in [Platforms -> [Keyboard -> ActiveRoles]]
    BY <1>6, <2>1, SetRoleTypes DEF ReplaceRemote
  <2>3. home' \in [Physical -> Platforms \cup {None}]
    BY <1>6 DEF ReplaceRemote, SetHome, TypeOK
  <2>4. /\ active' \in [Platforms -> SUBSET (Physical \cup Keyboard)]
        /\ benched' \in [Platforms -> SUBSET Keyboard]
        /\ pool' \subseteq Physical
    <3>1. CASE TakesSeat(p, i, o)
      BY <2>1, <3>1 DEF TakesSeat, TypeOK
    <3>2. CASE LeavesOnly(p, i, o)
      BY <2>1, <3>2 DEF LeavesOnly, Bench, TypeOK
    <3>. QED
      BY <1>6, <3>1, <3>2 DEF ReplaceRemote
  <2>. QED
    BY <1>6, <2>2, <2>3, <2>4 DEF ReplaceRemote, TypeOK
<1>7. CASE UNCHANGED vars
  BY <1>7 DEF vars, placeVars, TypeOK
<1>8. CASE Restart
  BY <1>8, DeskFacts DEF Restart, TypeOK, ValidRoles
<1>. QED
  BY <1>1, <1>2, <1>3, <1>4, <1>5, <1>6, <1>7, <1>8, FreedOrStill DEF Next, Registration, DirectorRequest

\* The variables keep their types: in particular a remote that is given no
\* role keeps one of the four roles (replaceRemote).
THEOREM TypeCorrect == Spec => []TypeOK
BY InitTypes, StepTypes, PTL DEF Spec

------------------------------------------------------------------------------
(* One place for every remote.                                             *)

\* The three ways in which requests move remotes.
LEMMA ActivateOnePlace ==
  ASSUME TypeOK, OnePlace, NEW p \in Platforms, NEW id \in Moved,
         NEW rl \in DirectorRoles \cup {None}, ActivateRemote(p, id, rl)
  PROVE  OnePlace'
<1>1. /\ platforms' = platforms /\ p \in platforms
      /\ active' = [active EXCEPT ![p] = @ \cup {id}]
      /\ benched' = [benched EXCEPT ![p] = @ \ {id}]
      /\ pool' = pool \ {id}
      /\ id \in benched[p] \cup pool
  BY DEF ActivateRemote, Benchable
<1>2. id \in Keyboard => id \notin Physical
  OBVIOUS
<1>. QED
  BY <1>1, <1>2 DEF OnePlace, TypeOK

LEMMA BenchOnePlace ==
  ASSUME TypeOK, OnePlace, NEW p \in platforms, NEW id \in active[p],
         Bench(p, id), platforms' = platforms
  PROVE  OnePlace'
<1>1. /\ active' = [active EXCEPT ![p] = @ \ {id}]
      /\ benched' = [benched EXCEPT ![p] = @ \cup ({id} \cap Keyboard)]
      /\ pool' = pool \cup ({id} \cap Physical)
      /\ p \in Platforms
  BY DEF Bench, TypeOK
<1>. QED
  BY <1>1 DEF OnePlace, TypeOK

LEMMA SwapOnePlace ==
  ASSUME TypeOK, OnePlace, NEW p \in platforms, NEW i \in benched[p] \cup pool,
         NEW o \in active[p], TakesSeat(p, i, o), platforms' = platforms
  PROVE  OnePlace'
<1>1. /\ active' = [active EXCEPT ![p] = (@ \ {o}) \cup {i}]
      /\ benched' = [benched EXCEPT ![p] = (@ \cup ({o} \cap Keyboard)) \ {i}]
      /\ pool' = (pool \cup ({o} \cap Physical)) \ {i}
      /\ p \in Platforms
      /\ i # o
  BY DEF TakesSeat, TypeOK, OnePlace
<1>. QED
  BY <1>1 DEF OnePlace, TypeOK

LEMMA StepOnePlace == TypeOK /\ OnePlace /\ [Next]_vars => OnePlace'
<1>. SUFFICES ASSUME TypeOK, OnePlace, [Next]_vars PROVE OnePlace'
  OBVIOUS
<1>1. ASSUME NEW p \in Platforms, PlatformRequest(p)
      PROVE  OnePlace'
  <2>1. CASE EnsurePlatform(p)
    BY <2>1 DEF EnsurePlatform, TypeOK, OnePlace
  <2>2. CASE CreatePlatform(p)
    BY <2>2 DEF CreatePlatform, OnePlace
  <2>3. CASE DeletePlatform(p)
    BY <2>3 DEF DeletePlatform, TypeOK, OnePlace
  <2>. QED
    BY <1>1, <2>1, <2>2, <2>3 DEF PlatformRequest
<1>2. ASSUME NEW r \in Physical, pool' = IntoPool(r),
             UNCHANGED <<platforms, active, benched>>
      PROVE  OnePlace'
  <2>1. r \notin Registered => \A p \in Platforms : r \notin active[p]
    BY DEF Registered, OnePlace
  <2>. QED
    BY <1>2, <2>1 DEF IntoPool, OnePlace, TypeOK
<1>3. CASE Registration
  BY <1>2, <1>3 DEF Registration, RegisterPhysicalRemote, RegisterRemote
<1>4. ASSUME NEW p \in Platforms, NEW id \in Moved, NEW rl \in DirectorRoles \cup {None},
             ActivateRemote(p, id, rl)
      PROVE  OnePlace'
  BY <1>4, ActivateOnePlace
<1>5. ASSUME NEW id \in Moved, Freed(id)
      PROVE  OnePlace'
  BY <1>5, BenchOnePlace DEF Freed
<1>6. ASSUME NEW p \in Platforms, NEW i \in Moved, NEW o \in Moved,
             NEW rl \in DirectorRoles \cup {None}, ReplaceRemote(p, i, o, rl)
      PROVE  OnePlace'
  BY <1>6, BenchOnePlace, SwapOnePlace DEF ReplaceRemote, SwapStarts, Benchable, LeavesOnly
<1>7. CASE UNCHANGED vars
  BY <1>7 DEF vars, placeVars, OnePlace
<1>8. CASE Restart
  BY <1>8 DEF Restart, OnePlace
<1>. QED
  BY <1>1, <1>3, <1>4, <1>5, <1>6, <1>7, <1>8, FreedOrStill DEF Next, DirectorRequest

\* No request, not even one that fails half way, puts a remote in two places.
THEOREM OnePlaceAlways == Spec => []OnePlace
<1>1. Init => OnePlace
  BY DEF Init, OnePlace
<1>. QED
  BY <1>1, TypeCorrect, StepOnePlace, PTL DEF Spec

------------------------------------------------------------------------------
(* Three seats, and who sits in them.                                      *)

SmallTeam(S) == IsFiniteSet(S) /\ Cardinality(S) <= MaxActive

SmallTeams == \A p \in Platforms : SmallTeam(active[p])

\* A team with a free seat may take one more; any may lose one.
LEMMA JoinTeam ==
  ASSUME NEW S, SmallTeam(S), Cardinality(S) < MaxActive, NEW x
  PROVE  SmallTeam(S \cup {x})
<1>1. Cardinality(S) \in Nat
  BY FS_CardinalityType DEF SmallTeam
<1>2. /\ IsFiniteSet(S \cup {x})
      /\ Cardinality(S \cup {x}) = IF x \in S THEN Cardinality(S) ELSE Cardinality(S) + 1
  BY FS_AddElement DEF SmallTeam
<1>. QED
  BY <1>1, <1>2 DEF SmallTeam, MaxActive

LEMMA LeaveTeam ==
  ASSUME NEW S, SmallTeam(S), NEW x
  PROVE  SmallTeam(S \ {x})
<1>1. Cardinality(S) \in Nat
  BY FS_CardinalityType DEF SmallTeam
<1>2. /\ IsFiniteSet(S \ {x})
      /\ Cardinality(S \ {x}) = IF x \in S THEN Cardinality(S) - 1 ELSE Cardinality(S)
  BY FS_RemoveElement DEF SmallTeam
<1>. QED
  BY <1>1, <1>2 DEF SmallTeam, MaxActive

LEMMA KeyboardIsSmall == SmallTeam(Keyboard)
<1>1. SmallTeam({"kb-left"}) /\ Cardinality({"kb-left"}) = 1
  <2>1. IsFiniteSet({"kb-left"}) /\ Cardinality({"kb-left"}) = 1
    BY FS_Singleton
  <2>. QED
    BY <2>1 DEF SmallTeam, MaxActive
<1>2. SmallTeam({"kb-left"} \cup {"kb-right"}) /\ Cardinality({"kb-left"} \cup {"kb-right"}) <= 2
  <2>1. Cardinality({"kb-left"} \cup {"kb-right"})
          = IF "kb-right" \in {"kb-left"} THEN 1 ELSE 1 + 1
    BY <1>1, FS_AddElement DEF SmallTeam
  <2>. QED
    BY <1>1, <2>1, JoinTeam DEF MaxActive
<1>3. SmallTeam(({"kb-left"} \cup {"kb-right"}) \cup {"kb-chief"})
  <2>1. Cardinality({"kb-left"} \cup {"kb-right"}) \in Nat
    BY <1>2, FS_CardinalityType DEF SmallTeam
  <2>2. Cardinality({"kb-left"} \cup {"kb-right"}) < MaxActive
    BY <1>2, <2>1 DEF MaxActive
  <2>. QED
    BY <1>2, <2>2, JoinTeam
<1>4. Keyboard = ({"kb-left"} \cup {"kb-right"}) \cup {"kb-chief"}
  BY DEF Keyboard
<1>. QED
  BY <1>3, <1>4

LEMMA NobodyIsSmall == SmallTeam({})
BY FS_EmptySet DEF SmallTeam, MaxActive

LEMMA StepSmallTeams == TypeOK /\ SmallTeams /\ [Next]_vars => SmallTeams'
<1>. SUFFICES ASSUME TypeOK, SmallTeams, [Next]_vars, NEW q \in Platforms
              PROVE  SmallTeam(active'[q])
  BY DEF SmallTeams
<1>0. SmallTeam(active[q])
  BY DEF SmallTeams
<1>. USE DEF TypeOK
<1>1. ASSUME NEW p \in Platforms, PlatformRequest(p)
      PROVE  SmallTeam(active'[q])
  <2>1. active'[q] \in {active[q], Keyboard, {}}
    BY <1>1 DEF PlatformRequest, EnsurePlatform, CreatePlatform, DeletePlatform
  <2>. QED
    BY <1>0, <2>1, KeyboardIsSmall, NobodyIsSmall
<1>2. CASE Registration
  BY <1>0, <1>2 DEF Registration, RegisterPhysicalRemote, RegisterRemote
<1>3. ASSUME NEW p \in Platforms, NEW id \in Moved, NEW rl \in DirectorRoles \cup {None},
             ActivateRemote(p, id, rl)
      PROVE  SmallTeam(active'[q])
  <2>1. CASE q = p
    BY <1>0, <1>3, <2>1, JoinTeam DEF ActivateRemote, Fits
  <2>2. CASE q # p
    BY <1>0, <1>3, <2>2 DEF ActivateRemote
  <2>. QED
    BY <2>1, <2>2
<1>4. ASSUME NEW id \in Moved, Freed(id)
      PROVE  SmallTeam(active'[q])
  <2>1. active'[q] \in {active[q], active[q] \ {id}}
    BY <1>4 DEF Freed, Bench
  <2>2. SmallTeam(active[q] \ {id})
    BY <1>0, LeaveTeam
  <2>. QED
    BY <1>0, <2>1, <2>2
<1>5. ASSUME NEW p \in Platforms, NEW i \in Moved, NEW o \in Moved,
             NEW rl \in DirectorRoles \cup {None}, ReplaceRemote(p, i, o, rl)
      PROVE  SmallTeam(active'[q])
  <2>1. CASE q # p
    BY <1>0, <1>5, <2>1 DEF ReplaceRemote, TakesSeat, LeavesOnly, Bench
  <2>2. CASE q = p /\ Fits(p, i, Effective(p, i, rl), active[p] \ {o})
    <3>1. active'[q] = (active[q] \ {o}) \cup {i}
      BY <1>5, <2>2 DEF ReplaceRemote, TakesSeat
    <3>2. Cardinality(active[p] \ {o}) < MaxActive
      BY <2>2 DEF Fits
    <3>3. SmallTeam(active[p] \ {o})
      BY <1>0, <2>2, LeaveTeam
    <3>4. SmallTeam((active[p] \ {o}) \cup {i})
      BY <3>2, <3>3, JoinTeam
    <3>. QED
      BY <2>2, <3>1, <3>4
  <2>3. CASE q = p /\ ~Fits(p, i, Effective(p, i, rl), active[p] \ {o})
    <3>1. active'[q] = active[q] \ {o}
      BY <1>5, <2>3 DEF ReplaceRemote, LeavesOnly, Bench
    <3>2. SmallTeam(active[q] \ {o})
      BY <1>0, LeaveTeam
    <3>. QED
      BY <3>1, <3>2
  <2>. QED
    BY <2>1, <2>2, <2>3
<1>6. CASE UNCHANGED vars
  BY <1>0, <1>6 DEF vars, placeVars
<1>7. CASE Restart
  BY <1>7, NobodyIsSmall DEF Restart
<1>. QED
  BY <1>1, <1>2, <1>3, <1>4, <1>5, <1>6, <1>7, FreedOrStill DEF Next, DirectorRequest

LEMMA SmallTeamsInvariant == Spec => []SmallTeams
<1>1. Init => SmallTeams
  BY NobodyIsSmall DEF Init, SmallTeams
<1>. QED
  BY <1>1, TypeCorrect, StepSmallTeams, PTL DEF Spec

\* No platform has a fourth active remote, whatever is activated and swapped.
THEOREM AtMostThreeActiveAlways == Spec => []AtMostThreeActive
<1>1. SmallTeams => AtMostThreeActive
  BY DEF SmallTeams, SmallTeam, AtMostThreeActive
<1>. QED
  BY <1>1, SmallTeamsInvariant, PTL

------------------------------------------------------------------------------
(* Seats of physical remotes.                                              *)

\* What PhysicalSeats says of one platform.
SeatsOn(p) ==
  \A r \in active[p] \cap Physical :
    /\ role[r] \in ActiveRoles
    /\ home[r] = p
    /\ \A s \in active[p] \cap Physical : role[s] = role[r] => s = r

\* A platform keeps its seats if nobody joins it and nobody on it is changed.
LEMMA SameSeats ==
  ASSUME NEW p \in Platforms, SeatsOn(p), active'[p] \subseteq active[p],
         \A r \in active'[p] \cap Physical : role'[r] = role[r] /\ home'[r] = home[r]
  PROVE  SeatsOn(p)'
BY DEF SeatsOn

\* A remote that fits may join what is left of a platform's remotes.
LEMMA JoinSeats ==
  ASSUME TypeOK, NEW p \in Platforms, SeatsOn(p), NEW id \in Physical, id \notin active[p],
         NEW rl, NEW S \in SUBSET active[p], Fits(p, id, rl, S),
         active'[p] = S \cup {id},
         role' = [role EXCEPT ![id] = rl], home' = [home EXCEPT ![id] = p]
  PROVE  SeatsOn(p)'
<1>1. /\ rl \in ActiveRoles
      /\ \A x \in S : Role(p, x) # rl
  BY DEF Fits
<1>2. \A x \in S \cap Physical : Role(p, x) = role[x]
  BY DEF Role
<1>3. \A x \in S \cap Physical : role'[x] = role[x] /\ home'[x] = home[x] /\ x # id
  BY DEF TypeOK
<1>4. role'[id] = rl /\ home'[id] = p
  BY DEF TypeOK
<1>. QED
  BY <1>1, <1>2, <1>3, <1>4 DEF SeatsOn

\* Physical remotes in the pool are on no platform.
LEMMA PooledIsOnNone ==
  ASSUME OnePlace, NEW r \in pool, NEW p \in Platforms
  PROVE  r \notin active[p]
BY DEF OnePlace

\* Every request, one platform at a time.
LEMMA StepSeats ==
  ASSUME TypeOK, OnePlace, PhysicalSeats, [Next]_vars, NEW q \in Platforms
  PROVE  SeatsOn(q)'
<1>0. SeatsOn(q)
  BY DEF PhysicalSeats, SeatsOn
<1>1. ASSUME NEW p \in Platforms, PlatformRequest(p)
      PROVE  SeatsOn(q)'
  <2>1. CASE EnsurePlatform(p)
    <3>1. active'[q] \subseteq active[q] \cup Keyboard
      BY <2>1 DEF EnsurePlatform, TypeOK
    <3>2. active'[q] \cap Physical \subseteq active[q]
      BY <3>1
    <3>3. role' = role /\ home' = home
      BY <2>1 DEF EnsurePlatform
    <3>. QED
      BY <1>0, <3>2, <3>3 DEF SeatsOn
  <2>2. CASE CreatePlatform(p)
    BY <1>0, <2>2 DEF CreatePlatform, SeatsOn
  <2>3. CASE DeletePlatform(p)
    <3>1. CASE q = p
      BY <2>3, <3>1 DEF DeletePlatform, SeatsOn, TypeOK
    <3>2. CASE q # p
      <4>1. active'[q] = active[q]
        BY <2>3, <3>2 DEF DeletePlatform, TypeOK
      <4>2. \A r \in active[q] \cap Physical : r \notin active[p]
        BY <3>2 DEF OnePlace
      <4>3. \A r \in active[q] \cap Physical : role'[r] = role[r] /\ home'[r] = home[r]
        BY <2>3, <4>2 DEF DeletePlatform
      <4>. QED
        BY <1>0, <4>1, <4>3, SameSeats
    <3>. QED
      BY <3>1, <3>2
  <2>. QED
    BY <1>1, <2>1, <2>2, <2>3 DEF PlatformRequest
<1>2. ASSUME NEW r \in Physical, NEW hw \in HardwareTypes, RegisterPhysicalRemote(r, hw)
      PROVE  SeatsOn(q)'
  BY <1>0, <1>2 DEF RegisterPhysicalRemote, SeatsOn
<1>3. ASSUME NEW p \in Platforms, NEW r \in OldFirmware, NEW rl \in DirectorRoles \cup {"spare"},
             RegisterRemote(p, r, rl)
      PROVE  SeatsOn(q)'
  <2>1. r \in Physical /\ r \notin active[q]
    BY <1>3 DEF RegisterRemote, Registered, OnePlace
  <2>2. active' = active
    BY <1>3 DEF RegisterRemote
  <2>3. \A x \in active[q] \cap Physical : role'[x] = role[x] /\ home'[x] = home[x]
    BY <1>3, <2>1 DEF RegisterRemote, TypeOK
  <2>. QED
    BY <1>0, <2>2, <2>3, SameSeats
<1>4. ASSUME NEW p \in Platforms, NEW id \in Moved, NEW rl \in DirectorRoles \cup {None},
             ActivateRemote(p, id, rl)
      PROVE  SeatsOn(q)'
  <2>1. /\ active' = [active EXCEPT ![p] = @ \cup {id}]
        /\ Fits(p, id, Effective(p, id, rl), active[p])
        /\ id \in Physical => /\ id \in pool
                              /\ role' = [role EXCEPT ![id] = Effective(p, id, rl)]
                              /\ home' = [home EXCEPT ![id] = p]
        /\ id \notin Physical => role' = role /\ home' = home
    BY <1>4 DEF ActivateRemote, Benchable, SetRole, SetHome, Moved, TypeOK
  <2>2. CASE id \in Physical /\ q = p
    <3>1. id \notin active[p] /\ active'[p] = active[p] \cup {id}
      BY <2>1, <2>2, PooledIsOnNone DEF TypeOK
    <3>. QED
      BY <1>0, <2>1, <2>2, <3>1, JoinSeats
  <2>3. CASE id \in Physical /\ q # p
    <3>1. active'[q] = active[q] /\ id \notin active[q]
      BY <2>1, <2>3, PooledIsOnNone DEF TypeOK
    <3>2. \A x \in active[q] \cap Physical : role'[x] = role[x] /\ home'[x] = home[x]
      BY <2>1, <2>3, <3>1 DEF TypeOK
    <3>. QED
      BY <1>0, <3>1, <3>2, SameSeats
  <2>4. CASE id \notin Physical
    <3>1. active'[q] \cap Physical = active[q] \cap Physical
      BY <2>1, <2>4 DEF TypeOK
    <3>. QED
      BY <1>0, <2>1, <2>4, <3>1 DEF SeatsOn
  <2>. QED
    BY <2>2, <2>3, <2>4
<1>5. ASSUME NEW id \in Moved, Freed(id)
      PROVE  SeatsOn(q)'
  <2>1. active'[q] \subseteq active[q] /\ role' = role /\ home' = home
    BY <1>5 DEF Freed, Bench, TypeOK
  <2>. QED
    BY <1>0, <2>1, SameSeats
<1>6. ASSUME NEW p \in Platforms, NEW i \in Moved, NEW o \in Moved,
             NEW rl \in DirectorRoles \cup {None}, ReplaceRemote(p, i, o, rl)
      PROVE  SeatsOn(q)'
  <2>1. /\ i \in benched[p] \cup pool
        /\ i \in Physical => /\ i \in pool
                             /\ role' = [role EXCEPT ![i] = Effective(p, i, rl)]
        /\ i \notin Physical => role' = role
    BY <1>6 DEF ReplaceRemote, SwapStarts, Benchable, SetRole, Moved, TypeOK
  <2>2. ASSUME active'[q] \subseteq active[q], home' = home
        PROVE  SeatsOn(q)'
    <3>1. \A x \in active[q] \cap Physical : role'[x] = role[x]
      BY <2>1, PooledIsOnNone DEF TypeOK
    <3>. QED
      BY <1>0, <2>2, <3>1, SameSeats
  <2>3. CASE LeavesOnly(p, i, o) /\ home' = home
    <3>1. active'[q] \subseteq active[q]
      BY <2>3 DEF LeavesOnly, Bench, TypeOK
    <3>. QED
      BY <2>2, <2>3, <3>1
  <2>4. CASE /\ Fits(p, i, Effective(p, i, rl), active[p] \ {o})
             /\ TakesSeat(p, i, o) /\ SetHome(p, i)
    <3>1. /\ active' = [active EXCEPT ![p] = (@ \ {o}) \cup {i}]
          /\ i \in Physical => home' = [home EXCEPT ![i] = p]
          /\ i \notin Physical => home' = home
      BY <2>4 DEF TakesSeat, SetHome
    <3>2. CASE i \in Physical /\ q = p
      <4>1. i \notin active[p] /\ active'[p] = (active[p] \ {o}) \cup {i}
        BY <2>1, <3>1, <3>2, PooledIsOnNone DEF TypeOK
      <4>. QED
        BY <1>0, <2>1, <2>4, <3>1, <3>2, <4>1, JoinSeats
    <3>3. CASE i \in Physical /\ q # p
      <4>1. active'[q] = active[q] /\ i \notin active[q]
        BY <2>1, <3>1, <3>3, PooledIsOnNone DEF TypeOK
      <4>2. \A x \in active[q] \cap Physical : role'[x] = role[x] /\ home'[x] = home[x]
        BY <2>1, <3>1, <3>3, <4>1 DEF TypeOK
      <4>. QED
        BY <1>0, <4>1, <4>2, SameSeats
    <3>4. CASE i \notin Physical
      <4>1. active'[q] \cap Physical \subseteq active[q]
        BY <3>1, <3>4 DEF TypeOK
      <4>. QED
        BY <1>0, <2>1, <3>1, <3>4, <4>1 DEF SeatsOn
    <3>. QED
      BY <3>2, <3>3, <3>4
  <2>. QED
    BY <1>6, <2>3, <2>4 DEF ReplaceRemote
<1>7. CASE UNCHANGED vars
  BY <1>0, <1>7 DEF vars, placeVars, SeatsOn
<1>8. CASE Restart
  BY <1>8 DEF Restart, SeatsOn
<1>. QED
  BY <1>1, <1>2, <1>3, <1>4, <1>5, <1>6, <1>7, <1>8, FreedOrStill DEF Next, Registration, DirectorRequest

LEMMA StepPhysicalSeats == TypeOK /\ OnePlace /\ PhysicalSeats /\ [Next]_vars => PhysicalSeats'
<1>. SUFFICES ASSUME TypeOK, OnePlace, PhysicalSeats, [Next]_vars PROVE PhysicalSeats'
  OBVIOUS
<1>1. \A q \in Platforms : SeatsOn(q)'
  BY StepSeats
<1>. QED
  BY <1>1 DEF PhysicalSeats, SeatsOn

\* Two physical remotes never share a seat, however they came to theirs, and
\* each knows its platform (the checks of activateRemote).
THEOREM PhysicalSeatsAlways == Spec => []PhysicalSeats
<1>1. Init => PhysicalSeats
  BY DEF Init, PhysicalSeats
<1>. QED
  BY <1>1, TypeCorrect, OnePlaceAlways, StepPhysicalSeats, PTL DEF Spec

\* Nobody on platform q whose role stays the same and who was there is asked.
LEMMA StepSeatFits ==
  ASSUME TypeOK, OnePlace, [Next]_vars, NEW q \in Platforms, NEW r \in active'[q] \cap Physical,
         r \notin active[q] \/ role'[r] # role[r]
  PROVE  Compatible(hardware[r], role'[r])
<1>1. ASSUME NEW p \in Platforms, PlatformRequest(p)
      PROVE  FALSE
  <2>1. CASE EnsurePlatform(p)
    BY <2>1 DEF EnsurePlatform, TypeOK
  <2>2. CASE CreatePlatform(p)
    BY <2>2 DEF CreatePlatform
  <2>3. CASE DeletePlatform(p)
    BY <2>3 DEF DeletePlatform, TypeOK, OnePlace
  <2>. QED
    BY <1>1, <2>1, <2>2, <2>3 DEF PlatformRequest
<1>2. ASSUME NEW s \in Physical, NEW hw \in HardwareTypes, RegisterPhysicalRemote(s, hw)
      PROVE  FALSE
  BY <1>2 DEF RegisterPhysicalRemote
<1>3. ASSUME NEW p \in Platforms, NEW s \in OldFirmware, NEW rl \in DirectorRoles \cup {"spare"},
             RegisterRemote(p, s, rl)
      PROVE  FALSE
  <2>1. s \in Physical /\ s \notin active[q] /\ active' = active
    BY <1>3 DEF RegisterRemote, Registered, OnePlace
  <2>. QED
    BY <1>3, <2>1 DEF RegisterRemote, TypeOK
<1>4. ASSUME NEW p \in Platforms, NEW id \in Moved, NEW rl \in DirectorRoles \cup {None},
             ActivateRemote(p, id, rl)
      PROVE  Compatible(hardware[r], role'[r])
  <2>1. /\ active' = [active EXCEPT ![p] = @ \cup {id}]
        /\ Fits(p, id, Effective(p, id, rl), active[p])
        /\ id \in Physical => /\ id \in pool
                              /\ role' = [role EXCEPT ![id] = Effective(p, id, rl)]
        /\ id \notin Physical => role' = role
    BY <1>4 DEF ActivateRemote, Benchable, SetRole, Moved, TypeOK
  <2>2. r = id
    BY <2>1, PooledIsOnNone DEF TypeOK
  <2>. QED
    BY <2>1, <2>2 DEF Fits, TypeOK
<1>5. ASSUME NEW id \in Moved, Freed(id)
      PROVE  FALSE
  BY <1>5 DEF Freed, Bench, TypeOK
<1>6. ASSUME NEW p \in Platforms, NEW i \in Moved, NEW o \in Moved,
             NEW rl \in DirectorRoles \cup {None}, ReplaceRemote(p, i, o, rl)
      PROVE  Compatible(hardware[r], role'[r])
  <2>1. /\ i \in benched[p] \cup pool
        /\ i \in Physical => /\ i \in pool
                             /\ role' = [role EXCEPT ![i] = Effective(p, i, rl)]
        /\ i \notin Physical => role' = role
    BY <1>6 DEF ReplaceRemote, SwapStarts, Benchable, SetRole, Moved, TypeOK
  <2>2. CASE LeavesOnly(p, i, o)
    <3>1. active'[q] \subseteq active[q]
      BY <2>2 DEF LeavesOnly, Bench, TypeOK
    <3>. QED
      BY <2>1, <3>1, PooledIsOnNone DEF TypeOK
  <2>3. CASE Fits(p, i, Effective(p, i, rl), active[p] \ {o}) /\ TakesSeat(p, i, o)
    <3>1. active' = [active EXCEPT ![p] = (@ \ {o}) \cup {i}]
      BY <2>3 DEF TakesSeat
    <3>2. r = i
      BY <2>1, <3>1, PooledIsOnNone DEF TypeOK
    <3>. QED
      BY <2>1, <2>3, <3>2 DEF Fits, TypeOK
  <2>. QED
    BY <1>6, <2>2, <2>3 DEF ReplaceRemote
<1>7. CASE UNCHANGED vars
  BY <1>7 DEF vars, placeVars
<1>8. CASE Restart
  BY <1>8 DEF Restart
<1>. QED
  BY <1>1, <1>2, <1>3, <1>4, <1>5, <1>6, <1>7, <1>8, FreedOrStill DEF Next, Registration, DirectorRequest

LEMMA StepSeatFitsHardware == TypeOK /\ OnePlace /\ [Next]_vars => SeatFitsHardwareStep
BY StepSeatFits DEF SeatFitsHardwareStep

\* No physical remote joins a platform, or changes its role there, with a role
\* that its hardware is not made for.
THEOREM SeatFitsHardwareAlways == Spec => SeatFitsHardware
BY TypeCorrect, OnePlaceAlways, StepSeatFitsHardware, PTL DEF Spec, SeatFitsHardware

\* The remotes of platform q that are keyboards, active or not.
Desk(q) == (active[q] \cup benched[q]) \cap Keyboard

LEMMA BenchLosesNone ==
  ASSUME TypeOK, NEW p \in platforms, NEW id \in active[p], Bench(p, id), platforms' = platforms
  PROVE  Registered \subseteq Registered' /\ \A q \in Platforms : Desk(q)' = Desk(q)
<1>1. /\ active' = [active EXCEPT ![p] = @ \ {id}]
      /\ benched' = [benched EXCEPT ![p] = @ \cup ({id} \cap Keyboard)]
      /\ pool' = pool \cup ({id} \cap Physical)
      /\ p \in Platforms
  BY DEF Bench, TypeOK
<1>2. \A q \in Platforms : Desk(q)' = Desk(q)
  BY <1>1 DEF Desk, TypeOK
<1>3. Registered \subseteq Registered'
  <2>. SUFFICES ASSUME NEW r \in Registered PROVE r \in Registered'
    OBVIOUS
  <2>1. CASE r \in pool \/ r = id
    BY <1>1, <2>1 DEF Registered, TypeOK
  <2>2. CASE r # id /\ \E q \in platforms : r \in active[q] \cap Physical
    BY <1>1, <2>2 DEF Registered, TypeOK
  <2>. QED
    BY <2>1, <2>2 DEF Registered
<1>. QED
  BY <1>2, <1>3

LEMMA StepNothingLost ==
  ASSUME TypeOK, OnePlace, [Next]_vars
  PROVE  NothingLostStep
<1>1. ASSUME platforms \subseteq platforms', Registered \subseteq Registered',
             \A q \in platforms : Desk(q)' = Desk(q)
      PROVE  NothingLostStep
  BY <1>1 DEF NothingLostStep, Desk
<1>2. ASSUME NEW p \in Platforms, PlatformRequest(p)
      PROVE  NothingLostStep
  <2>1. CASE EnsurePlatform(p) \/ CreatePlatform(p)
    <3>1. /\ platforms' = platforms \cup {p} /\ pool' = pool /\ benched' = benched
          /\ \A q \in platforms : active'[q] = active[q]
      BY <2>1 DEF EnsurePlatform, CreatePlatform, TypeOK
    <3>2. Registered \subseteq Registered'
      BY <3>1 DEF Registered
    <3>3. \A q \in platforms : Desk(q)' = Desk(q)
      BY <3>1 DEF Desk
    <3>. QED
      BY <1>1, <3>1, <3>2, <3>3
  <2>2. CASE DeletePlatform(p)
    <3>1. /\ p \in platforms /\ platforms' = platforms \ {p} /\ pool' = pool
          /\ \A q \in platforms' : active'[q] = active[q] /\ benched'[q] = benched[q]
      BY <2>2 DEF DeletePlatform, TypeOK
    <3>2. \A r \in Registered \ Registered' : r \in active[p]
      BY <3>1 DEF Registered
    <3>. QED
      BY <3>1, <3>2 DEF NothingLostStep
  <2>. QED
    BY <1>2, <2>1, <2>2 DEF PlatformRequest
<1>3. CASE Registration
  <2>1. /\ pool \subseteq pool'
        /\ UNCHANGED <<platforms, active, benched>>
    BY <1>3 DEF Registration, RegisterPhysicalRemote, RegisterRemote, IntoPool
  <2>2. Registered \subseteq Registered'
    BY <2>1 DEF Registered
  <2>3. \A q \in platforms : Desk(q)' = Desk(q)
    BY <2>1 DEF Desk
  <2>. QED
    BY <1>1, <2>1, <2>2, <2>3
<1>4. ASSUME NEW p \in Platforms, NEW id \in Moved, NEW rl \in DirectorRoles \cup {None},
             ActivateRemote(p, id, rl)
      PROVE  NothingLostStep
  <2>1. /\ p \in platforms /\ platforms' = platforms
        /\ active' = [active EXCEPT ![p] = @ \cup {id}]
        /\ benched' = [benched EXCEPT ![p] = @ \ {id}]
        /\ pool' = pool \ {id}
        /\ id \in benched[p] \cup pool
    BY <1>4 DEF ActivateRemote, Benchable
  <2>2. Registered \subseteq Registered'
    BY <2>1 DEF Registered, TypeOK
  <2>3. \A q \in platforms : Desk(q)' = Desk(q)
    BY <2>1 DEF Desk, TypeOK
  <2>. QED
    BY <1>1, <2>1, <2>2, <2>3
<1>5. ASSUME NEW id \in Moved, Freed(id)
      PROVE  NothingLostStep
  <2>1. platforms' = platforms /\ \E q \in platforms : id \in active[q] /\ Bench(q, id)
    BY <1>5 DEF Freed
  <2>2. platforms \subseteq Platforms
    BY DEF TypeOK
  <2>. QED
    BY <1>1, <2>1, <2>2, BenchLosesNone
<1>6. ASSUME NEW p \in Platforms, NEW i \in Moved, NEW o \in Moved,
             NEW rl \in DirectorRoles \cup {None}, ReplaceRemote(p, i, o, rl)
      PROVE  NothingLostStep
  <2>1. /\ p \in platforms /\ platforms' = platforms
        /\ i \in benched[p] \cup pool
        /\ o \in active[p]
    BY <1>6 DEF ReplaceRemote, SwapStarts, Benchable
  <2>2. CASE LeavesOnly(p, i, o)
    <3>1. platforms \subseteq Platforms
      BY DEF TypeOK
    <3>. QED
      BY <1>1, <2>1, <2>2, <3>1, BenchLosesNone DEF LeavesOnly
  <2>3. CASE TakesSeat(p, i, o)
    <3>1. /\ active' = [active EXCEPT ![p] = (@ \ {o}) \cup {i}]
          /\ benched' = [benched EXCEPT ![p] = (@ \cup ({o} \cap Keyboard)) \ {i}]
          /\ pool' = (pool \cup ({o} \cap Physical)) \ {i}
          /\ i # o
      BY <2>1, <2>3 DEF TakesSeat, OnePlace, TypeOK
    <3>2. Registered \subseteq Registered'
      <4>. SUFFICES ASSUME NEW r \in Registered PROVE r \in Registered'
        OBVIOUS
      <4>1. CASE r = i
        BY <2>1, <3>1, <4>1 DEF Registered, TypeOK
      <4>2. CASE r # i /\ (r \in pool \/ r = o)
        BY <3>1, <4>2 DEF Registered, TypeOK
      <4>3. CASE r # i /\ r # o /\ \E q \in platforms : r \in active[q] \cap Physical
        BY <2>1, <3>1, <4>3 DEF Registered, TypeOK
      <4>. QED
        BY <4>1, <4>2, <4>3 DEF Registered
    <3>3. \A q \in platforms : Desk(q)' = Desk(q)
      BY <2>1, <3>1 DEF Desk, TypeOK
    <3>. QED
      BY <1>1, <2>1, <3>2, <3>3
  <2>. QED
    BY <1>6, <2>2, <2>3 DEF ReplaceRemote
<1>7. CASE UNCHANGED vars
  BY <1>1, <1>7 DEF vars, placeVars, Registered, Desk
<1>8. CASE Restart
  BY <1>8 DEF NothingLostStep
<1>. QED
  BY <1>2, <1>3, <1>4, <1>5, <1>6, <1>7, <1>8, FreedOrStill DEF Next, DirectorRequest

LEMMA StepLosesNone == TypeOK /\ OnePlace /\ [Next]_vars => NothingLostStep
BY StepNothingLost

\* No step but a deletion or a restart loses a remote, failed swaps included.
THEOREM NothingIsLost == Spec => NothingLost
BY TypeCorrect, OnePlaceAlways, StepLosesNone, PTL DEF Spec, NothingLost

------------------------------------------------------------------------------
(* RemoteAssignment implements RemotePlacement.                            *)

\* The refinement mapping names the one place a remote is in.
PlaceFacts ==
  \A r \in Physical :
    /\ Place(r) = "pool" <=> r \in pool
    /\ \A p \in Platforms : Place(r) = p <=> r \in active[p]
    /\ Place(r) = "nowhere" <=> r \notin pool /\ \A p \in Platforms : r \notin active[p]
    /\ Place(r) \in Platforms \cup {"pool", "nowhere"}

LEMMA PlaceIsUnique == TypeOK /\ OnePlace => PlaceFacts
<1>. SUFFICES ASSUME TypeOK, OnePlace, NEW r \in Physical
              PROVE  /\ Place(r) = "pool" <=> r \in pool
                     /\ \A p \in Platforms : Place(r) = p <=> r \in active[p]
                     /\ Place(r) = "nowhere"
                          <=> r \notin pool /\ \A p \in Platforms : r \notin active[p]
                     /\ Place(r) \in Platforms \cup {"pool", "nowhere"}
  BY DEF PlaceFacts
<1>1. CASE r \in pool
  BY <1>1 DEF Place, OnePlace
<1>2. ASSUME r \notin pool, NEW p \in Platforms, r \in active[p]
      PROVE  Place(r) = p /\ \A q \in Platforms : r \in active[q] => q = p
  <2>1. \A q \in Platforms : r \in active[q] => q = p
    BY <1>2 DEF OnePlace
  <2>2. (CHOOSE q \in Platforms : r \in active[q]) = p
    BY <1>2, <2>1
  <2>. QED
    BY <1>2, <2>1, <2>2 DEF Place
<1>3. CASE r \notin pool /\ \A p \in Platforms : r \notin active[p]
  BY <1>3 DEF Place
<1>. QED
  BY <1>1, <1>2, <1>3

LEMMA PlaceIsUniqueNext == TypeOK' /\ OnePlace' => PlaceFacts'
BY PlaceIsUnique, PTL

PlacedOn(p) == {r \in Physical : Place(r) = p}

\* The instance has its own copy of the library's Cardinality.
LEMMA SameCardinality ==
  ASSUME NEW S
  PROVE  Placement!Cardinality(S) = Cardinality(S)
BY DEF Cardinality, Placement!Cardinality, IsFiniteSet, Placement!IsFiniteSet

\* A platform with a free seat in a team S that holds all its physical
\* remotes has a free seat in the abstract specification.
LEMMA SeatsLeft ==
  ASSUME NEW p \in Platforms, NEW S, SmallTeam(S), Cardinality(S) < MaxActive,
         PlacedOn(p) \subseteq S
  PROVE  Placement!Cardinality(Placement!On(p)) < MaxActive
<1>1. Placement!On(p) = PlacedOn(p)
  BY DEF Placement!On, PlacedOn
<1>2. Cardinality(PlacedOn(p)) <= Cardinality(S) /\ IsFiniteSet(PlacedOn(p))
  BY FS_Subset DEF SmallTeam
<1>3. Cardinality(PlacedOn(p)) \in Nat /\ Cardinality(S) \in Nat
  BY <1>2, FS_CardinalityType DEF SmallTeam
<1>. QED
  BY <1>1, <1>2, <1>3, SameCardinality DEF MaxActive

\* A remote whose memberships stay the same stays in its place.
LEMMA SamePlace ==
  ASSUME PlaceFacts, PlaceFacts', NEW r \in Physical,
         r \in pool' <=> r \in pool,
         \A p \in Platforms : r \in active'[p] <=> r \in active[p]
  PROVE  Place(r)' = Place(r)
BY DEF PlaceFacts

\* Bench is Release for a physical remote and a stutter for a keyboard one.
LEMMA BenchPlacement ==
  ASSUME TypeOK, PlaceFacts, PlaceFacts', NEW p \in platforms, NEW id \in active[p],
         Bench(p, id), UNCHANGED platforms
  PROVE  [Placement!Next]_(Placement!vars)
<1>1. /\ active' = [active EXCEPT ![p] = @ \ {id}]
      /\ pool' = pool \cup ({id} \cap Physical)
      /\ p \in Platforms
  BY DEF Bench, TypeOK
<1>2. ASSUME NEW r \in Physical, r # id
      PROVE  Place(r)' = Place(r)
  BY <1>1, <1>2, SamePlace DEF TypeOK
<1>3. CASE id \in Physical
  <2>1. Place(id) = p /\ Place(id)' = "pool"
    BY <1>1, <1>3 DEF PlaceFacts
  <2>2. Placement!Release(id)
    BY <1>2, <1>3, <2>1 DEF Placement!Release
  <2>. QED
    BY <1>3, <2>2 DEF Placement!Next
<1>4. CASE id \notin Physical
  BY <1>2, <1>4 DEF Placement!vars
<1>. QED
  BY <1>3, <1>4

LEMMA StepPlacement ==
  TypeOK /\ TypeOK' /\ OnePlace /\ OnePlace' /\ SmallTeams /\ [Next]_vars
    => [Placement!Next]_(Placement!vars)
<1>. SUFFICES ASSUME TypeOK, TypeOK', OnePlace, OnePlace', SmallTeams, [Next]_vars
              PROVE  [Placement!Next]_(Placement!vars)
  OBVIOUS
<1>0. PlaceFacts /\ PlaceFacts'
  BY PlaceIsUnique, PlaceIsUniqueNext
<1>1. ASSUME UNCHANGED platforms, \A r \in Physical : Place(r)' = Place(r)
      PROVE  UNCHANGED Placement!vars
  BY <1>1 DEF Placement!vars
<1>2. ASSUME NEW p \in Platforms, PlatformRequest(p)
      PROVE  Placement!Open(p) \/ Placement!Close(p)
  <2>1. CASE EnsurePlatform(p) \/ CreatePlatform(p)
    <3>1. ASSUME NEW r \in Physical PROVE Place(r)' = Place(r)
      <4>1. /\ pool' = pool
            /\ \A q \in Platforms : r \in active'[q] <=> r \in active[q]
        BY <2>1 DEF EnsurePlatform, CreatePlatform, TypeOK, OnePlace
      <4>. QED
        BY <1>0, <4>1, SamePlace
    <3>2. p \notin platforms /\ platforms' = platforms \cup {p}
      BY <2>1 DEF EnsurePlatform, CreatePlatform
    <3>. QED
      BY <3>1, <3>2 DEF Placement!Open
  <2>2. CASE DeletePlatform(p)
    <3>1. /\ p \in platforms
          /\ platforms' = platforms \ {p}
          /\ active' = [active EXCEPT ![p] = {}]
          /\ pool' = pool
      BY <2>2 DEF DeletePlatform
    <3>2. ASSUME NEW r \in Physical
          PROVE  Place(r)' = IF Place(r) = p THEN "nowhere" ELSE Place(r)
      <4>1. CASE r \in active[p]
        BY <1>0, <3>1, <4>1 DEF PlaceFacts, TypeOK, OnePlace
      <4>2. CASE r \notin active[p]
        <5>1. Place(r)' = Place(r)
          BY <1>0, <3>1, <4>2, SamePlace DEF TypeOK
        <5>. QED
          BY <1>0, <4>2, <5>1 DEF PlaceFacts
      <4>. QED
        BY <4>1, <4>2
    <3>. QED
      BY <3>1, <3>2 DEF Placement!Close
  <2>. QED
    BY <1>2, <2>1, <2>2 DEF PlatformRequest
<1>3. ASSUME NEW r \in Physical, pool' = IntoPool(r), UNCHANGED <<platforms, active>>
      PROVE  Placement!Register(r) \/ UNCHANGED Placement!vars
  <2>1. ASSUME NEW s \in Physical, s # r \/ r \in Registered
        PROVE  Place(s)' = Place(s)
    BY <1>0, <1>3, <2>1, SamePlace DEF IntoPool
  <2>2. CASE r \in Registered
    BY <1>1, <1>3, <2>1, <2>2
  <2>3. CASE r \notin Registered
    <3>1. Place(r) = "nowhere" /\ Place(r)' = "pool"
      BY <1>0, <1>3, <2>3 DEF IntoPool, Registered, PlaceFacts, OnePlace
    <3>. QED
      BY <1>3, <2>1, <3>1 DEF Placement!Register
  <2>. QED
    BY <2>2, <2>3
<1>4. ASSUME NEW p \in Platforms, NEW id \in Moved, NEW rl \in DirectorRoles \cup {None},
             ActivateRemote(p, id, rl)
      PROVE  [Placement!Next]_(Placement!vars)
  <2>1. /\ p \in platforms
        /\ platforms' = platforms
        /\ active' = [active EXCEPT ![p] = @ \cup {id}]
        /\ pool' = pool \ {id}
        /\ id \in benched[p] \cup pool
        /\ Cardinality(active[p]) < MaxActive
    BY <1>4 DEF ActivateRemote, Benchable, Fits
  <2>2. ASSUME NEW r \in Physical, r # id
        PROVE  Place(r)' = Place(r)
    BY <1>0, <2>1, <2>2, SamePlace DEF TypeOK
  <2>3. CASE id \in Physical
    <3>1. PlacedOn(p) \subseteq active[p]
      BY <1>0 DEF PlaceFacts, PlacedOn
    <3>2. Placement!Cardinality(Placement!On(p)) < MaxActive
      BY <2>1, <3>1, SeatsLeft DEF SmallTeams
    <3>3. Place(id) = "pool" /\ Place(id)' = p
      BY <1>0, <2>1, <2>3 DEF PlaceFacts, TypeOK
    <3>4. Placement!Assign(id, p)
      BY <2>1, <2>2, <2>3, <3>2, <3>3 DEF Placement!Assign
    <3>. QED
      BY <2>3, <3>4 DEF Placement!Next
  <2>4. CASE id \notin Physical
    BY <1>1, <2>1, <2>2, <2>4
  <2>. QED
    BY <2>3, <2>4
<1>5. ASSUME NEW id \in Moved, Freed(id)
      PROVE  [Placement!Next]_(Placement!vars)
  BY <1>0, <1>5, BenchPlacement DEF Freed
<1>6. ASSUME NEW p \in Platforms, NEW i \in Moved, NEW o \in Moved,
             NEW rl \in DirectorRoles \cup {None}, ReplaceRemote(p, i, o, rl)
      PROVE  [Placement!Next]_(Placement!vars)
  <2>1. /\ p \in platforms
        /\ platforms' = platforms
        /\ i \in benched[p] \cup pool
        /\ o \in active[p]
    BY <1>6 DEF ReplaceRemote, SwapStarts, Benchable
  <2>2. CASE LeavesOnly(p, i, o)
    BY <1>0, <2>1, <2>2, BenchPlacement DEF LeavesOnly
  <2>3. CASE TakesSeat(p, i, o) /\ Cardinality(active[p] \ {o}) < MaxActive
    <3>1. /\ active' = [active EXCEPT ![p] = (@ \ {o}) \cup {i}]
          /\ pool' = (pool \cup ({o} \cap Physical)) \ {i}
          /\ i # o
      BY <2>1, <2>3 DEF TakesSeat, OnePlace
    <3>2. ASSUME NEW r \in Physical, r \notin {i, o}
          PROVE  Place(r)' = Place(r)
      BY <1>0, <3>1, <3>2, SamePlace DEF TypeOK
    <3>3. i \in Physical => Place(i) = "pool" /\ Place(i)' = p
      BY <1>0, <2>1, <3>1 DEF PlaceFacts, TypeOK
    <3>4. o \in Physical => Place(o) = p /\ Place(o)' = "pool"
      BY <1>0, <2>1, <3>1 DEF PlaceFacts, TypeOK
    <3>5. CASE i \in Physical /\ o \in Physical
      <4>1. Placement!Swap(i, o, p)
        BY <2>1, <3>1, <3>2, <3>3, <3>4, <3>5 DEF Placement!Swap
      <4>. QED
        BY <3>5, <4>1 DEF Placement!Next
    <3>6. CASE i \in Physical /\ o \notin Physical
      <4>1. PlacedOn(p) \subseteq active[p] \ {o}
        BY <1>0, <3>6 DEF PlaceFacts, PlacedOn
      <4>2. SmallTeam(active[p] \ {o})
        BY LeaveTeam DEF SmallTeams
      <4>3. Placement!Cardinality(Placement!On(p)) < MaxActive
        BY <2>3, <4>1, <4>2, SeatsLeft
      <4>4. Placement!Assign(i, p)
        BY <2>1, <3>2, <3>3, <3>6, <4>3 DEF Placement!Assign
      <4>. QED
        BY <3>6, <4>4 DEF Placement!Next
    <3>7. CASE i \notin Physical /\ o \in Physical
      <4>1. Placement!Release(o)
        BY <2>1, <3>2, <3>4, <3>7 DEF Placement!Release
      <4>. QED
        BY <3>7, <4>1 DEF Placement!Next
    <3>8. CASE i \notin Physical /\ o \notin Physical
      BY <1>1, <2>1, <3>2, <3>8
    <3>. QED
      BY <3>5, <3>6, <3>7, <3>8
  <2>. QED
    BY <1>6, <2>2, <2>3 DEF ReplaceRemote, Fits
<1>7. CASE UNCHANGED vars
  BY <1>0, <1>1, <1>7, SamePlace DEF vars, placeVars
<1>8. CASE Registration
  <2>1. \E r \in Physical : pool' = IntoPool(r) /\ UNCHANGED <<platforms, active>>
    BY <1>8 DEF Registration, RegisterPhysicalRemote, RegisterRemote
  <2>. QED
    BY <1>3, <2>1 DEF Placement!Next
<1>9. ASSUME NEW p \in Platforms, PlatformRequest(p)
      PROVE  [Placement!Next]_(Placement!vars)
  BY <1>2, <1>9 DEF Placement!Next
<1>10. CASE Restart
  <2>1. \A r \in Physical : Place(r)' = "nowhere"
    BY <1>0, <1>10 DEF Restart, PlaceFacts
  <2>2. Placement!Restart
    BY <1>10, <2>1 DEF Restart, Placement!Restart
  <2>. QED
    BY <2>2 DEF Placement!Next
<1>. QED
  BY <1>4, <1>5, <1>6, <1>7, <1>8, <1>9, <1>10, FreedOrStill DEF Next, DirectorRequest

LEMMA InitPlacement == Init => Placement!Init
BY DEF Init, Placement!Init, Place

\* Registration, assignment, swaps (failed ones included), transfers and
\* deleted platforms are steps of RemotePlacement, for any number of them.
THEOREM ImplementsPlacement == Spec => PlacementSpec
<1>. QED
  BY InitPlacement, StepPlacement, TypeCorrect, OnePlaceAlways, SmallTeamsInvariant, PTL
  DEF Spec, PlacementSpec, Placement!Spec

=============================================================================
