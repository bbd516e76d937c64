--------------------------- MODULE RemoteAssignment ---------------------------
(***************************************************************************)
(* Which remote referees where (models/platform-manager.ts and the remote  *)
(* routes of platform.service.ts).  A physical remote registers into the   *)
(* pool and the director moves it between the pool and platforms; a        *)
(* keyboard remote belongs to its platform, active or benched.             *)
(*                                                                         *)
(* Every request is one action, for Node runs its handler to the end, also *)
(* when it throws half way: what it changed before stays changed.          *)
(***************************************************************************)
EXTENDS Integers, FiniteSets

CONSTANTS
  Platforms,        \* platform ids that requests may name
  Physical,         \* ids of the physical remotes
  WithReferees,     \* bound: platforms made by ensurePlatform, the others
                    \*   by createPlatform
  OldFirmware,      \* bound: remotes whose firmware registers the old way
  DirectorRoles,    \* bound: the roles the director gives
  KeyboardMoved     \* bound: the keyboard remotes the director moves

None == "none"
ActiveRoles == {"left", "right", "chief"}
ValidRoles == ActiveRoles \cup {"spare"}
HardwareTypes == {"side", "chief"}
Keyboard == {"kb-left", "kb-right", "kb-chief"}
MaxActive == 3

\* The role ensurePlatform gives to a keyboard remote.
DeskRole ==
  [k \in Keyboard |-> CASE k = "kb-left" -> "left"
                        [] k = "kb-right" -> "right"
                        [] k = "kb-chief" -> "chief"]

ASSUME AssignmentAssumption ==
  /\ WithReferees \subseteq Platforms
  /\ OldFirmware \subseteq Physical
  /\ DirectorRoles \subseteq ActiveRoles
  /\ KeyboardMoved \subseteq Keyboard
  /\ Physical \cap Keyboard = {}
  /\ {"none", "nowhere", "pool"} \cap Platforms = {}

VARIABLES
  platforms,        \* the platforms that exist
  active,           \* active[p]: ids of the remotes active on p
  benched,          \* benched[p]: p's inactive keyboard remotes
  pool,             \* physicalPool
  role,             \* role[r]: role of physical remote r
  kbRole,           \* kbRole[p][k]: role of p's keyboard remote k
  hardware,         \* hardware[r]: hardwareType, or None if never reported
  home              \* home[r]: platformId of physical remote r

placeVars == <<platforms, active, benched, pool>>
vars == <<placeVars, role, kbRole, hardware, home>>

Registered == pool \cup UNION {active[p] \cap Physical : p \in platforms}

Role(p, id) == IF id \in Keyboard THEN kbRole[p][id] ELSE role[id]

\* isHardwareTypeCompatible: firmware that never told its type is not held
\* to one.
Compatible(hw, r) == hw = None \/ r = "spare" \/ (hw = "chief" <=> r = "chief")

------------------------------------------------------------------------------
(* Platforms.                                                              *)

CreatePlatform(p) ==
  /\ p \notin platforms
  /\ platforms' = platforms \cup {p}
  /\ UNCHANGED <<active, benched, pool, role, kbRole, hardware, home>>

EnsurePlatform(p) ==
  /\ p \notin platforms
  /\ platforms' = platforms \cup {p}
  /\ active' = [active EXCEPT ![p] = Keyboard]
  /\ UNCHANGED <<benched, pool, role, kbRole, hardware, home>>

\* The remotes active on p are dropped with it; nothing is kept of them.
DeletePlatform(p) ==
  /\ p \in platforms
  /\ platforms' = platforms \ {p}
  /\ active' = [active EXCEPT ![p] = {}]
  /\ benched' = [benched EXCEPT ![p] = {}]
  /\ kbRole' = [kbRole EXCEPT ![p] = DeskRole]
  /\ role' = [r \in Physical |-> IF r \in active[p] THEN "spare" ELSE role[r]]
  /\ hardware' = [r \in Physical |-> IF r \in active[p] THEN None ELSE hardware[r]]
  /\ home' = [r \in Physical |-> IF r \in active[p] THEN None ELSE home[r]]
  /\ UNCHANGED pool

------------------------------------------------------------------------------
(* Registration by the devices themselves.                                 *)

\* POST /remotes, also of a remote that is known already.
PoolWithoutLooking(r) == pool \cup {r}
IntoPool(r) == IF r \in Registered THEN pool ELSE pool \cup {r}

RegisterPhysicalRemote(r, hw) ==
  /\ pool' = IntoPool(r)
  /\ hardware' = [hardware EXCEPT ![r] = hw]
  /\ UNCHANGED <<platforms, active, benched, role, kbRole, home>>

\* POST /platforms/:id/remotes of older firmware, which names a platform (not
\* necessarily one that exists) and a role, and tells no hardware type.
RegisterRemote(p, r, rl) ==
  /\ r \notin Registered
  /\ pool' = IntoPool(r)
  /\ role' = [role EXCEPT ![r] = rl]
  /\ home' = [home EXCEPT ![r] = p]
  /\ UNCHANGED <<platforms, active, benched, kbRole, hardware>>

------------------------------------------------------------------------------
(* The director's requests.                                                *)

Benchable(p) == benched[p] \cup pool

\* activateRemote's checks, for remote id with role rl joining the remotes S
\* of p: a keyboard remote's role is not looked at.
FitsAnyRole(p, id, rl, S) == Cardinality(S) < MaxActive
FitsAnyNumber(p, id, rl, S) ==
  id \in Physical => /\ rl \in ActiveRoles
                     /\ Compatible(hardware[id], rl)
                     /\ \A x \in S : Role(p, x) # rl
Fits(p, id, rl, S) ==
  /\ Cardinality(S) < MaxActive
  /\ id \in Physical => /\ rl \in ActiveRoles
                        /\ Compatible(hardware[id], rl)
                        /\ \A x \in S : Role(p, x) # rl

\* The role a request gives, or the one the remote has if it gives none.
RoleAsGiven(p, id, rl) == rl
Effective(p, id, rl) == IF rl = None THEN Role(p, id) ELSE rl

SetRole(p, id, rl) ==
  IF id \in Keyboard
    THEN kbRole' = [kbRole EXCEPT ![p][id] = rl] /\ UNCHANGED role
    ELSE role' = [role EXCEPT ![id] = rl] /\ UNCHANGED kbRole

SetHome(p, id) ==
  home' = IF id \in Physical THEN [home EXCEPT ![id] = p] ELSE home

\* POST /platforms/:id/remotes/:remoteId/activate
ActivateRemote(p, id, rl) ==
  /\ p \in platforms
  /\ id \in Benchable(p)
  /\ Fits(p, id, Effective(p, id, rl), active[p])
  /\ active' = [active EXCEPT ![p] = @ \cup {id}]
  /\ benched' = [benched EXCEPT ![p] = @ \ {id}]
  /\ pool' = pool \ {id}
  /\ IF id \in Physical THEN SetRole(p, id, Effective(p, id, rl))
                        ELSE UNCHANGED <<role, kbRole>>
  /\ SetHome(p, id)
  /\ UNCHANGED <<platforms, hardware>>

\* What deactivateRemote does to active, benched and pool.  The remote keeps
\* its role and its platformId.
Bench(p, id) ==
  /\ active' = [active EXCEPT ![p] = @ \ {id}]
  /\ benched' = [benched EXCEPT ![p] = @ \cup ({id} \cap Keyboard)]
  /\ pool' = pool \cup ({id} \cap Physical)

\* POST /platforms/:id/remotes/:remoteId/deactivate
DeactivateRemote(p, id) ==
  /\ p \in platforms
  /\ id \in active[p]
  /\ Bench(p, id)
  /\ UNCHANGED <<platforms, role, kbRole, hardware, home>>

\* POST /platforms/:id/remotes/replace.  The incoming remote gets its role and
\* the outgoing one leaves before activateRemote checks whether the incoming
\* one fits; if it does not, both changes stay.
LeavesUnseen(p, incoming, outgoing) ==
  /\ active' = [active EXCEPT ![p] = @ \ {outgoing}]
  /\ UNCHANGED <<benched, pool>>
LeavesOnly(p, incoming, outgoing) == Bench(p, outgoing)
TakesSeat(p, incoming, outgoing) ==
  /\ active' = [active EXCEPT ![p] = (@ \ {outgoing}) \cup {incoming}]
  /\ benched' = [benched EXCEPT ![p] = (@ \cup ({outgoing} \cap Keyboard)) \ {incoming}]
  /\ pool' = (pool \cup ({outgoing} \cap Physical)) \ {incoming}

SwapStarts(p, incoming, outgoing, rl) ==
  /\ p \in platforms
  /\ incoming \in Benchable(p)
  /\ outgoing \in active[p]
  /\ rl # None /\ incoming \in Physical => Compatible(hardware[incoming], rl)

ReplaceRemote(p, incoming, outgoing, rl) ==
  LET given == Effective(p, incoming, rl) IN
  /\ SwapStarts(p, incoming, outgoing, rl)
  /\ SetRole(p, incoming, given)
  /\ IF Fits(p, incoming, given, active[p] \ {outgoing})
       THEN TakesSeat(p, incoming, outgoing) /\ SetHome(p, incoming)
       ELSE LeavesOnly(p, incoming, outgoing) /\ UNCHANGED home
  /\ UNCHANGED <<platforms, hardware>>

\* POST /platforms/:id/remotes/:remoteId/transfer frees the remote from the
\* first platform it is active on, if there is one.  A keyboard id is active on
\* many; the order of the platforms is not modelled, so it may be any of them.
TransferRemote(id, target) ==
  /\ target \in platforms
  /\ IF \E p \in platforms : id \in active[p]
       THEN \E p \in platforms : id \in active[p] /\ Bench(p, id)
       ELSE UNCHANGED <<active, benched, pool>>
  /\ UNCHANGED <<platforms, role, kbRole, hardware, home>>

\* The backend restarts.  All of this state is in its memory.
Restart ==
  /\ platforms' = {}
  /\ active' = [p \in Platforms |-> {}]
  /\ benched' = [p \in Platforms |-> {}]
  /\ pool' = {}
  /\ role' = [r \in Physical |-> "spare"]
  /\ kbRole' = [p \in Platforms |-> DeskRole]
  /\ hardware' = [r \in Physical |-> None]
  /\ home' = [r \in Physical |-> None]

------------------------------------------------------------------------------
Init ==
  /\ platforms = {}
  /\ active = [p \in Platforms |-> {}]
  /\ benched = [p \in Platforms |-> {}]
  /\ pool = {}
  /\ role = [r \in Physical |-> "spare"]
  /\ kbRole = [p \in Platforms |-> DeskRole]
  /\ hardware = [r \in Physical |-> None]
  /\ home = [r \in Physical |-> None]

Moved == Physical \cup KeyboardMoved

PlatformRequest(p) ==
  \/ p \in WithReferees /\ EnsurePlatform(p)
  \/ p \notin WithReferees /\ CreatePlatform(p)
  \/ DeletePlatform(p)

Registration ==
  \/ \E r \in Physical, hw \in HardwareTypes : RegisterPhysicalRemote(r, hw)
  \/ \E p \in Platforms, r \in OldFirmware, rl \in DirectorRoles \cup {"spare"} :
       RegisterRemote(p, r, rl)

DirectorRequest(p) ==
  \/ \E id \in Moved, rl \in DirectorRoles \cup {None} : ActivateRemote(p, id, rl)
  \/ \E id \in Moved : DeactivateRemote(p, id)
  \/ \E i, o \in Moved, rl \in DirectorRoles \cup {None} : ReplaceRemote(p, i, o, rl)
  \/ \E id \in Moved : TransferRemote(id, p)

Next ==
  \/ \E p \in Platforms : PlatformRequest(p) \/ DirectorRequest(p)
  \/ Registration
  \/ Restart

Spec == Init /\ [][Next]_vars

------------------------------------------------------------------------------
(* Properties.                                                             *)

TypeOK ==
  /\ platforms \subseteq Platforms
  /\ active \in [Platforms -> SUBSET (Physical \cup Keyboard)]
  /\ benched \in [Platforms -> SUBSET Keyboard]
  /\ pool \subseteq Physical
  /\ role \in [Physical -> ValidRoles]
  /\ kbRole \in [Platforms -> [Keyboard -> ActiveRoles]]
  /\ hardware \in [Physical -> HardwareTypes \cup {None}]
  /\ home \in [Physical -> Platforms \cup {None}]

\* A remote is in one place: never in the pool and on a platform, on two
\* platforms, active and benched, or on a platform that is gone.
OnePlace ==
  \A p \in Platforms :
    /\ active[p] \cap (pool \cup benched[p]) = {}
    /\ \A q \in Platforms : p # q => active[p] \cap active[q] \subseteq Keyboard
    /\ p \notin platforms => active[p] = {} /\ benched[p] = {}

\* No sequence of activations and swaps seats a fourth remote.
AtMostThreeActive == \A p \in Platforms : Cardinality(active[p]) <= MaxActive

\* Two physical remotes of a platform never have the same seat, none is a
\* spare, and each knows the platform it is on.  (A keyboard remote may share a
\* role: its role is not checked when it is activated or swapped in.)
PhysicalSeats ==
  \A p \in Platforms : \A r \in active[p] \cap Physical :
    /\ role[r] \in ActiveRoles
    /\ home[r] = p
    /\ \A s \in active[p] \cap Physical : role[s] = role[r] => s = r

\* A keyboard referee is never lost, and a physical remote only with the
\* platform it is active on or in a restart: no swap or transfer, not even one
\* that fails half way, drops a remote.
NothingLostStep ==
  \/ Restart
  \/ /\ \A r \in Registered \ Registered' : \E p \in platforms \ platforms' : r \in active[p]
     /\ \A p \in platforms \cap platforms' :
          (active[p] \cup benched[p]) \cap Keyboard = (active'[p] \cup benched'[p]) \cap Keyboard
NothingLost == [][NothingLostStep]_vars

\* A remote never takes a seat its case is not made for: whoever joins a
\* platform or changes its role while there fits the hardware type it told.
SeatFitsHardwareStep ==
  \A p \in Platforms : \A r \in (active'[p] \cap Physical) :
    r \notin active[p] \/ role'[r] # role[r] => Compatible(hardware[r], role'[r])
SeatFitsHardware == [][SeatFitsHardwareStep]_vars

\* What a device may rely on when it registers, as the firmware reads the
\* answer: platformId tells whether "the backend currently has this remote
\* placed on a platform (vs. sitting unassigned in the pool)".
ActivatedMeansPlaced ==
  \A r \in Registered : home[r] # None => \E p \in platforms : r \in active[p]

\* replaceRemote is to "atomically swap": when it takes the outgoing remote
\* off, the incoming one, with the role the director gave it, takes its place.
SwapIsAtomic ==
  \A p \in platforms, i, o \in Moved, rl \in DirectorRoles :
    SwapStarts(p, i, o, rl) => Fits(p, i, rl, active[p] \ {o})

\* The pool, the platforms and the remotes on them behave as RemotePlacement
\* promises.
Place(r) ==
  IF r \in pool THEN "pool"
  ELSE IF \E p \in Platforms : r \in active[p] THEN CHOOSE p \in Platforms : r \in active[p]
  ELSE "nowhere"

Placement ==
  INSTANCE RemotePlacement WITH
    Remotes <- Physical, Seats <- MaxActive, open <- platforms,
    place <- [r \in Physical |-> Place(r)]

PlacementSpec == Placement!Spec

==============================================================================
