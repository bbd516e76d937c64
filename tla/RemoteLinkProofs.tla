--------------------------- MODULE RemoteLinkProofs ---------------------------
(* Proofs about the link to the devices, for any number of platforms and     *)
(* devices: the director's requests are those of RemoteAssignment, the       *)
(* socket a device is attached by is on record and shown as connected, votes *)
(* go to the platform shown, and whoever takes a seat while attached is told.*)
EXTENDS RemoteLink, RemoteAssignmentProofs

USE AssignmentAssumption, LinkAssumption

------------------------------------------------------------------------------
(* What the link does to the assignment.                                   *)

LEMMA RequestIsStep ==
  ASSUME NEW p \in Platforms, DirectorAsks(p)
  PROVE  PlatformRequest(p) \/ DirectorRequest(p)
<1>1. ASSUME NEW id \in Moved, NEW rl \in DirectorRoles \cup {None}, Activate(p, id, rl)
      PROVE  DirectorRequest(p)
  BY <1>1 DEF Activate, DirectorRequest
<1>2. ASSUME NEW id \in Moved, Deactivate(p, id)
      PROVE  DirectorRequest(p)
  BY <1>2 DEF Deactivate, DirectorRequest
<1>3. ASSUME NEW i \in Moved, NEW o \in Moved, NEW rl \in DirectorRoles \cup {None},
             Replace(p, i, o, rl)
      PROVE  DirectorRequest(p)
  BY <1>3 DEF Replace, DirectorRequest
<1>4. ASSUME NEW id \in Moved, NEW named \in Platforms, Transfer(id, p, named)
      PROVE  DirectorRequest(p)
  BY <1>4 DEF Transfer, DirectorRequest
<1>5. ASSUME IF p \in WithReferees THEN EnsurePlatform(p) ELSE CreatePlatform(p)
      PROVE  PlatformRequest(p)
  BY <1>5 DEF PlatformRequest
<1>6. ASSUME Delete(p)
      PROVE  PlatformRequest(p)
  BY <1>6 DEF Delete, PlatformRequest
<1>. QED
  BY <1>1, <1>2, <1>3, <1>4, <1>5, <1>6 DEF DirectorAsks

LEMMA CaseIsHardware ==
  ASSUME NEW r \in Physical
  PROVE  HardwareOf(r) \in HardwareTypes
BY DEF HardwareOf, HardwareTypes

\* Every step of the link is a step of RemoteAssignment or leaves it alone.
LEMMA LinkStepIsStep == [LinkNext]_linkVars => [Next]_vars
<1>. SUFFICES ASSUME [LinkNext]_linkVars
              PROVE  Next \/ UNCHANGED vars
  OBVIOUS
<1>1. CASE DirectorActs
  BY <1>1, RequestIsStep DEF DirectorActs, Next
<1>2. ASSUME NEW r \in Physical, RegisterPhysicalRemote(r, HardwareOf(r))
      PROVE  Next
  BY <1>2, CaseIsHardware DEF Next, Registration
<1>3. ASSUME NEW r \in Physical, GatewayStep(r) \/ DeviceStep(r)
      PROVE  Next \/ UNCHANGED vars
  BY <1>2, <1>3 DEF GatewayStep, DeviceStep, Connect, SocketCloses, SupersededCloses, Pong,
                    SocketFails, PowerCycle, RegistrationAnswered, RegistrationFails,
                    WireDown, Deliver, Adopt, assignmentVars
<1>4. CASE Heartbeat
  BY <1>4 DEF Heartbeat, assignmentVars
<1>5. CASE BackendRestarts
  BY <1>5 DEF BackendRestarts, Next
<1>6. CASE UNCHANGED linkVars
  BY <1>6 DEF linkVars, assignmentVars
<1>. QED
  BY <1>1, <1>3, <1>4, <1>5, <1>6 DEF LinkNext

\* Whatever the devices do, the remotes are moved as RemoteAssignment says: all
\* that is proved of it holds here.
THEOREM LinkImplementsAssignment == LinkSpec => Spec
<1>1. LinkInit => Init
  BY DEF LinkInit
<1>. QED
  BY <1>1, LinkStepIsStep, PTL DEF LinkSpec, Spec

------------------------------------------------------------------------------
(* Types.                                                                  *)

LEMMA RolesAreValid ==
  /\ ActiveRoles \subseteq ValidRoles
  /\ DirectorRoles \subseteq ActiveRoles
BY DEF ValidRoles

LEMMA EffectiveIsRole ==
  ASSUME TypeOK, NEW p \in Platforms, NEW id \in Moved, NEW rl \in DirectorRoles \cup {None}
  PROVE  Effective(p, id, rl) \in ValidRoles
<1>1. Role(p, id) \in ValidRoles
  BY RolesAreValid DEF Role, TypeOK, Moved
<1>. QED
  BY <1>1, RolesAreValid DEF Effective

\* What a push does to the frames of one device.
Pushed(r) ==
  \/ frames'[r] = frames[r]
  \/ Hears(r) /\ \E s \in Seats : frames'[r] = Append(frames[r], s)

LEMMA PushTypes ==
  ASSUME LinkTypeOK, NEW told, \A x \in DOMAIN told : told[x] \in Seats, Push(told)
  PROVE  /\ frames' \in [Physical -> Seq(Seats)]
         /\ \A r \in Physical : Pushed(r)
<1>1. \A r \in Physical :
        /\ frames[r] \in Seq(Seats)
        /\ frames'[r] = IF r \in DOMAIN told /\ Hears(r) THEN Append(frames[r], told[r])
                                                      ELSE frames[r]
  BY DEF LinkTypeOK, Push
<1>2. ASSUME NEW r \in Physical
      PROVE  frames'[r] \in Seq(Seats)
  <2>1. CASE r \in DOMAIN told /\ Hears(r)
    <3>1. frames[r] \in Seq(Seats) /\ told[r] \in Seats
      BY <1>1, <2>1
    <3>2. Append(frames[r], told[r]) \in Seq(Seats)
      BY <3>1
    <3>. QED
      BY <1>1, <2>1, <3>2
  <2>2. CASE ~(r \in DOMAIN told /\ Hears(r))
    BY <1>1, <2>2
  <2>. QED
    BY <2>1, <2>2
<1>3. frames' = [r \in Physical |-> frames'[r]]
  BY DEF Push
<1>. QED
  BY <1>1, <1>2, <1>3 DEF Pushed

LEMMA SilentPush ==
  ASSUME LinkTypeOK, UNCHANGED frames
  PROVE  /\ frames' \in [Physical -> Seq(Seats)]
         /\ \A r \in Physical : Pushed(r)
BY DEF LinkTypeOK, Pushed

LEMMA DirectorPushes ==
  ASSUME TypeOK, LinkTypeOK, NEW p \in Platforms, DirectorAsks(p)
  PROVE  /\ frames' \in [Physical -> Seq(Seats)]
         /\ \A r \in Physical : Pushed(r)
<1>. DEFINE Goal == /\ frames' \in [Physical -> Seq(Seats)]
                    /\ \A r \in Physical : Pushed(r)
<1>0. Unassigned \in Seats
  BY DEF Seats
<1>1. ASSUME NEW id \in Moved, NEW rl \in DirectorRoles \cup {None}, Activate(p, id, rl)
      PROVE  Goal
  <2>1. [platform |-> p, role |-> Effective(p, id, rl)] \in Seats
    BY EffectiveIsRole DEF Seats
  <2>. QED
    BY <1>1, <2>1, PushTypes DEF Activate, Tell
<1>2. ASSUME NEW id \in Moved, Deactivate(p, id)
      PROVE  Goal
  BY <1>0, <1>2, PushTypes DEF Deactivate, Tell
<1>3. ASSUME NEW i \in Moved, NEW o \in Moved, NEW rl \in DirectorRoles \cup {None},
             Replace(p, i, o, rl)
      PROVE  Goal
  <2>. DEFINE told == [x \in {i, o} |->
                         IF x = i THEN [platform |-> p, role |-> Effective(p, i, rl)]
                                  ELSE Unassigned]
  <2>1. [platform |-> p, role |-> Effective(p, i, rl)] \in Seats
    BY EffectiveIsRole DEF Seats
  <2>2. \A x \in DOMAIN told : told[x] \in Seats
    BY <1>0, <2>1
  <2>3. Push(told) \/ UNCHANGED frames
    BY <1>3 DEF Replace
  <2>. HIDE DEF told
  <2>. QED
    BY <2>2, <2>3, PushTypes, SilentPush
<1>4. ASSUME NEW id \in Moved, NEW named \in Platforms, Transfer(id, p, named)
      PROVE  Goal
  BY <1>0, <1>4, PushTypes, SilentPush DEF Transfer, Tell
<1>5. ASSUME UNCHANGED frames
      PROVE  Goal
  BY <1>5, SilentPush
<1>. QED
  BY <1>1, <1>2, <1>3, <1>4, <1>5 DEF DirectorAsks, Delete

\* Requests touch no socket, and only a deletion touches a connected flag.
LEMMA DirectorKeepsSockets ==
  ASSUME NEW p \in Platforms, DirectorAsks(p)
  PROVE  /\ UNCHANGED <<conn, alive, superseded>>
         /\ UNCHANGED connected \/ Delete(p)
BY DEF DirectorAsks, Delete, backendVars

LEMMA NoFrames == <<>> \in Seq(Seats)
OBVIOUS

\* Terminating sockets, and breaking one, keeps the types of what they touch.
LEMMA TerminateTypes ==
  ASSUME LinkTypeOK, NEW S, Terminate(S)
  PROVE  /\ conn' \in [Physical -> {None, "open", "terminated"}]
         /\ wire' \in [Physical -> {None, "open", "dead"}]
         /\ frames' \in [Physical -> Seq(Seats)]
<1>1. \A r \in Physical : frames[r] \in Seq(Seats)
  BY DEF LinkTypeOK
<1>2. \A r \in Physical : (IF r \in S THEN <<>> ELSE frames[r]) \in Seq(Seats)
  BY <1>1, NoFrames
<1>3. frames' \in [Physical -> Seq(Seats)]
  BY <1>2 DEF Terminate
<1>. QED
  BY <1>3 DEF Terminate, LinkTypeOK

LEMMA StepLinkTypes == TypeOK /\ LinkTypeOK /\ [LinkNext]_linkVars => LinkTypeOK'
<1>. SUFFICES ASSUME TypeOK, LinkTypeOK, [LinkNext]_linkVars
              PROVE  LinkTypeOK'
  OBVIOUS
<1>0. Unassigned \in Seats
  BY DEF Seats
<1>1. CASE DirectorActs
  <2>1. PICK p \in Platforms : DirectorAsks(p)
    BY <1>1 DEF DirectorActs
  <2>2. connected' \in [Physical -> BOOLEAN]
    BY <2>1, DirectorKeepsSockets DEF Delete, LinkTypeOK
  <2>3. frames' \in [Physical -> Seq(Seats)]
    BY <2>1, DirectorPushes
  <2>4. UNCHANGED <<conn, alive, superseded>>
    BY <2>1, DirectorKeepsSockets
  <2>. QED
    BY <1>1, <2>2, <2>3, <2>4 DEF DirectorActs, deviceVars, LinkTypeOK
<1>2. ASSUME NEW r \in Physical, GatewayStep(r)
      PROVE  LinkTypeOK'
  <2>1. CASE Connect(r)
    <3>1. superseded' \in [Physical -> Nat]
      BY <2>1 DEF Connect, LinkTypeOK
    <3>. QED
      BY <2>1, <3>1 DEF Connect, LinkTypeOK, deviceVars
  <2>2. CASE SocketCloses(r)
    BY <2>2 DEF SocketCloses, ForgetSocket, LinkTypeOK, deviceVars
  <2>3. CASE SupersededCloses(r)
    <3>1. superseded' \in [Physical -> Nat]
      BY <2>3 DEF SupersededCloses, LinkTypeOK
    <3>. QED
      BY <2>3, <3>1 DEF SupersededCloses, SupersededIgnored, LinkTypeOK, deviceVars
  <2>4. CASE Pong(r)
    BY <2>4 DEF Pong, LinkTypeOK, deviceVars
  <2>5. CASE SocketFails(r)
    BY <2>5, TerminateTypes DEF SocketFails, LinkTypeOK, deviceVars
  <2>. QED
    BY <1>2, <2>1, <2>2, <2>3, <2>4, <2>5 DEF GatewayStep
<1>3. ASSUME NEW r \in Physical, DeviceStep(r)
      PROVE  LinkTypeOK'
  <2>1. CASE PowerCycle(r)
    <3>1. seat[r].platform \in Platforms \cup {None}
      BY DEF LinkTypeOK, Seats, Unassigned
    <3>. QED
      BY <2>1, <3>1, NoFrames DEF PowerCycle, LinkTypeOK, backendVars
  <2>2. CASE RegistrationAnswered(r)
    <3>1. Told(r) \in Seats
      BY <1>0 DEF Told, Seats, TypeOK
    <3>2. home[r] \in Platforms \cup {None}
      BY DEF TypeOK
    <3>. QED
      BY <2>2, <3>1, <3>2 DEF RegistrationAnswered, LinkTypeOK, backendVars
  <2>3. CASE RegistrationFails(r)
    BY <1>0, <2>3 DEF RegistrationFails, LinkTypeOK, backendVars
  <2>4. ASSUME NEW how \in {None, "dead"}, WireDown(r, how)
        PROVE  LinkTypeOK'
    BY <2>4, NoFrames DEF WireDown, LinkTypeOK, backendVars, deviceVars
  <2>5. CASE Deliver(r)
    <3>1. /\ frames[r] \in Seq(Seats) /\ frames[r] # <<>>
          /\ news' = [news EXCEPT ![r] = {Head(frames[r])}]
          /\ frames' = [frames EXCEPT ![r] = Tail(frames[r])]
      BY <2>5 DEF Deliver, Keep, LinkTypeOK
    <3>2. Head(frames[r]) \in Seats /\ Tail(frames[r]) \in Seq(Seats)
      BY <3>1
    <3>3. frames' \in [Physical -> Seq(Seats)]
      BY <3>1, <3>2 DEF LinkTypeOK
    <3>4. news' \in [Physical -> {{}} \cup {{s} : s \in Seats}]
      BY <3>1, <3>2 DEF LinkTypeOK
    <3>. QED
      BY <2>5, <3>3, <3>4 DEF Deliver, LinkTypeOK, backendVars
  <2>6. CASE Adopt(r)
    <3>1. PICK s \in news[r] : /\ seat' = [seat EXCEPT ![r] = s]
                               /\ apiPlatform' = [apiPlatform EXCEPT ![r] = s.platform]
      BY <2>6 DEF Adopt, AdoptsEverywhere
    <3>2. s \in Seats
      BY DEF LinkTypeOK
    <3>3. s.platform \in Platforms \cup {None}
      BY <3>2 DEF Seats, Unassigned
    <3>. QED
      BY <2>6, <3>1, <3>2, <3>3 DEF Adopt, LinkTypeOK, backendVars
  <2>. QED
    BY <1>3, <2>1, <2>2, <2>3, <2>4, <2>5, <2>6 DEF DeviceStep
<1>4. CASE Heartbeat
  BY <1>4, TerminateTypes DEF Heartbeat, LinkTypeOK, deviceVars
<1>5. CASE BackendRestarts
  BY <1>5, NoFrames DEF BackendRestarts, LinkTypeOK, deviceVars
<1>6. CASE UNCHANGED linkVars
  BY <1>6 DEF linkVars, backendVars, deviceVars, LinkTypeOK
<1>. QED
  BY <1>1, <1>2, <1>3, <1>4, <1>5, <1>6 DEF LinkNext

\* Every reachable state of the link is well typed.
THEOREM LinkTypeCorrect == LinkSpec => []LinkTypeOK
<1>1. LinkInit => LinkTypeOK
  BY NoFrames DEF LinkInit, LinkTypeOK, Seats
<1>. QED
  BY <1>1, StepLinkTypes, LinkImplementsAssignment, TypeCorrect, PTL DEF LinkSpec

------------------------------------------------------------------------------
(* Sockets and the connected flag.                                         *)

\* A device opens its socket once it has registered, and only an open socket
\* carries frames.
SocketsOK ==
  \A r \in Physical :
    /\ wire[r] # None => registered[r]
    /\ frames[r] # <<>> => Attached(r)

LinkInv == AttachedIsOnRecord /\ SocketsOK /\ ConnectedIsTrue

\* What ConnectedIsTrue says of one remote.
ShownRight(r) ==
  /\ Attached(r) /\ r \in Registered => connected[r]
  /\ connected[r] => conn[r] # None /\ r \in Registered

LEMMA BenchNobodyNew ==
  ASSUME TypeOK, NEW p \in platforms, NEW id \in active[p], Bench(p, id), platforms' = platforms
  PROVE  Registered' \subseteq Registered
<1>1. /\ active' = [active EXCEPT ![p] = @ \ {id}]
      /\ pool' = pool \cup ({id} \cap Physical)
      /\ p \in Platforms
  BY DEF Bench, TypeOK
<1>2. \A q \in platforms : active'[q] \subseteq active[q]
  BY <1>1 DEF TypeOK
<1>. QED
  BY <1>1, <1>2 DEF Registered

\* The director brings nobody in that has not registered.
LEMMA DirectorNobodyNew ==
  ASSUME TypeOK, OnePlace, NEW p \in Platforms, DirectorRequest(p) \/ PlatformRequest(p)
  PROVE  Registered' \subseteq Registered
<1>1. CASE EnsurePlatform(p)
  <2>1. /\ platforms' = platforms \cup {p} /\ pool' = pool
        /\ active' = [active EXCEPT ![p] = Keyboard]
    BY <1>1 DEF EnsurePlatform
  <2>2. \A q \in platforms' : active'[q] \cap Physical \subseteq
                                IF q = p THEN {} ELSE active[q] \cap Physical
    BY <2>1 DEF TypeOK
  <2>. QED
    BY <2>1, <2>2 DEF Registered
<1>2. CASE CreatePlatform(p)
  <2>1. /\ platforms' = platforms \cup {p} /\ pool' = pool /\ active' = active
        /\ active[p] = {}
    BY <1>2 DEF CreatePlatform, OnePlace
  <2>. QED
    BY <2>1 DEF Registered
<1>3. CASE DeletePlatform(p)
  <2>1. /\ platforms' = platforms \ {p} /\ pool' = pool
        /\ \A q \in platforms' : active'[q] = active[q]
    BY <1>3 DEF DeletePlatform, TypeOK
  <2>. QED
    BY <2>1 DEF Registered
<1>4. ASSUME NEW id \in Moved, NEW rl \in DirectorRoles \cup {None}, ActivateRemote(p, id, rl)
      PROVE  Registered' \subseteq Registered
  <2>1. /\ platforms' = platforms /\ p \in platforms
        /\ active' = [active EXCEPT ![p] = @ \cup {id}]
        /\ pool' = pool \ {id}
        /\ id \in benched[p] \cup pool
    BY <1>4 DEF ActivateRemote, Benchable
  <2>2. \A q \in platforms : active'[q] \cap Physical \subseteq (active[q] \cap Physical) \cup pool
    BY <2>1 DEF TypeOK
  <2>. QED
    BY <2>1, <2>2 DEF Registered
<1>5. ASSUME NEW id \in Moved, DeactivateRemote(p, id) \/ TransferRemote(id, p)
      PROVE  Registered' \subseteq Registered
  <2>1. CASE Freed(id)
    BY <2>1, BenchNobodyNew DEF Freed
  <2>2. CASE UNCHANGED vars
    BY <2>2 DEF vars, placeVars, Registered
  <2>. QED
    BY <1>5, <2>1, <2>2, FreedOrStill
<1>6. ASSUME NEW i \in Moved, NEW o \in Moved, NEW rl \in DirectorRoles \cup {None},
             ReplaceRemote(p, i, o, rl)
      PROVE  Registered' \subseteq Registered
  <2>1. /\ platforms' = platforms /\ p \in platforms /\ o \in active[p]
        /\ i \in benched[p] \cup pool
        /\ LeavesOnly(p, i, o) \/ TakesSeat(p, i, o)
    BY <1>6 DEF ReplaceRemote, SwapStarts, Benchable
  <2>2. CASE LeavesOnly(p, i, o)
    BY <2>1, <2>2, BenchNobodyNew DEF LeavesOnly
  <2>3. CASE TakesSeat(p, i, o)
    <3>1. /\ active' = [active EXCEPT ![p] = (@ \ {o}) \cup {i}]
          /\ pool' = (pool \cup ({o} \cap Physical)) \ {i}
      BY <2>3 DEF TakesSeat
    <3>2. \A q \in platforms : active'[q] \cap Physical \subseteq (active[q] \cap Physical) \cup pool
      BY <2>1, <3>1 DEF TypeOK
    <3>. QED
      BY <2>1, <3>1, <3>2 DEF Registered
  <2>. QED
    BY <2>1, <2>2, <2>3
<1>. QED
  BY <1>1, <1>2, <1>3, <1>4, <1>5, <1>6 DEF DirectorRequest, PlatformRequest

\* A request of the director keeps every flag right: only a deletion loses
\* remotes, and it clears their flags with their records.
LEMMA DirectorShownRight ==
  ASSUME TypeOK, OnePlace, LinkTypeOK, LinkInv, NEW p \in Platforms, DirectorAsks(p),
         UNCHANGED wire, NothingLostStep, NEW r \in Physical
  PROVE  ShownRight(r)'
<1>1. Registered' \subseteq Registered
  BY RequestIsStep, DirectorNobodyNew
<1>2. ShownRight(r)
  BY DEF LinkInv, ConnectedIsTrue, ShownRight
<1>3. conn' = conn
  BY DirectorKeepsSockets
<1>4. CASE Delete(p)
  <2>1. /\ connected'[r] = (connected[r] /\ r \notin active[p])
        /\ platforms' = platforms \ {p} /\ pool' = pool
        /\ \A q \in platforms' : active'[q] = active[q]
    BY <1>4 DEF Delete, DeletePlatform, TypeOK, LinkTypeOK
  <2>2. r \in active[p] => r \notin Registered'
    <3>. SUFFICES ASSUME r \in active[p]
                  PROVE  r \notin Registered'
      OBVIOUS
    <3>1. r \notin pool /\ \A q \in Platforms : q # p => r \notin active[q]
      BY DEF OnePlace
    <3>. QED
      BY <2>1, <3>1 DEF Registered, TypeOK
  <2>3. r \in Registered /\ r \notin active[p] => r \in Registered'
    BY <2>1 DEF Registered
  <2>. QED
    BY <1>1, <1>2, <1>3, <2>1, <2>2, <2>3 DEF ShownRight, Attached
<1>5. CASE ~Delete(p)
  <2>1. connected' = connected
    BY <1>5, DirectorKeepsSockets
  <2>2. p \in platforms' /\ platforms \subseteq platforms'
    <3>1. ASSUME NEW id \in Moved, NEW rl \in DirectorRoles \cup {None}, Activate(p, id, rl)
          PROVE  p \in platforms /\ platforms' = platforms
      BY <3>1 DEF Activate, ActivateRemote
    <3>2. ASSUME NEW id \in Moved, Deactivate(p, id)
          PROVE  p \in platforms /\ platforms' = platforms
      BY <3>2 DEF Deactivate, DeactivateRemote
    <3>3. ASSUME NEW i \in Moved, NEW o \in Moved, NEW rl \in DirectorRoles \cup {None},
                 Replace(p, i, o, rl)
          PROVE  p \in platforms /\ platforms' = platforms
      BY <3>3 DEF Replace, ReplaceRemote, SwapStarts
    <3>4. ASSUME NEW id \in Moved, NEW named \in Platforms, Transfer(id, p, named)
          PROVE  p \in platforms /\ platforms' = platforms
      BY <3>4 DEF Transfer, TransferRemote
    <3>5. ASSUME IF p \in WithReferees THEN EnsurePlatform(p) ELSE CreatePlatform(p)
          PROVE  platforms' = platforms \cup {p}
      BY <3>5 DEF EnsurePlatform, CreatePlatform
    <3>. QED
      BY <1>5, <3>1, <3>2, <3>3, <3>4, <3>5 DEF DirectorAsks
  <2>3. Registered \subseteq Registered'
    BY <2>2 DEF NothingLostStep, Restart
  <2>. QED
    BY <1>1, <1>2, <1>3, <2>1, <2>3 DEF ShownRight, Attached
<1>. QED
  BY <1>4, <1>5

\* A registration brings in its own remote only, which is not attached.
LEMMA RegistrationNobodyElse ==
  ASSUME NEW r \in Physical, RegisterPhysicalRemote(r, HardwareOf(r))
  PROVE  Registered' = Registered \cup {r}
<1>1. pool' = (IF r \in Registered THEN pool ELSE pool \cup {r})
  BY DEF RegisterPhysicalRemote, IntoPool
<1>2. UNCHANGED <<platforms, active>>
  BY DEF RegisterPhysicalRemote
<1>. QED
  BY <1>1, <1>2 DEF Registered

\* The assignment has not moved.
LEMMA SameRegistered ==
  ASSUME UNCHANGED assignmentVars
  PROVE  Registered' = Registered
BY DEF assignmentVars, vars, placeVars, Registered

LEMMA StepLinkInv ==
  TypeOK /\ OnePlace /\ LinkTypeOK /\ LinkInv /\ [LinkNext]_linkVars => LinkInv'
<1>. SUFFICES ASSUME TypeOK, OnePlace, LinkTypeOK, LinkInv, [LinkNext]_linkVars
              PROVE  LinkInv'
  OBVIOUS
<1>. DEFINE OK(r) == /\ Attached(r) => conn[r] = "open"
                     /\ wire[r] # None => registered[r]
                     /\ frames[r] # <<>> => Attached(r)
                     /\ ShownRight(r)
<1>0. \A r \in Physical : OK(r)
  BY DEF LinkInv, AttachedIsOnRecord, SocketsOK, ConnectedIsTrue, ShownRight
<1>a. SUFFICES ASSUME NEW x \in Physical
               PROVE  OK(x)'
  <2>. SUFFICES ASSUME \A r \in Physical : OK(r)'
                PROVE  LinkInv'
    BY <1>a
  <2>. QED
    BY DEF LinkInv, AttachedIsOnRecord, SocketsOK, ConnectedIsTrue, ShownRight
<1>b. OK(x)
  BY <1>0
<1>1. CASE DirectorActs
  <2>1. PICK p \in Platforms : DirectorAsks(p)
    BY <1>1 DEF DirectorActs
  <2>2. UNCHANGED <<wire, registered>>
    BY <1>1 DEF DirectorActs, deviceVars
  <2>3. ShownRight(x)'
    BY <2>1, <2>2, DirectorShownRight, StepNothingLost, LinkStepIsStep
  <2>4. conn' = conn
    BY <2>1, DirectorKeepsSockets
  <2>5. Pushed(x)
    BY <2>1, DirectorPushes
  <2>. QED
    BY <1>b, <2>2, <2>3, <2>4, <2>5 DEF Pushed, Hears, Attached
<1>2. ASSUME NEW r \in Physical, GatewayStep(r)
      PROVE  OK(x)'
  <2>0. UNCHANGED assignmentVars /\ UNCHANGED registered
    BY <1>2 DEF GatewayStep, Connect, SocketCloses, SupersededCloses, Pong, SocketFails, deviceVars
  <2>r. Registered' = Registered
    BY <2>0, SameRegistered
  <2>1. CASE Connect(r)
    BY <1>b, <2>0, <2>r, <2>1 DEF Connect, ShownRight, Attached, LinkTypeOK
  <2>2. CASE SocketCloses(r)
    BY <1>b, <2>0, <2>r, <2>2 DEF SocketCloses, ForgetSocket, ShownRight, Attached, LinkTypeOK
  <2>3. CASE SupersededCloses(r)
    BY <1>b, <2>0, <2>r, <2>3 DEF SupersededCloses, SupersededIgnored, ShownRight, Attached
  <2>4. CASE Pong(r)
    BY <1>b, <2>0, <2>r, <2>4 DEF Pong, ShownRight, Attached
  <2>5. CASE SocketFails(r)
    BY <1>b, <2>0, <2>r, <2>5 DEF SocketFails, Terminate, ShownRight, Attached, LinkTypeOK, None
  <2>. QED
    BY <1>2, <2>1, <2>2, <2>3, <2>4, <2>5 DEF GatewayStep
<1>3. ASSUME NEW r \in Physical, DeviceStep(r)
      PROVE  OK(x)'
  <2>1. CASE PowerCycle(r)
    <3>1. Registered' = Registered /\ UNCHANGED <<conn, connected>>
      BY <2>1, SameRegistered DEF PowerCycle, backendVars
    <3>. QED
      BY <1>b, <2>1, <3>1 DEF PowerCycle, ShownRight, Attached, LinkTypeOK, None
  <2>2. ASSUME ~registered[r], registered' = [registered EXCEPT ![r] = TRUE],
               Registered' \subseteq Registered \cup {r}, Registered \subseteq Registered',
               UNCHANGED <<conn, connected, wire, frames>>
        PROVE  OK(x)'
    <3>1. wire[r] = None
      BY <1>0, <2>2
    <3>. QED
      BY <1>b, <2>2, <3>1 DEF ShownRight, Attached, LinkTypeOK, None
  <2>3. CASE RegistrationAnswered(r)
    BY <2>2, <2>3, RegistrationNobodyElse DEF RegistrationAnswered, backendVars
  <2>4. CASE RegistrationFails(r)
    BY <2>2, <2>4, RegistrationNobodyElse, SameRegistered DEF RegistrationFails, backendVars
  <2>5. ASSUME NEW how \in {None, "dead"}, WireDown(r, how)
        PROVE  OK(x)'
    <3>1. Registered' = Registered /\ UNCHANGED <<conn, connected, registered>>
      BY <2>5, SameRegistered DEF WireDown, backendVars, deviceVars
    <3>. QED
      BY <1>b, <2>5, <3>1 DEF WireDown, ShownRight, Attached, LinkTypeOK, None
  <2>6. CASE Deliver(r)
    <3>1. Registered' = Registered /\ UNCHANGED <<conn, connected, registered, wire>>
      BY <2>6, SameRegistered DEF Deliver, backendVars
    <3>2. frames'[x] # <<>> => frames[x] # <<>>
      BY <2>6 DEF Deliver, LinkTypeOK
    <3>. QED
      BY <1>b, <3>1, <3>2 DEF ShownRight, Attached
  <2>7. CASE Adopt(r)
    <3>1. Registered' = Registered /\ UNCHANGED <<conn, connected, registered, wire, frames>>
      BY <2>7, SameRegistered DEF Adopt, backendVars
    <3>. QED
      BY <1>b, <3>1 DEF ShownRight, Attached
  <2>. QED
    BY <1>3, <2>1, <2>3, <2>4, <2>5, <2>6, <2>7 DEF DeviceStep
<1>4. CASE Heartbeat
  <2>1. Registered' = Registered /\ UNCHANGED <<connected, registered>>
    BY <1>4, SameRegistered DEF Heartbeat, deviceVars
  <2>. QED
    BY <1>b, <1>4, <2>1 DEF Heartbeat, Terminate, SilentOnes, ShownRight, Attached, LinkTypeOK, None
<1>5. CASE BackendRestarts
  <2>1. /\ conn'[x] = None /\ ~connected'[x] /\ frames'[x] = <<>>
        /\ wire'[x] = IF wire[x] = "open" THEN "dead" ELSE wire[x]
        /\ registered' = registered
    BY <1>5 DEF BackendRestarts, deviceVars
  <2>. QED
    BY <1>b, <2>1 DEF ShownRight, Attached, None
<1>6. CASE UNCHANGED linkVars
  <2>1. Registered' = Registered
    BY <1>6, SameRegistered DEF linkVars
  <2>. QED
    BY <1>b, <1>6, <2>1 DEF linkVars, backendVars, deviceVars, ShownRight, Attached
<1>. QED
  BY <1>1, <1>2, <1>3, <1>4, <1>5, <1>6 DEF LinkNext

LEMMA LinkInvAlways == LinkSpec => []LinkInv
<1>1. LinkInit => LinkInv
  BY DEF LinkInit, LinkInv, AttachedIsOnRecord, SocketsOK, ConnectedIsTrue, Attached, None
<1>. QED
  BY <1>1, StepLinkInv, LinkTypeCorrect, LinkImplementsAssignment, TypeCorrect, OnePlaceAlways,
     PTL DEF LinkSpec

\* No late close, termination or restart takes the socket a device is attached
\* by off the record.
THEOREM AttachedIsOnRecordAlways == LinkSpec => []AttachedIsOnRecord
BY LinkInvAlways, PTL DEF LinkInv

\* The connected flag follows the socket on record, also across deletions.
THEOREM ConnectedIsTrueAlways == LinkSpec => []ConnectedIsTrue
BY LinkInvAlways, PTL DEF LinkInv

\* A device never votes for another platform than the one it shows.
THEOREM VotesGoWhereShownAlways == LinkSpec => []VotesGoWhereShown
<1>1. LinkInit => VotesGoWhereShown
  BY DEF LinkInit, VotesGoWhereShown, Unassigned
<1>2. LinkTypeOK /\ VotesGoWhereShown /\ [LinkNext]_linkVars => VotesGoWhereShown'
  <2>. SUFFICES ASSUME LinkTypeOK, VotesGoWhereShown, [LinkNext]_linkVars, NEW x \in Physical,
                       seat'[x].platform # None
                PROVE  apiPlatform'[x] = seat'[x].platform
    BY DEF VotesGoWhereShown
  <2>1. seat[x].platform # None => apiPlatform[x] = seat[x].platform
    BY DEF VotesGoWhereShown
  <2>2. ASSUME UNCHANGED <<seat, apiPlatform>>
        PROVE  apiPlatform'[x] = seat'[x].platform
    BY <2>1, <2>2
  <2>3. ASSUME NEW r \in Physical, DeviceStep(r)
        PROVE  apiPlatform'[x] = seat'[x].platform
    <3>1. CASE PowerCycle(r)
      BY <2>1, <3>1 DEF PowerCycle, LinkTypeOK
    <3>2. CASE RegistrationAnswered(r)
      BY <2>1, <3>2 DEF RegistrationAnswered, Told, Unassigned, LinkTypeOK
    <3>3. CASE RegistrationFails(r)
      BY <2>1, <3>3 DEF RegistrationFails, Unassigned, LinkTypeOK
    <3>4. CASE \E how \in {None, "dead"} : WireDown(r, how)
      BY <2>2, <3>4 DEF WireDown, deviceVars
    <3>5. CASE Deliver(r)
      BY <2>2, <3>5 DEF Deliver
    <3>6. CASE Adopt(r)
      BY <2>1, <3>6 DEF Adopt, AdoptsEverywhere, LinkTypeOK
    <3>. QED
      BY <2>3, <3>1, <3>2, <3>3, <3>4, <3>5, <3>6 DEF DeviceStep
  <2>4. ASSUME NEW r \in Physical, GatewayStep(r)
        PROVE  apiPlatform'[x] = seat'[x].platform
    BY <2>2, <2>4 DEF GatewayStep, Connect, SocketCloses, SupersededCloses, Pong, SocketFails,
                      deviceVars
  <2>. QED
    BY <2>2, <2>3, <2>4
    DEF LinkNext, DirectorActs, Heartbeat, BackendRestarts, linkVars, deviceVars
<1>. QED
  BY <1>1, <1>2, LinkTypeCorrect, PTL DEF LinkSpec

------------------------------------------------------------------------------
(* Whoever takes a seat is told.                                           *)

\* What a request of the director may do to a remote: give it a seat and tell
\* it, leave it where and what it is, or take it off.
Joins(r) ==
  \E p \in Platforms :
    /\ r \in active'[p]
    /\ Hears(r) => frames'[r] = Append(frames[r], [platform |-> p, role |-> role'[r]])
Stays(r) ==
  /\ frames'[r] = frames[r] /\ role'[r] = role[r]
  /\ \A p \in Platforms : r \in active'[p] => r \in active[p]
Off(r) == \A p \in Platforms : r \notin active'[p]

LEMMA BenchOutcome ==
  ASSUME TypeOK, OnePlace', NEW p \in platforms, NEW id \in active[p], Bench(p, id),
         UNCHANGED role, NEW r \in Physical, r # id => frames'[r] = frames[r]
  PROVE  Stays(r) \/ Off(r)
<1>1. /\ active' = [active EXCEPT ![p] = @ \ {id}]
      /\ pool' = pool \cup ({id} \cap Physical)
      /\ p \in Platforms
  BY DEF Bench, TypeOK
<1>2. CASE r = id
  BY <1>1, <1>2 DEF Off, OnePlace
<1>3. CASE r # id
  BY <1>1, <1>3 DEF Stays, TypeOK
<1>. QED
  BY <1>2, <1>3

LEMMA PushOne ==
  ASSUME NEW id, NEW s, Tell(id, s), NEW r \in Physical
  PROVE  /\ r # id => frames'[r] = frames[r]
         /\ r = id /\ Hears(r) => frames'[r] = Append(frames[r], s)
BY DEF Tell, Push

LEMMA SwapOutcome ==
  ASSUME TypeOK, OnePlace, OnePlace', NEW p \in Platforms, NEW i \in Moved, NEW o \in Moved,
         NEW rl \in DirectorRoles \cup {None}, Replace(p, i, o, rl), NEW r \in Physical
  PROVE  Joins(r) \/ Stays(r) \/ Off(r)
<1>. DEFINE given == Effective(p, i, rl)
            told == [x \in {i, o} |-> IF x = i THEN [platform |-> p, role |-> given] ELSE Unassigned]
            fits == Fits(p, i, given, active[p] \ {o})
<1>1. /\ ReplaceRemote(p, i, o, rl)
      /\ fits => Push(told)
      /\ ~fits => UNCHANGED frames
  BY DEF Replace
<1>2. /\ SetRole(p, i, given)
      /\ fits => TakesSeat(p, i, o)
      /\ ~fits => Bench(p, o)
      /\ p \in platforms /\ i \in benched[p] \cup pool /\ o \in active[p]
  BY <1>1 DEF ReplaceRemote, LeavesOnly, SwapStarts, Benchable
<1>3. i # o /\ (i \in Physical => i \in pool)
  BY <1>2 DEF OnePlace, TypeOK
<1>4. role'[r] = IF r = i THEN given ELSE role[r]
  BY <1>2 DEF SetRole, TypeOK
<1>5. CASE fits
  <2>1. /\ active' = [active EXCEPT ![p] = (@ \ {o}) \cup {i}]
        /\ pool' = (pool \cup ({o} \cap Physical)) \ {i}
    BY <1>2, <1>5 DEF TakesSeat
  <2>2. CASE r = i
    <3>1. r \in DOMAIN told /\ told[r] = [platform |-> p, role |-> role'[r]]
      BY <1>4, <2>2
    <3>2. Hears(r) => frames'[r] = Append(frames[r], [platform |-> p, role |-> role'[r]])
      BY <1>1, <1>5, <3>1 DEF Push
    <3>3. r \in active'[p]
      BY <2>1, <2>2 DEF TypeOK
    <3>. QED
      BY <3>2, <3>3 DEF Joins
  <2>3. CASE r = o
    BY <1>3, <2>1, <2>3 DEF Off, OnePlace
  <2>4. CASE r # i /\ r # o
    <3>1. frames'[r] = frames[r]
      BY <1>1, <1>5, <2>4 DEF Push
    <3>. QED
      BY <1>4, <2>1, <2>4, <3>1 DEF Stays, TypeOK
  <2>. QED
    BY <2>2, <2>3, <2>4
<1>6. CASE ~fits
  <2>1. /\ active' = [active EXCEPT ![p] = @ \ {o}]
        /\ pool' = pool \cup ({o} \cap Physical)
    BY <1>2, <1>6 DEF Bench
  <2>2. CASE r = i \/ r = o
    BY <1>3, <2>1, <2>2 DEF Off, OnePlace
  <2>3. CASE r # i /\ r # o
    BY <1>1, <1>4, <1>6, <2>1, <2>3 DEF Stays, TypeOK
  <2>. QED
    BY <2>2, <2>3
<1>. QED
  BY <1>5, <1>6

LEMMA DirectorOutcome ==
  ASSUME TypeOK, OnePlace, OnePlace', NEW p \in Platforms, DirectorAsks(p), NEW r \in Physical
  PROVE  Joins(r) \/ Stays(r) \/ Off(r)
<1>1. ASSUME NEW id \in Moved, NEW rl \in DirectorRoles \cup {None}, Activate(p, id, rl)
      PROVE  Joins(r) \/ Stays(r)
  <2>1. /\ active' = [active EXCEPT ![p] = @ \cup {id}]
        /\ IF id \in Physical THEN SetRole(p, id, Effective(p, id, rl)) ELSE UNCHANGED role
        /\ Tell(id, [platform |-> p, role |-> Effective(p, id, rl)])
    BY <1>1 DEF Activate, ActivateRemote
  <2>2. role'[r] = IF r = id THEN Effective(p, id, rl) ELSE role[r]
    BY <2>1 DEF SetRole, TypeOK
  <2>3. CASE r = id
    <3>1. r \in active'[p]
      BY <2>1, <2>3 DEF TypeOK
    <3>. QED
      BY <2>1, <2>2, <2>3, <3>1, PushOne DEF Joins
  <2>4. CASE r # id
    BY <2>1, <2>2, <2>4, PushOne DEF Stays, TypeOK
  <2>. QED
    BY <2>3, <2>4
<1>2. ASSUME NEW id \in Moved, Deactivate(p, id)
      PROVE  Stays(r) \/ Off(r)
  BY <1>2, BenchOutcome, PushOne DEF Deactivate, DeactivateRemote
<1>3. ASSUME NEW i \in Moved, NEW o \in Moved, NEW rl \in DirectorRoles \cup {None},
             Replace(p, i, o, rl)
      PROVE  Joins(r) \/ Stays(r) \/ Off(r)
  BY <1>3, SwapOutcome
<1>4. ASSUME NEW id \in Moved, NEW named \in Platforms, Transfer(id, p, named)
      PROVE  Stays(r) \/ Off(r)
  <2>1. UNCHANGED role /\ (r # id => frames'[r] = frames[r])
    BY <1>4, PushOne DEF Transfer, TransferRemote
  <2>2. ASSUME NEW q \in platforms, id \in active[q], Bench(q, id)
        PROVE  Stays(r) \/ Off(r)
    BY <2>1, <2>2, BenchOutcome
  <2>3. CASE (\A q \in platforms : id \notin active[q]) /\ UNCHANGED <<platforms, active>>
    <3>1. CASE Seated(r)
      BY <2>1, <2>3, <3>1 DEF Stays, Seated
    <3>2. CASE ~Seated(r)
      BY <2>3, <3>2 DEF Off, Seated, OnePlace
    <3>. QED
      BY <3>1, <3>2
  <2>. QED
    BY <1>4, <2>2, <2>3 DEF Transfer, TransferRemote
<1>5. ASSUME (IF p \in WithReferees THEN EnsurePlatform(p) ELSE CreatePlatform(p)), UNCHANGED frames
      PROVE  Stays(r)
  BY <1>5 DEF EnsurePlatform, CreatePlatform, Stays, TypeOK
<1>6. ASSUME Delete(p)
      PROVE  Stays(r) \/ Off(r)
  <2>1. /\ active' = [active EXCEPT ![p] = {}]
        /\ role'[r] = IF r \in active[p] THEN "spare" ELSE role[r]
        /\ frames' = frames
    BY <1>6 DEF Delete, DeletePlatform
  <2>2. CASE r \in active[p]
    BY <2>1, <2>2 DEF Off, OnePlace, TypeOK
  <2>3. CASE r \notin active[p]
    BY <2>1, <2>3 DEF Stays, TypeOK
  <2>. QED
    BY <2>2, <2>3
<1>. QED
  BY <1>1, <1>2, <1>3, <1>4, <1>5, <1>6 DEF DirectorAsks

\* Where a remote is seated, it is there only.
LEMMA SeatedThere ==
  ASSUME TypeOK, OnePlace, NEW r \in Physical, NEW p \in Platforms, r \in active[p]
  PROVE  Seated(r) /\ Place(r) = p
<1>1. p \in platforms
  BY DEF OnePlace
<1>2. Place(r) = p
  BY PlaceIsUnique DEF PlaceFacts
<1>. QED
  BY <1>1, <1>2 DEF Seated

LEMMA SeatedThereNext ==
  ASSUME TypeOK', OnePlace', NEW r \in Physical, NEW p \in Platforms, r \in active'[p]
  PROVE  Place(r)' = p
BY PlaceIsUniqueNext DEF PlaceFacts

\* Whoever keeps its seat and what it knows goes on knowing it.
LEMMA StaysCurrent ==
  ASSUME TypeOK, TypeOK', OnePlace, OnePlace', NEW r \in Physical, Seated(r)',
         Seated(r) => Newest(r) = SeatOf(r), role'[r] = role[r],
         \A p \in Platforms : r \in active'[p] => r \in active[p],
         Newest(r)' = Newest(r)
  PROVE  Newest(r)' = SeatOf(r)'
<1>1. PICK p \in Platforms : r \in active'[p]
  BY DEF Seated, TypeOK
<1>2. Place(r)' = p
  BY <1>1, SeatedThereNext
<1>3. Seated(r) /\ Place(r) = p
  BY <1>1, SeatedThere
<1>. QED
  BY <1>2, <1>3 DEF SeatOf

LEMMA NewestOfAppend ==
  ASSUME LinkTypeOK, NEW r \in Physical, NEW s \in Seats, frames'[r] = Append(frames[r], s)
  PROVE  Newest(r)' = s
<1>1. frames[r] \in Seq(Seats)
  BY DEF LinkTypeOK
<1>2. /\ Append(frames[r], s) # <<>>
      /\ Append(frames[r], s)[Len(Append(frames[r], s))] = s
  BY <1>1
<1>. QED
  BY <1>2 DEF Newest

\* Working off what it was sent does not change what a device will know.
LEMMA DeliverKeepsNewest ==
  ASSUME LinkTypeOK, NEW r \in Physical, Deliver(r), NEW x \in Physical
  PROVE  Newest(x)' = Newest(x)
<1>1. /\ frames[r] \in Seq(Seats) /\ frames[r] # <<>>
      /\ news' = [news EXCEPT ![r] = {Head(frames[r])}]
      /\ frames' = [frames EXCEPT ![r] = Tail(frames[r])]
      /\ seat' = seat
  BY DEF Deliver, Keep, LinkTypeOK
<1>2. CASE x # r
  BY <1>1, <1>2 DEF Newest, LinkTypeOK
<1>3. CASE x = r
  <2>1. Newest(r) = frames[r][Len(frames[r])]
    BY <1>1 DEF Newest
  <2>2. news'[r] = {Head(frames[r])} /\ frames'[r] = Tail(frames[r])
    BY <1>1 DEF LinkTypeOK
  <2>3. CASE Tail(frames[r]) = <<>>
    <3>a. Len(Tail(frames[r])) = Len(frames[r]) - 1 /\ Head(frames[r]) = frames[r][1]
      BY <1>1
    <3>b. Len(Tail(frames[r])) = 0
      <4>1. Len(<<>>) = 0
        OBVIOUS
      <4>. QED
        BY <2>3, <4>1, Zenon
    <3>c. Len(frames[r]) \in Nat
      BY <1>1
    <3>1. Len(frames[r]) = 1 /\ Head(frames[r]) = frames[r][1]
      BY <3>a, <3>b, <3>c
    <3>2. Newest(r)' = CHOOSE s \in {Head(frames[r])} : TRUE
      BY <2>2, <2>3 DEF Newest
    <3>. QED
      BY <1>3, <2>1, <3>1, <3>2
  <2>4. CASE Tail(frames[r]) # <<>>
    <3>1. Tail(frames[r])[Len(Tail(frames[r]))] = frames[r][Len(frames[r])]
      BY <1>1, <2>4
    <3>. QED
      BY <1>3, <2>1, <2>2, <2>4, <3>1 DEF Newest
  <2>. QED
    BY <2>3, <2>4
<1>. QED
  BY <1>2, <1>3

LEMMA AdoptKeepsNewest ==
  ASSUME LinkTypeOK, NEW r \in Physical, Adopt(r), NEW x \in Physical
  PROVE  Newest(x)' = Newest(x)
<1>1. PICK s \in news[r] : seat' = [seat EXCEPT ![r] = s]
  BY DEF Adopt
<1>2. news[r] = {s}
  <2>1. news[r] \in {{}} \cup {{y} : y \in Seats}
    BY DEF LinkTypeOK
  <2>2. PICK y \in Seats : news[r] = {y}
    BY <1>1, <2>1
  <2>. QED
    BY <1>1, <2>2
<1>3. news' = [news EXCEPT ![r] = {}] /\ frames' = frames
  BY DEF Adopt
<1>4. CASE x = r
  <2>1. (CHOOSE y \in {s} : TRUE) = s
    OBVIOUS
  <2>2. seat'[r] = s /\ news'[r] = {}
    BY <1>1, <1>3 DEF LinkTypeOK
  <2>. QED
    BY <1>2, <1>3, <1>4, <2>1, <2>2 DEF Newest
<1>5. CASE x # r
  BY <1>1, <1>3, <1>5 DEF Newest, LinkTypeOK
<1>. QED
  BY <1>4, <1>5

LEMMA StepSeatedIsTold ==
  /\ TypeOK /\ TypeOK' /\ OnePlace /\ OnePlace' /\ LinkTypeOK /\ LinkTypeOK' /\ LinkInv
  /\ [LinkNext]_linkVars
  => SeatedIsToldStep
<1>. SUFFICES ASSUME TypeOK, TypeOK', OnePlace, OnePlace', LinkTypeOK, LinkTypeOK', LinkInv,
                     [LinkNext]_linkVars, NEW x \in Physical,
                     Attached(x), Attached(x)', Seated(x)', Seated(x) => Newest(x) = SeatOf(x)
              PROVE  Newest(x)' = SeatOf(x)'
  BY DEF SeatedIsToldStep
<1>0. Hears(x)
  BY DEF LinkInv, AttachedIsOnRecord, Attached, Hears
<1>a. ASSUME Newest(x)' = Newest(x), role'[x] = role[x], active' = active
      PROVE  Newest(x)' = SeatOf(x)'
  BY <1>a, StaysCurrent
<1>b. ASSUME UNCHANGED assignmentVars, Newest(x)' = Newest(x)
      PROVE  Newest(x)' = SeatOf(x)'
  BY <1>a, <1>b DEF assignmentVars, vars, placeVars
<1>1. CASE DirectorActs
  <2>1. PICK p \in Platforms : DirectorAsks(p)
    BY <1>1 DEF DirectorActs
  <2>2. UNCHANGED <<seat, news>>
    BY <1>1 DEF DirectorActs, deviceVars
  <2>3. CASE Joins(x)
    <3>1. PICK q \in Platforms :
            /\ x \in active'[q]
            /\ frames'[x] = Append(frames[x], [platform |-> q, role |-> role'[x]])
      BY <1>0, <2>3 DEF Joins
    <3>2. [platform |-> q, role |-> role'[x]] \in Seats
      BY DEF Seats, TypeOK
    <3>3. Newest(x)' = [platform |-> q, role |-> role'[x]]
      BY <3>1, <3>2, NewestOfAppend
    <3>4. Place(x)' = q
      BY <3>1, SeatedThereNext
    <3>. QED
      BY <3>3, <3>4 DEF SeatOf
  <2>4. CASE Stays(x)
    <3>1. Newest(x)' = Newest(x)
      BY <2>2, <2>4 DEF Stays, Newest
    <3>. QED
      BY <2>4, <3>1, StaysCurrent DEF Stays
  <2>5. CASE Off(x)
    BY <2>5 DEF Off, Seated, TypeOK
  <2>. QED
    BY <2>1, <2>3, <2>4, <2>5, DirectorOutcome
<1>2. ASSUME NEW r \in Physical, GatewayStep(r)
      PROVE  Newest(x)' = SeatOf(x)'
  <2>1. UNCHANGED assignmentVars /\ UNCHANGED <<seat, news>>
    BY <1>2 DEF GatewayStep, Connect, SocketCloses, SupersededCloses, Pong, SocketFails, deviceVars
  <2>2. frames'[x] = frames[x]
    <3>1. CASE SocketFails(r)
      BY <3>1 DEF SocketFails, Terminate, Attached
    <3>2. CASE ~SocketFails(r)
      BY <1>2, <3>2 DEF GatewayStep, Connect, SocketCloses, SupersededCloses, Pong
    <3>. QED
      BY <3>1, <3>2
  <2>. QED
    BY <1>b, <2>1, <2>2 DEF Newest
<1>3. ASSUME NEW r \in Physical, DeviceStep(r)
      PROVE  Newest(x)' = SeatOf(x)'
  <2>1. CASE PowerCycle(r)
    <3>1. x # r
      BY <2>1 DEF PowerCycle, Attached, LinkTypeOK, None
    <3>2. UNCHANGED assignmentVars /\ Newest(x)' = Newest(x)
      BY <2>1, <3>1 DEF PowerCycle, Newest, LinkTypeOK
    <3>. QED
      BY <1>b, <3>2
  <2>2. ASSUME ~registered[r], seat' = [seat EXCEPT ![r] = seat'[r]], UNCHANGED <<frames, news>>,
               UNCHANGED assignmentVars \/ RegisterPhysicalRemote(r, HardwareOf(r))
        PROVE  Newest(x)' = SeatOf(x)'
    <3>1. x # r
      BY <2>2 DEF LinkInv, SocketsOK, Attached, None
    <3>2. Newest(x)' = Newest(x)
      BY <2>2, <3>1 DEF Newest, LinkTypeOK
    <3>3. UNCHANGED <<role, active>>
      BY <2>2 DEF RegisterPhysicalRemote, assignmentVars, vars, placeVars
    <3>. QED
      BY <1>a, <3>2, <3>3
  <2>3. CASE RegistrationAnswered(r)
    BY <2>2, <2>3 DEF RegistrationAnswered, LinkTypeOK
  <2>4. CASE RegistrationFails(r)
    BY <2>2, <2>4 DEF RegistrationFails, LinkTypeOK
  <2>5. ASSUME NEW how \in {None, "dead"}, WireDown(r, how)
        PROVE  Newest(x)' = SeatOf(x)'
    <3>1. x # r
      BY <2>5 DEF WireDown, Attached, LinkTypeOK, None
    <3>2. UNCHANGED assignmentVars /\ Newest(x)' = Newest(x)
      BY <2>5, <3>1 DEF WireDown, Newest, LinkTypeOK, deviceVars
    <3>. QED
      BY <1>b, <3>2
  <2>6. CASE Deliver(r)
    BY <1>b, <2>6, DeliverKeepsNewest DEF Deliver
  <2>7. CASE Adopt(r)
    BY <1>b, <2>7, AdoptKeepsNewest DEF Adopt
  <2>. QED
    BY <1>3, <2>1, <2>3, <2>4, <2>5, <2>6, <2>7 DEF DeviceStep
<1>4. CASE Heartbeat
  <2>1. frames'[x] = frames[x]
    BY <1>4 DEF Heartbeat, Terminate, Attached
  <2>. QED
    BY <1>4, <1>b, <2>1 DEF Heartbeat, Newest, deviceVars
<1>5. CASE BackendRestarts
  BY <1>5 DEF BackendRestarts, Attached
<1>6. CASE UNCHANGED linkVars
  BY <1>6, <1>b DEF linkVars, deviceVars, Newest
<1>. QED
  BY <1>1, <1>2, <1>3, <1>4, <1>5, <1>6 DEF LinkNext

\* Whoever takes a seat while attached is told of it, and whoever knows its seat
\* knows it as long as it is attached and seated.
THEOREM SeatedIsToldAlways == LinkSpec => SeatedIsTold
BY StepSeatedIsTold, LinkTypeCorrect, LinkInvAlways, LinkImplementsAssignment, TypeCorrect,
   OnePlaceAlways, PTL DEF LinkSpec, SeatedIsTold

\* So the remotes keep to the abstract placement, however their devices and the
\* gateway behave.
THEOREM LinkImplementsPlacement == LinkSpec => PlacementSpec
BY LinkImplementsAssignment, ImplementsPlacement, PTL

==============================================================================
