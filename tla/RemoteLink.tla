------------------------------ MODULE RemoteLink ------------------------------
(***************************************************************************)
(* The devices and their WebSocket: how a physical remote learns where the *)
(* director has seated it (esp-remotes.gateway.ts, the push calls of       *)
(* platform.service.ts, and main.cpp, api.cpp and ws_client.cpp of the     *)
(* firmware).  Composed with RemoteAssignment, whose requests are extended *)
(* with the assignment frames they push.                                   *)
(*                                                                         *)
(* A device learns its seat from the answer to its registration, once per  *)
(* boot, and from frames; a frame that meets no open socket is lost.       *)
(* State frames (votes, clock) are left out, they are sent anew each       *)
(* second; so are transport and battery, which are only displayed.         *)
(***************************************************************************)
EXTENDS RemoteAssignment, Sequences

CONSTANTS
  ChiefCases,       \* the remotes built with the chief's clock button
  MaxFrames,        \* bound: assignment frames on their way to one device
  MaxSuperseded     \* bound: superseded sockets of one remote not closed yet

ASSUME LinkAssumption == ChiefCases \subseteq Physical

VARIABLES
  (* the backend *)
  conn,             \* conn[r]: r's socket in connections: None, "open", or
                    \*   "terminated" while its close event is still to come
  alive,            \* isAlive of that socket
  superseded,       \* r's sockets no longer in connections, not closed yet
  connected,        \* Remote.connected
  (* between them *)
  wire,             \* r's socket as the device has it: None, "open", or
                    \*   "dead" when the other end is gone unnoticed
  frames,           \* assignment frames on their way over r's open socket
  (* the device *)
  registered,       \* the flag of loop()
  seat,             \* cfg.platformId and cfg.role: shown, and kept in flash
  apiPlatform,      \* g_platformId: the platform votes are posted to
  news              \* g_pendingAssignment: {} or the newest frame not adopted

assignmentVars == vars
backendVars == <<conn, alive, superseded, connected>>
deviceVars == <<registered, seat, apiPlatform, news>>
linkVars == <<assignmentVars, backendVars, wire, frames, deviceVars>>

Unassigned == [platform |-> None, role |-> None]
Seats == {Unassigned} \cup [platform : Platforms, role : ValidRoles]

HardwareOf(r) == IF r \in ChiefCases THEN "chief" ELSE "side"

------------------------------------------------------------------------------
(* The director's requests and the frames they push.                       *)

\* pushAssignment: told is a function from some remotes to their new seats.
Hears(r) == conn[r] = "open" /\ wire[r] = "open"
Push(told) ==
  frames' = [r \in Physical |->
               IF r \in DOMAIN told /\ Hears(r) THEN Append(frames[r], told[r])
                                               ELSE frames[r]]

Silent(id, s) == UNCHANGED frames
Tell(id, s) == Push([x \in {id} |-> s])

Activate(p, id, rl) ==
  /\ ActivateRemote(p, id, rl)
  /\ Tell(id, [platform |-> p, role |-> Effective(p, id, rl)])

Deactivate(p, id) ==
  /\ DeactivateRemote(p, id)
  /\ Tell(id, Unassigned)

\* A swap that fails half way throws before anybody is told.
Replace(p, incoming, outgoing, rl) ==
  LET given == Effective(p, incoming, rl)
      told == [x \in {incoming, outgoing} |->
                 IF x = incoming THEN [platform |-> p, role |-> given]
                                 ELSE Unassigned]
  IN  /\ ReplaceRemote(p, incoming, outgoing, rl)
      /\ IF Fits(p, incoming, given, active[p] \ {outgoing})
           THEN Push(told)
           ELSE UNCHANGED frames

\* The platform in the route is only looked up after the transfer: if there is
\* no such platform the request fails then, and the device is not told.
Transfer(id, target, named) ==
  /\ TransferRemote(id, target)
  /\ IF named \in platforms THEN Tell(id, Unassigned) ELSE UNCHANGED frames

\* Its remotes are not told, and their records are gone.
Delete(p) ==
  /\ DeletePlatform(p)
  /\ connected' = [r \in Physical |-> connected[r] /\ r \notin active[p]]
  /\ UNCHANGED <<conn, alive, superseded, frames>>

DirectorAsks(p) ==
  \/ /\ \/ \E id \in Moved, rl \in DirectorRoles \cup {None} : Activate(p, id, rl)
        \/ \E id \in Moved : Deactivate(p, id)
        \/ \E i, o \in Moved, rl \in DirectorRoles \cup {None} : Replace(p, i, o, rl)
        \/ \E id \in Moved, named \in Platforms : Transfer(id, p, named)
     /\ UNCHANGED backendVars
  \/ /\ IF p \in WithReferees THEN EnsurePlatform(p) ELSE CreatePlatform(p)
     /\ UNCHANGED <<backendVars, frames>>
  \/ Delete(p)

DirectorActs ==
  /\ \A r \in Physical : Len(frames[r]) < MaxFrames
  /\ \E p \in Platforms : DirectorAsks(p)
  /\ UNCHANGED <<wire, deviceVars>>

------------------------------------------------------------------------------
(* The gateway.                                                            *)

\* A device connects.  An older socket of the same remote is terminated, its
\* close event comes later.  A remote the backend does not know is closed at
\* once, which changes nothing and is left out.
Connect(r) ==
  /\ registered[r] /\ wire[r] = None
  /\ r \in Registered
  /\ conn[r] # None => superseded[r] < MaxSuperseded
  /\ superseded' = [superseded EXCEPT ![r] = IF conn[r] = None THEN @ ELSE @ + 1]
  /\ conn' = [conn EXCEPT ![r] = "open"]
  /\ alive' = [alive EXCEPT ![r] = TRUE]
  /\ connected' = [connected EXCEPT ![r] = TRUE]
  /\ wire' = [wire EXCEPT ![r] = "open"]
  /\ UNCHANGED <<assignmentVars, frames, deviceVars>>

\* The close event of the socket on record: after a terminate, or because the
\* device's close reached the backend.
ForgetsSocketOnly(r) ==
  /\ conn' = [conn EXCEPT ![r] = None]
  /\ UNCHANGED connected
ForgetSocket(r) ==
  /\ conn' = [conn EXCEPT ![r] = None]
  /\ connected' = [connected EXCEPT ![r] = FALSE]

SocketCloses(r) ==
  /\ conn[r] # None
  /\ conn[r] = "open" => wire[r] # "open"
  /\ ForgetSocket(r)
  /\ alive' = [alive EXCEPT ![r] = FALSE]
  /\ UNCHANGED <<assignmentVars, superseded, wire, frames, deviceVars>>

\* The close event of a socket that is no longer on record.
SupersededClears(r) == ForgetSocket(r)
SupersededIgnored(r) == UNCHANGED <<conn, connected>>

SupersededCloses(r) ==
  /\ superseded[r] > 0
  /\ superseded' = [superseded EXCEPT ![r] = @ - 1]
  /\ SupersededIgnored(r)
  /\ UNCHANGED <<assignmentVars, alive, wire, frames, deviceVars>>

\* ws.terminate() on the sockets of S: nothing more passes over them.
Terminate(S) ==
  /\ conn' = [r \in Physical |-> IF r \in S THEN "terminated" ELSE conn[r]]
  /\ wire' = [r \in Physical |-> IF r \in S /\ wire[r] = "open" THEN "dead" ELSE wire[r]]
  /\ frames' = [r \in Physical |-> IF r \in S THEN <<>> ELSE frames[r]]

\* Every two seconds: who has not answered the last ping is terminated, the
\* others are pinged.
NobodySilent == {}
SilentOnes == {r \in Physical : conn[r] # None /\ ~alive[r]}

Heartbeat ==
  /\ \E r \in Physical : conn[r] # None
  /\ Terminate(SilentOnes)
  /\ alive' = [r \in Physical |-> FALSE]
  /\ UNCHANGED <<assignmentVars, superseded, connected, deviceVars>>

Pong(r) ==
  /\ Hears(r)
  /\ alive' = [alive EXCEPT ![r] = TRUE]
  /\ UNCHANGED <<assignmentVars, conn, superseded, connected, wire, frames, deviceVars>>

\* The error event of a socket.
SocketFails(r) ==
  /\ conn[r] = "open"
  /\ Terminate({r})
  /\ UNCHANGED <<assignmentVars, alive, superseded, connected, deviceVars>>

\* The backend restarts with empty memory; its sockets break.
BackendRestarts ==
  /\ Restart
  /\ conn' = [r \in Physical |-> None]
  /\ alive' = [r \in Physical |-> FALSE]
  /\ superseded' = [r \in Physical |-> 0]
  /\ connected' = [r \in Physical |-> FALSE]
  /\ wire' = [r \in Physical |-> IF wire[r] = "open" THEN "dead" ELSE wire[r]]
  /\ frames' = [r \in Physical |-> <<>>]
  /\ UNCHANGED deviceVars

------------------------------------------------------------------------------
(* The device.                                                             *)

\* setup(): only the configuration in flash is left, and apiInit is given it.
PowerCycle(r) ==
  /\ registered' = [registered EXCEPT ![r] = FALSE]
  /\ apiPlatform' = [apiPlatform EXCEPT ![r] = seat[r].platform]
  /\ news' = [news EXCEPT ![r] = {}]
  /\ wire' = [wire EXCEPT ![r] = None]
  /\ frames' = [frames EXCEPT ![r] = <<>>]
  /\ UNCHANGED <<assignmentVars, backendVars, seat>>

\* loop() registers, is answered, and adopts the platform and role it is told;
\* without a platform it clears what it had, except g_platformId.
ToldWithoutLooking(r) == [platform |-> home[r], role |-> role[r]]
Told(r) == IF home[r] = None THEN Unassigned
           ELSE [platform |-> home[r], role |-> role[r]]

RegistrationAnswered(r) ==
  /\ ~registered[r]
  /\ RegisterPhysicalRemote(r, HardwareOf(r))
  /\ registered' = [registered EXCEPT ![r] = TRUE]
  /\ seat' = [seat EXCEPT ![r] = Told(r)]
  /\ apiPlatform' = [apiPlatform EXCEPT ![r] = IF home[r] = None THEN @ ELSE home[r]]
  /\ UNCHANGED <<backendVars, wire, frames, news>>

\* An error status, or no answer in time, counts as registered all the same
\* ("probably already registered") and as no platform.  The backend may or may
\* not have seen the request.  (A connection that fails is retried: no change.)
RegistrationFails(r) ==
  /\ ~registered[r]
  /\ RegisterPhysicalRemote(r, HardwareOf(r)) \/ UNCHANGED assignmentVars
  /\ registered' = [registered EXCEPT ![r] = TRUE]
  /\ seat' = [seat EXCEPT ![r] = Unassigned]
  /\ UNCHANGED <<backendVars, wire, frames, apiPlatform, news>>

\* The network breaks, the transport is switched or the device notices that
\* its socket is dead.
WireDown(r, how) ==
  /\ wire[r] \in {"open", "dead"} \ {how}
  /\ wire' = [wire EXCEPT ![r] = how]
  /\ frames' = [frames EXCEPT ![r] = <<>>]
  /\ UNCHANGED <<assignmentVars, backendVars, deviceVars>>

\* handleTextFrame keeps the newest assignment only.
KeepOldest(r, s) == IF news[r] = {} THEN {s} ELSE news[r]
Keep(r, s) == {s}

Deliver(r) ==
  /\ frames[r] # <<>>
  /\ news' = [news EXCEPT ![r] = Keep(r, Head(frames[r]))]
  /\ frames' = [frames EXCEPT ![r] = Tail(@)]
  /\ UNCHANGED <<assignmentVars, backendVars, wire, registered, seat, apiPlatform>>

\* loop() polls the assignment.
AdoptsShown(r, s) == UNCHANGED apiPlatform
AdoptsEverywhere(r, s) == apiPlatform' = [apiPlatform EXCEPT ![r] = s.platform]

Adopt(r) ==
  /\ \E s \in news[r] : /\ seat' = [seat EXCEPT ![r] = s]
                        /\ AdoptsEverywhere(r, s)
  /\ news' = [news EXCEPT ![r] = {}]
  /\ UNCHANGED <<assignmentVars, backendVars, wire, frames, registered>>

------------------------------------------------------------------------------
LinkInit ==
  /\ Init
  /\ conn = [r \in Physical |-> None]
  /\ alive = [r \in Physical |-> FALSE]
  /\ superseded = [r \in Physical |-> 0]
  /\ connected = [r \in Physical |-> FALSE]
  /\ wire = [r \in Physical |-> None]
  /\ frames = [r \in Physical |-> <<>>]
  /\ registered = [r \in Physical |-> FALSE]
  /\ seat = [r \in Physical |-> Unassigned]
  /\ apiPlatform = [r \in Physical |-> None]
  /\ news = [r \in Physical |-> {}]

GatewayStep(r) ==
  Connect(r) \/ SocketCloses(r) \/ SupersededCloses(r) \/ Pong(r) \/ SocketFails(r)

DeviceStep(r) ==
  \/ PowerCycle(r)
  \/ RegistrationAnswered(r)
  \/ RegistrationFails(r)
  \/ \E how \in {None, "dead"} : WireDown(r, how)
  \/ Deliver(r)
  \/ Adopt(r)

LinkNext ==
  \/ DirectorActs
  \/ \E r \in Physical : GatewayStep(r) \/ DeviceStep(r)
  \/ Heartbeat
  \/ BackendRestarts

LinkSpec == LinkInit /\ [][LinkNext]_linkVars

\* The heartbeat is an interval and a terminated socket is closed by the
\* backend itself; as long as its socket is open, a device is handed its frames
\* and polls its assignment.
LinkFairness ==
  /\ WF_linkVars(Heartbeat)
  /\ \A r \in Physical :
       /\ WF_linkVars(conn[r] = "terminated" /\ SocketCloses(r))
       /\ WF_linkVars(Deliver(r))
       /\ WF_linkVars(wire[r] = "open" /\ Adopt(r))

FairLinkSpec == LinkSpec /\ LinkFairness

------------------------------------------------------------------------------
(* Properties.                                                             *)

LinkTypeOK ==
  /\ conn \in [Physical -> {None, "open", "terminated"}]
  /\ alive \in [Physical -> BOOLEAN]
  /\ superseded \in [Physical -> Nat]
  /\ connected \in [Physical -> BOOLEAN]
  /\ wire \in [Physical -> {None, "open", "dead"}]
  /\ frames \in [Physical -> Seq(Seats)]
  /\ registered \in [Physical -> BOOLEAN]
  /\ seat \in [Physical -> Seats]
  /\ apiPlatform \in [Physical -> Platforms \cup {None}]
  /\ news \in [Physical -> {{}} \cup {{s} : s \in Seats}]

Attached(r) == wire[r] = "open"
Seated(r) == \E p \in platforms : r \in active[p]
SeatOf(r) == [platform |-> Place(r), role |-> role[r]]

\* What the device will show once it has worked off what it was sent.
Newest(r) ==
  IF frames[r] # <<>> THEN frames[r][Len(frames[r])]
  ELSE IF news[r] # {} THEN CHOOSE s \in news[r] : TRUE
  ELSE seat[r]

\* The socket a device is attached by is the one the gateway has on record, so
\* what is pushed reaches it: no late close or termination of an older socket
\* takes it off the record.
AttachedIsOnRecord == \A r \in Physical : Attached(r) => conn[r] = "open"

\* The connected flag of a remote follows its socket: a remote that is attached
\* and known is shown as connected, and who is shown as connected has a socket
\* on record that the heartbeat watches.
ConnectedIsTrue ==
  \A r \in Physical :
    /\ Attached(r) /\ r \in Registered => connected[r]
    /\ connected[r] => conn[r] # None /\ r \in Registered

\* A device never posts votes to another platform than the one it shows.
VotesGoWhereShown ==
  \A r \in Physical : seat[r].platform # None => apiPlatform[r] = seat[r].platform

\* Whoever takes a seat while attached is told, and whoever knows its seat
\* (or is about to) goes on knowing it as long as it stays attached and seated.
SeatedIsToldStep ==
  \A r \in Physical :
    /\ Attached(r) /\ Attached(r)' /\ Seated(r)'
    /\ Seated(r) => Newest(r) = SeatOf(r)
    => Newest(r)' = SeatOf(r)'
SeatedIsTold == [][SeatedIsToldStep]_linkVars

\* A device that was told its seat shows it before long, unless it drops off
\* or loses the seat.
SeatIsShown ==
  \A r \in Physical :
    (Attached(r) /\ Seated(r) /\ Newest(r) = SeatOf(r))
      ~> (seat[r] = SeatOf(r) \/ ~Attached(r) \/ ~Seated(r))

\* A remote that lost its power or its network is not shown as connected for
\* ever: the heartbeat finds its socket silent, and the close clears the flag.
SilentIsNoticed ==
  \A r \in Physical : (connected[r] /\ ~Attached(r)) ~> (~connected[r] \/ Attached(r))

\* firmware/README.md promises "immediate assignment updates when the remote is
\* reassigned via the management page (no reboot needed)": an attached device
\* with nothing on its way knows its seat.
AttachedKnowsItsSeat ==
  \A r \in Physical :
    Attached(r) /\ Seated(r) /\ frames[r] = <<>> /\ news[r] = {} => seat[r] = SeatOf(r)

==============================================================================
