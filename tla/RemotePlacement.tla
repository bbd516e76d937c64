--------------------------- MODULE RemotePlacement ---------------------------
(***************************************************************************)
(* What the server promises about the physical remotes of a meet: each one *)
(* is nowhere (never registered, or lost with its platform), in the pool   *)
(* of unassigned remotes, or on one platform that exists, and no platform  *)
(* seats more than Seats of them.  RemoteAssignment implements it.         *)
(***************************************************************************)
EXTENDS Integers, FiniteSets

CONSTANTS Platforms, Remotes, Seats

VARIABLES
  open,       \* the platforms that exist
  place       \* where each remote is

vars == <<open, place>>

On(p) == {r \in Remotes : place[r] = p}

Open(p) ==
  /\ p \notin open
  /\ open' = open \cup {p}
  /\ UNCHANGED place

\* The remotes of a platform are lost with it; their devices must register anew.
Close(p) ==
  /\ p \in open
  /\ open' = open \ {p}
  /\ place' = [r \in Remotes |-> IF place[r] = p THEN "nowhere" ELSE place[r]]

Register(r) ==
  /\ place[r] = "nowhere"
  /\ place' = [place EXCEPT ![r] = "pool"]
  /\ UNCHANGED open

Assign(r, p) ==
  /\ p \in open
  /\ place[r] = "pool"
  /\ Cardinality(On(p)) < Seats
  /\ place' = [place EXCEPT ![r] = p]
  /\ UNCHANGED open

Release(r) ==
  /\ place[r] \in open
  /\ place' = [place EXCEPT ![r] = "pool"]
  /\ UNCHANGED open

Swap(incoming, outgoing, p) ==
  /\ p \in open
  /\ place[incoming] = "pool"
  /\ place[outgoing] = p
  /\ place' = [place EXCEPT ![incoming] = p, ![outgoing] = "pool"]
  /\ UNCHANGED open

\* The server keeps nothing when it restarts.
Restart ==
  /\ open' = {}
  /\ place' = [r \in Remotes |-> "nowhere"]

Init == open = {} /\ place = [r \in Remotes |-> "nowhere"]

Next ==
  \/ \E p \in Platforms : Open(p) \/ Close(p)
  \/ \E r \in Remotes : Register(r) \/ Release(r)
  \/ \E r \in Remotes, p \in Platforms : Assign(r, p)
  \/ \E i, o \in Remotes, p \in Platforms : Swap(i, o, p)
  \/ Restart

Spec == Init /\ [][Next]_vars

==============================================================================
