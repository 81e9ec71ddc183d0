----------------------------- MODULE RelayDaemon -----------------------------
(***************************************************************************)
(* services/relay/src/relay.ts: allocations of public UDP ports, and the   *)
(* two indexes that must stay in step with them, by port and by tunnel     *)
(* endpoint.  A session stands for an allocation object and its token.     *)
(*                                                                         *)
(* Time is kept as what the code asks of it: whether a tunnel, an          *)
(* allocation or a client has been silent beyond its limit.  "Silent" is   *)
(* set by the passing of time and cleared where the code stores Date.now().*)
(***************************************************************************)
EXTENDS Integers, FiniteSets

CONSTANTS
  Sessions,    \* allocations, each with a token of its own
  Ports,       \* the public port range
  Endpoints,   \* addresses tunnels dial from
  Players,     \* addresses players send from
  None,
  MaxClients,  \* MAX_CLIENTS_PER_ALLOCATION
  MaxClientId  \* bound on nextClientId

ASSUME RelayAssumption ==
  /\ None \notin Sessions /\ None \notin Endpoints
  /\ Ports \subseteq Nat /\ IsFiniteSet(Ports)
  /\ IsFiniteSet(Players)
  /\ MaxClients \in Nat \ {0} /\ MaxClientId \in Nat

VARIABLES
  phase,     \* session -> "none", "binding" its socket, or "open" (in allocations)
  port,      \* session -> its publicPort
  byPort,    \* allocationsByPort
  tunnel,    \* session -> the endpoint of its tunnel, or None
  byTunnel,  \* allocationsByTunnel
  quiet,     \* sessions whose tunnel has been silent for TUNNEL_IDLE_MS
  idle,      \* sessions without activity for ALLOCATION_IDLE_MS
  clients,   \* session -> its client table, a set of [id, addr, silent]
  nextId     \* session -> nextClientId

vars == <<phase, port, byPort, tunnel, byTunnel, quiet, idle, clients, nextId>>
tables == <<clients, nextId>>
wires == <<tunnel, byTunnel, quiet>>

Client == [id : Nat, addr : Players, silent : BOOLEAN]

\* allocations, the map from tokens
Open == {s \in Sessions : phase[s] = "open"}

FreePorts == {p \in Ports : byPort[p] = None}

(***************************************************************************)
(* Control plane                                                           *)
(***************************************************************************)

\* Mutated: the port is recorded once the bind has completed.
BeginAllocationMut(s) ==
  /\ phase[s] = "none"
  /\ \E p \in FreePorts :
       /\ \A q \in FreePorts : p <= q
       /\ port' = [port EXCEPT ![s] = p]
  /\ phase' = [phase EXCEPT ![s] = "binding"]
  /\ idle' = idle \ {s}
  /\ clients' = [clients EXCEPT ![s] = {}]
  /\ nextId' = [nextId EXCEPT ![s] = 1]
  /\ UNCHANGED <<byPort, wires>>

\* createAllocation up to the bind: the lowest free port is claimed first.
BeginAllocation(s) ==
  /\ phase[s] = "none"
  /\ \E p \in FreePorts :
       /\ \A q \in FreePorts : p <= q
       /\ port' = [port EXCEPT ![s] = p]
       /\ byPort' = [byPort EXCEPT ![p] = s]
  /\ phase' = [phase EXCEPT ![s] = "binding"]
  /\ idle' = idle \ {s}
  /\ clients' = [clients EXCEPT ![s] = {}]
  /\ nextId' = [nextId EXCEPT ![s] = 1]
  /\ UNCHANGED wires

Bound(s) ==
  /\ phase[s] = "binding"
  /\ phase' = [phase EXCEPT ![s] = "open"]
  /\ UNCHANGED <<port, byPort, wires, idle, tables>>

BindFails(s) ==
  /\ phase[s] = "binding"
  /\ phase' = [phase EXCEPT ![s] = "none"]
  /\ byPort' = [byPort EXCEPT ![port[s]] = None]
  /\ UNCHANGED <<port, wires, idle, tables>>

\* Mutated: the entry is set to undefined where it should be deleted.
ClearIndexMut(S) ==
  [e \in Endpoints |-> IF byTunnel[e] \in S /\ tunnel[byTunnel[e]] = e
                         THEN "undefined" ELSE byTunnel[e]]

\* byTunnel after clearTunnelEndpoint of every session of S: an entry goes only
\* if it still points at the session that gives it up.
ClearIndex(S) ==
  [e \in Endpoints |-> IF byTunnel[e] \in S /\ tunnel[byTunnel[e]] = e
                         THEN None ELSE byTunnel[e]]

\* releaseAllocation.
Release(s) ==
  /\ s \in Open
  /\ phase' = [phase EXCEPT ![s] = "none"]
  /\ byPort' = [byPort EXCEPT ![port[s]] = None]
  /\ tunnel' = [tunnel EXCEPT ![s] = None]
  /\ byTunnel' = ClearIndex({s})
  /\ UNCHANGED <<port, quiet, idle, tables>>

(***************************************************************************)
(* Data plane                                                              *)
(***************************************************************************)

\* Mutated: the allocation that used the endpoint before keeps its tunnel.
SetTunnelEndpointMut(s, e) ==
  /\ byTunnel' = [ClearIndex({s}) EXCEPT ![e] = s]
  /\ tunnel' = [tunnel EXCEPT ![s] = e]

\* setTunnelEndpoint: s gives up its endpoint, and whoever holds e gives up e.
SetTunnelEndpoint(s, e) ==
  /\ byTunnel' = [ClearIndex({s}) EXCEPT ![e] = s]
  /\ tunnel' = [t \in Sessions |->
       IF t = s THEN e
       ELSE IF t = ClearIndex({s})[e] THEN None ELSE tunnel[t]]

\* Mutated: any endpoint with the token takes the session over.
MayAuthenticateMut(s, e) == s \in Open

\* Refused while another endpoint holds the session and has been heard of.
MayAuthenticate(s, e) ==
  /\ s \in Open
  /\ tunnel[s] \notin {None, e} => s \in quiet

\* A type 3 packet with a valid token and signature.
Authenticate(s, e) ==
  /\ MayAuthenticate(s, e)
  /\ SetTunnelEndpoint(s, e)
  /\ quiet' = quiet \ {s}
  /\ idle' = idle \ {s}
  /\ UNCHANGED <<phase, port, byPort, tables>>

\* A keepalive or a reply to a player, resolved through the index.
TunnelPacket(e) ==
  /\ byTunnel[e] # None
  /\ tunnel[byTunnel[e]] # None
  /\ quiet' = quiet \ {byTunnel[e]}
  /\ idle' = idle \ {byTunnel[e]}
  /\ UNCHANGED <<phase, port, byPort, tunnel, byTunnel, tables>>

Unpruned(s) == {c \in clients[s] : ~c.silent}

\* The table a new client is added to; it is pruned when it is full.
RoomFor(s) ==
  IF Cardinality(clients[s]) >= MaxClients THEN Unpruned(s) ELSE clients[s]

\* Mutated: the comparison lets one more in.
CanAdmitMut(table) == Cardinality(table) <= MaxClients

CanAdmit(table) == Cardinality(table) < MaxClients

\* A packet from a player on the public port of s.  While there is no tunnel it
\* only counts as activity.
PlayerPacket(s, a) ==
  /\ s \in Open
  /\ idle' = idle \ {s}
  /\ \/ tunnel[s] = None /\ UNCHANGED tables
     \/ /\ tunnel[s] # None
        /\ \E c \in clients[s] :
             /\ c.addr = a
             /\ clients' = [clients EXCEPT ![s] = (@ \ {c}) \cup {[c EXCEPT !.silent = FALSE]}]
        /\ UNCHANGED nextId
     \/ /\ tunnel[s] # None
        /\ \A c \in clients[s] : c.addr # a
        /\ IF CanAdmit(RoomFor(s))
             THEN /\ nextId[s] < MaxClientId
                  /\ clients' = [clients EXCEPT ![s] =
                       RoomFor(s) \cup {[id |-> nextId[s], addr |-> a, silent |-> FALSE]}]
                  /\ nextId' = [nextId EXCEPT ![s] = @ + 1]
             ELSE clients' = [clients EXCEPT ![s] = RoomFor(s)] /\ UNCHANGED nextId
  /\ UNCHANGED <<phase, port, byPort, wires>>

(***************************************************************************)
(* Time                                                                    *)
(***************************************************************************)

TunnelSilent(s) ==
  /\ tunnel[s] # None
  /\ s \notin quiet
  /\ quiet' = quiet \cup {s}
  /\ UNCHANGED <<phase, port, byPort, tunnel, byTunnel, idle, tables>>

\* The limit of an allocation is twenty times that of its tunnel, and what
\* counts for the tunnel counts for the allocation.
AllocationIdle(s) ==
  /\ s \in Open
  /\ s \notin idle
  /\ tunnel[s] # None => s \in quiet
  /\ idle' = idle \cup {s}
  /\ UNCHANGED <<phase, port, byPort, wires, tables>>

ClientSilent(s) ==
  /\ s \in Open
  /\ \E c \in clients[s] :
       /\ ~c.silent
       /\ clients' = [clients EXCEPT ![s] = (@ \ {c}) \cup {[c EXCEPT !.silent = TRUE]}]
  /\ UNCHANGED <<phase, port, byPort, wires, idle, nextId>>

\* Mutated: nobody gives up a tunnel that has fallen silent.
LostMut == {}

\* Allocations whose tunnel has gone silent, and those nobody uses any more.
Lost == {s \in Open : tunnel[s] # None /\ s \in quiet}
Dead == {s \in Open : s \in idle /\ (tunnel[s] = None \/ s \in Lost)}

\* The interval: clients are pruned, silent tunnels cleared, and unused
\* allocations released, all in one turn of the event loop.
Housekeeping ==
  /\ phase' = [s \in Sessions |-> IF s \in Dead THEN "none" ELSE phase[s]]
  /\ byPort' = [p \in Ports |-> IF byPort[p] \in Dead THEN None ELSE byPort[p]]
  /\ tunnel' = [s \in Sessions |-> IF s \in Lost THEN None ELSE tunnel[s]]
  /\ byTunnel' = ClearIndex(Lost)
  /\ clients' = [s \in Sessions |-> IF s \in Open THEN Unpruned(s) ELSE clients[s]]
  /\ UNCHANGED <<port, quiet, idle, nextId>>

\* SIGTERM, or a crash: the daemon keeps nothing on disk.
Restart ==
  /\ phase' = [s \in Sessions |-> "none"]
  /\ byPort' = [p \in Ports |-> None]
  /\ tunnel' = [s \in Sessions |-> None]
  /\ byTunnel' = [e \in Endpoints |-> None]
  /\ clients' = [s \in Sessions |-> {}]
  /\ UNCHANGED <<port, quiet, idle, nextId>>

Init ==
  /\ phase = [s \in Sessions |-> "none"]
  /\ port \in [Sessions -> {0}]
  /\ byPort = [p \in Ports |-> None]
  /\ tunnel = [s \in Sessions |-> None]
  /\ byTunnel = [e \in Endpoints |-> None]
  /\ quiet = {} /\ idle = {}
  /\ clients = [s \in Sessions |-> {}]
  /\ nextId = [s \in Sessions |-> 1]

Next ==
  \/ \E s \in Sessions :
       \/ BeginAllocation(s) \/ Bound(s) \/ BindFails(s) \/ Release(s)
       \/ TunnelSilent(s) \/ AllocationIdle(s) \/ ClientSilent(s)
       \/ \E e \in Endpoints : Authenticate(s, e)
       \/ \E a \in Players : PlayerPacket(s, a)
  \/ \E e \in Endpoints : TunnelPacket(e)
  \/ Housekeeping
  \/ Restart

Spec == Init /\ [][Next]_vars

\* Node's timers fire and a bind that was requested completes; nobody owes the
\* daemon a packet.
FairSpec ==
  /\ Spec
  /\ WF_vars(Housekeeping)
  /\ \A s \in Sessions : WF_vars(Bound(s) \/ BindFails(s))

(***************************************************************************)
(* Properties                                                              *)
(***************************************************************************)

TypeOK ==
  /\ phase \in [Sessions -> {"none", "binding", "open"}]
  /\ port \in [Sessions -> Ports \cup {0}]
  /\ byPort \in [Ports -> Sessions \cup {None}]
  /\ tunnel \in [Sessions -> Endpoints \cup {None}]
  /\ byTunnel \in [Endpoints -> Sessions \cup {None}]
  /\ quiet \subseteq Sessions /\ idle \subseteq Sessions
  /\ nextId \in [Sessions -> Nat]
  /\ clients \in [Sessions -> SUBSET Client]

\* "Claim the port before yielding to the bind": the port index holds exactly the
\* allocations that exist or are being bound, so no two of them share a port and
\* none keeps a port after it is gone.
PortIndexExact ==
  /\ \A s \in Sessions : phase[s] # "none" => port[s] \in Ports /\ byPort[port[s]] = s
  /\ \A p \in Ports : byPort[p] # None => phase[byPort[p]] # "none" /\ port[byPort[p]] = p

\* The tunnel index and the tunnels of the allocations mirror each other, through
\* re-authentication, endpoints that move between sessions, silence and release:
\* every packet is resolved to the allocation that its endpoint authenticated.
TunnelIndexExact ==
  \A s \in Sessions, e \in Endpoints : byTunnel[e] = s <=> tunnel[s] = e

\* Only an allocation that is open has a tunnel.
TunnelsAreOpen == \A s \in Sessions : tunnel[s] # None => phase[s] = "open"

\* "An allocation already served by a live tunnel cannot be hijacked": a tunnel
\* that has been heard of within its limit is never replaced by another endpoint.
\* It can only end, by release or because its own endpoint serves another session.
LiveTunnelKept ==
  [][\A s \in Sessions :
       (tunnel[s] # None /\ s \notin quiet) => tunnel'[s] \in {tunnel[s], None}]_vars

\* "Per-allocation client tables are bounded", and an id names one player: replies
\* for a client cannot reach another.
ClientTables ==
  \A s \in Sessions :
    /\ Cardinality(clients[s]) <= MaxClients
    /\ \A c, d \in clients[s] : (c.id = d.id \/ c.addr = d.addr) => c = d
    /\ \A c \in clients[s] : c.id < nextId[s]

\* "An allocation nobody has used in a long time is reclaimed so its public port
\* returns to the pool": one that stays idle does not keep its port for ever.
IdleReclaimed ==
  \A s \in Sessions : (s \in Open /\ s \in idle) ~> (s \notin idle \/ s \notin Open)
=============================================================================
