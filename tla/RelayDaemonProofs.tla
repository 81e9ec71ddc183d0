-------------------------- MODULE RelayDaemonProofs --------------------------
(***************************************************************************)
(* What holds of RelayDaemon for every set of sessions, ports, endpoints   *)
(* and players.                                                            *)
(***************************************************************************)
EXTENDS RelayDaemon, FiniteSetTheorems, TLAPS

\* A client entry keeps its shape when the tables are pruned, grow or are marked.
LEMMA ClientEntries ==
  ASSUME TypeOK, NEW s \in Sessions
  PROVE  /\ Unpruned(s) \subseteq clients[s]
         /\ RoomFor(s) \subseteq clients[s]
  BY DEF Unpruned, RoomFor

\* Marking an entry heard of, or silent, leaves an entry.
LEMMA MarkedEntry ==
  ASSUME NEW c \in Client, NEW b \in BOOLEAN
  PROVE  [c EXCEPT !.silent = b] \in Client
  BY DEF Client

\* Every handler and timer of relay.ts keeps the shape of its tables.
THEOREM TypeCorrect == Spec => []TypeOK
<1>1. Init => TypeOK
  BY RelayAssumption DEF Init, TypeOK
<1>2. TypeOK /\ [Next]_vars => TypeOK'
  <2> SUFFICES ASSUME TypeOK, [Next]_vars PROVE TypeOK'
    OBVIOUS
  <2> USE RelayAssumption DEF TypeOK
  <2>1. ASSUME NEW s \in Sessions, BeginAllocation(s) PROVE TypeOK'
    BY <2>1 DEF BeginAllocation, FreePorts, wires
  <2>2. ASSUME NEW s \in Sessions, Bound(s) PROVE TypeOK'
    BY <2>2 DEF Bound, wires, tables
  <2>3. ASSUME NEW s \in Sessions, BindFails(s) PROVE TypeOK'
    BY <2>3 DEF BindFails, wires, tables
  <2>4. ASSUME NEW s \in Sessions, Release(s) PROVE TypeOK'
    BY <2>4 DEF Release, ClearIndex, tables
  <2>5. ASSUME NEW s \in Sessions, TunnelSilent(s) PROVE TypeOK'
    BY <2>5 DEF TunnelSilent, tables
  <2>6. ASSUME NEW s \in Sessions, AllocationIdle(s) PROVE TypeOK'
    BY <2>6 DEF AllocationIdle, wires, tables
  <2>7. ASSUME NEW s \in Sessions, ClientSilent(s) PROVE TypeOK'
    <3>1. PICK c \in clients[s] :
            clients' = [clients EXCEPT ![s] = (@ \ {c}) \cup {[c EXCEPT !.silent = TRUE]}]
      BY <2>7 DEF ClientSilent
    <3>2. [c EXCEPT !.silent = TRUE] \in Client
      BY MarkedEntry
    <3>3. clients' \in [Sessions -> SUBSET Client]
      BY <3>1, <3>2
    <3> QED
      BY <2>7, <3>3 DEF ClientSilent, wires
  <2>8. ASSUME NEW s \in Sessions, NEW e \in Endpoints, Authenticate(s, e) PROVE TypeOK'
    BY <2>8 DEF Authenticate, SetTunnelEndpoint, ClearIndex, tables
  <2>9. ASSUME NEW s \in Sessions, NEW a \in Players, PlayerPacket(s, a) PROVE TypeOK'
    <3>1. CASE UNCHANGED tables
      BY <2>9, <3>1 DEF PlayerPacket, wires, tables
    <3>2. ASSUME NEW c \in clients[s],
                 clients' = [clients EXCEPT ![s] = (@ \ {c}) \cup {[c EXCEPT !.silent = FALSE]}],
                 UNCHANGED nextId
          PROVE  TypeOK'
      <4>1. [c EXCEPT !.silent = FALSE] \in Client
        BY MarkedEntry
      <4>2. clients' \in [Sessions -> SUBSET Client]
        BY <3>2, <4>1
      <4> QED
        BY <2>9, <3>2, <4>2 DEF PlayerPacket, wires
    <3>3. ASSUME clients' = [clients EXCEPT ![s] = RoomFor(s) \cup
                               {[id |-> nextId[s], addr |-> a, silent |-> FALSE]}],
                 nextId' = [nextId EXCEPT ![s] = @ + 1]
          PROVE  TypeOK'
      <4>1. [id |-> nextId[s], addr |-> a, silent |-> FALSE] \in Client
        BY DEF Client
      <4>2. clients' \in [Sessions -> SUBSET Client]
        BY <3>3, <4>1, ClientEntries
      <4> QED
        BY <2>9, <3>3, <4>2 DEF PlayerPacket, wires
    <3>4. ASSUME clients' = [clients EXCEPT ![s] = RoomFor(s)], UNCHANGED nextId
          PROVE  TypeOK'
      BY <2>9, <3>4, ClientEntries DEF PlayerPacket, wires
    <3> QED
      BY <2>9, <3>1, <3>2, <3>3, <3>4, Zenon DEF PlayerPacket
  <2>10. ASSUME NEW e \in Endpoints, TunnelPacket(e) PROVE TypeOK'
    BY <2>10 DEF TunnelPacket, tables
  <2>11. ASSUME Housekeeping PROVE TypeOK'
    BY <2>11, ClientEntries DEF Housekeeping, ClearIndex
  <2>12. ASSUME Restart PROVE TypeOK'
    BY <2>12 DEF Restart
  <2>13. CASE UNCHANGED vars
    BY <2>13 DEF vars
  <2> QED
    BY <2>1, <2>2, <2>3, <2>4, <2>5, <2>6, <2>7, <2>8, <2>9, <2>10, <2>11, <2>12, <2>13
    DEF Next
<1> QED
  BY <1>1, <1>2, PTL DEF Spec

\* "Claim the port before yielding to the bind": no two allocations share a port,
\* and no port is kept by an allocation that is gone.
THEOREM PortIndexCorrect == Spec => []PortIndexExact
<1>1. Init => PortIndexExact
  BY DEF Init, PortIndexExact
<1>2. TypeOK /\ PortIndexExact /\ [Next]_vars => PortIndexExact'
  <2> SUFFICES ASSUME TypeOK, PortIndexExact, [Next]_vars PROVE PortIndexExact'
    OBVIOUS
  <2> USE RelayAssumption DEF TypeOK, PortIndexExact
  <2>1. ASSUME NEW s \in Sessions, BeginAllocation(s) PROVE PortIndexExact'
    BY <2>1 DEF BeginAllocation, FreePorts
  <2>2. ASSUME NEW s \in Sessions, Bound(s) PROVE PortIndexExact'
    BY <2>2 DEF Bound
  <2>3. ASSUME NEW s \in Sessions, BindFails(s) PROVE PortIndexExact'
    BY <2>3 DEF BindFails
  <2>4. ASSUME NEW s \in Sessions, Release(s) PROVE PortIndexExact'
    BY <2>4 DEF Release, Open
  <2>5. CASE Housekeeping
    <3>1. Dead \subseteq Sessions /\ None \notin Dead
      BY DEF Dead, Open
    <3> QED
      BY <2>5, <3>1 DEF Housekeeping
  <2>6. CASE Restart
    BY <2>6 DEF Restart
  <2>7. CASE UNCHANGED <<phase, port, byPort>>
    BY <2>7
  <2> QED
    BY <2>1, <2>2, <2>3, <2>4, <2>5, <2>6, <2>7
    DEF Next, vars, TunnelSilent, AllocationIdle, ClientSilent, Authenticate,
        PlayerPacket, TunnelPacket
<1> QED
  BY <1>1, <1>2, TypeCorrect, PTL DEF Spec

\* setTunnelEndpoint and clearTunnelEndpoint keep the tunnel index and the tunnels
\* of the allocations the mirror image of each other.
THEOREM TunnelIndexCorrect == Spec => []TunnelIndexExact
<1>1. Init => TunnelIndexExact
  BY RelayAssumption DEF Init, TunnelIndexExact
<1>2. TypeOK /\ TunnelIndexExact /\ [Next]_vars => TunnelIndexExact'
  <2> SUFFICES ASSUME TypeOK, TunnelIndexExact, [Next]_vars PROVE TunnelIndexExact'
    OBVIOUS
  <2> USE RelayAssumption DEF TypeOK, TunnelIndexExact
  <2>1. ASSUME NEW s \in Sessions, NEW e \in Endpoints, Authenticate(s, e)
        PROVE  TunnelIndexExact'
    BY <2>1 DEF Authenticate, SetTunnelEndpoint, ClearIndex
  <2>2. ASSUME NEW s \in Sessions, Release(s) PROVE TunnelIndexExact'
    BY <2>2 DEF Release, ClearIndex
  <2>3. CASE Housekeeping
    <3>1. Lost \subseteq Sessions
      BY DEF Lost, Open
    <3> QED
      BY <2>3, <3>1 DEF Housekeeping, ClearIndex
  <2>4. CASE Restart
    BY <2>4 DEF Restart
  <2>5. CASE UNCHANGED <<tunnel, byTunnel>>
    BY <2>5
  <2> QED
    BY <2>1, <2>2, <2>3, <2>4, <2>5
    DEF Next, vars, wires, BeginAllocation, Bound, BindFails, TunnelSilent,
        AllocationIdle, ClientSilent, PlayerPacket, TunnelPacket
<1> QED
  BY <1>1, <1>2, TypeCorrect, PTL DEF Spec

\* No packet of a tunnel is resolved to an allocation whose socket is closed.
THEOREM TunnelsAreOpenAlways == Spec => []TunnelsAreOpen
<1>1. Init => TunnelsAreOpen
  BY DEF Init, TunnelsAreOpen
<1>2. TypeOK /\ TunnelsAreOpen /\ [Next]_vars => TunnelsAreOpen'
  <2> SUFFICES ASSUME TypeOK, TunnelsAreOpen, [Next]_vars PROVE TunnelsAreOpen'
    OBVIOUS
  <2> USE RelayAssumption DEF TypeOK, TunnelsAreOpen
  <2>1. ASSUME NEW s \in Sessions, NEW e \in Endpoints, Authenticate(s, e)
        PROVE  TunnelsAreOpen'
    BY <2>1 DEF Authenticate, MayAuthenticate, SetTunnelEndpoint, Open
  <2>2. ASSUME NEW s \in Sessions, BeginAllocation(s) PROVE TunnelsAreOpen'
    BY <2>2 DEF BeginAllocation, wires
  <2>3. ASSUME NEW s \in Sessions, Bound(s) PROVE TunnelsAreOpen'
    BY <2>3 DEF Bound, wires
  <2>4. ASSUME NEW s \in Sessions, BindFails(s) PROVE TunnelsAreOpen'
    BY <2>4 DEF BindFails, wires
  <2>5. ASSUME NEW s \in Sessions, Release(s) PROVE TunnelsAreOpen'
    BY <2>5 DEF Release
  <2>6. CASE Housekeeping
    BY <2>6 DEF Housekeeping, Dead, Lost
  <2>7. CASE Restart
    BY <2>7 DEF Restart
  <2>8. CASE UNCHANGED <<phase, tunnel>>
    BY <2>8
  <2> QED
    BY <2>1, <2>2, <2>3, <2>4, <2>5, <2>6, <2>7, <2>8
    DEF Next, vars, wires, TunnelSilent, AllocationIdle, ClientSilent,
        PlayerPacket, TunnelPacket
<1> QED
  BY <1>1, <1>2, TypeCorrect, PTL DEF Spec

\* "An allocation already served by a live tunnel cannot be hijacked."
THEOREM LiveTunnelIsKept == Spec => LiveTunnelKept
<1> DEFINE Kept == \A s \in Sessions :
             (tunnel[s] # None /\ s \notin quiet) => tunnel'[s] \in {tunnel[s], None}
<1>1. TypeOK /\ [Next]_vars => [Kept]_vars
  <2> SUFFICES ASSUME TypeOK, Next PROVE Kept
    BY Zenon
  <2> USE DEF TypeOK
  <2>1. ASSUME NEW s \in Sessions, NEW e \in Endpoints, Authenticate(s, e) PROVE Kept
    BY <2>1 DEF Authenticate, MayAuthenticate, SetTunnelEndpoint
  <2>2. ASSUME NEW s \in Sessions, Release(s) PROVE Kept
    BY <2>2 DEF Release
  <2>3. CASE Housekeeping
    BY <2>3 DEF Housekeeping
  <2>4. CASE Restart
    BY <2>4 DEF Restart
  <2>5. CASE UNCHANGED tunnel
    BY <2>5
  <2> QED
    BY <2>1, <2>2, <2>3, <2>4, <2>5
    DEF Next, wires, BeginAllocation, Bound, BindFails, TunnelSilent,
        AllocationIdle, ClientSilent, PlayerPacket, TunnelPacket
<1> QED
  BY <1>1, TypeCorrect, PTL DEF Spec, LiveTunnelKept

\* Putting one element in the place of another does not enlarge a finite set.
LEMMA Replaced ==
  ASSUME NEW T, IsFiniteSet(T), NEW c \in T, NEW d
  PROVE  /\ IsFiniteSet((T \ {c}) \cup {d})
         /\ Cardinality((T \ {c}) \cup {d}) <= Cardinality(T)
<1>1. IsFiniteSet(T \ {c}) /\ Cardinality(T \ {c}) = Cardinality(T) - 1
  BY FS_RemoveElement
<1>2. /\ IsFiniteSet((T \ {c}) \cup {d})
      /\ \/ Cardinality((T \ {c}) \cup {d}) = Cardinality(T \ {c}) + 1
         \/ Cardinality((T \ {c}) \cup {d}) = Cardinality(T \ {c})
  BY <1>1, FS_AddElement
<1> QED
  BY <1>1, <1>2, FS_CardinalityType

\* A table that meets its bound, and whose ids and addresses name one client.
GoodTable(T, next) ==
  /\ T \subseteq Client
  /\ IsFiniteSet(T)
  /\ Cardinality(T) <= MaxClients
  /\ \A c, d \in T : (c.id = d.id \/ c.addr = d.addr) => c = d
  /\ \A c \in T : c.id < next

GoodTables == \A s \in Sessions : GoodTable(clients[s], nextId[s])

\* pruneClients takes nothing away from what makes a table good.
LEMMA PrunedTable ==
  ASSUME NEW T, NEW next, GoodTable(T, next), NEW U \in SUBSET T
  PROVE  GoodTable(U, next)
<1>1. IsFiniteSet(U) /\ Cardinality(U) <= Cardinality(T)
  BY FS_Subset DEF GoodTable
<1>2. Cardinality(U) \in Nat /\ Cardinality(T) \in Nat
  BY <1>1, FS_CardinalityType DEF GoodTable
<1> QED
  BY <1>1, <1>2, RelayAssumption DEF GoodTable

\* client.lastSeen = Date.now(), and the passing of time.
LEMMA MarkedTable ==
  ASSUME NEW T, NEW next, GoodTable(T, next), NEW c \in T, NEW b \in BOOLEAN
  PROVE  GoodTable((T \ {c}) \cup {[c EXCEPT !.silent = b]}, next)
<1> DEFINE d == [c EXCEPT !.silent = b]
<1>1. d \in Client /\ d.id = c.id /\ d.addr = c.addr
  BY DEF GoodTable, Client
<1> HIDE DEF d
<1>2. IsFiniteSet((T \ {c}) \cup {d}) /\ Cardinality((T \ {c}) \cup {d}) <= Cardinality(T)
  BY Replaced DEF GoodTable
<1>3. Cardinality((T \ {c}) \cup {d}) \in Nat /\ Cardinality(T) \in Nat
  BY <1>2, FS_CardinalityType DEF GoodTable
<1>4. GoodTable((T \ {c}) \cup {d}, next)
  BY <1>1, <1>2, <1>3, RelayAssumption DEF GoodTable
<1> QED
  BY <1>4 DEF d

\* A client that is admitted gets an id and an address nobody in the table has.
LEMMA GrownTable ==
  ASSUME NEW T, NEW next \in Nat, GoodTable(T, next), CanAdmit(T),
         NEW a \in Players, \A c \in T : c.addr # a
  PROVE  GoodTable(T \cup {[id |-> next, addr |-> a, silent |-> FALSE]}, next + 1)
<1> DEFINE d == [id |-> next, addr |-> a, silent |-> FALSE]
<1>1. d \in Client /\ d.id = next /\ d.addr = a
  BY DEF Client
<1> HIDE DEF d
<1>2. /\ IsFiniteSet(T \cup {d})
      /\ \/ Cardinality(T \cup {d}) = Cardinality(T) + 1
         \/ Cardinality(T \cup {d}) = Cardinality(T)
  BY FS_AddElement DEF GoodTable
<1>3. Cardinality(T) \in Nat
  BY FS_CardinalityType DEF GoodTable
<1>4. Cardinality(T \cup {d}) <= MaxClients
  BY <1>2, <1>3, RelayAssumption DEF CanAdmit, GoodTable
<1>5. \A c \in T : c.id \in Nat
  BY DEF GoodTable, Client
<1>6. GoodTable(T \cup {d}, next + 1)
  BY <1>1, <1>2, <1>4, <1>5 DEF GoodTable
<1> QED
  BY <1>6 DEF d

\* "Per-allocation client tables are bounded": and while they are filled, pruned
\* and refreshed, an id and an address each name one client.
THEOREM ClientTablesCorrect == Spec => []ClientTables
<1>1. Init => GoodTables
  BY FS_EmptySet, RelayAssumption DEF Init, GoodTables, GoodTable
<1>2. TypeOK /\ GoodTables /\ [Next]_vars => GoodTables'
  <2> SUFFICES ASSUME TypeOK, GoodTables, [Next]_vars,
                      NEW t \in Sessions
               PROVE  GoodTable(clients'[t], nextId'[t])
    BY DEF GoodTables, GoodTable
  <2>0. GoodTable(clients[t], nextId[t]) /\ nextId[t] \in Nat
    BY DEF GoodTables, TypeOK
  <2>1. ASSUME NEW s \in Sessions, BeginAllocation(s)
        PROVE  GoodTable(clients'[t], nextId'[t])
    <3>1. GoodTable({}, 1)
      BY FS_EmptySet, RelayAssumption DEF GoodTable
    <3> QED
      BY <2>0, <2>1, <3>1 DEF BeginAllocation, TypeOK
  <2>2. ASSUME NEW s \in Sessions, ClientSilent(s)
        PROVE  GoodTable(clients'[t], nextId'[t])
    <3>1. PICK c \in clients[s] :
            clients' = [clients EXCEPT ![s] = (@ \ {c}) \cup {[c EXCEPT !.silent = TRUE]}]
      BY <2>2 DEF ClientSilent
    <3>2. CASE t = s
      <4>1. GoodTable((clients[t] \ {c}) \cup {[c EXCEPT !.silent = TRUE]}, nextId[t])
        BY <2>0, <3>1, <3>2, MarkedTable
      <4> QED
        BY <2>2, <3>1, <3>2, <4>1 DEF ClientSilent, TypeOK
    <3>3. CASE t # s
      BY <2>0, <2>2, <3>1, <3>3 DEF ClientSilent, TypeOK
    <3> QED
      BY <3>2, <3>3
  <2>3. ASSUME NEW s \in Sessions, NEW a \in Players, PlayerPacket(s, a)
        PROVE  GoodTable(clients'[t], nextId'[t])
    <3>1. CASE UNCHANGED tables
      BY <2>0, <3>1 DEF tables
    <3>2. ASSUME NEW c \in clients[s],
                 clients' = [clients EXCEPT ![s] = (@ \ {c}) \cup {[c EXCEPT !.silent = FALSE]}],
                 UNCHANGED nextId
          PROVE  GoodTable(clients'[t], nextId'[t])
      <4>1. ASSUME t = s
            PROVE  GoodTable((clients[t] \ {c}) \cup {[c EXCEPT !.silent = FALSE]}, nextId[t])
        BY <2>0, <4>1, MarkedTable
      <4> QED
        BY <2>0, <3>2, <4>1 DEF TypeOK
    <3>3. GoodTable(RoomFor(s), nextId[s]) /\ RoomFor(s) \subseteq clients[s]
      <4>1. GoodTable(clients[s], nextId[s])
        BY DEF GoodTables
      <4> QED
        BY <4>1, ClientEntries, PrunedTable
    <3>4. ASSUME CanAdmit(RoomFor(s)),
                 \A c \in clients[s] : c.addr # a,
                 clients' = [clients EXCEPT ![s] = RoomFor(s) \cup
                               {[id |-> nextId[s], addr |-> a, silent |-> FALSE]}],
                 nextId' = [nextId EXCEPT ![s] = @ + 1]
          PROVE  GoodTable(clients'[t], nextId'[t])
      <4>1. nextId[s] \in Nat
        BY DEF TypeOK
      <4>2. GoodTable(RoomFor(s) \cup {[id |-> nextId[s], addr |-> a, silent |-> FALSE]},
                      nextId[s] + 1)
        BY <3>3, <3>4, <4>1, GrownTable
      <4> QED
        BY <2>0, <3>4, <4>2 DEF TypeOK
    <3>5. ASSUME clients' = [clients EXCEPT ![s] = RoomFor(s)], UNCHANGED nextId
          PROVE  GoodTable(clients'[t], nextId'[t])
      BY <2>0, <3>3, <3>5 DEF TypeOK
    <3> QED
      BY <2>3, <3>1, <3>2, <3>4, <3>5, Zenon DEF PlayerPacket
  <2>4. CASE Housekeeping
    <3>1. GoodTable(Unpruned(t), nextId[t])
      BY <2>0, ClientEntries, PrunedTable
    <3> QED
      BY <2>0, <2>4, <3>1 DEF Housekeeping
  <2>5. CASE Restart
    <3>1. GoodTable({}, nextId[t])
      BY FS_EmptySet, RelayAssumption DEF GoodTable
    <3> QED
      BY <2>5, <3>1 DEF Restart
  <2>6. CASE UNCHANGED tables
    BY <2>0, <2>6 DEF tables
  <2> QED
    BY <2>1, <2>2, <2>3, <2>4, <2>5, <2>6
    DEF Next, vars, tables, Bound, BindFails, Release, TunnelSilent, AllocationIdle,
        Authenticate, TunnelPacket
<1>3. GoodTables => ClientTables
  BY DEF GoodTables, GoodTable, ClientTables
<1> QED
  BY <1>1, <1>2, <1>3, TypeCorrect, PTL DEF Spec
=============================================================================
