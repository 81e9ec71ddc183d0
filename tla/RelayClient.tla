---------------------------- MODULE RelayClient ----------------------------
(***************************************************************************)
(* The panel's end of the relay (modules/network/relay.ts): the table of   *)
(* open tunnels, the data socket of each with its keep-alives, and one     *)
(* more socket for every player heard on it.  Opening a tunnel waits for   *)
(* the relay twice, and closing one for the release to be acknowledged.    *)
(* The relay, and what it still remembers, is external (module RelayDaemon *)
(* models it).                                                             *)
(***************************************************************************)
EXTENDS Integers, FiniteSets

CONSTANTS
  TunnelKeys,    \* serverId:portKey
  Openers,       \* requests that open a tunnel
  Players,
  MaxPlayers,    \* MAX_CLIENTS
  MaxSessions    \* bound on the allocations made

ASSUME RelayClientAssumption == {MaxPlayers, MaxSessions} \subseteq Nat \ {0}

VARIABLES
  tunnelOf,    \* key -> the session in the table, 0 when there is none
  keeping,     \* sessions whose socket is open and sends keep-alives
  waiting,     \* sockets still open of handshakes that failed
  channels,    \* session -> players that have a socket of their own
  idle,        \* session -> those of them that have not been heard for CLIENT_IDLE_MS
  opener,      \* request -> [key, session, stage]
  remembered,  \* sessions the relay still has (external)
  issued       \* sessions allocated so far

relayClientVars == <<tunnelOf, keeping, waiting, channels, idle, opener, remembered, issued>>

SessionIds == 1..MaxSessions
NotOpening == [key |-> CHOOSE k \in TunnelKeys : TRUE, session |-> 0, stage |-> "none"]

RelayClientInit ==
  /\ tunnelOf = [k \in TunnelKeys |-> 0]
  /\ keeping = {} /\ waiting = {}
  /\ channels = [s \in SessionIds |-> {}] /\ idle = [s \in SessionIds |-> {}]
  /\ opener = [c \in Openers |-> NotOpening]
  /\ remembered = {} /\ issued = 0

\* A tunnel in the table is taken as it is; otherwise the relay is asked.
OpenTunnel(c, k) ==
  /\ opener[c] = NotOpening
  /\ tunnelOf[k] = 0
  /\ opener' = [opener EXCEPT ![c] = [key |-> k, session |-> 0, stage |-> "allocate"]]
  /\ UNCHANGED <<tunnelOf, keeping, waiting, channels, idle, remembered, issued>>

\* The relay allocates, refuses, or answers incompletely.
AllocateOnRelay(c) ==
  /\ opener[c].stage = "allocate"
  /\ \/ /\ issued < MaxSessions
        /\ issued' = issued + 1
        /\ remembered' = remembered \cup {issued'}
        /\ opener' = [opener EXCEPT ![c].stage = "authenticate", ![c].session = issued']
     \/ opener' = [opener EXCEPT ![c] = NotOpening] /\ UNCHANGED <<remembered, issued>>
  /\ UNCHANGED <<tunnelOf, keeping, waiting, channels, idle>>

\* Acknowledged: the socket forwards and keeps alive, and the table names it,
\* whatever it named before.  Refused or not heard: the session is released,
\* and the socket stays open.
EstablishDataPlane(c) ==
  LET s == opener[c].session IN
  /\ opener[c].stage = "authenticate"
  /\ \/ /\ s \in remembered
        /\ tunnelOf' = [tunnelOf EXCEPT ![opener[c].key] = s]
        /\ keeping' = keeping \cup {s}
        /\ UNCHANGED <<waiting, remembered>>
     \/ /\ waiting' = waiting \cup {s}
        /\ remembered' \in {remembered, remembered \ {s}}
        /\ UNCHANGED <<tunnelOf, keeping>>
  /\ opener' = [opener EXCEPT ![c] = NotOpening]
  /\ UNCHANGED <<channels, idle, issued>>

\* Players that have stopped sending lose their socket; with every keep-alive.
PruneClients(s) ==
  /\ s \in keeping
  /\ channels' = [channels EXCEPT ![s] = @ \ idle[s]]
  /\ idle' = [idle EXCEPT ![s] = {}]
  /\ UNCHANGED <<tunnelOf, keeping, waiting, opener, remembered, issued>>

\* A data packet of a player; a full table is pruned first, and then refuses.
ForwardPacket(s, p) ==
  LET kept == IF p \notin channels[s] /\ Cardinality(channels[s]) >= MaxPlayers
              THEN channels[s] \ idle[s] ELSE channels[s]
      room == p \in kept \/ Cardinality(kept) < MaxPlayers
  IN  /\ s \in keeping /\ s \in remembered
      /\ channels' = [channels EXCEPT ![s] = IF room THEN kept \cup {p} ELSE kept]
      /\ idle' = [idle EXCEPT ![s] = (@ \cap kept) \ {p}]
      /\ UNCHANGED <<tunnelOf, keeping, waiting, opener, remembered, issued>>

\* A player's socket fails, or the player falls silent.
CloseChannel(s, p) ==
  /\ p \in channels[s]
  /\ channels' = [channels EXCEPT ![s] = @ \ {p}] /\ idle' = [idle EXCEPT ![s] = @ \ {p}]
  /\ UNCHANGED <<tunnelOf, keeping, waiting, opener, remembered, issued>>

FallSilent(s, p) ==
  /\ p \in channels[s] \ idle[s] /\ idle' = [idle EXCEPT ![s] = @ \cup {p}]
  /\ UNCHANGED <<tunnelOf, keeping, waiting, channels, opener, remembered, issued>>

\* Mutated: closing a tunnel closes its own socket only.
ClosedMut(s) == channels[s]
\* The players' sockets that closing a tunnel leaves open.
Closed(s) == {}

\* Closed, forgotten, and released at the relay if that is heard.
CloseRelayTunnel(k) ==
  LET s == tunnelOf[k] IN
  /\ s # 0
  /\ keeping' = keeping \ {s}
  /\ channels' = [channels EXCEPT ![s] = Closed(s)] /\ idle' = [idle EXCEPT ![s] = {}]
  /\ tunnelOf' = [tunnelOf EXCEPT ![k] = 0]
  /\ remembered' \in {remembered, remembered \ {s}}
  /\ UNCHANGED <<waiting, opener, issued>>

\* The relay forgets a session it has not heard for long, or everything at a restart.
RelayForgets ==
  /\ \/ \E s \in remembered \ keeping : remembered' = remembered \ {s}
     \/ remembered # {} /\ remembered' = {}
  /\ UNCHANGED <<tunnelOf, keeping, waiting, channels, idle, opener, issued>>

RelayClientNext ==
  \/ \E c \in Openers : (\E k \in TunnelKeys : OpenTunnel(c, k)) \/ AllocateOnRelay(c)
                        \/ EstablishDataPlane(c)
  \/ \E s \in SessionIds : PruneClients(s)
       \/ \E p \in Players : ForwardPacket(s, p) \/ CloseChannel(s, p) \/ FallSilent(s, p)
  \/ \E k \in TunnelKeys : CloseRelayTunnel(k)
  \/ RelayForgets

RelayClientSpec == RelayClientInit /\ [][RelayClientNext]_relayClientVars

(* Properties *)

\* No player's socket outlives its tunnel, and no tunnel has more than
\* MAX_CLIENTS of them, whatever packets arrive around its closing: "Every
\* player's socket has to go too, or closing a tunnel leaks all of them"
\* (relay.ts).
PlayersBounded ==
  \A s \in SessionIds :
    channels[s] # {} => s \in keeping /\ Cardinality(channels[s]) <= MaxPlayers
=============================================================================
