-------------------------------- MODULE Rcon --------------------------------
(***************************************************************************)
(* One command to a game server over BattlEye RCON                         *)
(* (games/protocols/battleye-rcon.ts, runRconCommand): a socket, a login,  *)
(* the command, its answer in one packet or several, and the socket is     *)
(* closed again whatever happened.  Packets get lost, arrive twice and in  *)
(* any order.  The keepalive is left out: it is due later than any command *)
(* times out.                                                              *)
(***************************************************************************)
EXTENDS Integers, Sequences, SequencesExt, FiniteSets

CONSTANTS
  PartCounts,        \* numbers of packets an answer may come in
  MaxResponseBytes,  \* MAX_RESPONSE_BYTES; every part is one byte here
  MaxDeliveries      \* bound on packets delivered

ASSUME RconAssumption == PartCounts \subseteq Nat \ {0} /\ {MaxResponseBytes, MaxDeliveries} \subseteq Nat

VARIABLES
  client,   \* [stage, parts, total, received, result]
  wire,     \* packets the server has sent, any of which may arrive, once or more
  gameSide, \* [login, answered]: what the server has made of the packets it got
  asked,    \* what the client has sent: "login", "command", "ack"
  delivered

rconVars == <<client, wire, gameSide, asked, delivered>>

RconInit ==
  /\ client = [stage |-> "new", parts |-> <<>>, total |-> 0, received |-> 0, result |-> <<>>]
  /\ wire = {} /\ gameSide = [login |-> FALSE, answered |-> FALSE] /\ asked = {} /\ delivered = 0

Login(ok) == [type |-> "login", ok |-> ok, index |-> 0, total |-> 0]
ServerMessage == [type |-> "message", ok |-> TRUE, index |-> 0, total |-> 0]
Answer(index, total) == [type |-> "command", ok |-> TRUE, index |-> index, total |-> total]

\* close: whoever waits is told, and nothing is left behind.
Finished(stage, result) == [stage |-> stage, parts |-> <<>>, total |-> 0, received |-> 0, result |-> result]
Failing == Finished("failed", <<>>)

(* The game server *)

ServeLogin ==
  /\ "login" \in asked /\ ~ gameSide.login
  /\ \E ok \in BOOLEAN : wire' = wire \cup {Login(ok)} /\ gameSide' = [gameSide EXCEPT !.login = ok]
  /\ UNCHANGED <<client, asked, delivered>>

\* Players come and go while an administrator is logged in.
ServeMessage ==
  /\ gameSide.login
  /\ wire' = wire \cup {ServerMessage}
  /\ UNCHANGED <<client, gameSide, asked, delivered>>

ServeCommand ==
  /\ "command" \in asked /\ gameSide.login /\ ~ gameSide.answered
  /\ \E total \in PartCounts : wire' = wire \cup {Answer(i, total) : i \in 0..(total - 1)}
  /\ gameSide' = [gameSide EXCEPT !.answered = TRUE]
  /\ UNCHANGED <<client, asked, delivered>>

(* The client *)

ConnectRcon ==
  /\ client.stage = "new"
  /\ client' = [client EXCEPT !.stage = "login"] /\ asked' = asked \cup {"login"}
  /\ UNCHANGED <<wire, gameSide, delivered>>

Arrives(packet) == packet \in wire /\ delivered < MaxDeliveries /\ delivered' = delivered + 1

\* The first packet must be the answer to the login, and a good one.
OnLogin ==
  /\ client.stage = "login"
  /\ \E packet \in wire :
       /\ Arrives(packet)
       /\ client' = IF packet.type = "login" /\ packet.ok
                    THEN [client EXCEPT !.stage = "ready"] ELSE Failing
  /\ UNCHANGED <<wire, gameSide, asked>>

Send ==
  /\ client.stage = "ready"
  /\ client' = [client EXCEPT !.stage = "waiting"] /\ asked' = asked \cup {"command"}
  /\ UNCHANGED <<wire, gameSide, delivered>>

\* A part takes the place of one of the same index: a Map, in the order of its keys' arrival.
\* Mutated: it is put behind the others.
SetPartMut(parts, index) == Append(parts, index)
SetPart(parts, index) == IF index \in ToSet(parts) THEN parts ELSE Append(parts, index)

\* Mutated: the parts in the order they came.
JoinedMut(parts) == parts
Joined(parts) ==
  CHOOSE order \in [1..Len(parts) -> ToSet(parts)] :
    \A i, j \in 1..Len(parts) : i < j => order[i] < order[j]

OnMessage ==
  /\ client.stage \in {"ready", "waiting"}
  /\ \E packet \in wire :
       /\ Arrives(packet)
       /\ CASE packet.type = "message" -> asked' = asked \cup {"ack"} /\ UNCHANGED client
            [] packet.type # "message" /\ (packet.type = "login" \/ client.stage = "ready") ->
                 UNCHANGED <<client, asked>>
            [] OTHER ->
                 LET parts == SetPart(client.parts, packet.index)
                     received == client.received + 1
                 IN  /\ client' = IF received > MaxResponseBytes THEN Failing
                                  ELSE IF Len(parts) >= packet.total THEN Finished("answered", Joined(parts))
                                  ELSE [client EXCEPT !.parts = parts, !.total = packet.total,
                                                      !.received = received]
                     /\ UNCHANGED asked
  /\ UNCHANGED <<wire, gameSide>>

\* The timer of the login or of the command, or an error of the socket.
TimeOut ==
  /\ client.stage \in {"login", "ready", "waiting"}
  /\ client' = Failing
  /\ UNCHANGED <<wire, gameSide, asked, delivered>>

RconNext == ServeLogin \/ ServeMessage \/ ServeCommand \/ ConnectRcon \/ OnLogin \/ Send \/ OnMessage \/ TimeOut

RconSpec == RconInit /\ [][RconNext]_rconVars

(* Properties *)

\* An answer that is shown is the whole answer, its parts in their order and
\* each of them once, however the packets came (handleMessage).
CommandWhole ==
  client.stage = "answered" =>
    \E total \in PartCounts : client.result = [i \in 1..total |-> i - 1] /\ Answer(0, total) \in wire
=============================================================================
