----------------------------- MODULE Forwarding -----------------------------
(***************************************************************************)
(* Opening, renewing and releasing the public ports of one server          *)
(* (modules/network/port-forwarder.ts and routes/network.ts): the rows of  *)
(* its ports, the mappings the router holds, the relay tunnels, and the    *)
(* address players are told.  Requests and the scheduler's sweep overlap;  *)
(* each reads its rows first and writes them one by one, after the router  *)
(* has answered.  The router, what it grants and loses, is external.       *)
(***************************************************************************)
EXTENDS NatTraversal, GameQuery

CONSTANTS
  Calls,         \* requests and sweeps in flight
  Homes,         \* the networks looked at: [host, router, static, running, relay, ports]
  Preferences,   \* the methods asked for
  Leases,        \* the leases asked for; 0 is permanent
  Soon,          \* how long before its end a lease is renewed
  EnvLife,       \* how long a probe is remembered
  LastMinute,    \* bound on time
  MaxCalls       \* bound on requests

ASSUME ForwardingAssumption ==
  /\ {EnvLife, LastMinute, MaxCalls} \subseteq Nat /\ Soon \in Nat \ {0} /\ LastMinute < Forever
  /\ Preferences \subseteq {"auto", "relay", "manual", "natpmp", "pcp", "upnp"}
  /\ Leases \subseteq 0 .. (Forever - 1)
  /\ \A h \in Homes : /\ h.ports \in Seq(ToSet(h.ports)) /\ IsInjective(h.ports)
                        /\ "game" \in ToSet(h.ports)

VARIABLES
  home,       \* where the panel stands, whether a relay is configured, and the server's public
              \* ports in the order of its rows: "game", "query" (steamQuery, a2s); never changes
  env,        \* the remembered probe and its age: [value, at]
  useRelay,   \* the server's choice
  mappings,   \* key -> the port's row: [method, active, lease], lease 0 when there is none
  granted,    \* key -> until when the router maps it, 0 when it does not (external)
  tunnels,    \* keys whose relay tunnel is open
  published,  \* the server's publicHost and whose port is its publicBasePort
  call,       \* request -> [kind, preferred, lease, env, todo, read, out]
  minute,
  made,       \* requests begun
  swept,      \* whether a sweep has ended since the last minute
  crossed,    \* whether a request overlapped another one (records what happened)
  short,      \* whether a renewal was granted for less than was asked, or its answer lost (likewise)
  promised    \* keys a request has opened, and none has closed since (likewise)

forwardingVars == <<home, env, useRelay, mappings, granted, tunnels, published, call, minute, made,
                    swept, crossed, short, promised>>

PortKeys == home.ports
Keys == ToSet(PortKeys)

\* Those of a set, in the order of the rows.
InRows(keys) ==
  LET Kept[n \in 0..Len(PortKeys)] ==
        IF n = 0 THEN <<>>
        ELSE IF PortKeys[n] \in keys THEN Append(Kept[n - 1], PortKeys[n]) ELSE Kept[n - 1]
  IN  Kept[Len(PortKeys)]

Outcome(method, success, address, lease) ==
  [method |-> method, success |-> success, address |-> address, lease |-> lease]

Rest == [kind |-> "none", preferred |-> None, lease |-> 0, env |-> NoEnvironment, todo |-> <<>>,
         read |-> <<>>, out |-> <<>>]
Busy == {c \in Calls : call[c] # Rest}

ForwardingInit ==
  /\ home \in Homes
  /\ env = [value |-> NoEnvironment, at |-> -EnvLife]
  /\ useRelay \in {FALSE, home.relay}
  /\ mappings = [k \in Keys |-> [method |-> "MANUAL", active |-> FALSE, lease |-> 0]]
  /\ granted = [k \in Keys |-> 0]
  /\ tunnels = {} /\ published = [address |-> None, port |-> "own"]
  /\ call = [c \in Calls |-> Rest]
  /\ minute = 0 /\ made = 0 /\ swept = FALSE
  /\ crossed = FALSE /\ short = FALSE /\ promised = {}

GetNatEnvironment ==
  IF minute - env.at < EnvLife THEN {env} ELSE
    {[value |-> e, at |-> minute] : e \in ProbeNatEnvironment(home.host, home.router)}

Begin(c, request) ==
  /\ call[c] = Rest
  /\ crossed' = (crossed \/ Busy # {})
  /\ \E e \in GetNatEnvironment :
       /\ env' = e
       /\ call' = [call EXCEPT ![c] = [request EXCEPT !.env = e.value]]

\* What the router now holds for a key.
Hold(k, effect) ==
  granted' = CASE effect = Nothing -> granted
               [] effect \in {0, Forever} -> [granted EXCEPT ![k] = effect]
               [] OTHER -> [granted EXCEPT ![k] = minute + effect]

(* Opening *)

Manual(address) == Outcome("MANUAL", FALSE, address, 0)

WantsRelay(r) == r.preferred = "relay" \/ (r.preferred = "auto" /\ (useRelay \/ home.relay))

\* An open tunnel is used again, and then the address returned is the empty string ("blank").
OpenRelayTunnel(k) ==
  IF k \in tunnels THEN {[out |-> Outcome("RELAY", TRUE, "blank", 0), opens |-> TRUE]}
  ELSE {[out |-> Outcome("RELAY", TRUE, "relay", 0), opens |-> TRUE],
        [out |-> Outcome("RELAY", FALSE, None, 0), opens |-> FALSE]}

LanMap(method, e, lease) ==
  CASE method = "natpmp" -> NatpmpMap(home.router, e.gateway, lease)
    [] method = "pcp" -> IF e.local = None THEN {Failed} ELSE PcpMap(home.router, e.gateway, lease)
    [] method = "upnp" -> IF e.upnp /\ e.local # None THEN UpnpMap(home.router, lease) ELSE {Failed}

RowMethod == [natpmp |-> "NATPMP", pcp |-> "PCP", upnp |-> "UPNP"]

\* The first of the methods that is heard to succeed; each may fail, and leave a grant.
LanOutcomes(methods, e, lease) ==
  LET Tries(i) == LanMap(methods[i], e, lease)
      won == UNION {{[out |-> Outcome(RowMethod[methods[i]], TRUE, home.router.external, a.told),
                      effect |-> a.granted] : a \in {b \in Tries(i) : b.ok}} :
                    i \in DOMAIN methods}
      lost == {[out |-> Manual(IF home.static THEN "public" ELSE None), effect |-> a.granted] :
                 a \in {Failed} \cup {b \in UNION {Tries(i) : i \in DOMAIN methods} : ~ b.ok}}
  IN  won \cup lost

\* Mutated: a relay that cannot be had falls back, whoever asked for it.
DirectMappingMut(r, relayed) == TRUE
\* Whether a direct mapping is tried, once the relay has not served.
DirectMapping(r, relayed) == ~ relayed \/ r.preferred # "relay"

Direct(r) ==
  CASE r.env.direct -> {[out |-> Outcome("DIRECT", TRUE, r.env.external, 0), effect |-> Nothing]}
    [] ~ r.env.direct /\ (r.env.problem \/ (r.env.cgnat /\ r.preferred # "manual")) ->
         {[out |-> Manual(None), effect |-> Nothing]}
    [] OTHER -> LanOutcomes(CASE r.preferred = "auto" -> <<"natpmp", "pcp", "upnp">>
                              [] r.preferred \in {"manual", "relay"} -> <<>>
                              [] OTHER -> <<r.preferred>>, r.env, r.lease)

ForwardSinglePort(r, k) ==
  LET relayed == WantsRelay(r) /\ home.relay
      tried == IF relayed THEN OpenRelayTunnel(k) ELSE {}
      served == {t \in tried : t.out.success \/ ~ DirectMapping(r, TRUE)}
  IN  {[out |-> t.out, effect |-> Nothing, opens |-> t.opens] : t \in served}
      \cup (IF tried # {} /\ tried = served THEN {}
            ELSE {[out |-> d.out, effect |-> d.effect, opens |-> FALSE] : d \in Direct(r)})

ForwardServerPorts(c) ==
  \E p \in Preferences, l \in Leases :
    /\ made < MaxCalls /\ made' = made + 1
    /\ Begin(c, [Rest EXCEPT !.kind = "forward", !.preferred = p, !.lease = l,
                             !.todo = PortKeys, !.out = [k \in Keys |-> Manual(None)]])
    /\ UNCHANGED <<home, useRelay, mappings, granted, tunnels, published, minute, swept, short, promised>>

ForwardPort(c) ==
  /\ call[c].kind = "forward" /\ call[c].todo # <<>>
  /\ LET k == Head(call[c].todo) IN
     \E f \in ForwardSinglePort(call[c], k) :
       /\ call' = [call EXCEPT ![c].out[k] = f.out, ![c].todo = Tail(@)]
       /\ Hold(k, f.effect)
       /\ tunnels' = IF f.opens THEN tunnels \cup {k} ELSE tunnels
  /\ UNCHANGED <<home, env, useRelay, mappings, published, minute, made, swept, crossed, short, promised>>

\* Ports forwarded by hand on a fixed address are believed once the query port answers from outside.
ConfirmStaticForwards(c) ==
  /\ call[c].kind = "forward" /\ call[c].todo = <<>>
  /\ \E info \in AnswersSeen :
       LET confirmed == home.static /\ home.running /\ "query" \in Keys /\ info # NoInfo IN
       call' = [call EXCEPT ![c].kind = "save", ![c].todo = PortKeys,
                  ![c].out = [k \in Keys |->
                     IF confirmed /\ @[k].method = "MANUAL" /\ ~ @[k].success
                     THEN Outcome("MANUAL", TRUE, "public", 0) ELSE @[k]]]
  /\ UNCHANGED <<home, env, useRelay, mappings, granted, tunnels, published, minute, made, swept,
                 crossed, short, promised>>

SaveOutcome(c) ==
  /\ call[c].kind = "save" /\ call[c].todo # <<>>
  /\ LET k == Head(call[c].todo)
         o == call[c].out[k]
     IN  /\ mappings' = [mappings EXCEPT ![k] =
              [method |-> o.method, active |-> o.success,
               lease |-> IF o.success /\ o.lease # 0 THEN minute + o.lease ELSE 0]]
         /\ promised' = IF o.success THEN promised \cup {k} ELSE promised \ {k}
  /\ call' = [call EXCEPT ![c].todo = Tail(@)]
  /\ UNCHANGED <<home, env, useRelay, granted, tunnels, published, minute, made, swept, crossed, short>>

\* The address players use comes from the game port, or else from any that was opened.
PublishAddress(c) ==
  LET out == call[c].out
      game == out["game"].success
      others == {out[k].address : k \in {j \in Keys : out[j].success}} \ {None, "blank"}
      address == IF game /\ out["game"].address # None THEN {out["game"].address} ELSE others
  IN  /\ call[c].kind = "save" /\ call[c].todo = <<>>
      /\ \E a \in IF address \in {{}, {"blank"}} THEN {published.address} ELSE address :
           published' = [address |-> a,
                         port |-> IF ~ game THEN published.port
                                  ELSE IF out["game"].method = "RELAY" THEN "relay" ELSE "own"]
      /\ call' = [call EXCEPT ![c] = Rest]
      /\ UNCHANGED <<home, env, useRelay, mappings, granted, tunnels, minute, made, swept, crossed,
                     short, promised>>

\* Done with the first of its ports, a request goes on with the next, or ends.
GoOn(r, kind) == IF Len(r.todo) = 1 THEN Rest ELSE [r EXCEPT !.kind = kind, !.todo = Tail(@)]

(* Releasing: a request, a deletion, new ports, or the other networking mode *)

ReleaseServerPortMappings(c) ==
  LET active == {k \in Keys : mappings[k].active} IN
  /\ active # {} /\ made < MaxCalls /\ made' = made + 1
  /\ useRelay' \in {useRelay, FALSE, home.relay}
  /\ Begin(c, [Rest EXCEPT !.kind = "release", !.read = mappings,
                           !.todo = InRows(active)])
  /\ UNCHANGED <<home, mappings, granted, tunnels, published, minute, swept, short, promised>>

UnmapPort(c) ==
  /\ call[c].kind = "release" /\ call[c].todo # <<>>
  /\ LET k == Head(call[c].todo)
         method == call[c].read[k].method
         e == call[c].env
     IN  /\ \E a \in CASE method \in {"NATPMP", "PCP"} -> NatpmpUnmap(home.router, e.gateway)
                       [] method = "UPNP" /\ e.upnp -> UpnpUnmap(home.router)
                       [] OTHER -> {Failed} : Hold(k, a.granted)
         /\ tunnels' = IF method = "RELAY" THEN tunnels \ {k} ELSE tunnels
  /\ call' = [call EXCEPT ![c].kind = "released"]
  /\ UNCHANGED <<home, env, useRelay, mappings, published, minute, made, swept, crossed, short, promised>>

SaveReleased(c) ==
  LET k == Head(call[c].todo) IN
  /\ call[c].kind = "released"
  /\ mappings' = [mappings EXCEPT ![k].active = FALSE, ![k].lease = 0]
  /\ promised' = promised \ {k}
  /\ call' = [call EXCEPT ![c] = GoOn(@, "release")]
  /\ UNCHANGED <<home, env, useRelay, granted, tunnels, published, minute, made, swept, crossed, short>>

(* The scheduler's sweep, every five minutes *)

Due(k) == mappings[k].active /\ mappings[k].lease # 0 /\ mappings[k].lease < minute + Soon

RenewExpiringMappings(c) ==
  LET due == InRows({k \in Keys : Due(k)}) IN
  /\ ~ swept /\ \A d \in Calls : call[d].kind \notin {"renew", "renewed"}
  /\ IF due = <<>> THEN swept' = TRUE /\ UNCHANGED <<env, call, crossed>>
     ELSE swept' = FALSE /\ Begin(c, [Rest EXCEPT !.kind = "renew", !.todo = due, !.read = mappings])
  /\ UNCHANGED <<home, useRelay, mappings, granted, tunnels, published, minute, made, short, promised>>

RenewPort(c) ==
  /\ call[c].kind = "renew" /\ call[c].todo # <<>>
  /\ LET k == Head(call[c].todo)
         method == call[c].read[k].method
         e == call[c].env
     IN  \E a \in CASE method = "NATPMP" -> LanMap("natpmp", e, Renewal)
                    [] method = "PCP" -> LanMap("pcp", e, Renewal)
                    [] method = "UPNP" -> LanMap("upnp", e, Renewal)
                    [] OTHER -> {Failed} :
           /\ Hold(k, a.granted)
           /\ short' = (short \/ a.granted # IF a.ok THEN Renewal ELSE Nothing)
           /\ call' = [call EXCEPT ![c].kind = "renewed", ![c].lease = IF a.ok THEN Renewal ELSE 0]
  /\ UNCHANGED <<home, env, useRelay, mappings, tunnels, published, minute, made, swept, crossed, promised>>

\* Mutated: a renewal that fails takes the expiry away, and the row out of the sweep.
AfterRenewalMut(row, read, renewed) ==
  [row EXCEPT !.active = renewed \/ read.lease > minute,
              !.lease = IF renewed THEN minute + Renewal ELSE 0]
\* A failed renewal keeps the row, with its expiry, until that has passed.
AfterRenewal(row, read, renewed) ==
  [row EXCEPT !.active = renewed \/ read.lease > minute,
              !.lease = IF renewed THEN minute + Renewal
                        ELSE IF read.lease > minute THEN read.lease ELSE 0]

SaveRenewed(c) ==
  LET k == Head(call[c].todo) IN
  /\ call[c].kind = "renewed"
  /\ mappings' = [mappings EXCEPT ![k] = AfterRenewal(@, call[c].read[k], call[c].lease = Renewal)]
  /\ call' = [call EXCEPT ![c] = GoOn(@, "renew")]
  /\ swept' = (Len(call[c].todo) = 1)
  /\ UNCHANGED <<home, env, useRelay, granted, tunnels, published, minute, made, crossed, short,
                 promised>>

(* Time, and the process *)

\* Five minutes pass, in which the sweep has run.
MinutesPass ==
  /\ minute < LastMinute /\ swept /\ Busy = {}
  /\ minute' = minute + 1 /\ swept' = FALSE
  /\ UNCHANGED <<home, env, useRelay, mappings, granted, tunnels, published, call, made, crossed,
                 short, promised>>

\* The process is started again: the rows stay, the tunnels and all it was doing go.
PanelRestarts ==
  /\ call' = [c \in Calls |-> Rest] /\ tunnels' = {} /\ env' = [value |-> NoEnvironment, at |-> -EnvLife]
  /\ crossed' = (crossed \/ Busy # {}) /\ swept' = FALSE
  /\ UNCHANGED <<home, useRelay, mappings, granted, published, minute, made, short, promised>>

ForwardingNext ==
  \/ \E c \in Calls :
       \/ ForwardServerPorts(c) \/ ForwardPort(c) \/ ConfirmStaticForwards(c) \/ SaveOutcome(c)
       \/ PublishAddress(c)
       \/ ReleaseServerPortMappings(c) \/ UnmapPort(c) \/ SaveReleased(c)
       \/ RenewExpiringMappings(c) \/ RenewPort(c) \/ SaveRenewed(c)
  \/ MinutesPass \/ PanelRestarts

ForwardingSpec == ForwardingInit /\ [][ForwardingNext]_forwardingVars

(* Properties *)

\* A sweep every five minutes keeps the rows true: once it is through, a row
\* that is active is one the router still maps, and a port that was opened, that
\* nobody released, and that the router still maps is active.
\* So for requests that did not overlap, and a router that grants what it was
\* asked for (renewExpiringMappings).
RowsAgree ==
  ~ crossed /\ ~ short /\ swept /\ Busy = {} =>
    \A k \in Keys :
      /\ mappings[k].active /\ mappings[k].method \in {"NATPMP", "PCP", "UPNP"} => granted[k] > minute
      /\ k \in promised /\ granted[k] > minute => mappings[k].active

\* Whoever asks for the relay, where there is one, never has the address of
\* this connection published (ForwardOutcome.publicHost).
RelayHides ==
  [][\A c \in Calls : call[c].preferred = "relay" /\ home.relay /\ call'[c] = Rest =>
       published'.address \in {published.address, "relay"}]_forwardingVars

\* A released port is closed at the router, once all requests to it have been
\* answered: "Removes every mapping for a server" (port-forwarder.ts).
ReleaseCloses ==
  [][\A c \in Calls : call[c].kind = "release" /\ call[c].env.gateway = home.router.at =>
       \A k \in Keys : granted'[k] <= granted[k]]_forwardingVars

\* The address and the port that players are told belong together: "recording
\* only the host would leave the panel [...] advertising a port nobody can
\* reach" (port-forwarder.ts).
AddressFits ==
  (published.port = "relay") => (published.address = "relay")
=============================================================================
