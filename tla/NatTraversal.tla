---------------------------- MODULE NatTraversal ----------------------------
(***************************************************************************)
(* What the panel finds out about its way to the Internet, and what the    *)
(* router answers (modules/network/nat-traversal.ts).  An address is only  *)
(* its kind: "docker" (a bridge pool), "private", "public".  Datagrams and *)
(* calls get lost, so every operator that asks the network is the SET of   *)
(* what it may return.                                                     *)
(*   host   [interfaces, lanAddress, routerAddress, controlUrl]            *)
(*   router [at, natpmp, pcp, upnp, permanent, external]: where it listens *)
(*          among the guesses, what it speaks, whether UPnP leases must be *)
(*          permanent, and the kind of its own external address            *)
(***************************************************************************)
EXTENDS Integers, Sequences, SequencesExt

CONSTANTS
  Renewal,   \* 3600 seconds
  Forever    \* the lease of a permanent mapping

ASSUME NatAssumption == Renewal \in Nat \ {0} /\ Forever \in Nat /\ Forever > Renewal

None == "none"

(* The machine *)

IsContainerNetwork(host) == host.interfaces = {"docker"}

\* The configured router, the network of LAN_ADDRESS, that of an interface, and the common ones.
GuessGateways(host) ==
  (IF host.routerAddress THEN <<"configured">> ELSE <<>>)
  \o (IF host.lanAddress # None THEN <<"lan">> ELSE <<>>)
  \o (IF "private" \in host.interfaces THEN <<"interface">> ELSE <<>>)
  \o <<"common">>

GetLocalAddress(host) ==
  IF host.lanAddress # None THEN host.lanAddress
  ELSE IF "private" \in host.interfaces THEN "private" ELSE None

HasDirectPublicAddress(host) ==
  IF host.lanAddress # None THEN host.lanAddress = "public" ELSE "public" \in host.interfaces

(* The router *)

\* One datagram each way, or a time-out.
UdpExchange(answer) == {answer, None}

NatpmpExternalAddress(router, gateway) ==
  UdpExchange(IF gateway = router.at /\ router.natpmp THEN router.external ELSE None)

\* An attempt to map one port: whether the panel is told so, the lease it is
\* told, and what becomes of the router's mapping: Nothing, deleted (0), or
\* granted for a while.  A lost answer leaves its grant behind.
Attempt(ok, told, granted) == [ok |-> ok, told |-> told, granted |-> granted]
Nothing == -1
Failed == Attempt(FALSE, 0, Nothing)

\* A lease of nought is never sent.
LeaseAsked(lease) == IF lease = 0 THEN Renewal ELSE lease

\* NAT-PMP and PCP: the router grants what was asked, or less, or refuses.
Granting(lease) ==
  {Attempt(ok, t, t) : ok \in BOOLEAN, t \in {1, LeaseAsked(lease)} \cap 0..LeaseAsked(lease)}
  \cup {Failed}

NatpmpMap(router, gateway, lease) ==
  IF gateway = router.at /\ router.natpmp THEN Granting(lease) ELSE {Failed}

NatpmpUnmap(router, gateway) == NatpmpMap(router, gateway, 0)

PcpMap(router, gateway, lease) ==
  IF gateway = router.at /\ router.pcp THEN Granting(lease) ELSE {Failed}

\* A SOAP call is answered, refused, or not answered at all.
SoapCall(router) == IF router.upnp THEN {"done", "refused", "unheard"} ELSE {"lost"}

\* Refused with 725, the call is repeated for a permanent mapping, and the lease is told as nought.
UpnpMap(router, lease) ==
  LET permanent == router.permanent \/ lease = 0
      granted == IF permanent THEN Forever ELSE lease
      told == IF permanent THEN 0 ELSE lease
  IN  {CASE answer = "done" -> Attempt(TRUE, told, granted)
         [] answer = "unheard" -> Attempt(FALSE, 0, granted)
         [] OTHER -> Failed : answer \in SoapCall(router)}

UpnpUnmap(router) ==
  {IF answer \in {"done", "unheard"} THEN Attempt(TRUE, 0, 0) ELSE Failed :
     answer \in SoapCall(router)}

UpnpExternalAddress(router) ==
  {IF answer = "done" THEN router.external ELSE None : answer \in SoapCall(router)}

(* The probe *)

\* discoverIgdLocations, fetchDeviceDescription and resolveControlUrl.
DiscoverOnNetwork(router) == IF router.upnp THEN BOOLEAN ELSE {FALSE}

DiscoverIgd(host, router) ==
  IF host.controlUrl THEN {TRUE}
  ELSE IF IsContainerNetwork(host) THEN {FALSE}
  ELSE DiscoverOnNetwork(router)

NoEnvironment ==
  [local |-> None, gateway |-> None, external |-> None, upnp |-> FALSE,
   cgnat |-> FALSE, direct |-> FALSE, problem |-> FALSE]
Blind(host) == [NoEnvironment EXCEPT !.local = GetLocalAddress(host)]

\* The first guess that answers NAT-PMP is the gateway; PCP is asked of it, or
\* of the first four guesses; then UPnP.
ProbeRouter(host, router) ==
  LET guesses == GuessGateways(host)
      local == GetLocalAddress(host)
      natpmp == UNION {NatpmpExternalAddress(router, guesses[i]) : i \in DOMAIN guesses}
      four == SubSeq(guesses, 1, IF Len(guesses) < 4 THEN Len(guesses) ELSE 4)
      pcp == local # None /\ router.pcp /\ router.at \in ToSet(four)
  IN  {LET gateway == IF a # None \/ (heard /\ pcp) THEN router.at ELSE None
           address == IF a # None THEN a
                      ELSE IF heard /\ pcp /\ c # None THEN c
                      ELSE IF device THEN b ELSE None
       IN  [Blind(host) EXCEPT !.gateway = gateway, !.external = address, !.upnp = device,
              !.cgnat = address = "private", !.problem = local = None] :
       a \in natpmp, heard \in BOOLEAN, c \in {router.external, None},
       device \in DiscoverIgd(host, router), b \in UpnpExternalAddress(router)}

ProbeNatEnvironment(host, router) ==
  IF HasDirectPublicAddress(host)
  THEN {[Blind(host) EXCEPT !.direct = TRUE,
           !.external = IF host.lanAddress # None THEN host.lanAddress ELSE GetLocalAddress(host)]}
  ELSE IF IsContainerNetwork(host) /\ (host.lanAddress = None \/ ~ host.routerAddress)
  THEN {[Blind(host) EXCEPT !.problem = TRUE]}
  ELSE ProbeRouter(host, router)
=============================================================================
