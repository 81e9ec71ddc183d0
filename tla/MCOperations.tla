---------------------------- MODULE MCOperations ----------------------------
(***************************************************************************)
(* The modules about running a server day by day, each on a small          *)
(* instance.  They share no state, so the run explores one of them at a    *)
(* time: part names it, and the others stay as they began.                 *)
(***************************************************************************)
EXTENDS Forwarding, RelayClient, Console, Mods, Files, Rcon, TLC

VARIABLE part

\* Whatever can be in flight; and what it is about.
CONSTANTS x1, x2, y1, y2

(* The networks the port forwarder is tried in: what answers where. *)

Host == [interfaces |-> {"private"}, lanAddress |-> None, routerAddress |-> FALSE, controlUrl |-> FALSE]
PublicHost == [Host EXCEPT !.interfaces = {"public", "private"}]
Container == [Host EXCEPT !.interfaces = {"docker"}, !.lanAddress = "private"]
Silent == [at |-> "interface", natpmp |-> FALSE, pcp |-> FALSE, upnp |-> FALSE, permanent |-> FALSE,
           external |-> "public"]
Home(host, router, static, relay, ports) ==
  [host |-> host, router |-> router, static |-> static, running |-> static, relay |-> relay, ports |-> ports]
MCHomes == {
  Home(Host, [Silent EXCEPT !.natpmp = TRUE], FALSE, TRUE, <<"game">>),
  Home(Host, [Silent EXCEPT !.pcp = TRUE], FALSE, FALSE, <<"game">>),
  Home(Host, [Silent EXCEPT !.upnp = TRUE, !.permanent = TRUE], FALSE, FALSE, <<"game">>),
  Home(Host, [Silent EXCEPT !.pcp = TRUE, !.external = "private"], FALSE, FALSE, <<"game">>),
  Home(Host, Silent, TRUE, FALSE, <<"game", "query">>),
  Home(Container, Silent, FALSE, FALSE, <<"game">>),
  Home(PublicHost, Silent, FALSE, TRUE, <<"game">>)}

\* "h" is "H" in small letters; "bad" is no identifier of either game.
MCUpper == [n |-> "n", h |-> "H", bad |-> "bad"]

Only(p) == part = p /\ UNCHANGED part

Keep1 == UNCHANGED forwardingVars
Keep2 == UNCHANGED relayClientVars
Keep3 == UNCHANGED consoleVars
Keep4 == UNCHANGED modsVars
Keep5 == UNCHANGED filesVars
Keep6 == UNCHANGED rconVars

\* One module's initial states at a time: the others begin in a chosen one.
MCInit ==
  /\ part \in {"forwarding", "relayClient", "console", "mods", "files", "rcon"}
  /\ ForwardingInit /\ (part # "forwarding" => home = CHOOSE h \in MCHomes : TRUE)
                    /\ (part # "forwarding" => ~ useRelay)
  /\ RelayClientInit /\ ConsoleInit
  /\ ModsInit /\ (part # "mods" => game = "arma3")
  /\ FilesInit /\ RconInit

MCNext ==
  \/ Only("forwarding") /\ ForwardingNext /\ Keep2 /\ Keep3 /\ Keep4 /\ Keep5 /\ Keep6
  \/ Only("relayClient") /\ RelayClientNext /\ Keep1 /\ Keep3 /\ Keep4 /\ Keep5 /\ Keep6
  \/ Only("console") /\ ConsoleNext /\ Keep1 /\ Keep2 /\ Keep4 /\ Keep5 /\ Keep6
  \/ Only("mods") /\ ModsNext /\ Keep1 /\ Keep2 /\ Keep3 /\ Keep5 /\ Keep6
  \/ Only("files") /\ FilesNext /\ Keep1 /\ Keep2 /\ Keep3 /\ Keep4 /\ Keep6
  \/ Only("rcon") /\ RconNext /\ Keep1 /\ Keep2 /\ Keep3 /\ Keep4 /\ Keep5

Symmetry == Permutations({x1, x2})
=============================================================================
