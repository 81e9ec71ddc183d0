-------------------------------- MODULE Nodes --------------------------------
(***************************************************************************)
(* The machine that game servers run on: the floor it has to meet          *)
(* (modules/host/host-requirements.ts), the node it is registered as       *)
(* (routes/nodes.ts) and the capacity handed out of it (server-service.ts, *)
(* getNodeCapacity to createServer, and updateResources).  Handlers run    *)
(* one awaited statement at a time.                                        *)
(***************************************************************************)
EXTENDS Integers, FiniteSets, FiniteSetsExt

CONSTANTS
  Machines,    \* what the host may turn out to be: [total, large, fast]
  Sizes,       \* what a server may ask for
  SpeedTestTtl,  \* HOST_REQUIREMENTS.speedTestTtlMs
  Requests,    \* handlers in flight
  MaxServers, MaxRequests, MaxHours  \* bounds on rows ever written, on requests and on the clock

ASSUME NodesAssumption ==
  /\ Machines \subseteq [total : Nat, large : BOOLEAN, fast : BOOLEAN]
  /\ Sizes \subseteq Nat \ {0}
  /\ {SpeedTestTtl, MaxServers, MaxRequests, MaxHours} \subseteq Nat

Never == -99

VARIABLES
  machine,    \* the host as it is
  hour,       \* the time
  settings,   \* the platform's row: [pass, checked, tested, fast]; fast: "yes", "no" or "unknown"
  nodeRow,    \* the node's row, of the one node looked at: [exists, id, status, pass, total]
  tenants,    \* set of server rows: [id, size, deleted]
  desk,       \* handler -> [kind, stage, ...]
  begun,      \* requests begun
  overlapped, shrunk  \* whether a request ran into another's check; whether the node got smaller (record
                      \* what happened)

nodesVars == <<machine, hour, settings, nodeRow, tenants, desk, begun, overlapped, shrunk>>

NoRequest == [kind |-> "none", stage |-> "none", test |-> FALSE, total |-> 0, large |-> FALSE,
              fast |-> "unknown", pass |-> FALSE, node |-> 0, tenant |-> 0, size |-> 0]

NodesInit ==
  /\ machine \in Machines /\ hour = 0
  /\ settings = [pass |-> FALSE, checked |-> Never, tested |-> Never, fast |-> "unknown"]
  /\ nodeRow = [exists |-> FALSE, id |-> 0, status |-> "ONLINE", pass |-> FALSE, total |-> 0]
  /\ tenants = {} /\ desk = [r \in Requests |-> NoRequest] /\ begun = 0
  /\ overlapped = FALSE /\ shrunk = FALSE

Stage(r, s) == desk[r].stage = s
Same(r) == nodeRow.exists /\ desk[r].node = nodeRow.id
Finish(r) == desk' = [desk EXCEPT ![r] = NoRequest]

(* The floor *)

Resolved(row) == row.tested # Never /\ hour - row.tested < SpeedTestTtl

\* What a check begins with: the host as it is, and the settings.  Unless a
\* test is asked for or the last one is old, the throughput is the one of the
\* report that was kept, which need not be the one of the last test.
Evaluating(kind, test) ==
  [NoRequest EXCEPT !.kind = kind, !.stage = IF test \/ ~ Resolved(settings) THEN "test" ELSE "judge",
                    !.total = machine.total, !.large = machine.large, !.fast = settings.fast]

\* A request that checks the host: registering it, checking it again, or the
\* scheduler, the wizard's last step and a server to be created when the last
\* verdict is old (assertHostRequirementsMet).
Evaluate(r) ==
  /\ desk[r] = NoRequest /\ begun < MaxRequests /\ begun' = begun + 1
  /\ \/ ~ nodeRow.exists /\ desk' = [desk EXCEPT ![r] = Evaluating("register", TRUE)]
     \/ nodeRow.exists /\ desk' = [desk EXCEPT ![r] = [Evaluating("recheck", TRUE) EXCEPT !.node = nodeRow.id]]
     \/ \E test \in BOOLEAN : desk' = [desk EXCEPT ![r] = Evaluating("refresh", test)]
     \/ \E size \in Sizes : desk' = [desk EXCEPT ![r] =
          [(IF settings.checked = Never \/ hour - settings.checked > SpeedTestTtl
            THEN Evaluating("create", FALSE)
            ELSE [NoRequest EXCEPT !.kind = "create", !.stage = "host", !.pass = settings.pass])
           EXCEPT !.size = size]]
  /\ UNCHANGED <<machine, hour, settings, nodeRow, tenants, overlapped, shrunk>>

\* A test that fails leaves the throughput unknown, and the time of the last one.
MeasureThroughput(r) ==
  /\ Stage(r, "test")
  /\ \E worked \in BOOLEAN :
       /\ settings' = IF worked THEN [settings EXCEPT !.tested = hour] ELSE settings
       /\ desk' = [desk EXCEPT ![r].stage = "judge",
                     ![r].fast = IF ~ worked THEN "unknown" ELSE IF machine.fast THEN "yes" ELSE "no"]
  /\ UNCHANGED <<machine, hour, nodeRow, tenants, begun, overlapped, shrunk>>

Passes(request) == request.large /\ request.fast = "yes"

\* refreshHostRequirements keeps the verdict and the report; the node's own
\* checks keep the verdict on the node.
KeepVerdict(r) ==
  /\ Stage(r, "judge") /\ desk[r].kind \in {"refresh", "create"}
  /\ settings' = [settings EXCEPT !.pass = Passes(desk[r]), !.checked = hour, !.fast = desk[r].fast]
  /\ IF desk[r].kind = "create"
     THEN desk' = [desk EXCEPT ![r].stage = "host", ![r].pass = Passes(desk[r])]
     ELSE Finish(r)
  /\ UNCHANGED <<machine, hour, nodeRow, tenants, begun, overlapped, shrunk>>

\* Mutated: whatever the check said, the node goes into service.
RegisteredMut(request) == TRUE
Registered(request) == Passes(request)

\* A host that passes is registered with what was detected on it, in service at once.
RegisterNode(r) ==
  /\ Stage(r, "judge") /\ desk[r].kind = "register"
  /\ nodeRow' = IF Registered(desk[r]) /\ ~ nodeRow.exists
                THEN [exists |-> TRUE, id |-> nodeRow.id + 1, status |-> "ONLINE", pass |-> Passes(desk[r]),
                      total |-> desk[r].total]
                ELSE nodeRow
  /\ Finish(r)
  /\ UNCHANGED <<machine, hour, settings, tenants, begun, overlapped, shrunk>>

\* Mutated: a node that fails stays as it was.
DegradedMut(status, pass) == status
Degraded(status, pass) == IF pass THEN status ELSE "DEGRADED"

RecheckNode(r) ==
  /\ Stage(r, "judge") /\ desk[r].kind = "recheck"
  /\ nodeRow' = IF Same(r)
                THEN [nodeRow EXCEPT !.pass = Passes(desk[r]), !.total = desk[r].total,
                                     !.status = Degraded(@, Passes(desk[r]))]
                ELSE nodeRow
  /\ shrunk' = (shrunk \/ (Same(r) /\ desk[r].total < nodeRow.total))
  /\ overlapped' = (overlapped \/ \E q \in Requests : Stage(q, "patch") \/ Stage(q, "insert") \/ Stage(q, "resize"))
  /\ Finish(r)
  /\ UNCHANGED <<machine, hour, settings, tenants, begun>>

(* The node *)

\* A node that fails is not put into service; it is read before it is written.
PatchNode(r) ==
  /\ desk[r] = NoRequest /\ begun < MaxRequests /\ begun' = begun + 1
  /\ nodeRow.exists
  /\ \E status \in {"ONLINE", "MAINTENANCE"} :
       /\ status = "ONLINE" => nodeRow.pass
       /\ desk' = [desk EXCEPT ![r] = [NoRequest EXCEPT !.kind = status, !.stage = "patch",
                                                        !.node = nodeRow.id]]
  /\ UNCHANGED <<machine, hour, settings, nodeRow, tenants, overlapped, shrunk>>

PatchWritten(r) ==
  /\ Stage(r, "patch")
  /\ nodeRow' = IF Same(r) THEN [nodeRow EXCEPT !.status = desk[r].kind] ELSE nodeRow
  /\ Finish(r)
  /\ UNCHANGED <<machine, hour, settings, tenants, begun, overlapped, shrunk>>

\* A node with servers is not deleted; one that had any cannot be: their rows
\* are kept, marked deleted, and refer to it.
DeleteNode ==
  /\ nodeRow.exists /\ tenants = {}
  /\ nodeRow' = [nodeRow EXCEPT !.exists = FALSE]
  /\ UNCHANGED <<machine, hour, settings, tenants, desk, begun, overlapped, shrunk>>

(* Capacity *)

Living == {t \in tenants : ~ t.deleted}
Allocated(rows) == FoldSet(LAMBDA t, sum : t.size + sum, 0, rows)

\* getNodeCapacity: never less than nothing, even when the node has got smaller.
Available == LET free == nodeRow.total - Allocated(Living) IN IF free > 0 THEN free ELSE 0

Taking(q) == Stage(q, "insert") \/ Stage(q, "resize")

\* The host's verdict, the node and what is free on it are read, and only then
\* are ports allocated and the row written.
\* Mutated: the free capacity is not asked for.
FitsMut(size, own) == TRUE
Fits(size, own) == size <= Available + own

AssertCapacity(r) ==
  /\ Stage(r, "host")
  /\ IF desk[r].pass /\ nodeRow.exists /\ nodeRow.status = "ONLINE" /\ nodeRow.pass /\ Fits(desk[r].size, 0)
     THEN /\ desk' = [desk EXCEPT ![r].stage = "insert", ![r].node = nodeRow.id]
          /\ overlapped' = (overlapped \/ \E q \in Requests \ {r} : Taking(q))
     ELSE Finish(r) /\ UNCHANGED overlapped
  /\ UNCHANGED <<machine, hour, settings, nodeRow, tenants, begun, shrunk>>

CreateTenant(r) ==
  /\ Stage(r, "insert") /\ Cardinality(tenants) < MaxServers
  /\ tenants' = IF Same(r)
                THEN tenants \cup {[id |-> Cardinality(tenants) + 1, size |-> desk[r].size, deleted |-> FALSE]}
                ELSE tenants
  /\ Finish(r)
  /\ UNCHANGED <<machine, hour, settings, nodeRow, begun, overlapped, shrunk>>

\* A server may have other resources when they fit with its own given back.
UpdateResources(r) ==
  /\ desk[r] = NoRequest /\ begun < MaxRequests /\ begun' = begun + 1
  /\ \E t \in Living, size \in Sizes :
       /\ Fits(size, t.size)
       /\ desk' = [desk EXCEPT ![r] = [NoRequest EXCEPT !.kind = "resize", !.stage = "resize",
                                                        !.tenant = t.id, !.size = size]]
  /\ overlapped' = (overlapped \/ \E q \in Requests : Taking(q))
  /\ UNCHANGED <<machine, hour, settings, nodeRow, tenants, shrunk>>

WriteResources(r) ==
  /\ Stage(r, "resize")
  /\ tenants' = {IF t.id = desk[r].tenant THEN [t EXCEPT !.size = desk[r].size] ELSE t : t \in tenants}
  /\ Finish(r)
  /\ UNCHANGED <<machine, hour, settings, nodeRow, begun, overlapped, shrunk>>

DeleteTenant ==
  /\ \E t \in Living : tenants' = (tenants \ {t}) \cup {[t EXCEPT !.deleted = TRUE]}
  /\ UNCHANGED <<machine, hour, settings, nodeRow, desk, begun, overlapped, shrunk>>

\* Memory is taken out, or the line gets slower, and time goes by.
HoursPass ==
  /\ hour < MaxHours /\ hour' = hour + 1 /\ machine' \in Machines
  /\ UNCHANGED <<settings, nodeRow, tenants, desk, begun, overlapped, shrunk>>

NodesNext ==
  \/ \E r \in Requests :
       \/ Evaluate(r) \/ MeasureThroughput(r) \/ KeepVerdict(r) \/ RegisterNode(r) \/ RecheckNode(r)
       \/ PatchNode(r) \/ PatchWritten(r) \/ AssertCapacity(r) \/ CreateTenant(r)
       \/ UpdateResources(r) \/ WriteResources(r)
  \/ DeleteNode \/ DeleteTenant \/ HoursPass

NodesSpec == NodesInit /\ [][NodesNext]_nodesVars

(* Properties *)

\* No node has more handed out than it has, and none that failed its last check
\* takes servers: so long as no two requests meet between the check of one and
\* its write, and no memory is taken out (assertCapacity, routes/nodes.ts).
NodesSound ==
  ~ overlapped =>
    /\ nodeRow.exists /\ ~ shrunk => Allocated(Living) <= nodeRow.total
    /\ nodeRow.exists /\ nodeRow.status = "ONLINE" => nodeRow.pass

\* "capacity can never be sold on hardware that does not meet the floor" (nodes.ts)
NeverOversold == nodeRow.exists /\ ~ shrunk => Allocated(Living) <= nodeRow.total
=============================================================================
