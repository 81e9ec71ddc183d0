--------------------------- MODULE ServerLifecycle ---------------------------
(***************************************************************************)
(* The life of one game server: the database row, its Docker container,    *)
(* the request handlers of server-service.ts, the reconcile loop of        *)
(* supervisor.ts and the automatic-restart timers it leaves behind.        *)
(*                                                                         *)
(* Nothing in the code serialises the handlers, the loop and the timers:   *)
(* each is a sequence of awaited calls, and every await is a place where   *)
(* another one may run.  An action below is the code between two awaits.   *)
(***************************************************************************)
EXTENDS Integers

CONSTANTS
  Procs,              \* slots for concurrent request handlers
  Ops,                \* the requests clients send in this instance
  AutoRestart,        \* server.autoRestart
  CrashRestartLimit,  \* server.crashRestartLimit, 0 for no limit
  Faults,             \* which of FaultKinds may happen
  MaxRequests, MaxFaults, MaxExits, \* bounds on what the environment does
  MaxCrashCount       \* bound on crashCount

PowerOps == {"start", "stop", "restart", "kill", "reinstall"}
AllOps == PowerOps \cup {"delete", "reallocate", "sync", "suspend"}
FaultKinds == {"docker", "bind", "api"}

ASSUME ConstantsAssumption ==
  /\ Ops \subseteq AllOps
  /\ AutoRestart \in BOOLEAN
  /\ CrashRestartLimit \in Nat
  /\ Faults \subseteq FaultKinds
  /\ {MaxRequests, MaxFaults, MaxExits, MaxCrashCount} \subseteq Nat

States == {"CREATING", "INSTALLING", "OFFLINE", "STARTING", "RUNNING",
           "STOPPING", "RESTARTING", "CRASHED", "REINSTALLING", "DELETING"}

\* exitedOom: the kernel killed a process of the game, the exit code is 0.
Exited == {"exitedOk", "exitedErr", "exitedOom"}
Containers == {"missing", "created", "running"} \cup Exited

VARIABLES
  row,      \* the Server row
  ctr,      \* what Docker would report of the container
  procs,    \* the request handlers in flight
  sup,      \* the reconcile loop's visit to this server
  timers,   \* how many automatic-restart timers are at each point
  history,  \* what the properties remember; the code has no such state
  budget    \* how much of its bounds the environment has used

vars == <<row, ctr, procs, sup, timers, history, budget>>

Pcs == {"idle", "accepted", "call", "settle", "started", "rebuilt",
        "reinstall", "clearStop", "clearRemove", "purge", "reinstallFailed",
        "movePorts", "provision", "mark", "build", "config", "installed",
        "installFailed", "inspect", "write"}

Idle == [op |-> "none", pc |-> "idle", seen |-> "none"]
NotVisiting == [pc |-> "idle", state |-> "none", crashCount |-> 0,
                suspended |-> FALSE]
NoTimers == [waiting |-> 0, checked |-> 0, marked |-> 0, failed |-> 0]

(***************************************************************************)
(* The rules of server-service.ts                                          *)
(***************************************************************************)

AllowedFrom ==
  [start     |-> {"OFFLINE", "CRASHED"},
   stop      |-> {"RUNNING", "STARTING", "RESTARTING", "CRASHED"},
   restart   |-> {"RUNNING", "CRASHED"},
   kill      |-> {"RUNNING", "STARTING", "STOPPING", "RESTARTING"},
   reinstall |-> {"OFFLINE", "CRASHED", "RUNNING"}]

\* What a handler checks of the row it has just loaded.
Permitted(op) ==
  /\ op \in PowerOps => /\ row.state \in AllowedFrom[op]
                        /\ row.suspended => op \in {"stop", "kill"}
  /\ op = "reallocate" => row.state = "OFFLINE"

\* The state a handler writes before it touches Docker.
Transitional ==
  [start |-> "STARTING", stop |-> "STOPPING", restart |-> "RESTARTING",
   reinstall |-> "REINSTALLING", delete |-> "DELETING"]

\* The state a handler writes once its call to Docker has returned.
SettledState == [stop |-> "OFFLINE", kill |-> "OFFLINE", restart |-> "STARTING"]

\* The states syncServerState leaves alone.
Protected == {"CREATING", "INSTALLING", "REINSTALLING", "DELETING"}

\* Mutated: a container that failed is reported in Docker's own word for it.
StateOfRaw(c) == CASE c = "missing"   -> "CREATING"
                   [] c = "running"   -> "RUNNING"
                   [] c = "exitedErr" -> "EXITED"
                   [] OTHER           -> "OFFLINE"

\* What syncServerState makes of the container.
StateOf(c) == CASE c = "missing"   -> "CREATING"
                [] c = "running"   -> "RUNNING"
                [] c = "exitedErr" -> "CRASHED"
                [] OTHER           -> "OFFLINE"

(***************************************************************************)
(* What a call of container-manager.ts may leave behind                    *)
(***************************************************************************)

\* A stopped game ends with the exit code it chooses; a killed one never with 0.
Stopped(c) == IF c = "running" THEN {"exitedOk", "exitedErr"} ELSE {c}
Killed(c) == IF c = "running" THEN {"exitedErr"} ELSE {c}
\* start and restart throw container_missing when there is nothing to start.
Started(c) == IF c = "missing" THEN {} ELSE {"running"}

CallOutcomes(op, c) ==
  CASE op = "stop" -> Stopped(c)
    [] op = "kill" -> Killed(c)
    [] op \in {"start", "restart"} -> Started(c)
    [] OTHER -> {c}

\* A call that throws may have had its effect, or the first half of it.
FailedOutcomes(op, c) ==
  {c} \cup (IF op \in {"stop", "restart"} THEN Stopped(c) ELSE {})

(***************************************************************************)
(* Steps of one handler                                                    *)
(***************************************************************************)

\* The environment spends one of its faults of this kind.
Fault(kind) == /\ kind \in Faults
               /\ budget.faults < MaxFaults
               /\ budget' = [budget EXCEPT !.faults = @ + 1]

At(p, pc) == procs[p].pc = pc
GoTo(p, pc) == procs' = [procs EXCEPT ![p].pc = pc]
Finish(p) == procs' = [procs EXCEPT ![p] = Idle]
SetState(state) == row' = [row EXCEPT !.state = state]

FirstPc(op) == CASE op = "sync" -> "inspect"
                 [] op = "reallocate" -> "movePorts"
                 [] OTHER -> "accepted"

\* loadServer and the checks: a handler is admitted, or throws and changes
\* nothing.  What follows is awaited, so the check is already in the past.
Accept(p, op) ==
  /\ At(p, "idle")
  /\ budget.requests < MaxRequests
  /\ ~row.deleted
  /\ Permitted(op)
  /\ procs' = [procs EXCEPT ![p] = [op |-> op, pc |-> FirstPc(op), seen |-> row.state]]
  /\ budget' = [budget EXCEPT !.requests = @ + 1]
  /\ UNCHANGED <<row, ctr, sup, timers, history>>

\* setState to the transitional state; kill has none.
MarkTransition(p) ==
  /\ At(p, "accepted")
  /\ procs[p].op \in DOMAIN Transitional
  /\ SetState(Transitional[procs[p].op])
  /\ GoTo(p, CASE procs[p].op = "reinstall" -> "reinstall"
               [] procs[p].op = "delete" -> "clearStop"
               [] OTHER -> "call")
  /\ history' = IF procs[p].op \in {"start", "restart", "reinstall"}
                  THEN [history EXCEPT !.stoppedByOwner = FALSE]
                  ELSE history
  /\ UNCHANGED <<ctr, sup, timers, budget>>

SkipMark(p) ==
  /\ At(p, "accepted")
  /\ procs[p].op = "kill"
  /\ GoTo(p, "call")
  /\ UNCHANGED <<row, ctr, sup, timers, history, budget>>

\* stopContainer, killContainer, restartContainer, startContainer.
CallDocker(p) ==
  /\ At(p, "call")
  /\ ctr' \in CallOutcomes(procs[p].op, ctr)
  /\ GoTo(p, IF procs[p].op = "start" THEN "started" ELSE "settle")
  /\ UNCHANGED <<row, sup, timers, history, budget>>

\* The call, or the writeConfig before it, throws and the request fails: the
\* transitional state stays in the row.
CallFails(p) ==
  /\ At(p, "call")
  /\ \/ /\ Fault("docker")
        /\ ctr' \in FailedOutcomes(procs[p].op, ctr)
     \/ /\ ctr = "missing"
        /\ procs[p].op \in {"start", "restart"}
        /\ UNCHANGED <<ctr, budget>>
  /\ Finish(p)
  /\ UNCHANGED <<row, sup, timers, history>>

\* startWithRebuildOnBindFailure: the address the ports were bound to is gone.
BindFails(p) ==
  /\ At(p, "call")
  /\ procs[p].op = "start"
  /\ ctr \notin {"missing", "running"}
  /\ Fault("bind")
  /\ GoTo(p, "provision")
  /\ UNCHANGED <<row, ctr, sup, timers, history>>

Settle(p) ==
  /\ At(p, "settle")
  /\ SetState(SettledState[procs[p].op])
  /\ Finish(p)
  /\ history' = [history EXCEPT !.stoppedByOwner = procs[p].op \in {"stop", "kill"}]
  /\ UNCHANGED <<ctr, sup, timers, budget>>

\* Mutated: compares the count from before this crash.
WillRestartOffByOne ==
  /\ AutoRestart
  /\ ~sup.suspended
  /\ CrashRestartLimit = 0 \/ sup.crashCount <= CrashRestartLimit + 1

\* Mutated: the last restart the limit allows is refused.
WillRestartTooFew ==
  /\ AutoRestart
  /\ ~sup.suspended
  /\ CrashRestartLimit = 0 \/ sup.crashCount < CrashRestartLimit

\* canRestart of handleCrash; sup.crashCount already counts this crash.
WillRestart ==
  /\ AutoRestart
  /\ ~sup.suspended
  /\ CrashRestartLimit = 0 \/ sup.crashCount <= CrashRestartLimit

\* Automatic restarts that are due: their timer is waiting or has passed its
\* check, or the crash is recorded and the timer about to be set.
Pending == timers.waiting + timers.checked
           + (IF sup.pc = "schedule" /\ WillRestart THEN 1 ELSE 0)

\* The end of a start that succeeded: crashCount back to 0.
ResetCrashCount(p) ==
  /\ procs[p].pc \in {"started", "rebuilt"}
  /\ row' = [row EXCEPT !.crashCount = 0]
  /\ Finish(p)
  /\ history' = [history EXCEPT !.autoRuns = 0, !.stale = Pending]
  /\ UNCHANGED <<ctr, sup, timers, budget>>

\* reinstallServer loads the row again, in the background.
ReinstallLoad(p) ==
  /\ At(p, "reinstall")
  /\ IF row.deleted THEN Finish(p) ELSE GoTo(p, "clearStop")
  /\ UNCHANGED <<row, ctr, sup, timers, history, budget>>

\* reinstallServer and deleteServer stop and remove the container, and swallow
\* what either call throws.
ClearStop(p) ==
  /\ At(p, "clearStop")
  /\ \/ ctr' \in Stopped(ctr) /\ UNCHANGED budget
     \/ Fault("docker") /\ UNCHANGED ctr
  /\ GoTo(p, "clearRemove")
  /\ UNCHANGED <<row, sup, timers, history>>

\* Mutated: the container is stopped and kept for the next one to replace.
ClearRemoveMut(p) ==
  /\ At(p, "clearRemove")
  /\ UNCHANGED <<ctr, budget>>
  /\ GoTo(p, IF procs[p].op = "delete" THEN "purge" ELSE "provision")
  /\ UNCHANGED <<row, sup, timers, history>>

ClearRemove(p) ==
  /\ At(p, "clearRemove")
  /\ \/ ctr' = "missing" /\ UNCHANGED <<history, budget>>
     \/ /\ Fault("docker")
        /\ history' = [history EXCEPT !.leftBehind = @ \/ procs[p].op = "delete"]
        /\ UNCHANGED ctr
  /\ GoTo(p, IF procs[p].op = "delete" THEN "purge" ELSE "provision")
  /\ UNCHANGED <<row, sup, timers>>

FinishDelete(p) ==
  /\ At(p, "purge")
  /\ row' = [row EXCEPT !.deleted = TRUE, !.state = "OFFLINE"]
  /\ Finish(p)
  /\ UNCHANGED <<ctr, sup, timers, history, budget>>

\* reallocateServerPorts: nothing moved, or there was no block to move to, or
\* the container has to be rebuilt on the new one.
MovePorts(p) ==
  /\ At(p, "movePorts")
  /\ Finish(p) \/ GoTo(p, "provision")
  /\ UNCHANGED <<row, ctr, sup, timers, history, budget>>

\* provisionServer.
ProvisionLoad(p) ==
  /\ At(p, "provision")
  /\ IF ~row.deleted THEN GoTo(p, "mark")
     ELSE IF procs[p].op = "reinstall" THEN GoTo(p, "reinstallFailed")
     ELSE Finish(p)
  /\ UNCHANGED <<row, ctr, sup, timers, history, budget>>

MarkInstalling(p) ==
  /\ At(p, "mark")
  /\ SetState("INSTALLING")
  /\ GoTo(p, "build")
  /\ UNCHANGED <<ctr, sup, timers, history, budget>>

\* ensureGameImage and createContainer, which force-removes a container of the
\* same name first and ignores what that throws.
BuildContainer(p) ==
  /\ At(p, "build")
  /\ \/ /\ ctr' = "created"
        /\ GoTo(p, "config")
        /\ history' = [history EXCEPT !.leftBehind =
                         @ \/ row.deleted \/ \E q \in Procs : At(q, "purge")]
        /\ UNCHANGED budget
     \/ /\ Fault("docker")
        /\ ctr' \in {ctr, "missing"}
        /\ GoTo(p, "installFailed")
        /\ UNCHANGED history
  /\ UNCHANGED <<row, sup, timers>>

WriteConfig(p) ==
  /\ At(p, "config")
  /\ \/ GoTo(p, "installed") /\ UNCHANGED budget
     \/ Fault("docker") /\ GoTo(p, "installFailed")
  /\ UNCHANGED <<row, ctr, sup, timers, history>>

MarkInstalled(p) ==
  /\ At(p, "installed")
  /\ SetState("OFFLINE")
  /\ IF procs[p].op = "start" THEN GoTo(p, "rebuilt") ELSE Finish(p)
  /\ UNCHANGED <<ctr, sup, timers, history, budget>>

\* Mutated: the failed installation is logged and rethrown, and that is all.
MarkInstallFailedMut(p) ==
  /\ At(p, "installFailed")
  /\ Finish(p)
  /\ UNCHANGED <<row, ctr, sup, timers, history, budget>>

\* provisionServer rethrows to its caller; reinstallServer has a catch of its own.
MarkInstallFailed(p) ==
  /\ At(p, "installFailed")
  /\ SetState("CRASHED")
  /\ IF procs[p].op = "reinstall" THEN GoTo(p, "reinstallFailed") ELSE Finish(p)
  /\ UNCHANGED <<ctr, sup, timers, history, budget>>

MarkReinstallFailed(p) ==
  /\ At(p, "reinstallFailed")
  /\ SetState("CRASHED")
  /\ Finish(p)
  /\ UNCHANGED <<ctr, sup, timers, history, budget>>

\* syncServerState: compares the container with the row it loaded before it
\* asked Docker, and writes later still.
SyncInspect(p) ==
  /\ At(p, "inspect")
  /\ \/ /\ IF procs[p].seen \in Protected \/ StateOf(ctr) = procs[p].seen
             THEN Finish(p)
             ELSE procs' = [procs EXCEPT ![p].pc = "write", ![p].seen = StateOf(ctr)]
        /\ UNCHANGED budget
     \/ Fault("docker") /\ Finish(p)
  /\ UNCHANGED <<row, ctr, sup, timers, history>>

SyncWrite(p) ==
  /\ At(p, "write")
  /\ SetState(procs[p].seen)
  /\ Finish(p)
  /\ UNCHANGED <<ctr, sup, timers, history, budget>>

Continue(p) ==
  \/ MarkTransition(p) \/ SkipMark(p) \/ CallDocker(p) \/ CallFails(p)
  \/ BindFails(p) \/ Settle(p) \/ ResetCrashCount(p)
  \/ ReinstallLoad(p) \/ ClearStop(p) \/ ClearRemove(p) \/ FinishDelete(p)
  \/ MovePorts(p) \/ ProvisionLoad(p) \/ MarkInstalling(p) \/ BuildContainer(p)
  \/ WriteConfig(p) \/ MarkInstalled(p) \/ MarkInstallFailed(p)
  \/ MarkReinstallFailed(p) \/ SyncInspect(p) \/ SyncWrite(p)

(***************************************************************************)
(* The reconcile loop of supervisor.ts                                     *)
(***************************************************************************)

\* The rows are read once for the whole loop; this server's turn comes later.
SupSnapshot ==
  /\ sup.pc = "idle"
  /\ ~row.deleted
  /\ row.state \notin {"DELETING", "CREATING"}
  /\ sup' = [pc |-> "visit", state |-> row.state, crashCount |-> row.crashCount,
             suspended |-> row.suspended]
  /\ UNCHANGED <<row, ctr, procs, timers, history, budget>>

\* Mutated: only a server last seen RUNNING is expected to be up.
ExpectedUpMut(state) == state = "RUNNING"

ExpectedUp(state) == state \in {"RUNNING", "STARTING"}

\* What the loop does about the container it finds; "idle" for nothing.
Verdict == CASE ctr = "running" -> IF sup.state = "RUNNING" THEN "idle" ELSE "markRunning"
             [] ctr # "running" /\ ~ExpectedUp(sup.state) -> "idle"
             [] ExpectedUp(sup.state) /\ ctr \in {"exitedErr", "exitedOom"} -> "crash"
             [] OTHER -> "markOffline"

SupInspect ==
  /\ sup.pc = "visit"
  /\ \/ /\ sup' = IF Verdict = "idle" THEN NotVisiting ELSE [sup EXCEPT !.pc = Verdict]
        /\ UNCHANGED budget
     \/ Fault("docker") /\ sup' = NotVisiting
  /\ UNCHANGED <<row, ctr, procs, timers, history>>

SupMark ==
  /\ sup.pc \in {"markRunning", "markOffline"}
  /\ SetState(IF sup.pc = "markRunning" THEN "RUNNING" ELSE "OFFLINE")
  /\ sup' = NotVisiting
  /\ UNCHANGED <<ctr, procs, timers, history, budget>>

\* handleCrash up to its first write: crashCount from the snapshot, plus one.
SupRecordCrash ==
  /\ sup.pc = "crash"
  /\ sup.crashCount < MaxCrashCount
  /\ row' = [row EXCEPT !.state = "CRASHED", !.crashCount = sup.crashCount + 1]
  /\ sup' = [sup EXCEPT !.pc = "schedule", !.crashCount = @ + 1]
  /\ UNCHANGED <<ctr, procs, timers, history, budget>>

\* The rest of handleCrash: the timer, or a notice that there will be none.
SupSchedule ==
  /\ sup.pc = "schedule"
  /\ timers' = IF WillRestart THEN [timers EXCEPT !.waiting = @ + 1] ELSE timers
  /\ sup' = NotVisiting
  /\ UNCHANGED <<row, ctr, procs, history, budget>>

Supervise == SupSnapshot \/ SupInspect \/ SupMark \/ SupRecordCrash \/ SupSchedule

(***************************************************************************)
(* The automatic-restart timers                                            *)
(***************************************************************************)

\* One timer moves from one point to the next; Drop ends it.
Advance(from, to) == timers' = [timers EXCEPT ![from] = @ - 1, ![to] = @ + 1]
Drop(from) == timers' = [timers EXCEPT ![from] = @ - 1]

\* The timer fires and re-reads the row.
TimerCheck ==
  /\ timers.waiting > 0
  /\ IF row.deleted \/ row.suspended \/ row.state # "CRASHED"
       THEN Drop("waiting")
       ELSE Advance("waiting", "checked")
  /\ UNCHANGED <<row, ctr, procs, sup, history, budget>>

TimerMark ==
  /\ timers.checked > 0
  /\ SetState("STARTING")
  /\ Advance("checked", "marked")
  /\ history' = [history EXCEPT !.autoRuns = @ + 1]
  /\ UNCHANGED <<ctr, procs, sup, budget>>

TimerStart ==
  /\ timers.marked > 0
  /\ \/ ctr' \in Started(ctr) /\ Drop("marked") /\ UNCHANGED budget
     \/ /\ \/ ctr = "missing" /\ UNCHANGED budget
           \/ Fault("docker")
        /\ Advance("marked", "failed")
        /\ UNCHANGED ctr
  /\ UNCHANGED <<row, procs, sup, history>>

TimerFail ==
  /\ timers.failed > 0
  /\ SetState("CRASHED")
  /\ Drop("failed")
  /\ UNCHANGED <<ctr, procs, sup, history, budget>>

RunTimers == TimerCheck \/ TimerMark \/ TimerStart \/ TimerFail

(***************************************************************************)
(* The environment                                                         *)
(***************************************************************************)

\* The game exits on its own.
ContainerExit ==
  /\ ctr = "running"
  /\ budget.exits < MaxExits
  /\ ctr' \in Exited
  /\ budget' = [budget EXCEPT !.exits = @ + 1]
  /\ UNCHANGED <<row, procs, sup, timers, history>>

\* accountBandwidth suspends a server over its quota, the monthly job lifts it.
\* Neither is a request, but each is counted as one.
ToggleSuspension ==
  /\ "suspend" \in Ops
  /\ budget.requests < MaxRequests
  /\ ~row.deleted
  /\ row' = [row EXCEPT !.suspended = ~@]
  /\ budget' = [budget EXCEPT !.requests = @ + 1]
  /\ UNCHANGED <<ctr, procs, sup, timers, history>>

\* The API process dies with everything it held in memory.  Docker completes
\* the calls it has already been sent.
ApiCrash ==
  /\ Fault("api")
  /\ ctr' \in {ctr} \cup UNION {CallOutcomes(procs[p].op, ctr) :
                                  p \in {q \in Procs : At(q, "call")}}
  /\ procs' = [p \in Procs |-> Idle]
  /\ sup' = NotVisiting
  /\ timers' = NoTimers
  /\ UNCHANGED <<row, history>>

\* createServer has inserted the row and provisions it in the background.
Init ==
  /\ row = [state |-> "CREATING", suspended |-> FALSE, crashCount |-> 0, deleted |-> FALSE]
  /\ ctr = "missing"
  /\ \E creator \in Procs :
       procs = [p \in Procs |-> IF p = creator
                                  THEN [op |-> "create", pc |-> "provision", seen |-> "none"]
                                  ELSE Idle]
  /\ sup = NotVisiting
  /\ timers = NoTimers
  /\ history = [autoRuns |-> 0, stale |-> 0, stoppedByOwner |-> FALSE,
               leftBehind |-> FALSE]
  /\ budget = [requests |-> 0, faults |-> 0, exits |-> 0]

Next ==
  \/ \E p \in Procs : \/ \E op \in Ops \ {"suspend"} : Accept(p, op)
                      \/ Continue(p)
  \/ Supervise
  \/ RunTimers
  \/ ContainerExit
  \/ ToggleSuspension
  \/ ApiCrash

Spec == Init /\ [][Next]_vars

\* The event loop resumes whatever is awaited, the interval keeps firing and a
\* timer that is due runs.  Nobody owes the system a request, a fault or an exit.
Fairness ==
  /\ \A p \in Procs : WF_vars(Continue(p))
  /\ WF_vars(Supervise)
  /\ WF_vars(RunTimers)

FairSpec == Spec /\ Fairness

(***************************************************************************)
(* Properties                                                              *)
(***************************************************************************)

\* Every part of the state keeps its shape; no counter of timers is overdrawn.
TypeOK ==
  /\ row \in [state : States, suspended : BOOLEAN, crashCount : Nat, deleted : BOOLEAN]
  /\ ctr \in Containers
  /\ procs \in [Procs -> [op : AllOps \cup {"none", "create"}, pc : Pcs,
                          seen : States \cup {"none"}]]
  /\ sup \in [pc : {"idle", "visit", "markRunning", "markOffline", "crash", "schedule"},
              state : States \cup {"none"}, crashCount : Nat, suspended : BOOLEAN]
  /\ timers \in [waiting : Nat, checked : Nat, marked : Nat, failed : Nat]
  /\ history \in [autoRuns : Nat, stale : Nat, stoppedByOwner : BOOLEAN,
                  leftBehind : BOOLEAN]
  /\ budget \in [requests : Nat, faults : Nat, exits : Nat]

\* The crash-loop limit works whatever the handlers, the loop, the timers and
\* restarts of the API do to each other: since the owner's last completed start,
\* the panel restarts a server at most crashRestartLimit times on its own, not
\* counting restarts that were already due when that start completed.
CrashLoopBounded ==
  CrashRestartLimit > 0 => history.autoRuns <= CrashRestartLimit + history.stale

\* deleteServer leaves no container behind, whatever start, restart or automatic
\* restart was under way: none of them can bring one back.  There are two ways to
\* keep one: the removal itself fails, which deleteServer swallows, or a
\* provisioning builds a new one after it.
DeletedHasNoContainer == row.deleted => ctr = "missing" \/ history.leftBehind

\* Once requests, faults and exits cease, the reconcile loop brings the row to
\* agree with the container: RUNNING exactly when it runs, and no longer STARTING.
ViewConverges ==
  <>[](\/ row.deleted
       \/ /\ row.state = "RUNNING" <=> ctr = "running"
          /\ row.state # "STARTING")

\* A crash that is within the limit is followed by an automatic restart, unless
\* somebody else moved the server out of CRASHED first (handleCrash, its timer).
CrashIsRestarted ==
  (/\ sup.pc = "schedule"
   /\ AutoRestart
   /\ row.state = "CRASHED" /\ sup.crashCount <= CrashRestartLimit)
  ~> row.state # "CRASHED"

\* provisionServer and reinstallServer always come out of their transitional
\* state, by success or by the catch that records CRASHED, as long as the API lives.
InstallSettles ==
  row.state \in {"INSTALLING", "REINSTALLING"}
    ~> row.state \notin {"INSTALLING", "REINSTALLING"}

(***************************************************************************)
(* What comments and documents say, and the code does not do               *)
(***************************************************************************)

\* supervisor.ts, the timer of handleCrash: "The owner may have intervened while
\* we were waiting." A timer does not pass its check after the owner's stop or
\* kill has completed.
OwnerStopRespected ==
  [][timers'.checked > timers.checked => ~history.stoppedByOwner]_vars

\* server-service.ts, startWithRebuildOnBindFailure: re-provisioning "is invisibly
\* correct rather than a dead server". A start that completes has started the
\* container: it is not one that was created and never run.
StartStarts ==
  [][\A p \in Procs : ResetCrashCount(p) => ctr # "created"]_vars

\* SECURITY.md: "the panel owns crash handling, so crashes are visible". A server
\* that was running and exited with an error has its crash counted.
CrashIsHandled ==
  (row.state = "RUNNING" /\ ctr = "exitedErr") ~> (ctr # "exitedErr" \/ row.crashCount > 0)
=============================================================================
