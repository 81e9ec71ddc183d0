------------------------ MODULE ServerLifecycleProofs ------------------------
(***************************************************************************)
(* What holds of ServerLifecycle for any number of handlers, requests,     *)
(* faults and exits, and any crash-restart limit.                          *)
(***************************************************************************)
EXTENDS ServerLifecycle, TLAPS

\* Which requests can be where in the code: the tables of transitional and settled
\* states are only consulted for requests they have an entry for.
StepsMatchOps ==
  \A p \in Procs :
    /\ At(p, "accepted") => procs[p].op \in PowerOps \cup {"delete"}
    /\ At(p, "call") => procs[p].op \in {"start", "stop", "restart", "kill"}
    /\ At(p, "settle") => procs[p].op \in {"stop", "kill", "restart"}
    /\ At(p, "write") => procs[p].seen \in States

Shape == TypeOK /\ StepsMatchOps

Handlers == [op : AllOps \cup {"none", "create"}, pc : Pcs, seen : States \cup {"none"}]

\* The entries of the tables of server-service.ts are states of a server.
LEMMA TableEntries ==
  /\ \A op \in DOMAIN Transitional : Transitional[op] \in States
  /\ DOMAIN Transitional = {"start", "stop", "restart", "reinstall", "delete"}
  /\ \A op \in {"stop", "kill", "restart"} : SettledState[op] \in States
  /\ \A c \in Containers : StateOf(c) \in States
  BY DEF Transitional, SettledState, States, StateOf, Containers, Exited

\* A call to Docker leaves a container in a state Docker can report.
LEMMA CallsKeepContainers ==
  ASSUME NEW c \in Containers, NEW op
  PROVE  /\ CallOutcomes(op, c) \subseteq Containers
         /\ FailedOutcomes(op, c) \subseteq Containers
         /\ Stopped(c) \subseteq Containers
         /\ Started(c) \subseteq Containers
  BY DEF CallOutcomes, FailedOutcomes, Stopped, Killed, Started, Containers, Exited

\* A handler that goes on to a step any request may take.
LEMMA Moving ==
  ASSUME Shape, NEW p \in Procs, NEW pc \in Pcs \ {"accepted", "call", "settle", "write"},
         GoTo(p, pc)
  PROVE  procs' \in [Procs -> Handlers] /\ StepsMatchOps'
  BY DEF Shape, TypeOK, StepsMatchOps, GoTo, Handlers, At

\* A handler that ends.
LEMMA Ending ==
  ASSUME Shape, NEW p \in Procs, Finish(p)
  PROVE  procs' \in [Procs -> Handlers] /\ StepsMatchOps'
  BY DEF Shape, TypeOK, StepsMatchOps, Finish, Handlers, At, Idle, Pcs

\* Handlers nobody touches.
LEMMA Resting ==
  ASSUME Shape, UNCHANGED procs
  PROVE  procs' \in [Procs -> Handlers] /\ StepsMatchOps'
  BY DEF Shape, TypeOK, StepsMatchOps, Handlers, At

\* setState.
LEMMA Writing ==
  ASSUME TypeOK, NEW state \in States, SetState(state)
  PROVE  row' \in [state : States, suspended : BOOLEAN, crashCount : Nat, deleted : BOOLEAN]
  BY DEF TypeOK, SetState

\* The environment's account of its faults stays an account.
LEMMA Faulting ==
  ASSUME TypeOK, NEW kind, Fault(kind)
  PROVE  budget' \in [requests : Nat, faults : Nat, exits : Nat]
  BY DEF TypeOK, Fault

\* The steps of a request handler.
LEMMA HandlersKeepShape ==
  ASSUME Shape, NEW p \in Procs, Continue(p)
  PROVE  Shape'
<1> USE DEF Shape
<1>0. TypeOK /\ StepsMatchOps
  OBVIOUS
<1>1. CASE MarkTransition(p)
  <2>1. row' \in [state : States, suspended : BOOLEAN, crashCount : Nat, deleted : BOOLEAN]
    BY <1>1, TableEntries, Writing DEF MarkTransition
  <2>2. procs' \in [Procs -> Handlers] /\ StepsMatchOps'
    BY <1>1, TableEntries DEF MarkTransition, TypeOK, StepsMatchOps, GoTo, Handlers, At, Pcs
  <2>3. history' \in [autoRuns : Nat, stale : Nat, stoppedByOwner : BOOLEAN,
                      leftBehind : BOOLEAN]
    BY <1>1 DEF MarkTransition, TypeOK
  <2> QED
    BY <1>1, <2>1, <2>2, <2>3 DEF MarkTransition, TypeOK, Handlers
<1>2. CASE SkipMark(p)
  <2>1. procs' \in [Procs -> Handlers] /\ StepsMatchOps'
    BY <1>2 DEF SkipMark, TypeOK, StepsMatchOps, GoTo, Handlers, At, Pcs
  <2> QED
    BY <1>2, <2>1 DEF SkipMark, TypeOK, Handlers
<1>3. CASE CallDocker(p)
  <2>1. procs' \in [Procs -> Handlers] /\ StepsMatchOps'
    BY <1>3 DEF CallDocker, TypeOK, StepsMatchOps, GoTo, Handlers, At, Pcs
  <2> QED
    BY <1>3, <2>1, CallsKeepContainers DEF CallDocker, TypeOK, Handlers
<1>4. CASE CallFails(p)
  <2>1. procs' \in [Procs -> Handlers] /\ StepsMatchOps'
    BY <1>4, Ending DEF CallFails
  <2>2. ctr' \in Containers /\ budget' \in [requests : Nat, faults : Nat, exits : Nat]
    BY <1>4, CallsKeepContainers, Faulting DEF CallFails, TypeOK
  <2> QED
    BY <1>4, <2>1, <2>2 DEF CallFails, TypeOK, Handlers
<1>5. CASE BindFails(p)
  <2>1. procs' \in [Procs -> Handlers] /\ StepsMatchOps'
    BY <1>5, Moving DEF BindFails, Pcs
  <2> QED
    BY <1>5, <2>1, Faulting DEF BindFails, TypeOK, Handlers
<1>6. CASE Settle(p)
  <2>1. row' \in [state : States, suspended : BOOLEAN, crashCount : Nat, deleted : BOOLEAN]
    BY <1>6, TableEntries, Writing DEF Settle, StepsMatchOps
  <2>2. procs' \in [Procs -> Handlers] /\ StepsMatchOps'
    BY <1>6, Ending DEF Settle
  <2>3. history' \in [autoRuns : Nat, stale : Nat, stoppedByOwner : BOOLEAN,
                      leftBehind : BOOLEAN]
    <3> DEFINE byOwner == procs[p].op \in {"stop", "kill"}
    <3>1. byOwner \in BOOLEAN
      OBVIOUS
    <3>2. history' = [history EXCEPT !.stoppedByOwner = byOwner]
      BY <1>6 DEF Settle
    <3> HIDE DEF byOwner
    <3> QED
      BY <3>1, <3>2 DEF TypeOK
  <2> QED
    BY <1>6, <2>1, <2>2, <2>3 DEF Settle, TypeOK, Handlers
<1>7. CASE ResetCrashCount(p)
  <2>1. procs' \in [Procs -> Handlers] /\ StepsMatchOps'
    BY <1>7, Ending DEF ResetCrashCount
  <2>2. Pending \in Nat
    BY DEF Pending, TypeOK
  <2> QED
    BY <1>7, <2>1, <2>2 DEF ResetCrashCount, TypeOK, Handlers
<1>8. CASE ReinstallLoad(p) \/ MovePorts(p) \/ ProvisionLoad(p)
  <2>1. procs' \in [Procs -> Handlers] /\ StepsMatchOps'
    BY <1>8, Moving, Ending DEF ReinstallLoad, MovePorts, ProvisionLoad, Pcs
  <2> QED
    BY <1>8, <2>1 DEF ReinstallLoad, MovePorts, ProvisionLoad, TypeOK, Handlers
<1>9. CASE ClearStop(p) \/ ClearRemove(p)
  <2>1. procs' \in [Procs -> Handlers] /\ StepsMatchOps'
    BY <1>9, Moving DEF ClearStop, ClearRemove, Pcs
  <2>2. ctr' \in Containers
    BY <1>9, CallsKeepContainers DEF ClearStop, ClearRemove, TypeOK, Containers
  <2>3. budget' \in [requests : Nat, faults : Nat, exits : Nat]
    BY <1>9, Faulting DEF ClearStop, ClearRemove, TypeOK
  <2>4. history' \in [autoRuns : Nat, stale : Nat, stoppedByOwner : BOOLEAN,
                      leftBehind : BOOLEAN]
    <3> DEFINE r == procs[p].op = "delete"
    <3>1. (history.leftBehind \/ r) \in BOOLEAN
      OBVIOUS
    <3>2. history' = history \/ history' = [history EXCEPT !.leftBehind = @ \/ r]
      BY <1>9 DEF ClearStop, ClearRemove
    <3> HIDE DEF r
    <3> QED
      BY <3>1, <3>2 DEF TypeOK
  <2> QED
    BY <1>9, <2>1, <2>2, <2>3, <2>4 DEF ClearStop, ClearRemove, TypeOK, Handlers
<1>10. CASE FinishDelete(p)
  <2>1. procs' \in [Procs -> Handlers] /\ StepsMatchOps'
    BY <1>10, Ending DEF FinishDelete
  <2> QED
    BY <1>10, <2>1 DEF FinishDelete, TypeOK, Handlers, States
<1>11. CASE MarkInstalling(p) \/ MarkInstalled(p) \/ MarkInstallFailed(p) \/ MarkReinstallFailed(p)
  <2>1. procs' \in [Procs -> Handlers] /\ StepsMatchOps'
    BY <1>11, Moving, Ending
    DEF MarkInstalling, MarkInstalled, MarkInstallFailed, MarkReinstallFailed, Pcs
  <2>2. row' \in [state : States, suspended : BOOLEAN, crashCount : Nat, deleted : BOOLEAN]
    <3>1. {"INSTALLING", "OFFLINE", "CRASHED"} \subseteq States
      BY DEF States
    <3> QED
      BY <1>11, <3>1, Writing
      DEF MarkInstalling, MarkInstalled, MarkInstallFailed, MarkReinstallFailed
  <2> QED
    BY <1>11, <2>1, <2>2
    DEF MarkInstalling, MarkInstalled, MarkInstallFailed, MarkReinstallFailed, TypeOK, Handlers
<1>12. CASE BuildContainer(p)
  <2>1. procs' \in [Procs -> Handlers] /\ StepsMatchOps'
    BY <1>12, Moving DEF BuildContainer, Pcs
  <2>2. ctr' \in Containers
    BY <1>12 DEF BuildContainer, TypeOK, Containers
  <2>3. budget' \in [requests : Nat, faults : Nat, exits : Nat]
    BY <1>12, Faulting DEF BuildContainer, TypeOK
  <2>4. history' \in [autoRuns : Nat, stale : Nat, stoppedByOwner : BOOLEAN,
                      leftBehind : BOOLEAN]
    <3> DEFINE r == row.deleted \/ \E q \in Procs : At(q, "purge")
    <3>1. (history.leftBehind \/ r) \in BOOLEAN
      OBVIOUS
    <3> HIDE DEF r
    <3>2. history' = history \/ history' = [history EXCEPT !.leftBehind = @ \/ r]
      BY <1>12 DEF BuildContainer, r
    <3> QED
      BY <3>1, <3>2 DEF TypeOK
  <2> QED
    BY <1>12, <2>1, <2>2, <2>3, <2>4 DEF BuildContainer, TypeOK, Handlers
<1>13. CASE WriteConfig(p)
  <2>1. procs' \in [Procs -> Handlers] /\ StepsMatchOps'
    BY <1>13, Moving DEF WriteConfig, Pcs
  <2>2. budget' \in [requests : Nat, faults : Nat, exits : Nat]
    BY <1>13, Faulting DEF WriteConfig, TypeOK
  <2> QED
    BY <1>13, <2>1, <2>2 DEF WriteConfig, TypeOK, Handlers
<1>14. CASE SyncInspect(p)
  <2>1. procs' \in [Procs -> Handlers] /\ StepsMatchOps'
    <3>1. CASE Finish(p)
      BY <3>1, Ending
    <3>2. CASE procs' = [procs EXCEPT ![p].pc = "write", ![p].seen = StateOf(ctr)]
      <4>1. StateOf(ctr) \in States
        BY TableEntries DEF TypeOK
      <4> DEFINE g == [procs[p] EXCEPT !.pc = "write"]
                 h == [procs[p] EXCEPT !.pc = "write", !.seen = StateOf(ctr)]
      <4>2. g \in Handlers /\ g.pc = "write"
        BY DEF TypeOK, Handlers, Pcs
      <4>3. h = [g EXCEPT !.seen = StateOf(ctr)]
        OBVIOUS
      <4>4. procs' = [procs EXCEPT ![p] = h]
        BY <3>2
      <4> HIDE DEF g, h
      <4>5. h \in Handlers /\ h.pc = "write" /\ h.seen \in States
        BY <4>1, <4>2, <4>3 DEF Handlers
      <4> QED
        BY <4>4, <4>5 DEF TypeOK, StepsMatchOps, Handlers, At
    <3> QED
      BY <1>14, <3>1, <3>2 DEF SyncInspect
  <2>2. budget' \in [requests : Nat, faults : Nat, exits : Nat]
    BY <1>14, Faulting DEF SyncInspect, TypeOK
  <2> QED
    BY <1>14, <2>1, <2>2 DEF SyncInspect, TypeOK, Handlers
<1>15. CASE SyncWrite(p)
  <2>1. procs' \in [Procs -> Handlers] /\ StepsMatchOps'
    BY <1>15, Ending DEF SyncWrite
  <2>2. row' \in [state : States, suspended : BOOLEAN, crashCount : Nat, deleted : BOOLEAN]
    BY <1>15, Writing DEF SyncWrite, StepsMatchOps
  <2> QED
    BY <1>15, <2>1, <2>2 DEF SyncWrite, TypeOK, Handlers
<1> QED
  BY <1>1, <1>2, <1>3, <1>4, <1>5, <1>6, <1>7, <1>8, <1>9, <1>10, <1>11, <1>12, <1>13,
     <1>14, <1>15 DEF Continue

\* A request is admitted.
LEMMA AcceptKeepsShape ==
  ASSUME Shape, NEW p \in Procs, NEW op \in Ops \ {"suspend"}, Accept(p, op)
  PROVE  Shape'
<1> USE DEF Shape
<1> DEFINE h == [op |-> op, pc |-> FirstPc(op), seen |-> row.state]
<1>1. /\ h \in Handlers
      /\ h.pc \in {"accepted", "inspect", "movePorts"}
      /\ h.pc = "accepted" => h.op \in PowerOps \cup {"delete"}
  BY ConstantsAssumption
  DEF FirstPc, Handlers, AllOps, PowerOps, Pcs, TypeOK
<1>2. procs' = [procs EXCEPT ![p] = h]
  BY DEF Accept
<1> HIDE DEF h
<1>3. procs' \in [Procs -> Handlers] /\ StepsMatchOps'
  BY <1>1, <1>2 DEF TypeOK, StepsMatchOps, Handlers, At
<1> QED
  BY <1>3 DEF Accept, TypeOK, Handlers

\* The reconcile loop.
LEMMA SupervisorKeepsShape ==
  ASSUME Shape, Supervise
  PROVE  Shape'
<1> USE DEF Shape
<1> DEFINE Visits == [pc : {"idle", "visit", "markRunning", "markOffline", "crash", "schedule"},
                      state : States \cup {"none"}, crashCount : Nat, suspended : BOOLEAN]
<1>0. procs' \in [Procs -> Handlers] /\ StepsMatchOps'
  BY Resting DEF Supervise, SupSnapshot, SupInspect, SupMark, SupRecordCrash, SupSchedule
<1>1. NotVisiting \in Visits
  BY DEF NotVisiting
<1>2. CASE SupSnapshot
  BY <1>0, <1>2 DEF SupSnapshot, TypeOK, Handlers
<1>3. CASE SupInspect
  <2>1. sup' \in Visits
    <3>1. Verdict \in {"idle", "markRunning", "markOffline", "crash"}
      BY DEF Verdict
    <3> QED
      BY <1>1, <1>3, <3>1 DEF SupInspect, TypeOK
  <2>2. budget' \in [requests : Nat, faults : Nat, exits : Nat]
    BY <1>3, Faulting DEF SupInspect, TypeOK
  <2> QED
    BY <1>0, <1>3, <2>1, <2>2 DEF SupInspect, TypeOK, Handlers
<1>4. CASE SupMark
  <2>1. row' \in [state : States, suspended : BOOLEAN, crashCount : Nat, deleted : BOOLEAN]
    BY <1>4 DEF SupMark, SetState, States, TypeOK
  <2> QED
    BY <1>0, <1>1, <1>4, <2>1 DEF SupMark, TypeOK, Handlers
<1>5. CASE SupRecordCrash
  <2>1. row' \in [state : States, suspended : BOOLEAN, crashCount : Nat, deleted : BOOLEAN]
    <3> DEFINE r == [row EXCEPT !.state = "CRASHED"]
    <3>1. r \in [state : States, suspended : BOOLEAN, crashCount : Nat, deleted : BOOLEAN]
      BY DEF TypeOK, States
    <3>2. row' = [r EXCEPT !.crashCount = sup.crashCount + 1] /\ sup.crashCount + 1 \in Nat
      BY <1>5 DEF SupRecordCrash, TypeOK
    <3> HIDE DEF r
    <3> QED
      BY <3>1, <3>2
  <2>2. sup' \in Visits
    <3> DEFINE v == [sup EXCEPT !.pc = "schedule"]
    <3>1. v \in Visits /\ v.crashCount = sup.crashCount /\ v.crashCount \in Nat
      BY DEF TypeOK
    <3>2. sup' = [v EXCEPT !.crashCount = sup.crashCount + 1]
      BY <1>5 DEF SupRecordCrash
    <3> HIDE DEF v
    <3> QED
      BY <3>1, <3>2
  <2> QED
    BY <1>0, <1>5, <2>1, <2>2 DEF SupRecordCrash, TypeOK, Handlers
<1>6. CASE SupSchedule
  <2>1. timers' \in [waiting : Nat, checked : Nat, marked : Nat, failed : Nat]
    BY <1>6 DEF SupSchedule, TypeOK
  <2> QED
    BY <1>0, <1>1, <1>6, <2>1 DEF SupSchedule, TypeOK, Handlers
<1> QED
  BY <1>2, <1>3, <1>4, <1>5, <1>6 DEF Supervise

\* The automatic-restart timers: none is taken from a place where there is none.
LEMMA TimersKeepShape ==
  ASSUME Shape, RunTimers
  PROVE  Shape'
<1> USE DEF Shape
<1> DEFINE Rows == [state : States, suspended : BOOLEAN, crashCount : Nat, deleted : BOOLEAN]
<1> DEFINE Counters == [waiting : Nat, checked : Nat, marked : Nat, failed : Nat]
<1>0. procs' \in [Procs -> Handlers] /\ StepsMatchOps'
  BY Resting DEF RunTimers, TimerCheck, TimerMark, TimerStart, TimerFail
<1>1. CASE TimerCheck
  <2>1. timers' \in Counters
    BY <1>1 DEF TimerCheck, Advance, Drop, TypeOK
  <2> QED
    BY <1>0, <1>1, <2>1 DEF TimerCheck, TypeOK, Handlers
<1>2. CASE TimerMark
  <2>1. timers' \in Counters
    BY <1>2 DEF TimerMark, Advance, TypeOK
  <2>2. row' \in Rows
    BY <1>2 DEF TimerMark, SetState, States, TypeOK
  <2>3. history' \in [autoRuns : Nat, stale : Nat, stoppedByOwner : BOOLEAN,
                      leftBehind : BOOLEAN]
    BY <1>2 DEF TimerMark, TypeOK
  <2> QED
    BY <1>0, <1>2, <2>1, <2>2, <2>3 DEF TimerMark, TypeOK, Handlers
<1>3. CASE TimerStart
  <2>1. timers' \in Counters
    BY <1>3 DEF TimerStart, Advance, Drop, TypeOK
  <2>2. ctr' \in Containers /\ budget' \in [requests : Nat, faults : Nat, exits : Nat]
    BY <1>3, CallsKeepContainers, Faulting DEF TimerStart, TypeOK
  <2> QED
    BY <1>0, <1>3, <2>1, <2>2 DEF TimerStart, TypeOK, Handlers
<1>4. CASE TimerFail
  <2>1. timers' \in Counters
    BY <1>4 DEF TimerFail, Drop, TypeOK
  <2>2. row' \in Rows
    BY <1>4 DEF TimerFail, SetState, States, TypeOK
  <2> QED
    BY <1>0, <1>4, <2>1, <2>2 DEF TimerFail, TypeOK, Handlers
<1> QED
  BY <1>1, <1>2, <1>3, <1>4 DEF RunTimers

\* A game that exits, a suspension, a crash of the API.
LEMMA EnvironmentKeepsShape ==
  ASSUME Shape, ContainerExit \/ ToggleSuspension \/ ApiCrash
  PROVE  Shape'
<1> USE DEF Shape
<1>1. CASE ContainerExit
  <2>1. procs' \in [Procs -> Handlers] /\ StepsMatchOps'
    BY <1>1, Resting DEF ContainerExit
  <2> QED
    BY <1>1, <2>1 DEF ContainerExit, TypeOK, Handlers, Containers
<1>2. CASE ToggleSuspension
  <2>1. procs' \in [Procs -> Handlers] /\ StepsMatchOps'
    BY <1>2, Resting DEF ToggleSuspension
  <2>2. row' \in [state : States, suspended : BOOLEAN, crashCount : Nat, deleted : BOOLEAN]
    <3> DEFINE b == ~row.suspended
    <3>1. b \in BOOLEAN
      OBVIOUS
    <3>2. row' = [row EXCEPT !.suspended = b]
      BY <1>2 DEF ToggleSuspension
    <3> HIDE DEF b
    <3> QED
      BY <3>1, <3>2 DEF TypeOK
  <2> QED
    BY <1>2, <2>1, <2>2 DEF ToggleSuspension, TypeOK, Handlers
<1>3. CASE ApiCrash
  <2>1. procs' \in [Procs -> Handlers] /\ StepsMatchOps'
    BY <1>3 DEF ApiCrash, StepsMatchOps, Handlers, At, Idle, Pcs
  <2>2. ctr' \in Containers
    BY <1>3, CallsKeepContainers DEF ApiCrash, TypeOK
  <2>3. /\ NotVisiting \in [pc : {"idle", "visit", "markRunning", "markOffline", "crash", "schedule"},
                            state : States \cup {"none"}, crashCount : Nat, suspended : BOOLEAN]
        /\ NoTimers \in [waiting : Nat, checked : Nat, marked : Nat, failed : Nat]
    BY DEF NotVisiting, NoTimers
  <2> QED
    BY <1>3, <2>1, <2>2, <2>3, Faulting DEF ApiCrash, TypeOK, Handlers
<1> QED
  BY <1>1, <1>2, <1>3

\* Every step of the handlers, the loop, the timers and the environment keeps the
\* shape of the state; no counter of timers is overdrawn.
THEOREM ShapeCorrect == Spec => []Shape
<1>1. Init => Shape
  <2> SUFFICES ASSUME Init PROVE Shape
    OBVIOUS
  <2>1. PICK creator \in Procs :
          procs = [p \in Procs |-> IF p = creator
                                     THEN [op |-> "create", pc |-> "provision", seen |-> "none"]
                                     ELSE Idle]
    BY DEF Init
  <2>2. procs \in [Procs -> Handlers] /\ StepsMatchOps
    BY <2>1 DEF Handlers, Pcs, Idle, StepsMatchOps, At
  <2> QED
    BY <2>2 DEF Init, Shape, TypeOK, Handlers, States, Containers, NotVisiting, NoTimers
<1>2. Shape /\ [Next]_vars => Shape'
  <2> SUFFICES ASSUME Shape, [Next]_vars PROVE Shape'
    OBVIOUS
  <2>1. CASE UNCHANGED vars
    BY <2>1 DEF vars, Shape, TypeOK, StepsMatchOps, At
  <2> QED
    BY <2>1, AcceptKeepsShape, HandlersKeepShape, SupervisorKeepsShape, TimersKeepShape,
       EnvironmentKeepsShape DEF Next
<1> QED
  BY <1>1, <1>2, PTL DEF Spec

THEOREM TypeCorrect == Spec => []TypeOK
<1>1. Shape => TypeOK
  BY DEF Shape
<1> QED
  BY <1>1, ShapeCorrect, PTL

(***************************************************************************)
(* The crash-loop limit                                                    *)
(***************************************************************************)

\* While the loop visits the server, the crash count it has read is not behind the
\* row's: nobody but the loop raises it.
SnapshotCurrent ==
  sup.pc \in {"visit", "markRunning", "markOffline", "crash"} => sup.crashCount >= row.crashCount

\* How many automatic restarts the recorded crashes entitle the server to.
Ration == IF row.crashCount <= CrashRestartLimit THEN row.crashCount ELSE CrashRestartLimit

\* Restarts made and restarts due are covered by recorded crashes.
Accounted ==
  CrashRestartLimit > 0 => history.autoRuns + Pending <= Ration + history.stale

Ledger == SnapshotCurrent /\ Accounted

\* A step that leaves the crash counts, the timers that are due and their history
\* alone cannot upset the ledger.
LEMMA LedgerUntouched ==
  ASSUME TypeOK, Ledger,
         row'.crashCount = row.crashCount,
         UNCHANGED sup,
         timers'.waiting = timers.waiting, timers'.checked = timers.checked,
         history'.autoRuns = history.autoRuns, history'.stale = history.stale
  PROVE  Ledger'
  BY DEF Ledger, SnapshotCurrent, Accounted, Ration, Pending, WillRestart

\* Handlers: only the end of a start that succeeded touches the ledger, and opens
\* a new one in which what is already due is set aside.
LEMMA HandlersKeepLedger ==
  ASSUME TypeOK, Ledger, NEW p \in Procs, Continue(p)
  PROVE  Ledger'
<1>1. CASE ResetCrashCount(p)
  <2>1. /\ row'.crashCount = 0
        /\ history'.autoRuns = 0 /\ history'.stale = Pending
        /\ UNCHANGED <<sup, timers>>
    BY <1>1 DEF ResetCrashCount, TypeOK
  <2>2. Pending' = Pending /\ Pending \in Nat
    BY <2>1 DEF Pending, WillRestart, TypeOK
  <2> QED
    BY <2>1, <2>2, ConstantsAssumption
    DEF Ledger, SnapshotCurrent, Accounted, Ration, TypeOK
<1>2. CASE ~ResetCrashCount(p)
  <2>1. row'.crashCount = row.crashCount
    BY <1>2 DEF Continue, MarkTransition, SkipMark, CallDocker, CallFails, BindFails, Settle,
       ReinstallLoad, ClearStop, ClearRemove, FinishDelete, MovePorts, ProvisionLoad,
       MarkInstalling, BuildContainer, WriteConfig, MarkInstalled, MarkInstallFailed,
       MarkReinstallFailed, SyncInspect, SyncWrite, SetState, TypeOK
  <2>2. UNCHANGED <<sup, timers>>
    BY <1>2 DEF Continue, MarkTransition, SkipMark, CallDocker, CallFails, BindFails, Settle,
       ReinstallLoad, ClearStop, ClearRemove, FinishDelete, MovePorts, ProvisionLoad,
       MarkInstalling, BuildContainer, WriteConfig, MarkInstalled, MarkInstallFailed,
       MarkReinstallFailed, SyncInspect, SyncWrite
  <2>3. history'.autoRuns = history.autoRuns /\ history'.stale = history.stale
    BY <1>2 DEF Continue, MarkTransition, SkipMark, CallDocker, CallFails, BindFails, Settle,
       ReinstallLoad, ClearStop, ClearRemove, FinishDelete, MovePorts, ProvisionLoad,
       MarkInstalling, BuildContainer, WriteConfig, MarkInstalled, MarkInstallFailed,
       MarkReinstallFailed, SyncInspect, SyncWrite, TypeOK
  <2> QED
    BY <2>1, <2>2, <2>3, LedgerUntouched
<1> QED
  BY <1>1, <1>2

\* The loop: a crash it records pays for the restart it is about to schedule.
LEMMA SupervisorKeepsLedger ==
  ASSUME TypeOK, Ledger, Supervise
  PROVE  Ledger'
<1> USE ConstantsAssumption
<1>1. CASE SupSnapshot
  BY <1>1 DEF SupSnapshot, TypeOK, Ledger, SnapshotCurrent, Accounted, Ration, Pending
<1>2. CASE SupInspect
  <2>1. /\ sup.pc = "visit"
        /\ \/ sup' = NotVisiting
           \/ sup' = [sup EXCEPT !.pc = Verdict] /\ Verdict # "schedule"
        /\ UNCHANGED <<row, timers, history>>
    BY <1>2 DEF SupInspect, Verdict
  <2> QED
    BY <2>1 DEF NotVisiting, TypeOK, Ledger, SnapshotCurrent, Accounted, Ration, Pending
<1>3. CASE SupMark
  BY <1>3 DEF SupMark, SetState, NotVisiting, TypeOK, Ledger, SnapshotCurrent, Accounted,
     Ration, Pending
<1>4. CASE SupRecordCrash
  <2>1. /\ sup.pc = "crash" /\ sup'.pc = "schedule"
        /\ sup'.crashCount = sup.crashCount + 1
        /\ row'.crashCount = sup.crashCount + 1
        /\ sup.crashCount >= row.crashCount
        /\ UNCHANGED <<timers, history>>
    BY <1>4 DEF SupRecordCrash, TypeOK, Ledger, SnapshotCurrent
  <2>2. Pending = timers.waiting + timers.checked
    BY <2>1 DEF Pending, TypeOK
  <2>3. Pending' = Pending \/ (Pending' = Pending + 1 /\ WillRestart')
    BY <2>1, <2>2 DEF Pending, TypeOK
  <2>4. /\ row.crashCount \in Nat /\ sup.crashCount \in Nat /\ Pending \in Nat
        /\ history.autoRuns \in Nat /\ history.stale \in Nat
    BY <2>2 DEF TypeOK
  <2>5. CASE Pending' = Pending
    BY <2>1, <2>4, <2>5 DEF Ledger, SnapshotCurrent, Accounted, Ration
  <2>6. CASE Pending' = Pending + 1 /\ WillRestart'
    BY <2>1, <2>4, <2>6 DEF Ledger, SnapshotCurrent, Accounted, Ration, WillRestart
  <2> QED
    BY <2>3, <2>5, <2>6
<1>5. CASE SupSchedule
  <2>1. /\ sup.pc = "schedule" /\ sup'.pc = "idle"
        /\ timers'.waiting = timers.waiting + (IF WillRestart THEN 1 ELSE 0)
        /\ timers'.checked = timers.checked
        /\ history'.autoRuns = history.autoRuns /\ history'.stale = history.stale
        /\ UNCHANGED row
    BY <1>5 DEF SupSchedule, NotVisiting, TypeOK
  <2>2. Pending' = Pending
    BY <2>1 DEF Pending, TypeOK
  <2> QED
    BY <2>1, <2>2 DEF Ledger, SnapshotCurrent, Accounted, Ration
<1> QED
  BY <1>1, <1>2, <1>3, <1>4, <1>5 DEF Supervise

\* The timers: a restart that was due is made, or is given up.
LEMMA TimersKeepLedger ==
  ASSUME TypeOK, Ledger, RunTimers
  PROVE  Ledger'
<1> USE ConstantsAssumption
<1>1. CASE TimerCheck
  <2>1. /\ timers'.waiting = timers.waiting - 1
        /\ timers'.checked \in {timers.checked, timers.checked + 1}
        /\ UNCHANGED <<row, sup, history>>
    BY <1>1 DEF TimerCheck, Advance, Drop, TypeOK
  <2>2. Pending' <= Pending /\ Pending \in Nat /\ Pending' \in Int
    BY <2>1 DEF Pending, WillRestart, TypeOK
  <2> QED
    BY <2>1, <2>2 DEF Ledger, SnapshotCurrent, Accounted, Ration, TypeOK
<1>2. CASE TimerMark
  <2>1. /\ timers'.waiting = timers.waiting
        /\ timers'.checked = timers.checked - 1
        /\ history'.autoRuns = history.autoRuns + 1 /\ history'.stale = history.stale
        /\ row'.crashCount = row.crashCount
        /\ UNCHANGED sup
    BY <1>2 DEF TimerMark, Advance, SetState, TypeOK
  <2>2. Pending' = Pending - 1 /\ Pending \in Nat
    BY <2>1 DEF Pending, WillRestart, TypeOK
  <2> QED
    BY <2>1, <2>2 DEF Ledger, SnapshotCurrent, Accounted, Ration, TypeOK
<1>3. CASE TimerStart \/ TimerFail
  <2>1. /\ timers'.waiting = timers.waiting /\ timers'.checked = timers.checked
        /\ row'.crashCount = row.crashCount
        /\ UNCHANGED <<sup, history>>
    BY <1>3 DEF TimerStart, TimerFail, Advance, Drop, SetState, TypeOK
  <2> QED
    BY <2>1, LedgerUntouched
<1> QED
  BY <1>1, <1>2, <1>3 DEF RunTimers

\* Requests that arrive, exits and suspensions leave the ledger alone; a crash of the
\* API strikes out what was due.
LEMMA EnvironmentKeepsLedger ==
  ASSUME TypeOK, Ledger,
         \/ \E p \in Procs, op \in Ops : Accept(p, op)
         \/ ContainerExit \/ ToggleSuspension \/ ApiCrash
  PROVE  Ledger'
<1>1. CASE ApiCrash
  <2>1. sup' = NotVisiting /\ timers' = NoTimers /\ UNCHANGED <<row, history>>
    BY <1>1 DEF ApiCrash
  <2>2. Pending' = 0 /\ Pending \in Nat
    BY <2>1 DEF Pending, NotVisiting, NoTimers, TypeOK
  <2> QED
    BY <2>1, <2>2, ConstantsAssumption
    DEF Ledger, SnapshotCurrent, Accounted, Ration, NotVisiting, TypeOK
<1>2. CASE (\E p \in Procs, op \in Ops : Accept(p, op)) \/ ContainerExit \/ ToggleSuspension
  <2>1. row'.crashCount = row.crashCount /\ UNCHANGED <<sup, timers, history>>
    BY <1>2 DEF Accept, ContainerExit, ToggleSuspension, TypeOK
  <2> QED
    BY <2>1, LedgerUntouched
<1> QED
  BY <1>1, <1>2

\* Between two starts of the owner the panel restarts the server on its own at most
\* crashRestartLimit times, not counting restarts already due at the first of them,
\* however handlers, the loop, timers and restarts of the API interleave.
THEOREM CrashLoopIsBounded == Spec => []CrashLoopBounded
<1>1. Init => Ledger
  BY ConstantsAssumption
  DEF Init, Ledger, SnapshotCurrent, Accounted, Ration, Pending, NotVisiting, NoTimers
<1>2. TypeOK /\ Ledger /\ [Next]_vars => Ledger'
  <2> SUFFICES ASSUME TypeOK, Ledger, [Next]_vars PROVE Ledger'
    OBVIOUS
  <2>1. CASE UNCHANGED vars
    BY <2>1, LedgerUntouched DEF vars
  <2> QED
    BY <2>1, HandlersKeepLedger, SupervisorKeepsLedger, TimersKeepLedger,
       EnvironmentKeepsLedger DEF Next
<1>3. TypeOK /\ Ledger => CrashLoopBounded
  <2> SUFFICES ASSUME TypeOK, Ledger, CrashRestartLimit > 0
               PROVE  history.autoRuns <= CrashRestartLimit + history.stale
    BY DEF CrashLoopBounded
  <2>1. Pending \in Nat
    BY DEF Pending, TypeOK
  <2>2. Ration <= CrashRestartLimit /\ Ration \in Nat
    BY ConstantsAssumption DEF Ration, TypeOK
  <2> QED
    BY <2>1, <2>2, ConstantsAssumption DEF Ledger, Accounted, TypeOK
<1> QED
  BY <1>1, <1>2, <1>3, TypeCorrect, PTL DEF Spec

(***************************************************************************)
(* Deleting a server                                                       *)
(***************************************************************************)

\* From the moment the delete has removed the container.
PurgedIsGone ==
  (row.deleted \/ \E p \in Procs : At(p, "purge")) => ctr = "missing" \/ history.leftBehind

\* No call starts, stops or kills a container that is gone into existence.
LEMMA GoneStaysGone ==
  ASSUME NEW op
  PROVE  /\ CallOutcomes(op, "missing") \subseteq {"missing"}
         /\ FailedOutcomes(op, "missing") = {"missing"}
         /\ Stopped("missing") = {"missing"}
         /\ Started("missing") = {}
  BY DEF CallOutcomes, FailedOutcomes, Stopped, Killed, Started

\* A step that neither deletes, nor sends a handler to purge, nor brings a container
\* back, nor forgets that one was rebuilt.
LEMMA PurgedUntouched ==
  ASSUME PurgedIsGone,
         row'.deleted = row.deleted,
         \A p \in Procs : At(p, "purge")' => At(p, "purge"),
         ctr = "missing" => ctr' = "missing",
         history.leftBehind => history'.leftBehind
  PROVE  PurgedIsGone'
  BY DEF PurgedIsGone

\* Every handler leaves a deleted server without a container, or is the one that
\* left it behind.
LEMMA HandlersKeepPurged ==
  ASSUME TypeOK, PurgedIsGone, NEW p \in Procs, Continue(p)
  PROVE  PurgedIsGone'
<1>1. CASE BuildContainer(p)
  <2>1. UNCHANGED row /\ \E pc \in {"config", "installFailed"} : GoTo(p, pc)
    BY <1>1 DEF BuildContainer
  <2>2. \A q \in Procs : At(q, "purge")' => At(q, "purge")
    BY <2>1 DEF At, GoTo, TypeOK
  <2>3. CASE ctr' \in {ctr, "missing"} /\ UNCHANGED history
    BY <2>1, <2>2, <2>3, PurgedUntouched
  <2>4. CASE history' = [history EXCEPT !.leftBehind =
                          @ \/ row.deleted \/ \E q \in Procs : At(q, "purge")]
    <3>1. history'.leftBehind
            = (history.leftBehind \/ row.deleted \/ \E q \in Procs : At(q, "purge"))
      BY <2>4 DEF TypeOK
    <3> QED
      BY <2>1, <2>2, <3>1 DEF PurgedIsGone
  <2> QED
    BY <1>1, <2>3, <2>4 DEF BuildContainer
<1>2. CASE ClearRemove(p)
  <2>1. CASE ctr' = "missing"
    BY <2>1 DEF PurgedIsGone
  <2>2. CASE UNCHANGED ctr /\ history' = [history EXCEPT !.leftBehind = @ \/ procs[p].op = "delete"]
    <3>1. history'.leftBehind = (history.leftBehind \/ procs[p].op = "delete")
      BY <2>2 DEF TypeOK
    <3>2. CASE procs[p].op = "delete"
      BY <3>1, <3>2 DEF PurgedIsGone
    <3>3. CASE procs[p].op # "delete"
      <4>1. UNCHANGED row /\ GoTo(p, "provision")
        BY <1>2, <3>3 DEF ClearRemove
      <4>2. \A q \in Procs : At(q, "purge")' => At(q, "purge")
        BY <4>1 DEF At, GoTo, TypeOK
      <4> QED
        BY <2>2, <3>1, <4>1, <4>2, PurgedUntouched
    <3> QED
      BY <3>2, <3>3
  <2> QED
    BY <1>2, <2>1, <2>2 DEF ClearRemove
<1>3. CASE FinishDelete(p)
  BY <1>3 DEF FinishDelete, PurgedIsGone
<1>4. CASE ~(BuildContainer(p) \/ ClearRemove(p) \/ FinishDelete(p))
  <2>1. row'.deleted = row.deleted
    BY <1>4 DEF Continue, MarkTransition, SkipMark, CallDocker, CallFails, BindFails, Settle,
       ResetCrashCount, ReinstallLoad, ClearStop, MovePorts, ProvisionLoad,
       MarkInstalling, WriteConfig, MarkInstalled, MarkInstallFailed,
       MarkReinstallFailed, SyncInspect, SyncWrite, SetState, TypeOK
  <2>2. history'.leftBehind = history.leftBehind
    BY <1>4 DEF Continue, MarkTransition, SkipMark, CallDocker, CallFails, BindFails, Settle,
       ResetCrashCount, ReinstallLoad, ClearStop, MovePorts, ProvisionLoad,
       MarkInstalling, WriteConfig, MarkInstalled, MarkInstallFailed,
       MarkReinstallFailed, SyncInspect, SyncWrite, TypeOK
  <2>3. ctr = "missing" => ctr' = "missing"
    BY <1>4, GoneStaysGone
    DEF Continue, MarkTransition, SkipMark, CallDocker, CallFails, BindFails, Settle,
       ResetCrashCount, ReinstallLoad, ClearStop, MovePorts, ProvisionLoad,
       MarkInstalling, WriteConfig, MarkInstalled, MarkInstallFailed,
       MarkReinstallFailed, SyncInspect, SyncWrite
  <2>4. \A q \in Procs : At(q, "purge")' => At(q, "purge")
    BY <1>4
    DEF Continue, MarkTransition, SkipMark, CallDocker, CallFails, BindFails, Settle,
       ResetCrashCount, ReinstallLoad, ClearStop, MovePorts, ProvisionLoad,
       MarkInstalling, WriteConfig, MarkInstalled, MarkInstallFailed,
       MarkReinstallFailed, SyncInspect, SyncWrite, At, GoTo, Finish, Idle, TypeOK
  <2> QED
    BY <2>1, <2>2, <2>3, <2>4, PurgedUntouched
<1> QED
  BY <1>1, <1>2, <1>3, <1>4

\* A deleted server has no container unless its removal failed, or provisionServer
\* built one after it: no start, restart, timer or crash of the API leaves another.
THEOREM DeleteRemovesContainer == Spec => []DeletedHasNoContainer
<1>1. Init => PurgedIsGone
  BY DEF Init, PurgedIsGone
<1>2. TypeOK /\ PurgedIsGone /\ [Next]_vars => PurgedIsGone'
  <2> SUFFICES ASSUME TypeOK, PurgedIsGone, [Next]_vars PROVE PurgedIsGone'
    OBVIOUS
  <2>1. CASE UNCHANGED vars
    BY <2>1 DEF vars, PurgedIsGone, At
  <2>2. ASSUME NEW p \in Procs, NEW op \in Ops \ {"suspend"}, Accept(p, op)
        PROVE  PurgedIsGone'
    <3>1. \A q \in Procs : At(q, "purge")' => At(q, "purge")
      BY <2>2 DEF Accept, FirstPc, At, TypeOK
    <3> QED
      BY <2>2, <3>1, PurgedUntouched DEF Accept
  <2>3. CASE Supervise \/ RunTimers
    <3>1. UNCHANGED procs /\ row'.deleted = row.deleted
      BY <2>3 DEF Supervise, SupSnapshot, SupInspect, SupMark, SupRecordCrash, SupSchedule,
         RunTimers, TimerCheck, TimerMark, TimerStart, TimerFail, SetState, TypeOK
    <3>2. /\ ctr = "missing" => ctr' = "missing"
          /\ history'.leftBehind = history.leftBehind
      BY <2>3, GoneStaysGone
      DEF Supervise, SupSnapshot, SupInspect, SupMark, SupRecordCrash, SupSchedule,
         RunTimers, TimerCheck, TimerMark, TimerStart, TimerFail, TypeOK
    <3> QED
      BY <3>1, <3>2, PurgedUntouched DEF At
  <2>4. CASE ContainerExit
    BY <2>4, PurgedUntouched DEF ContainerExit, At
  <2>5. CASE ToggleSuspension
    BY <2>5, PurgedUntouched DEF ToggleSuspension, At, TypeOK
  <2>6. CASE ApiCrash
    <3>1. \A q \in Procs : ~At(q, "purge")'
      BY <2>6 DEF ApiCrash, At, Idle
    <3>2. ctr = "missing" => ctr' = "missing"
      BY <2>6, GoneStaysGone DEF ApiCrash
    <3> QED
      BY <2>6, <3>1, <3>2, PurgedUntouched DEF ApiCrash
  <2> QED
    BY <2>1, <2>2, <2>3, <2>4, <2>5, <2>6, HandlersKeepPurged DEF Next
<1>3. PurgedIsGone => DeletedHasNoContainer
  BY DEF PurgedIsGone, DeletedHasNoContainer
<1> QED
  BY <1>1, <1>2, <1>3, TypeCorrect, PTL DEF Spec
=============================================================================
