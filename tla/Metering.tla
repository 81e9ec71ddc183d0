------------------------------ MODULE Metering ------------------------------
(***************************************************************************)
(* What is measured of one server, and what follows from it: the samples   *)
(* the supervisor takes (supervisor.ts, sampleAll and accountBandwidth),   *)
(* their roll-up, and the monthly quota (scheduler.ts).  Every await is a   *)
(* step of its own, and the panel may stop at each.                        *)
(***************************************************************************)
EXTENDS GameQuery, FiniteSets

CONSTANTS
  MonthLength,               \* minutes in a month
  RawWindow, RolledWindow,   \* METRICS.rawRetentionMs, rolledRetentionMs, in minutes
  TaskInterval,              \* the interval of the tasks looked at
  Quota,                     \* transferQuotaGib; 0 is unmetered
  MaxMinutes, MaxBytes, MaxStops  \* bounds on time, a container's counters and stops of the panel

ASSUME MeteringAssumption ==
  /\ {MonthLength, TaskInterval} \subseteq Nat \ {0}
  /\ {RawWindow, RolledWindow, Quota, MaxMinutes, MaxBytes, MaxStops} \subseteq Nat
  /\ RawWindow < RolledWindow

Minutes == 0..MaxMinutes
Month(m) == m \div MonthLength
Months == 0..Month(MaxMinutes)
NoUsage == -1

VARIABLES
  moment,     \* minutes since the start
  container,  \* [up, bytes]: whether it runs, and Docker's counter since it started
  quota,      \* [suspended, since]: the row's suspension for its quota, and the month of it
  usage,      \* month -> bytes in bandwidth_usage, or NoUsage
  online,     \* the row's player count
  raw, rolled,  \* minutes that have a raw sample; minute -> buckets it has
  sampler,    \* sampleAll: [stage, suspended, bytes]
  roll,       \* the roll-up: [stage, cutoff, old]
  lift,       \* the monthly reset: [stage, period]
  lastRun,    \* task -> when it was started
  sampled, stops  \* minutes sampled, and stops of the panel (record what happened)

meteringVars == <<moment, container, quota, usage, online, raw, rolled, sampler, roll, lift, lastRun,
                  sampled, stops>>

Tasks == {"rollup-metrics", "reset-monthly-bandwidth"}
NotSampling == [stage |-> "none", suspended |-> FALSE, bytes |-> 0]
NotRolling == [stage |-> "none", cutoff |-> 0, old |-> 0]
NotLifting == [stage |-> "none", period |-> 0]

MeteringInit ==
  /\ moment = 0 /\ container = [up |-> FALSE, bytes |-> 0]
  /\ quota = [suspended |-> FALSE, since |-> 0] /\ usage = [m \in Months |-> NoUsage]
  /\ online = 0 /\ raw = {} /\ rolled = [m \in Minutes |-> 0]
  /\ sampler = NotSampling /\ roll = NotRolling /\ lift = NotLifting
  /\ lastRun = [t \in Tasks |-> - TaskInterval]
  /\ sampled = {} /\ stops = 0

(* The server and the clock *)

MinutePasses ==
  /\ moment < MaxMinutes
  /\ moment' = moment + 1
  /\ UNCHANGED <<container, quota, usage, online, raw, rolled, sampler, roll, lift, lastRun, sampled, stops>>

\* Docker counts from the start of the container.  A suspended server is not started.
ContainerStarts ==
  /\ ~ container.up /\ ~ quota.suspended
  /\ container' = [up |-> TRUE, bytes |-> 0]
  /\ UNCHANGED <<moment, quota, usage, online, raw, rolled, sampler, roll, lift, lastRun, sampled, stops>>

\* Suspension does not stop it: its owner does, or it ends by itself.
ContainerStops ==
  /\ container.up
  /\ container' = [container EXCEPT !.up = FALSE]
  /\ UNCHANGED <<moment, quota, usage, online, raw, rolled, sampler, roll, lift, lastRun, sampled, stops>>

Transfers ==
  /\ container.up /\ container.bytes < MaxBytes
  /\ container' = [container EXCEPT !.bytes = @ + 1]
  /\ UNCHANGED <<moment, quota, usage, online, raw, rolled, sampler, roll, lift, lastRun, sampled, stops>>

(* Sampling: one round at a time, samplingBusy *)

SampleAll ==
  /\ sampler = NotSampling /\ container.up
  /\ sampler' = [stage |-> "chosen", suspended |-> quota.suspended, bytes |-> 0]
  /\ UNCHANGED <<moment, container, quota, usage, online, raw, rolled, roll, lift, lastRun, sampled, stops>>

\* A container that has gone gives no statistics, and the server is passed over.
\* The counters are those of its network, which a stopped one does not have.
SampleStats ==
  /\ sampler.stage = "chosen"
  /\ \/ sampler' = NotSampling
     \/ sampler' = [sampler EXCEPT !.stage = "measured", !.bytes = IF container.up THEN container.bytes ELSE 0]
  /\ UNCHANGED <<moment, container, quota, usage, online, raw, rolled, roll, lift, lastRun, sampled, stops>>

\* The server is asked for its players, and the sample and the row are written.
RecordSample ==
  /\ sampler.stage = "measured"
  /\ online' \in PlayersSeen
  /\ raw' = raw \cup {moment} /\ sampled' = sampled \cup {moment}
  /\ sampler' = [sampler EXCEPT !.stage = "sampled"]
  /\ UNCHANGED <<moment, container, quota, usage, rolled, roll, lift, lastRun, stops>>

OverQuota == Quota > 0 /\ ~ sampler.suspended /\ sampler.bytes >= Quota

\* The month's usage is what the counter says now, whatever it said before.
AccountBandwidth ==
  /\ sampler.stage = "sampled"
  /\ usage' = [usage EXCEPT ![Month(moment)] = sampler.bytes]
  /\ sampler' = IF OverQuota THEN [sampler EXCEPT !.stage = "over"] ELSE NotSampling
  /\ UNCHANGED <<moment, container, quota, online, raw, rolled, roll, lift, lastRun, sampled, stops>>

SuspendForQuota ==
  /\ sampler.stage = "over"
  /\ quota' = [suspended |-> TRUE, since |-> Month(moment)]
  /\ sampler' = NotSampling
  /\ UNCHANGED <<moment, container, usage, online, raw, rolled, roll, lift, lastRun, sampled, stops>>

(* The scheduler: a task that is due is started and not waited for.  A run is *)
(* taken to end before its task is due again.                                 *)

TaskDue(task) == moment - lastRun[task] >= TaskInterval
Started(task) == lastRun' = [lastRun EXCEPT ![task] = moment]

\* Raw samples from before the cutoff become buckets of a minute, added to
\* those there are: nothing in the table makes a bucket unique.
RollUp ==
  /\ roll = NotRolling /\ TaskDue("rollup-metrics") /\ Started("rollup-metrics")
  /\ LET cutoff == moment - RawWindow IN
     /\ rolled' = [m \in Minutes |-> IF m \in raw /\ m < cutoff /\ rolled[m] < 2 THEN rolled[m] + 1 ELSE rolled[m]]
     /\ roll' = [stage |-> "rolled", cutoff |-> cutoff, old |-> 0]
  /\ UNCHANGED <<moment, container, quota, usage, online, raw, sampler, lift, sampled, stops>>

\* Mutated: the samples of the window as it is now are deleted.
DeletedRawMut == {m \in raw : m < moment - RawWindow}
DeletedRaw == {m \in raw : m < roll.cutoff}

RollUpDelete ==
  /\ roll.stage = "rolled"
  /\ raw' = raw \ DeletedRaw
  /\ roll' = [roll EXCEPT !.stage = "deleted"]
  /\ UNCHANGED <<moment, container, quota, usage, online, rolled, sampler, lift, lastRun, sampled, stops>>

RollUpTrim ==
  /\ roll.stage = "deleted"
  /\ LET old == moment - RolledWindow IN
     /\ raw' = {m \in raw : m >= old}
     /\ rolled' = [m \in Minutes |-> IF m < old THEN 0 ELSE rolled[m]]
  /\ roll' = NotRolling
  /\ UNCHANGED <<moment, container, quota, usage, online, sampler, lift, lastRun, sampled, stops>>

\* The servers suspended for their quota are read, and the month they are judged by.
ResetMonthlyBandwidth ==
  /\ lift = NotLifting /\ TaskDue("reset-monthly-bandwidth") /\ Started("reset-monthly-bandwidth")
  /\ lift' = IF quota.suspended THEN [stage |-> "found", period |-> Month(moment)] ELSE NotLifting
  /\ UNCHANGED <<moment, container, quota, usage, online, raw, rolled, sampler, roll, sampled, stops>>

\* One without usage in that month is let go.
ReadUsage ==
  /\ lift.stage = "found"
  /\ lift' = IF usage[lift.period] = NoUsage THEN [lift EXCEPT !.stage = "unused"] ELSE NotLifting
  /\ UNCHANGED <<moment, container, quota, usage, online, raw, rolled, sampler, roll, lastRun, sampled, stops>>

LiftSuspension ==
  /\ lift.stage = "unused"
  /\ quota' = [quota EXCEPT !.suspended = FALSE] /\ lift' = NotLifting
  /\ UNCHANGED <<moment, container, usage, online, raw, rolled, sampler, roll, lastRun, sampled, stops>>

\* What was under way is gone, and every task is due.
PanelStops ==
  /\ stops < MaxStops
  /\ stops' = stops + 1
  /\ sampler' = NotSampling /\ roll' = NotRolling /\ lift' = NotLifting
  /\ lastRun' = [t \in Tasks |-> - TaskInterval]
  /\ UNCHANGED <<moment, container, quota, usage, online, raw, rolled, sampled>>

MeteringNext ==
  \/ MinutePasses \/ ContainerStarts \/ ContainerStops \/ Transfers
  \/ SampleAll \/ SampleStats \/ RecordSample \/ AccountBandwidth \/ SuspendForQuota
  \/ RollUp \/ RollUpDelete \/ RollUpTrim
  \/ ResetMonthlyBandwidth \/ ReadUsage \/ LiftSuspension
  \/ PanelStops

MeteringSpec == MeteringInit /\ [][MeteringNext]_meteringVars

\* The clock goes on, rounds of samples and the reset are started by timers,
\* and what they have begun goes on to its end.
MeteringFairness ==
  /\ WF_meteringVars(MinutePasses)
  /\ WF_meteringVars(SampleAll) /\ WF_meteringVars(SampleStats /\ sampler'.stage = "measured")
  /\ WF_meteringVars(RecordSample) /\ WF_meteringVars(AccountBandwidth) /\ WF_meteringVars(SuspendForQuota)
  /\ WF_meteringVars(ResetMonthlyBandwidth) /\ WF_meteringVars(ReadUsage) /\ WF_meteringVars(LiftSuspension)

FairMetering == MeteringSpec /\ MeteringFairness

(* Properties *)

\* Until it is too old to be kept, every minute that was sampled is still there
\* to be drawn, as a sample or as a bucket, wherever the roll-up was cut off (rollup-metrics).
MetersSound == \A m \in sampled : m > moment - RolledWindow => m \in raw \/ rolled[m] > 0

\* "Lift suspensions that were applied purely for a transfer quota once a new
\* accounting month has begun." (scheduler.ts:159), of a server that goes on running.
NewMonthLifts ==
  <>[]container.up =>
    \A m \in Months : (quota.suspended /\ quota.since = m /\ Month(moment) > m)
                      ~> ~ (quota.suspended /\ quota.since = m)

\* "every task here is idempotent" (scheduler.ts)
RolledOnce == \A m \in Minutes : rolled[m] <= 1
=============================================================================
