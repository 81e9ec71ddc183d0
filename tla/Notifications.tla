--------------------------- MODULE Notifications ---------------------------
(***************************************************************************)
(* A server's destinations for events (Discord, Pushover, a web hook), and *)
(* the dispatcher that sends to all of them at once: a destination that    *)
(* keeps failing is switched off.  Dispatches overlap: the reconcile loop  *)
(* awaits its own, a line of the console starts one and goes on.           *)
(***************************************************************************)
EXTENDS Integers, FiniteSets

CONSTANTS
  Destinations,
  Dispatches,    \* dispatches that can be in flight
  Events,
  MaxFailures,   \* failures after which a destination is switched off
  MaxChanges,    \* bound: changes the owner makes
  MaxPanelStops, \* bound: times the panel ends
  MaxCounted     \* bound: failures a row counts up to

ASSUME NotificationsAssumption ==
  /\ MaxFailures \in Nat \ {0} /\ MaxChanges \in Nat /\ MaxPanelStops \in Nat /\ MaxCounted \in Nat

VARIABLES
  rows,     \* per destination: [there, enabled, events, failures]
  delivery, \* per dispatch and destination: none, sending, refused, disable
  changes,
  panelStops,
  cutOff    \* destinations whose switching off the panel's end has prevented

notificationsVars == <<rows, delivery, changes, panelStops, cutOff>>

NoRow == [there |-> FALSE, enabled |-> FALSE, events |-> {}, failures |-> 0]
NoDelivery == [i \in Destinations |-> "none"]

NotificationsInit ==
  /\ rows = [i \in Destinations |-> NoRow]
  /\ delivery = [d \in Dispatches |-> NoDelivery]
  /\ changes = 0 /\ panelStops = 0 /\ cutOff = {}

(* The dispatcher *)

\* Every destination that is switched on and wants the event; one read.
DispatchEvent(d, event) ==
  LET due == {i \in Destinations : rows[i].enabled /\ event \in rows[i].events} IN
  /\ delivery[d] = NoDelivery /\ due # {}
  /\ delivery' = [delivery EXCEPT ![d] = [i \in Destinations |-> IF i \in due THEN "sending" ELSE "none"]]
  /\ UNCHANGED <<rows, changes, panelStops, cutOff>>

Becomes(d, i, stage) == delivery' = [delivery EXCEPT ![d][i] = stage]

\* The destination takes the message: the count of failures begins anew.
Delivered(d, i) ==
  /\ delivery[d][i] = "sending" /\ rows[i].there
  /\ rows' = [rows EXCEPT ![i].failures = 0]
  /\ Becomes(d, i, "none")
  /\ cutOff' = cutOff \ {i}
  /\ UNCHANGED <<changes, panelStops>>

\* An answer of 400 or more, no answer in eight seconds, or no row to update.
Refused(d, i) ==
  /\ delivery[d][i] = "sending"
  /\ Becomes(d, i, "refused")
  /\ UNCHANGED <<rows, changes, panelStops, cutOff>>

KeepsFailingMut(failures) == failures > MaxFailures
KeepsFailing(failures) == failures >= MaxFailures

\* The count goes up in the database and comes back; a row that has been deleted
\* ends the delivery, unnoticed.
CountFailure(d, i) ==
  /\ delivery[d][i] = "refused" /\ rows[i].failures < MaxCounted
  /\ rows' = [rows EXCEPT ![i].failures = IF rows[i].there THEN @ + 1 ELSE @]
  /\ Becomes(d, i, IF rows[i].there /\ KeepsFailing(rows[i].failures + 1) THEN "disable" ELSE "none")
  /\ UNCHANGED <<changes, panelStops, cutOff>>

SwitchOff(d, i) ==
  /\ delivery[d][i] = "disable"
  /\ rows' = [rows EXCEPT ![i].enabled = FALSE]
  /\ Becomes(d, i, "none")
  /\ cutOff' = cutOff \ {i}
  /\ UNCHANGED <<changes, panelStops>>

PanelEnds ==
  /\ panelStops < MaxPanelStops /\ panelStops' = panelStops + 1
  /\ delivery' = [d \in Dispatches |-> NoDelivery]
  /\ cutOff' = cutOff \cup {i \in Destinations : \E d \in Dispatches : delivery[d][i] = "disable"}
  /\ UNCHANGED <<rows, changes>>

(* The owner *)

Change(i, row) ==
  /\ changes < MaxChanges /\ changes' = changes + 1
  /\ rows' = [rows EXCEPT ![i] = row]
  /\ UNCHANGED <<delivery, panelStops>>

\* A new row has an id of its own, which nothing is being sent to.
AddDestination(i, events, enabled) ==
  /\ ~rows[i].there /\ \A d \in Dispatches : delivery[d][i] = "none"
  /\ events # {}
  /\ Change(i, [there |-> TRUE, enabled |-> enabled, events |-> events, failures |-> 0])
  /\ UNCHANGED cutOff

\* Switching a destination on clears the failures it was switched off for.
PatchDestination(i, enabled) ==
  /\ rows[i].there
  /\ Change(i, [rows[i] EXCEPT !.enabled = enabled, !.failures = IF enabled THEN 0 ELSE @])
  /\ cutOff' = IF enabled THEN cutOff \ {i} ELSE cutOff

PatchEvents(i, events) ==
  /\ rows[i].there
  /\ Change(i, [rows[i] EXCEPT !.events = events])
  /\ UNCHANGED cutOff

DeleteDestination(i) ==
  /\ rows[i].there
  /\ Change(i, NoRow)
  /\ cutOff' = cutOff \ {i}

NotificationsNext ==
  \/ \E d \in Dispatches, e \in Events : DispatchEvent(d, e)
  \/ \E d \in Dispatches, i \in Destinations :
       Delivered(d, i) \/ Refused(d, i) \/ CountFailure(d, i) \/ SwitchOff(d, i)
  \/ PanelEnds
  \/ \E i \in Destinations :
       \/ \E events \in SUBSET Events : PatchEvents(i, events) \/ \E on \in BOOLEAN : AddDestination(i, events, on)
       \/ \E on \in BOOLEAN : PatchDestination(i, on)
       \/ DeleteDestination(i)

NotificationsSpec == NotificationsInit /\ [][NotificationsNext]_notificationsVars

(***************************************************************************)
(* Properties                                                              *)
(***************************************************************************)

\* A destination that keeps failing is not sent to for ever (dispatcher.ts:104):
\* one that is switched on has counted fewer failures than the limit, or the
\* statement that switches it off is on its way, whatever deliveries, successes
\* and changes overlap.  Only the end of the panel between the count and the
\* switch leaves one on, until its next failure.
DeadIsSwitchedOff ==
  \A i \in Destinations : rows[i].enabled /\ rows[i].failures >= MaxFailures =>
    \/ i \in cutOff
    \/ \E d \in Dispatches : delivery[d][i] = "disable"

\* Claimed: "Re-enabling clears the failure counter that auto-disabled it"
\* (routes/integrations.ts:170): only a destination at the limit is switched off.
\* The statement that switches off may come after a success or after the owner.
SwitchedOffAtLimit ==
  [][\A d \in Dispatches, i \in Destinations :
       (delivery[d][i] = "disable" /\ rows[i].enabled /\ rows[i].there /\ delivery'[d][i] = "none" /\ ~rows'[i].enabled)
         => rows[i].failures >= MaxFailures]_notificationsVars
=============================================================================
