----------------------------- MODULE MCRecords -----------------------------
(***************************************************************************)
(* The modules about what the panel records (machines and servers, usage,  *)
(* settings, games, destinations, the audit log), each on a small          *)
(* instance.  They share no state, so the run explores one of them at a    *)
(* time: part names it, and the others stay as they began.                 *)
(***************************************************************************)
EXTENDS Metering, Nodes, Settings, Definitions, Notifications, AuditLog, TLC

VARIABLE part

\* Whatever can be in flight; and what it is about.
CONSTANTS x1, x2, y1, y2

\* A machine that is enough and one that is not.
MCMachines == {[total |-> 2, large |-> TRUE, fast |-> TRUE], [total |-> 1, large |-> FALSE, fast |-> TRUE]}

Doc(id, offsets, stride, until, max) ==
  [id |-> id, stride |-> stride, until |-> until,
   ports |-> [i \in DOMAIN offsets |-> [key |-> IF i = 1 THEN "game" ELSE "query", offset |-> offsets[i]]],
   memory |-> [min |-> 1, recommended |-> 1], slots |-> [default |-> 2, max |-> max]]
MCBuiltIn == [r \in Releases |-> [t \in Titles |-> Doc(t, <<0, 1>>, 2, r, 2)]]

\* One that the next release refuses, one whose ports reach past its stride, one
\* for a game of its own, and one with more slots by default than at most.
MCDocuments == {Doc("arma3", <<0, 2>>, 3, 1, 2), Doc("arma3", <<0, 2>>, 2, 1, 2),
                Doc("dayz", <<0>>, 1, 0, 2), Doc("dayz", <<0>>, 1, 1, 1)}

Only(p) == part = p /\ UNCHANGED part

Keep1 == UNCHANGED meteringVars
Keep2 == UNCHANGED nodesVars
Keep3 == UNCHANGED settingsVars
Keep4 == UNCHANGED definitionsVars
Keep5 == UNCHANGED notificationsVars
Keep6 == UNCHANGED auditVars

\* One module's initial states at a time: the others begin in a chosen one.
MCInit ==
  /\ part \in {"metering", "nodes", "pages", "assistant", "definitions", "notifications", "audit"}
  /\ MeteringInit
  /\ NodesInit /\ (part # "nodes" => machine = CHOOSE m \in MCMachines : TRUE)
  /\ SettingsInit /\ DefinitionsInit /\ NotificationsInit /\ AuditInit

\* Settings are looked at twice: with two pages, and with one page and the assistant.  Of
\* two saves there are no more than two senders.
MCNext ==
  \/ Only("metering") /\ MeteringNext /\ Keep2 /\ Keep3 /\ Keep4 /\ Keep5 /\ Keep6
  \/ Only("nodes") /\ NodesNext /\ Keep1 /\ Keep3 /\ Keep4 /\ Keep5 /\ Keep6
  \/ /\ \/ Only("pages") /\ SettingsNext /\ \A a \in Assistant : save'[a].pc = "idle"
        \/ /\ Only("assistant") /\ SettingsNext
           /\ \E p \in Pages : page'[p] = Loaded(Defaults) /\ save'[p].pc = "idle"
     /\ Keep1 /\ Keep2 /\ Keep4 /\ Keep5 /\ Keep6
  \/ Only("definitions") /\ DefinitionsNext /\ Keep1 /\ Keep2 /\ Keep3 /\ Keep5 /\ Keep6
  \/ Only("notifications") /\ NotificationsNext /\ Keep1 /\ Keep2 /\ Keep3 /\ Keep4 /\ Keep6
  \/ Only("audit") /\ AuditNext /\ Keep1 /\ Keep2 /\ Keep3 /\ Keep4 /\ Keep5

Symmetry == Permutations({x1, x2})
=============================================================================
