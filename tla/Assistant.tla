----------------------------- MODULE Assistant -----------------------------
(***************************************************************************)
(* The AI assistant (routes/ai.ts, modules/ai/ai-assistant.ts) as one      *)
(* account uses it on one server.  The model's answer is any reply; what   *)
(* it proposes is stored with the session and runs only when the account   *)
(* approves it.  Approving and rejecting read the whole list of proposals, *)
(* and write the whole list back after the action ran: other requests come *)
(* in between, and what the account may do changes meanwhile.              *)
(***************************************************************************)
EXTENDS Integers, Sequences, FiniteSets

CONSTANTS
  Reviews,      \* requests in flight
  Dialogues,    \* rows of AiSession
  Proposable,   \* the kinds of this instance, of ProposedActionKind
  MaxProposed,  \* bound on the proposals of a reply
  Holdings,     \* what an account may have on a server: sets of permissions
  MaxReviews    \* bound on requests

\* ACTION_PERMISSION.
ActionPermission ==
  [start_server |-> "power", stop_server |-> "power", restart_server |-> "power",
   reinstall_server |-> "reinstall", add_mod |-> "mods", remove_mod |-> "mods",
   disable_mod |-> "mods", enable_mod |-> "mods", reorder_mods |-> "mods",
   change_config |-> "settings", increase_memory |-> "resources", increase_cpu |-> "resources",
   edit_file |-> "files.write", run_console_command |-> "console.write", no_action |-> "read"]

ASSUME AssistantAssumption ==
  /\ Proposable \subseteq DOMAIN ActionPermission
  /\ {MaxProposed, MaxReviews} \subseteq Nat \ {0} /\ Holdings # {}

VARIABLES
  provider,   \* the account's AiProvider: "none", "live"
  dialogue,   \* AiSession: [status, actions]
  held,       \* what the account may do on the server now
  running,    \* whether the server runs
  review,     \* requests in flight
  reviews,    \* number of requests begun
  ran         \* [kind, permitted] of the actions executed: whether the account
              \* had the permission when it approved (records what happened)

assistantVars == <<provider, dialogue, held, running, review, reviews, ran>>

NoReview == [at |-> "free", d |-> "none", i |-> 0, seen |-> <<>>, may |-> {}]

BeginReview(r, rec) ==
  /\ review[r].at = "free" /\ reviews < MaxReviews
  /\ reviews' = reviews + 1
  /\ review' = [review EXCEPT ![r] = rec]

EndReview(r) == review' = [review EXCEPT ![r] = NoReview]

\* POST and DELETE /ai/providers.
AddProvider ==
  /\ provider = "none" /\ provider' = "live"
  /\ UNCHANGED <<dialogue, held, running, review, reviews, ran>>
\* The rows of AiSession go with the provider.
DeleteProvider ==
  /\ provider = "live" /\ provider' = "none"
  /\ dialogue' = [d \in Dialogues |-> IF dialogue[d].status = "new" THEN dialogue[d]
                                      ELSE [status |-> "gone", actions |-> <<>>]]
  /\ UNCHANGED <<held, running, review, reviews, ran>>

Permits(permissions, k) == ActionPermission[k] \in permissions \cup {"read"}

\* POST /servers/:id/ai/diagnose: the permissions are those of the beginning.
Diagnose(r) ==
  /\ "ai" \in held /\ provider = "live"
  /\ BeginReview(r, [NoReview EXCEPT !.at = "asking", !.may = held])
  /\ UNCHANGED <<provider, dialogue, held, running, ran>>

\* What parseAssistantResponse lets through: proposals of allowed kinds, or
\* none when the reply is not JSON or any part of it is not as the schema says.
Replies == UNION {[1 .. n -> Proposable] : n \in 0 .. MaxProposed}

\* The provider answers and what the account could not do itself is dropped;
\* or it fails and nothing is stored.
DiagnoseReply(r) ==
  LET Performable(k) == Permits(review[r].may, k)
  IN  /\ review[r].at = "asking"
      /\ \/ \E reply \in Replies, d \in Dialogues :
              LET kept == SelectSeq(reply, Performable)
              IN  /\ provider = "live" /\ dialogue[d].status = "new"
                  /\ dialogue' = [dialogue EXCEPT ![d] =
                       [status |-> IF kept = <<>> THEN "closed" ELSE "awaiting_approval",
                        actions |-> [i \in DOMAIN kept |-> [kind |-> kept[i], status |-> "pending"]]]]
         \/ UNCHANGED dialogue
      /\ EndReview(r)
      /\ UNCHANGED <<provider, held, running, reviews, ran>>

\* Mutated: what was proposed is taken to be still permitted.
MayApproveMut(k) == TRUE

\* The permission is checked again when an action is approved.
MayApprove(k) == Permits(held, k)

\* POST /ai/sessions/:sessionId/approve: the row and the access are read, and
\* the approval is in the audit log.
Approve(r) ==
  /\ \E d \in Dialogues : \E i \in DOMAIN dialogue[d].actions :
       /\ dialogue[d].actions[i].status = "pending"
       /\ MayApprove(dialogue[d].actions[i].kind)
       /\ BeginReview(r, [NoReview EXCEPT !.at = "execute", !.d = d, !.i = i, !.may = held,
                                          !.seen = dialogue[d].actions])
  /\ UNCHANGED <<provider, dialogue, held, running, ran>>

\* executeAction: a reinstall is refused, a command needs a running server,
\* parameters may fail validation and the operation it calls may fail.  A
\* power action changes whether the server runs.
Execute(r) ==
  LET kind == review[r].seen[review[r].i].kind
  IN  /\ review[r].at = "execute"
      /\ \/ EndReview(r) /\ UNCHANGED <<running, ran>>
         \/ /\ kind # "reinstall_server"
            /\ kind = "run_console_command" => running
            /\ ran' = ran \cup {[kind |-> kind, permitted |-> Permits(review[r].may, kind)]}
            /\ running' = CASE kind = "stop_server" -> FALSE
                            [] kind \in {"start_server", "restart_server"} -> TRUE
                            [] OTHER -> running
            /\ review' = [review EXCEPT ![r].at = "approved"]
      /\ UNCHANGED <<provider, dialogue, held, reviews>>

\* POST /ai/sessions/:sessionId/reject, whatever the state of the action.
Reject(r) ==
  /\ \E d \in Dialogues : \E i \in DOMAIN dialogue[d].actions :
       BeginReview(r, [NoReview EXCEPT !.at = "rejected", !.d = d, !.i = i, !.seen = dialogue[d].actions])
  /\ UNCHANGED <<provider, dialogue, held, running, ran>>

StatusOf(actions) ==
  IF \A i \in DOMAIN actions : actions[i].status # "pending" THEN "closed" ELSE "awaiting_approval"

\* The list that was read is written back with this action resolved; the row
\* may be gone.
WriteBack(r) ==
  LET d == review[r].d
      new == [review[r].seen EXCEPT ![review[r].i].status = review[r].at]
  IN  /\ review[r].at \in {"approved", "rejected"}
      /\ IF dialogue[d].status = "gone" THEN UNCHANGED dialogue
         ELSE dialogue' = [dialogue EXCEPT ![d] = [actions |-> new, status |-> StatusOf(new)]]
      /\ EndReview(r)
      /\ UNCHANGED <<provider, held, running, reviews, ran>>

\* Members are changed (module Authority) and the server is used by hand.
HeldChanges ==
  /\ held' \in Holdings \ {held}
  /\ UNCHANGED <<provider, dialogue, running, review, reviews, ran>>
RunningChanges ==
  /\ running' = ~ running
  /\ UNCHANGED <<provider, dialogue, held, review, reviews, ran>>

AssistantInit ==
  /\ provider = "none" /\ held \in Holdings
  /\ dialogue = [d \in Dialogues |-> [status |-> "new", actions |-> <<>>]]
  /\ running = TRUE
  /\ review = [r \in Reviews |-> NoReview] /\ reviews = 0
  /\ ran = {}

AssistantNext ==
  \/ AddProvider \/ DeleteProvider \/ HeldChanges \/ RunningChanges
  \/ \E r \in Reviews :
       \/ Diagnose(r) \/ DiagnoseReply(r) \/ Approve(r) \/ Execute(r)
       \/ Reject(r) \/ WriteBack(r)

AssistantSpec == AssistantInit /\ [][AssistantNext]_assistantVars

(***************************************************************************)
(* Properties                                                              *)
(***************************************************************************)

\* Whatever the model proposes, and whatever has become of the account's access
\* since: an action runs only with the permission its approval needs, never a
\* reinstall, and a session is closed just when nothing in it is pending, also
\* after lists were written over one another.
ApprovalHolds ==
  /\ \A a \in ran : a.permitted /\ a.kind # "reinstall_server"
  /\ \A d \in Dialogues : dialogue[d].status \in {"closed", "awaiting_approval"} =>
       dialogue[d].status = StatusOf(dialogue[d].actions)
=============================================================================
