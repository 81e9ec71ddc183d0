---------------------------- MODULE Registration ----------------------------
(***************************************************************************)
(* How accounts come to be and go: first-run setup (routes/setup.ts), user-*)
(* name screening (modules/auth/username-policy.ts), the two steps of      *)
(* registration and the Discord flows (routes/auth.ts, auth/discord.ts),   *)
(* and the deletion of an account (routes/account.ts).                     *)
(*                                                                         *)
(* A name stands for its canonical form, on which the accounts table has a *)
(* unique index that soft-deleted rows stay in; another unique index is on *)
(* the Discord id.  The names of Abusive are those whose screening ends in *)
(* "offensive", "impersonation" or "confusable" (module Usernames).        *)
(***************************************************************************)
EXTENDS Integers, Sequences, FiniteSets

CONSTANTS
  MaxRows,     \* bound on the rows of Account besides the first administrator's
  Names,       \* canonical user names
  Abusive,     \* those that are abusive
  Discords,    \* Discord identities
  Clients,     \* client hashes
  Tokens,      \* rows of AuthChallenge, each used again when it is pruned
  Flows        \* requests in flight

ASSUME RegistrationAssumption ==
  /\ Abusive \subseteq Names /\ "none" \notin Names \cup Discords \cup Clients \cup Tokens
  /\ MaxRows \in Nat

VARIABLES
  platform,  \* the settings row, the first administrator and the nodes
  row,       \* Account: [state, name, discord], in the order they were created
  token,     \* AuthChallenge: [kind, name, discord, used], kind "none" without a row
  warning,   \* <<client, name>> of the UsernameAttempt rows with warned = TRUE that
             \* are not older than warningRetentionMs
  ban,       \* <<client, name>> of the RegistrationBan rows that have not ended
  flow       \* requests in flight

registrationVars ==
  <<platform, row, token, warning, ban, flow>>

NoFlow == [at |-> "free", client |-> "none", name |-> "none", discord |-> "none",
           token |-> "none", row |-> 0, ready |-> FALSE]

NoToken == [kind |-> "none", name |-> "none", discord |-> "none", used |-> FALSE]

Rows == DOMAIN row
LiveRow(r) == row[r].state = "live"

\* The unique indexes hold over every row, the deleted ones included.
NameFree(n) == \A r \in Rows : row[r].name # n
DiscordFree(d, self) == d # "none" => \A r \in Rows \ {self} : row[r].discord # d

\* What the handlers look for: an account that is not deleted.
Taken(n) == \E r \in Rows : LiveRow(r) /\ row[r].name = n
Linked(d) == \E r \in Rows : LiveRow(r) /\ row[r].discord = d

At(f, pc) == flow' = [flow EXCEPT ![f].at = pc]
End(f) == flow' = [flow EXCEPT ![f] = NoFlow]
Open(f, rec) == flow[f].at = "free" /\ flow' = [flow EXCEPT ![f] = rec]
Banned(c) == \E b \in ban : b[1] = c

(***************************************************************************)
(* First-run setup                                                         *)
(***************************************************************************)

RegistrationIsOpen == platform.complete /\ platform.pass /\ platform.open

\* POST /setup/requirements/check records what the host measured.
RequirementsCheck ==
  /\ platform' = [platform EXCEPT !.pass = ~ @]
  /\ UNCHANGED <<row, token, warning, ban, flow>>

\* The administrator's own steps, and the first node (routes/nodes.ts).
AdminPassword ==
  /\ platform.must
  /\ platform' = [platform EXCEPT !.must = FALSE, !.bootstrap = FALSE, !.changed = TRUE]
  /\ UNCHANGED <<row, token, warning, ban, flow>>
AdminTotp ==
  /\ ~ platform.must /\ ~ platform.verified
  /\ platform' = [platform EXCEPT !.verified = TRUE, !.enrolled = TRUE]
  /\ UNCHANGED <<row, token, warning, ban, flow>>

\* scripts/reset-admin-password.ts, with or without --reset-totp.  Once setup
\* is complete nothing modelled here reads what it resets.
ResetAdminPassword ==
  /\ ~ platform.complete
  /\ \/ platform' = [platform EXCEPT !.must = TRUE]
     \/ platform' = [platform EXCEPT !.must = TRUE, !.verified = FALSE]
  /\ UNCHANGED <<row, token, warning, ban, flow>>

NodeAdded ==
  /\ ~ platform.nodes
  /\ platform' = [platform EXCEPT !.nodes = TRUE, !.hosted = TRUE]
  /\ UNCHANGED <<row, token, warning, ban, flow>>

\* DELETE /admin/nodes/:nodeId takes the last node, setup complete or not: no
\* server is modelled that would keep it.
NodeRemoved ==
  /\ platform.nodes
  /\ platform' = [platform EXCEPT !.nodes = FALSE]
  /\ UNCHANGED <<row, token, warning, ban, flow>>

\* Mutated: the administrator's authenticator is not asked for.
GatesMut == ~ platform.must

\* What is asked of the administrator.
Gates == ~ platform.must /\ platform.verified

\* POST /setup/complete: the administrator's account was read, and the host is
\* measured, which records the report.  When a gate is shut only the report is
\* left: RequirementsCheck.
SetupComplete(f) ==
  /\ ~ platform.complete /\ Gates
  /\ platform' = [platform EXCEPT !.pass = TRUE]
  /\ Open(f, [NoFlow EXCEPT !.at = "count", !.ready = TRUE])
  /\ UNCHANGED <<row, token, warning, ban>>

\* The nodes are counted, and the server network is created.
SetupCount(f) ==
  /\ flow[f].at = "count"
  /\ IF platform.nodes THEN At(f, "setup") ELSE End(f)
  /\ UNCHANGED <<platform, row, token, warning, ban>>

\* The settings are written, whatever has changed since.
SetupWrite(f) ==
  /\ flow[f].at = "setup"
  /\ platform' = [platform EXCEPT !.complete = TRUE, !.bootstrap = FALSE, !.open = TRUE]
  /\ End(f)
  /\ UNCHANGED <<row, token, warning, ban>>

(***************************************************************************)
(* screenUsername                                                          *)
(***************************************************************************)

\* The wizard asks on its own too (POST /auth/username/check), and the first
\* step of registration asks before it issues a token.
ScreenStart(f) ==
  \E c \in Clients, n \in Names :
    /\ ~ Banned(c)
    /\ \/ Open(f, [NoFlow EXCEPT !.at = "screen", !.client = c, !.name = n])
       \/ RegistrationIsOpen
          /\ \E d \in Discords \cup {"none"} :
               /\ d # "none" =>
                    /\ \E t \in Tokens : token[t].kind = "link" /\ token[t].discord = d
                                           /\ ~ token[t].used
                    /\ ~ Linked(d)
               /\ Open(f, [NoFlow EXCEPT !.at = "screen", !.client = c, !.name = n,
                                         !.discord = d, !.ready = TRUE])
    /\ UNCHANGED <<platform, row, token, warning, ban>>

\* The same client was warned about the same name.
PriorWarning(c, n) == <<c, n>> \in warning

\* The row is read, and the answer written down, in one step each: a name
\* that is free, one that is taken, an abusive one.
ScreenRead(f) ==
  LET c == flow[f].client  n == flow[f].name
  IN  /\ flow[f].at = "screen"
      /\ \/ n \in Abusive /\ PriorWarning(c, n) /\ At(f, "ban")
         \/ n \in Abusive /\ ~ PriorWarning(c, n) /\ At(f, "warn")
         \/ n \notin Abusive /\ Taken(n) /\ End(f)
         \/ n \notin Abusive /\ ~ Taken(n)
            /\ IF flow[f].ready THEN At(f, "issue") ELSE End(f)
      /\ UNCHANGED <<platform, row, token, warning, ban>>

ScreenWarn(f) ==
  LET c == flow[f].client  n == flow[f].name
  IN  /\ flow[f].at = "warn"
      /\ warning' = warning \cup {<<c, n>>}
      /\ End(f)
      /\ UNCHANGED <<platform, row, token, ban>>

ScreenBan(f) ==
  /\ flow[f].at = "ban"
  /\ ban' = ban \cup {<<flow[f].client, flow[f].name>>}
  /\ End(f)
  /\ UNCHANGED <<platform, row, token, warning>>

\* Warnings grow old (pruneUsernameAttempts deletes those rows) and bans end.
WarningExpires ==
  /\ \E w \in warning : warning' = warning \ {w}
  /\ UNCHANGED <<platform, row, token, ban, flow>>
BanEnds ==
  /\ \E b \in ban : ban' = ban \ {b}
  /\ UNCHANGED <<platform, row, token, warning, flow>>

(***************************************************************************)
(* Registration                                                            *)
(***************************************************************************)

\* issueChallenge, the last statement of its handler.
IssueToken(f, kind) ==
  /\ \E t \in Tokens :
       /\ token[t] = NoToken
       /\ token' = [token EXCEPT ![t] = [kind |-> kind, name |-> flow[f].name,
                                         discord |-> flow[f].discord, used |-> FALSE]]
  /\ End(f)
  /\ UNCHANGED <<platform, row, warning, ban>>

RegisterIssue(f) == flow[f].at = "issue" /\ IssueToken(f, "enrol")

\* A token expires, and pruneExpiredChallenges removes it: from then on it is
\* of no use, except to a handler that has read it.
PruneToken ==
  /\ \E t \in Tokens :
       /\ token[t] # NoToken /\ \A f \in Flows : flow[f].token # t
       /\ token' = [token EXCEPT ![t] = NoToken]
  /\ UNCHANGED <<platform, row, warning, ban, flow>>

\* POST /auth/register/complete, with the right code.  A wrong code only
\* counts an attempt (module SignIn).
RegisterPeek(f) ==
  \E c \in Clients, t \in Tokens :
    /\ ~ Banned(c)
    /\ token[t].kind = "enrol" /\ ~ token[t].used
    /\ Open(f, [NoFlow EXCEPT !.at = "consume", !.client = c, !.token = t,
                              !.name = token[t].name, !.discord = token[t].discord])
    /\ UNCHANGED <<platform, row, token, warning, ban>>

ConsumeToken(f) ==
  /\ flow[f].at \in {"consume", "consumeState"}
  /\ IF token[flow[f].token].used
       THEN End(f) /\ UNCHANGED token
       ELSE /\ token' = [token EXCEPT ![flow[f].token].used = TRUE]
            /\ At(f, IF flow[f].at = "consume" THEN "taken" ELSE "discord")
  /\ UNCHANGED <<platform, row, warning, ban>>

\* The name is looked for again, among accounts that are not deleted.
RegisterTaken(f) ==
  /\ flow[f].at = "taken"
  /\ IF Taken(flow[f].name) THEN End(f) ELSE At(f, "create")
  /\ UNCHANGED <<platform, row, token, warning, ban>>

\* account.create fails on either unique index.
RegisterCreate(f) ==
  /\ flow[f].at = "create"
  /\ \/ /\ NameFree(flow[f].name) /\ DiscordFree(flow[f].discord, 0)
        /\ Len(row) < MaxRows
        /\ row' = Append(row, [state |-> "live", name |-> flow[f].name, discord |-> flow[f].discord])
     \/ /\ ~ (NameFree(flow[f].name) /\ DiscordFree(flow[f].discord, 0))
        /\ UNCHANGED row
  /\ End(f)
  /\ UNCHANGED <<platform, token, warning, ban>>

(***************************************************************************)
(* Discord, and the end of an account                                      *)
(***************************************************************************)

\* POST /auth/discord/start issues the state token.  A link is for the account
\* that is signed in when the callback comes.
DiscordStart ==
  /\ \E t \in Tokens :
       /\ token[t] = NoToken
       /\ token' = [token EXCEPT ![t].kind = "state"]
  /\ UNCHANGED <<platform, row, warning, ban, flow>>

\* POST /auth/discord/callback: another browser's callback spends the state
\* token and ends; `r` is the account signed in, if the flow is a link.
DiscordCallback(f) ==
  \E t \in Tokens, r \in Rows \cup {0} :
    /\ token[t].kind = "state" /\ ~ token[t].used
    /\ r # 0 => LiveRow(r)
    /\ \/ /\ Open(f, [NoFlow EXCEPT !.at = "consumeState", !.token = t, !.row = r])
          /\ UNCHANGED token
       \/ /\ flow[f].at = "free"
          /\ token' = [token EXCEPT ![t].used = TRUE]
          /\ UNCHANGED flow
    /\ UNCHANGED <<platform, row, warning, ban>>

\* Discord answers with the identity, or fails; the account it belongs to is
\* looked up.  A linked account signs in (module SignIn).
DiscordProfile(f) ==
  /\ flow[f].at = "discord"
  /\ \/ End(f)
     \/ \E d \in Discords :
          \/ /\ flow[f].row # 0
             /\ IF \E r \in Rows \ {flow[f].row} : LiveRow(r) /\ row[r].discord = d
                  THEN End(f)
                  ELSE flow' = [flow EXCEPT ![f].at = "link", ![f].discord = d]
          \/ /\ flow[f].row = 0 /\ ~ Linked(d) /\ RegistrationIsOpen
             /\ flow' = [flow EXCEPT ![f].at = "issueLink", ![f].discord = d]
  /\ UNCHANGED <<platform, row, token, warning, ban>>

\* The callback hands the browser a token that carries the identity.
DiscordIssue(f) == flow[f].at = "issueLink" /\ IssueToken(f, "link")

DiscordLink(f) ==
  /\ flow[f].at = "link"
  /\ IF DiscordFree(flow[f].discord, flow[f].row)
       THEN row' = [row EXCEPT ![flow[f].row].discord = flow[f].discord]
       ELSE UNCHANGED row
  /\ End(f)
  /\ UNCHANGED <<platform, token, warning, ban>>

DiscordUnlink ==
  /\ \E r \in Rows :
       /\ LiveRow(r) /\ row[r].discord # "none"
       /\ row' = [row EXCEPT ![r].discord = "none"]
  /\ UNCHANGED <<platform, token, warning, ban, flow>>

\* DELETE /account keeps the row and its name.
DeleteAccount ==
  /\ \E r \in Rows :
       /\ LiveRow(r)
       /\ row' = [row EXCEPT ![r].state = "deleted", ![r].discord = "none"]
  /\ UNCHANGED <<platform, token, warning, ban, flow>>

\* ensurePlatformSettings and the first administrator, before setup.
RegistrationInit ==
  /\ platform = [complete |-> FALSE, pass |-> FALSE, open |-> FALSE, bootstrap |-> TRUE,
                 must |-> TRUE, verified |-> FALSE, nodes |-> FALSE,
                 changed |-> FALSE, enrolled |-> FALSE, hosted |-> FALSE]  \* the last three record what happened
  /\ row = <<>> /\ token = [t \in Tokens |-> NoToken]
  /\ warning = {} /\ ban = {}
  /\ flow = [f \in Flows |-> NoFlow]

RegistrationNext ==
  \/ RequirementsCheck \/ AdminPassword \/ AdminTotp \/ ResetAdminPassword \/ NodeAdded
  \/ NodeRemoved
  \/ WarningExpires \/ BanEnds \/ PruneToken \/ DiscordStart \/ DiscordUnlink \/ DeleteAccount
  \/ \E f \in Flows :
       \/ SetupComplete(f) \/ SetupCount(f) \/ SetupWrite(f)
       \/ ScreenStart(f) \/ ScreenRead(f) \/ ScreenWarn(f) \/ ScreenBan(f)
       \/ RegisterIssue(f) \/ RegisterPeek(f) \/ ConsumeToken(f)
       \/ RegisterTaken(f) \/ RegisterCreate(f)
       \/ DiscordIssue(f) \/ DiscordCallback(f) \/ DiscordProfile(f) \/ DiscordLink(f)

RegistrationSpec == RegistrationInit /\ [][RegistrationNext]_registrationVars

(***************************************************************************)
(* Properties                                                              *)
(***************************************************************************)

\* A name belongs to one row for ever: that of a deleted account stays
\* reserved, whatever two registrations that were enrolling when it was
\* released, or both had found it free, do next.
NamesReserved ==
  \A r, q \in Rows : r # q => row[r].name # row[q].name

\* Accounts are registered, and setup is final, only behind the gates: the
\* administrator has set a password and an authenticator (a later reset from
\* the console undoes neither), a node had been registered (it may have been
\* removed since, before or after the settings are written), and the default
\* credential is retired.
SetupGated ==
  /\ row # <<>> => platform.complete
  /\ platform.complete =>
       platform.changed /\ platform.enrolled /\ platform.hosted /\ ~ platform.bootstrap

\* No account ever has an abusive name.
NoAbusiveNames == \A r \in Rows : row[r].name \notin Abusive

RegistrationSafe == NamesReserved /\ SetupGated /\ NoAbusiveNames
=============================================================================
