----------------------------- MODULE Authority -----------------------------
(***************************************************************************)
(* Who may do what on one server: its members (routes/servers.ts), API     *)
(* keys (routes/api-keys.ts, plugins/auth.ts) and requests for more access *)
(* (routes/panel-accounts.ts).  Each handler resolves what its caller may  *)
(* do, reads the row it is about and writes it, and waits for the database *)
(* in between: what a member may do can change meanwhile.  The callers are *)
(* the server's owner, an administrator of the panel and the members.      *)
(***************************************************************************)
EXTENDS FiniteSets, Integers

CONSTANTS
  Members,     \* ordinary accounts that are or become members
  Perms,       \* Permission; "members" stands for server:members
  RolePermissions,  \* ROLE_PERMISSIONS: role -> what it may do
  ApiKeys,     \* API keys
  Requests,    \* requests in flight
  MaxRequests  \* bound on requests

ASSUME AuthorityAssumption ==
  /\ "members" \in Perms
  /\ "admin" \in DOMAIN RolePermissions /\ \A role \in DOMAIN RolePermissions : RolePermissions[role] \subseteq Perms
  /\ {"owner", "admin", "none"} \cap Members = {} /\ "none" \notin ApiKeys /\ MaxRequests \in Nat

VARIABLES
  member,    \* account -> its ServerMember row, role "none" without one
  key,       \* API keys: [of, perms, state]
  ask,       \* accounts with an AccessRequest that is PENDING
  request,   \* requests in flight
  requests,  \* number of requests begun
  released,  \* permissions ever given out by the owner or the administrator
  crossed    \* whether the overrides of a membership were cleared for a role it no longer had when
             \* they were (both record what happened)

authorityVars == <<member, key, ask, request, requests, released, crossed>>

Roles == DOMAIN RolePermissions
RoleDefault(role) == IF role \in Roles THEN RolePermissions[role] ELSE {}

\* A membership without overrides has what its role has.
Effective(m) == IF m.role = "none" THEN {}
                ELSE IF m.perms # {} THEN m.perms ELSE RoleDefault(m.role)

NoRequest == [at |-> "free", who |-> "none", held |-> {}, target |-> "none", seen |-> [role |-> "none", perms |-> {}],
              role |-> "none", perms |-> {}]

(***************************************************************************)
(* resolveServerAccess                                                     *)
(***************************************************************************)

\* What caller w may do on the server, through key k where it is not "none".
AccountAccess(w) ==
  CASE w = "owner" -> Perms
    [] w = "admin" -> RoleDefault("admin")
    [] OTHER -> Effective(member[w])

ServerAccess(w, k) ==
  IF k = "none" THEN AccountAccess(w) ELSE AccountAccess(w) \cap key[k].perms

Callers == {"owner", "admin"} \cup {a \in Members : member[a].role # "none"}

Usable(w, k) == k # "none" => key[k].state = "live" /\ key[k].of = w

BeginRequest(c, rec) ==
  /\ request[c].at = "free" /\ requests < MaxRequests
  /\ requests' = requests + 1
  /\ request' = [request EXCEPT ![c] = rec]

EndRequest(c) == request' = [request EXCEPT ![c] = NoRequest]

\* Nobody adds or patches a membership of their own; they may delete it.
Resolve(c) ==
  \E w \in Callers, k \in ApiKeys \cup {"none"}, t \in Members :
    /\ Usable(w, k)
    /\ "members" \in ServerAccess(w, k)
    /\ \E pc \in {"add", "patch", "remove"} :
         /\ t = w => pc = "remove"
         /\ BeginRequest(c, [NoRequest EXCEPT !.at = pc, !.who = w, !.held = ServerAccess(w, k), !.target = t])
    /\ UNCHANGED <<member, key, ask, released, crossed>>

\* Mutated: an empty list of overrides needs no permission to give.
CanDelegateMut(held, role, perms) == perms \subseteq held

\* assertCanDelegate.
CanDelegate(held, role, perms) ==
  (IF perms # {} THEN perms ELSE RoleDefault(role)) \subseteq held

Release(w, m) == released' = released \cup IF w \in {"owner", "admin"} THEN Effective(m) ELSE {}

\* POST /servers/:id/members upserts the row.
AddMember(c) ==
  /\ request[c].at = "add"
  /\ \/ \E role \in Roles, perms \in SUBSET Perms :
          LET m == [role |-> role, perms |-> perms]
          IN  /\ CanDelegate(request[c].held, role, perms)
              /\ member' = [member EXCEPT ![request[c].target] = m]
              /\ Release(request[c].who, m)
     \/ UNCHANGED <<member, released>>
  /\ EndRequest(c)
  /\ UNCHANGED <<key, ask, requests, crossed>>

\* PATCH reads the row first; a body may give the role, the overrides or both.
PatchRead(c) ==
  /\ request[c].at = "patch"
  /\ IF member[request[c].target].role = "none" THEN EndRequest(c)
     ELSE request' = [request EXCEPT ![c].at = "patchWrite", ![c].seen = member[request[c].target]]
  /\ UNCHANGED <<member, key, ask, requests, released, crossed>>

PatchWrite(c) ==
  LET t == request[c].target
  IN  /\ request[c].at = "patchWrite"
      /\ \/ /\ member[t].role # "none"
            /\ \E role \in Roles, perms \in SUBSET Perms :
                 \/ /\ CanDelegate(request[c].held, role, {})
                    /\ member' = [member EXCEPT ![t].role = role]
                    /\ UNCHANGED crossed
                 \/ /\ CanDelegate(request[c].held, request[c].seen.role, perms)
                    /\ member' = [member EXCEPT ![t].perms = perms]
                    /\ crossed' = (crossed \/ (perms = {} /\ member[t].role # request[c].seen.role))
                 \/ /\ CanDelegate(request[c].held, role, perms)
                    /\ member' = [member EXCEPT ![t] = [role |-> role, perms |-> perms]]
                    /\ UNCHANGED crossed
            /\ Release(request[c].who, member'[t])
         \/ UNCHANGED <<member, released, crossed>>
      /\ EndRequest(c)
      /\ UNCHANGED <<key, ask, requests>>

\* DELETE; an account's key and requests stay.
RemoveMember(c) ==
  /\ request[c].at = "remove"
  /\ member' = [member EXCEPT ![request[c].target] = [role |-> "none", perms |-> {}]]
  /\ EndRequest(c)
  /\ UNCHANGED <<key, ask, requests, released, crossed>>

(***************************************************************************)
(* API keys: the permissions of a key are held when it is made             *)
(***************************************************************************)

CreateKey ==
  /\ \E k \in ApiKeys, w \in Callers \ {"admin"}, perms \in SUBSET Perms :
       /\ key[k].state = "none"
       /\ perms # {} /\ perms \subseteq AccountAccess(w)
       /\ key' = [key EXCEPT ![k] = [of |-> w, perms |-> perms, state |-> "live"]]
  /\ UNCHANGED <<member, ask, request, requests, released, crossed>>

\* Revoked by its owner, or past its expiry.
EndKey ==
  /\ \E k \in ApiKeys : key[k].state = "live" /\ key' = [key EXCEPT ![k].state = "dead"]
  /\ UNCHANGED <<member, ask, request, requests, released, crossed>>

(***************************************************************************)
(* Access requests                                                         *)
(***************************************************************************)

AskForAccess ==
  /\ \E a \in Members :
       /\ member[a].role # "none" /\ a \notin ask
       /\ ask' = ask \cup {a}
  /\ UNCHANGED <<member, key, request, requests, released, crossed>>

Withdraw ==
  /\ \E a \in ask : ask' = ask \ {a}
  /\ UNCHANGED <<member, key, request, requests, released, crossed>>

\* A decision reads the request and, for a server, what the reviewer may do
\* there.  The permissions asked for are any of them.
Decide(c) ==
  /\ \E a \in ask :
       BeginRequest(c, [NoRequest EXCEPT !.at = "decide", !.who = "admin", !.target = a,
                                   !.held = AccountAccess("admin")])
  /\ UNCHANGED <<member, key, ask, released, crossed>>

\* Denied; refused; or the membership is read, to be added to.
DecideRead(c) ==
  LET t == request[c].target
  IN  /\ request[c].at = "decide"
      /\ \/ /\ ask' = ask \ {t}
            /\ EndRequest(c)
         \/ /\ EndRequest(c) /\ UNCHANGED ask
         \/ /\ member[t].role # "none"
            /\ \E p \in (SUBSET request[c].held) \ {{}} :
                 request' = [request EXCEPT ![c].at = "grant", ![c].perms = p, ![c].seen = member[t]]
            /\ UNCHANGED ask
      /\ UNCHANGED <<member, key, requests, released, crossed>>

\* applyServerGrant materialises what the row it read had, and adds to it; the
\* request is marked by its id (a newer one, which this drops too, can be made again).
ApplyServerGrant(c) ==
  LET t == request[c].target
      new == Effective(request[c].seen) \cup request[c].perms
  IN  /\ request[c].at = "grant"
      /\ IF member[t].role = "none"
           THEN UNCHANGED <<member, ask, released>>
           ELSE /\ member' = [member EXCEPT ![t].perms = new]
                /\ ask' = ask \ {t}
                /\ released' = released \cup request[c].perms
      /\ EndRequest(c)
      /\ UNCHANGED <<key, requests, crossed>>

NoMember == [role |-> "none", perms |-> {}]

AuthorityInit ==
  /\ member = [a \in Members |-> NoMember]
  /\ key = [k \in ApiKeys |-> [of |-> "none", perms |-> {}, state |-> "none"]]
  /\ ask = {}
  /\ request = [c \in Requests |-> NoRequest]
  /\ requests = 0
  /\ released = {} /\ crossed = FALSE

AuthorityNext ==
  \/ \E c \in Requests :
       \/ Resolve(c) \/ AddMember(c) \/ PatchRead(c) \/ PatchWrite(c) \/ RemoveMember(c)
       \/ Decide(c) \/ DecideRead(c) \/ ApplyServerGrant(c)
  \/ CreateKey \/ EndKey \/ AskForAccess \/ Withdraw

AuthoritySpec == AuthorityInit /\ [][AuthorityNext]_authorityVars

(***************************************************************************)
(* Properties                                                              *)
(***************************************************************************)

\* Delegation creates nothing: every permission a member has on the server was
\* given out, at some time, by its owner or an administrator, through however
\* many members, keys and approvals it came: so long as no request clears the
\* overrides of a membership whose role has changed since the request read it.
DelegatedOnly == ~ crossed => \A a \in Members : Effective(member[a]) \subseteq released
=============================================================================
