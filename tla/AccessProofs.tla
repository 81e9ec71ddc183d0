---------------------------- MODULE AccessProofs ----------------------------
(***************************************************************************)
(* What holds of who may come in and do what, for every set of accounts,   *)
(* permissions, requests and handlers: the rate limits, the members of a   *)
(* server, the assistant, signing in, registering and the names that may   *)
(* be taken.                                                               *)
(***************************************************************************)
EXTENDS RateLimit, Authority, Assistant, SignIn, Registration, Usernames, FiniteSetTheorems, SequenceTheorems, WellFoundedInduction, TLAPS

(***************************************************************************)
(* The rate limits.                                                        *)
(***************************************************************************)
Entries == [count : Nat, expires : Nat]

RateLimitTyped ==
  /\ instant \in Nat \ {0} /\ passed \in Nat
  /\ counter \in Entries /\ cached \in Entries
  /\ consumer \in [Consumers -> Entries]

\* Every request that was let through is counted in the row.
CountedFirst == passed <= counter.count /\ passed <= Points

\* An answer that has not expired is of the row's own window, and no further than the row,
\* unless a reset removed that window's row.
Follows(entry) ==
  entry.count > 0 /\ entry.expires > instant /\ entry.expires \notin overtaken =>
    counter.expires = entry.expires /\ entry.count <= counter.count

AnswersFollow == Follows(cached) /\ \A r \in Consumers : Follows(consumer[r])

RInv == RateLimitTyped /\ CountedFirst /\ AnswersFollow

\* What the row is to be follows the answers known: it is theirs, or all of them have expired.
LEMMA UpsertKeepsRInv ==
  ASSUME RInv, NEW r \in Consumers, Upsert(r)
  PROVE  RInv'
<1> USE RateLimitAssumption DEF RInv
<1> DEFINE fresh == counter.expires <= instant
           new == IF fresh THEN [consumer[r] EXCEPT !.count = 1] ELSE [counter EXCEPT !.count = @ + 1]
<1>1. /\ counter' = new /\ consumer' = [consumer EXCEPT ![r] = new]
      /\ passed' = (IF fresh THEN 0 ELSE passed) + (IF Allows(new.count) THEN 1 ELSE 0)
      /\ UNCHANGED <<instant, cached, overtaken>>
  BY DEF Upsert
<1>2. /\ new \in Entries
      /\ fresh => new.count = 1
      /\ ~fresh => new.count = counter.count + 1 /\ new.expires = counter.expires
  BY DEF RateLimitTyped, Entries
<1> HIDE DEF new
<1>3. passed' \in Nat /\ passed' <= new.count /\ passed' <= Points
  BY <1>1, <1>2 DEF RateLimitTyped, CountedFirst, Allows, Entries
<1>4. RateLimitTyped' BY <1>1, <1>2, <1>3 DEF RateLimitTyped
<1>5. ASSUME NEW entry \in Entries, Follows(entry), entry.count > 0,
             entry.expires > instant, entry.expires \notin overtaken
      PROVE  new.expires = entry.expires /\ entry.count <= new.count
  BY <1>2, <1>5 DEF Follows, RateLimitTyped, Entries
<1>6. Follows(cached)' BY <1>1, <1>5 DEF Follows, AnswersFollow, RateLimitTyped
<1>7. ASSUME NEW q \in Consumers PROVE Follows(consumer[q])'
  <2>1. CASE q = r BY <2>1, <1>1, <1>2 DEF Follows, RateLimitTyped, Entries
  <2>2. CASE q # r BY <2>2, <1>1, <1>5 DEF Follows, AnswersFollow, RateLimitTyped
  <2> QED BY <2>1, <2>2
<1> QED BY <1>1, <1>3, <1>4, <1>6, <1>7 DEF CountedFirst, AnswersFollow

\* A reset that removes the row marks its window, if an answer about it is still about.
LEMMA ResetKeepsRInv ==
  ASSUME RInv, NEW s \in Resetters, ResetRow(s)
  PROVE  RInv'
<1> USE RateLimitAssumption DEF RInv
<1>1. instant' = instant /\ cached' = cached /\ consumer' = consumer BY DEF ResetRow
<1>2. CASE counter' = NoEntry /\ passed' = 0 /\ overtaken' = overtaken \cup {a.expires : a \in AnswersOut}
  <2>1. NoEntry \in Entries /\ NoEntry.count = 0 /\ NoEntry.expires = 0 BY DEF NoEntry, Entries
  <2>2. ASSUME NEW entry \in {cached} \cup {consumer[r] : r \in Consumers}, Follows(entry),
               entry.count > 0, entry.expires > instant, entry.expires \notin overtaken'
        PROVE  FALSE
    <3>1. entry.expires \notin overtaken BY <1>2, <2>2
    <3>2. entry.expires = counter.expires BY <2>2, <3>1 DEF Follows
    <3>3. entry \in AnswersOut BY <2>2, <3>2 DEF AnswersOut
    <3> QED BY <1>2, <2>2, <3>3
  <2>3. Follows(cached)' BY <1>1, <2>2 DEF Follows, AnswersFollow
  <2>4. ASSUME NEW r \in Consumers PROVE Follows(consumer[r])'
    BY <1>1, <2>2 DEF Follows, AnswersFollow
  <2> QED BY <1>1, <1>2, <2>1, <2>3, <2>4 DEF RateLimitTyped, CountedFirst, AnswersFollow
<1>3. CASE UNCHANGED <<counter, passed, overtaken>>
  BY <1>1, <1>3 DEF RateLimitTyped, CountedFirst, AnswersFollow, Follows
<1> QED BY <1>2, <1>3 DEF ResetRow

\* Every request, reset, prune and tick keeps the invariant.
LEMMA RateLimitStep == RInv /\ [RateLimitNext]_rateLimitVars => RInv'
<1> SUFFICES ASSUME RInv, [RateLimitNext]_rateLimitVars PROVE RInv' OBVIOUS
<1> USE RateLimitAssumption DEF RInv
<1>0. NoEntry \in Entries /\ NoEntry.count = 0 /\ NoEntry.expires = 0 BY DEF NoEntry, Entries
<1>1. CASE Forget
  <2>1. cached' = NoEntry /\ UNCHANGED <<instant, counter, consumer, passed, overtaken>> BY <1>1 DEF Forget
  <2> QED BY <1>0, <2>1 DEF RateLimitTyped, CountedFirst, AnswersFollow, Follows
<1>2. ASSUME NEW r \in Consumers, Ask(r) PROVE RInv'
  <2> DEFINE asked == [count |-> 0, expires |-> instant + WindowLife]
  <2>1. /\ consumer' = [consumer EXCEPT ![r] = asked]
        /\ UNCHANGED <<instant, counter, cached, passed, overtaken>>
    BY <1>2 DEF Ask
  <2>2. asked \in Entries /\ asked.count = 0 BY DEF Entries, RateLimitTyped
  <2> HIDE DEF asked
  <2> QED BY <2>1, <2>2 DEF RateLimitTyped, CountedFirst, AnswersFollow, Follows
<1>3. ASSUME NEW r \in Consumers, Cache(r) PROVE RInv'
  <2>1. /\ cached' = consumer[r] /\ consumer' = [consumer EXCEPT ![r] = NoEntry]
        /\ UNCHANGED <<instant, counter, passed, overtaken>>
    BY <1>3 DEF Cache
  <2> QED BY <1>0, <2>1 DEF RateLimitTyped, CountedFirst, AnswersFollow, Follows
<1>4. ASSUME NEW r \in Consumers, StatementFails(r) PROVE RInv'
  <2>1. /\ consumer' = [consumer EXCEPT ![r] = NoEntry]
        /\ UNCHANGED <<instant, counter, cached, passed, overtaken>>
    BY <1>4 DEF StatementFails
  <2> QED BY <1>0, <2>1 DEF RateLimitTyped, CountedFirst, AnswersFollow, Follows
<1>5. ASSUME NEW s \in Resetters, ResetEntry(s) PROVE RInv'
  <2>1. cached' = NoEntry /\ UNCHANGED <<instant, counter, consumer, passed, overtaken>>
    BY <1>5 DEF ResetEntry
  <2> QED BY <1>0, <2>1 DEF RateLimitTyped, CountedFirst, AnswersFollow, Follows
<1>6. CASE PruneRateCounters
  <2>1. /\ counter.expires < instant /\ counter' = NoEntry /\ passed' = 0
        /\ UNCHANGED <<instant, cached, consumer, overtaken>>
    BY <1>6 DEF PruneRateCounters
  <2> QED BY <1>0, <2>1 DEF RateLimitTyped, CountedFirst, AnswersFollow, Follows, Entries
<1>7. CASE InstantPasses
  <2>1. instant' = instant + 1 /\ UNCHANGED <<counter, cached, consumer, passed, overtaken>>
    BY <1>7 DEF InstantPasses
  <2> QED BY <2>1 DEF RateLimitTyped, CountedFirst, AnswersFollow, Follows, Entries
<1>8. CASE UNCHANGED rateLimitVars
  BY <1>8 DEF rateLimitVars, RateLimitTyped, CountedFirst, AnswersFollow, Follows
<1> QED
  BY <1>1, <1>2, <1>3, <1>4, <1>5, <1>6, <1>7, <1>8, UpsertKeepsRInv, ResetKeepsRInv DEF RateLimitNext

\* A window lets no more through than it has points, and the cache refuses
\* nobody the row would not unless a reset removed that window's row, for any
\* number of requests and resets and any rule.
THEOREM WindowAlwaysBounded == RateLimitSpec => []WindowBounded
<1>1. RateLimitInit => RInv
  <2>1. NoEntry \in Entries /\ NoEntry.count = 0 /\ NoEntry.expires = 0 BY DEF NoEntry, Entries
  <2> QED
    BY <2>1, RateLimitAssumption DEF RateLimitInit, RInv, RateLimitTyped, CountedFirst, AnswersFollow, Follows
<1>2. RInv => WindowBounded
  BY RateLimitAssumption
     DEF RInv, RateLimitTyped, Entries, CountedFirst, AnswersFollow, Follows, WindowBounded, CacheDenies, Allows
<1> QED BY <1>1, <1>2, RateLimitStep, PTL DEF RateLimitSpec

(***************************************************************************)
(* Who may do what on a server.                                            *)
(***************************************************************************)
Memberships == [role : Roles \cup {"none"}, perms : SUBSET Perms]
Privileged == {"owner", "admin"}

\* A request is nobody's when its slot is free.
RequestRows ==
  [at : {"free", "add", "patch", "remove", "patchWrite", "decide", "grant"},
   who : Members \cup Privileged \cup {"none"}, held : SUBSET Perms, target : Members \cup {"none"},
   seen : Memberships, role : {"none"}, perms : SUBSET Perms]

AuthorityTyped ==
  /\ member \in [Members -> Memberships]
  /\ request \in [Requests -> RequestRows]
  /\ ask \subseteq Members
  /\ \A c \in Requests :
       /\ request[c].at # "free" => request[c].target \in Members
       /\ request[c].at = "grant" => request[c].perms # {}

\* What a member holds while its request is under way was given out, and so was
\* what the row gave that a request has read.
HeldWasReleased ==
  \A c \in Requests :
    /\ request[c].at # "free" /\ request[c].who \notin Privileged => request[c].held \subseteq released
    /\ Effective(request[c].seen) \subseteq released

MembersReleased == \A a \in Members : Effective(member[a]) \subseteq released

GInv == AuthorityTyped /\ (~ crossed => HeldWasReleased /\ MembersReleased)

\* A request begins, goes on, or ends; the others stay.
LEMMA RequestMoves ==
  ASSUME GInv, NEW c \in Requests, NEW rec \in RequestRows, request' = [request EXCEPT ![c] = rec],
         member' = member, ask' \subseteq Members, released \subseteq released', crossed' = crossed,
         rec.at # "free" => rec.target \in Members,
         rec.at = "grant" => rec.perms # {},
         ~ crossed => /\ rec.at # "free" /\ rec.who \notin Privileged => rec.held \subseteq released
                      /\ Effective(rec.seen) \subseteq released
  PROVE  GInv'
<1>1. request'[c] = rec /\ \A d \in Requests \ {c} : request'[d] = request[d]
  BY DEF GInv, AuthorityTyped
<1>2. AuthorityTyped' BY <1>1 DEF GInv, AuthorityTyped
<1>3. ASSUME ~ crossed PROVE HeldWasReleased' /\ MembersReleased'
  <2>1. HeldWasReleased /\ MembersReleased BY <1>3 DEF GInv
  <2>2. MembersReleased' BY <2>1 DEF MembersReleased, Effective, RoleDefault, Roles
  <2>3. ASSUME NEW d \in Requests
        PROVE  /\ request'[d].at # "free" /\ request'[d].who \notin Privileged => request'[d].held \subseteq released'
               /\ Effective(request'[d].seen) \subseteq released'
    <3>1. CASE d = c BY <1>1, <1>3, <3>1
    <3>2. CASE d # c BY <1>1, <2>1, <3>2 DEF HeldWasReleased
    <3> QED BY <3>1, <3>2
  <2> QED BY <2>2, <2>3 DEF HeldWasReleased, Effective
<1> QED BY <1>2, <1>3 DEF GInv

\* A slot that is free, and an account that is no member, hold nothing.
LEMMA FreeSlot ==
  /\ NoRequest \in RequestRows /\ NoRequest.at = "free" /\ Effective(NoRequest.seen) = {}
  /\ NoMember \in Memberships /\ Effective(NoMember) = {}
BY DEF NoRequest, RequestRows, Memberships, Effective, NoMember

\* A request that ends without touching a membership keeps the invariant.
LEMMA EndStep ==
  ASSUME GInv, NEW c \in Requests, EndRequest(c), member' = member, ask' \subseteq Members,
         released \subseteq released', crossed' = crossed
  PROVE  GInv'
BY FreeSlot, RequestMoves DEF EndRequest

\* A membership becomes one whose rights were given out, and the request ends.
LEMMA MemberMoves ==
  ASSUME GInv, NEW c \in Requests, EndRequest(c), NEW t \in Members, NEW m \in Memberships,
         member' = [member EXCEPT ![t] = m], ask' \subseteq Members, released \subseteq released',
         crossed => crossed', ~ crossed' => Effective(m) \subseteq released'
  PROVE  GInv'
<1>1. request' = [request EXCEPT ![c] = NoRequest] BY DEF EndRequest
<1>2. /\ request'[c] = NoRequest /\ \A d \in Requests \ {c} : request'[d] = request[d]
      /\ member'[t] = m /\ \A a \in Members \ {t} : member'[a] = member[a]
  BY <1>1 DEF GInv, AuthorityTyped
<1>3. AuthorityTyped'
  <2>1. member' \in [Members -> Memberships] /\ request' \in [Requests -> RequestRows]
    BY <1>1, FreeSlot DEF GInv, AuthorityTyped
  <2> QED BY <1>2, <2>1, FreeSlot DEF GInv, AuthorityTyped
<1>4. ASSUME ~ crossed' PROVE HeldWasReleased' /\ MembersReleased'
  <2>1. HeldWasReleased /\ MembersReleased BY <1>4 DEF GInv
  <2>2. \A a \in Members : Effective(member'[a]) \subseteq released'
    BY <1>2, <1>4, <2>1 DEF MembersReleased
  <2>3. \A d \in Requests :
          /\ request'[d].at # "free" /\ request'[d].who \notin Privileged => request'[d].held \subseteq released'
          /\ Effective(request'[d].seen) \subseteq released'
    BY <1>2, <2>1, FreeSlot DEF HeldWasReleased
  <2> QED BY <2>2, <2>3 DEF HeldWasReleased, MembersReleased, Effective
<1> QED BY <1>3, <1>4 DEF GInv

\* What is delegated and released by a request is what its row gives.
LEMMA Delegated ==
  ASSUME GInv, NEW c \in Requests, request[c].at # "free", NEW m \in Memberships,
         Release(request[c].who, m), Effective(m) \subseteq request[c].held \/ Effective(m) \subseteq released
  PROVE  released \subseteq released' /\ (~ crossed => Effective(m) \subseteq released')
BY DEF Release, GInv, HeldWasReleased, Privileged

\* Every step keeps the invariant.
LEMMA AuthorityStep == GInv /\ [AuthorityNext]_authorityVars => GInv'
<1> SUFFICES ASSUME GInv, [AuthorityNext]_authorityVars PROVE GInv' OBVIOUS
<1> USE AuthorityAssumption
<1>0. AuthorityTyped BY DEF GInv
<1>1. ASSUME NEW c \in Requests, Resolve(c) PROVE GInv'
  <2>1. PICK w \in Callers, k \in ApiKeys \cup {"none"}, t \in Members, pc \in {"add", "patch", "remove"} :
          BeginRequest(c, [NoRequest EXCEPT !.at = pc, !.who = w, !.held = ServerAccess(w, k), !.target = t])
    BY <1>1 DEF Resolve
  <2>2. UNCHANGED <<member, ask, released, crossed>> BY <1>1 DEF Resolve
  <2> DEFINE may == ServerAccess(w, k)
             rec == [NoRequest EXCEPT !.at = pc, !.who = w, !.held = may, !.target = t]
  <2>3. w \in Members \cup Privileged BY DEF Callers, Privileged
  <2>4. may \subseteq Perms /\ (w \notin Privileged => may \subseteq Effective(member[w]))
    <3>1. may \subseteq AccountAccess(w) BY DEF ServerAccess
    <3>2. CASE w \in Privileged
      BY <3>1, <3>2 DEF AccountAccess, Privileged, RoleDefault, Roles
    <3>3. CASE w \notin Privileged
      <4>1. AccountAccess(w) = Effective(member[w]) BY <3>3 DEF AccountAccess, Privileged
      <4>2. member[w] \in Memberships BY <1>0, <2>3, <3>3 DEF AuthorityTyped
      <4>3. Effective(member[w]) \subseteq Perms BY <4>2 DEF Effective, Memberships, RoleDefault, Roles
      <4> QED BY <3>1, <4>1, <4>3
    <3> QED BY <3>2, <3>3
  <2> HIDE DEF may
  <2>5. /\ rec \in RequestRows /\ rec.at = pc /\ rec.who = w /\ rec.held = may /\ rec.target = t
        /\ rec.seen = NoRequest.seen
    BY <2>3, <2>4, FreeSlot DEF RequestRows, NoRequest
  <2>6. request' = [request EXCEPT ![c] = rec] BY <2>1 DEF may, BeginRequest
  <2> HIDE DEF rec
  <2>7. ~ crossed /\ w \notin Privileged => may \subseteq released
    BY <2>3, <2>4 DEF GInv, MembersReleased
  <2>8. ~ crossed => /\ rec.at # "free" /\ rec.who \notin Privileged => rec.held \subseteq released
                     /\ Effective(rec.seen) \subseteq released
    BY <2>5, <2>7, FreeSlot
  <2>9. rec.target \in Members /\ rec.at # "grant" BY <2>5
  <2> QED BY <1>0, <2>2, <2>5, <2>6, <2>8, <2>9, RequestMoves DEF AuthorityTyped
<1>2. ASSUME NEW c \in Requests, AddMember(c) PROVE GInv'
  <2>1. EndRequest(c) /\ request[c].at = "add" /\ UNCHANGED <<ask, crossed>> BY <1>2 DEF AddMember
  <2>2. request[c].target \in Members /\ ask \subseteq Members BY <1>0, <2>1 DEF AuthorityTyped
  <2>3. CASE UNCHANGED <<member, released>> BY <2>1, <2>2, <2>3, EndStep
  <2>4. ASSUME NEW role \in Roles, NEW perms \in SUBSET Perms,
               CanDelegate(request[c].held, role, perms),
               member' = [member EXCEPT ![request[c].target] = [role |-> role, perms |-> perms]],
               Release(request[c].who, [role |-> role, perms |-> perms])
        PROVE  GInv'
    <3> DEFINE m == [role |-> role, perms |-> perms]
    <3>1. m \in Memberships BY DEF Memberships
    <3>2. Effective(m) \subseteq request[c].held BY <2>4 DEF CanDelegate, Effective
    <3> HIDE DEF m
    <3>3. released \subseteq released' /\ (~ crossed => Effective(m) \subseteq released')
      BY <2>1, <2>4, <3>1, <3>2, Delegated DEF m
    <3> QED BY <2>1, <2>2, <2>4, <3>1, <3>3, MemberMoves DEF m
  <2> QED BY <1>2, <2>3, <2>4 DEF AddMember
<1>3. ASSUME NEW c \in Requests, PatchRead(c) PROVE GInv'
  <2>1. request[c].at = "patch" /\ UNCHANGED <<member, ask, released, crossed>> BY <1>3 DEF PatchRead
  <2>2. request[c].target \in Members /\ ask \subseteq Members BY <1>0, <2>1 DEF AuthorityTyped
  <2>3. CASE EndRequest(c) BY <2>1, <2>2, <2>3, EndStep
  <2>4. CASE request' = [request EXCEPT ![c].at = "patchWrite", ![c].seen = member[request[c].target]]
    <3> DEFINE old == member[request[c].target]
               rec == [request[c] EXCEPT !.at = "patchWrite", !.seen = old]
    <3>1. old \in Memberships BY <1>0, <2>2 DEF AuthorityTyped
    <3>2. request[c] \in RequestRows BY <1>0 DEF AuthorityTyped
    <3>3. ~ crossed => Effective(old) \subseteq released BY <2>2 DEF GInv, MembersReleased
    <3>4. request' = [request EXCEPT ![c] = rec] BY <2>4
    <3> HIDE DEF old
    <3>5. /\ rec \in RequestRows /\ rec.at = "patchWrite" /\ rec.target = request[c].target
          /\ rec.who = request[c].who /\ rec.held = request[c].held /\ rec.seen = old
      BY <3>1, <3>2 DEF RequestRows
    <3> HIDE DEF rec
    <3>6. ~ crossed /\ request[c].who \notin Privileged => request[c].held \subseteq released
      BY <2>1 DEF GInv, HeldWasReleased
    <3> QED BY <2>1, <2>2, <3>3, <3>4, <3>5, <3>6, RequestMoves
  <2> QED BY <1>3, <2>3, <2>4 DEF PatchRead
<1>4. ASSUME NEW c \in Requests, PatchWrite(c) PROVE GInv'
  <2> DEFINE t == request[c].target
             old == member[t]
  <2>1. EndRequest(c) /\ request[c].at = "patchWrite" /\ ask' = ask BY <1>4 DEF PatchWrite
  <2>2. t \in Members /\ ask \subseteq Members /\ old \in Memberships BY <1>0, <2>1 DEF AuthorityTyped
  <2>3. CASE UNCHANGED <<member, released, crossed>> BY <2>1, <2>2, <2>3, EndStep
  <2>4. ASSUME NEW m \in Memberships, member' = [member EXCEPT ![t] = m], Release(request[c].who, member'[t]),
               crossed => crossed',
               ~ crossed' => Effective(m) \subseteq request[c].held \/ Effective(m) \subseteq released
        PROVE  GInv'
    <3>1. member'[t] = m BY <1>0, <2>2, <2>4 DEF AuthorityTyped
    <3>2. released \subseteq released' BY <2>4 DEF Release
    <3>3. ~ crossed' => Effective(m) \subseteq released' BY <2>1, <2>4, <3>1, Delegated
    <3> QED BY <2>1, <2>2, <2>4, <3>2, <3>3, MemberMoves
  <2>5. old.role # "none" /\ old.perms # {} /\ ~ crossed => old.perms \subseteq released
    BY <2>2 DEF GInv, MembersReleased, Effective
  <2>6. ASSUME NEW role \in Roles, NEW perms \in SUBSET Perms, old.role # "none", Release(request[c].who, member'[t]),
               \/ /\ CanDelegate(request[c].held, role, {})
                  /\ member' = [member EXCEPT ![t].role = role] /\ UNCHANGED crossed
               \/ /\ CanDelegate(request[c].held, request[c].seen.role, perms)
                  /\ member' = [member EXCEPT ![t].perms = perms]
                  /\ crossed' = (crossed \/ (perms = {} /\ old.role # request[c].seen.role))
               \/ /\ CanDelegate(request[c].held, role, perms)
                  /\ member' = [member EXCEPT ![t] = [role |-> role, perms |-> perms]] /\ UNCHANGED crossed
        PROVE  GInv'
    <3>1. CASE /\ CanDelegate(request[c].held, role, {})
               /\ member' = [member EXCEPT ![t].role = role] /\ UNCHANGED crossed
      <4> DEFINE m == [old EXCEPT !.role = role]
      <4>1. m \in Memberships /\ m.role = role /\ m.perms = old.perms BY <2>2 DEF Memberships
      <4>2. member' = [member EXCEPT ![t] = m] BY <3>1
      <4> HIDE DEF m
      <4>3. ~ crossed => Effective(m) \subseteq request[c].held \/ Effective(m) \subseteq released
        BY <2>5, <2>6, <3>1, <4>1 DEF CanDelegate, Effective
      <4> QED BY <2>4, <2>6, <3>1, <4>1, <4>2, <4>3
    <3>2. CASE /\ CanDelegate(request[c].held, request[c].seen.role, perms)
               /\ member' = [member EXCEPT ![t].perms = perms]
               /\ crossed' = (crossed \/ (perms = {} /\ old.role # request[c].seen.role))
      <4> DEFINE m == [old EXCEPT !.perms = perms]
      <4>1. m \in Memberships /\ m.role = old.role /\ m.perms = perms BY <2>2 DEF Memberships
      <4>2. member' = [member EXCEPT ![t] = m] BY <3>2
      <4> HIDE DEF m
      <4>3. ~ crossed' => Effective(m) \subseteq request[c].held \/ Effective(m) \subseteq released
        BY <3>2, <4>1 DEF CanDelegate, Effective
      <4> QED BY <2>4, <2>6, <3>2, <4>1, <4>2, <4>3
    <3>3. CASE /\ CanDelegate(request[c].held, role, perms)
               /\ member' = [member EXCEPT ![t] = [role |-> role, perms |-> perms]] /\ UNCHANGED crossed
      <4> DEFINE m == [role |-> role, perms |-> perms]
      <4>1. m \in Memberships BY DEF Memberships
      <4>2. Effective(m) \subseteq request[c].held BY <3>3 DEF CanDelegate, Effective
      <4> HIDE DEF m
      <4> QED BY <2>4, <2>6, <3>3, <4>1, <4>2 DEF m
    <3> QED BY <2>6, <3>1, <3>2, <3>3
  <2> QED BY <1>4, <2>3, <2>6 DEF PatchWrite
<1>5. ASSUME NEW c \in Requests, RemoveMember(c) PROVE GInv'
  <2>1. /\ EndRequest(c) /\ request[c].at = "remove" /\ member' = [member EXCEPT ![request[c].target] = NoMember]
        /\ UNCHANGED <<ask, released, crossed>>
    BY <1>5 DEF RemoveMember, NoMember
  <2>2. request[c].target \in Members /\ ask \subseteq Members BY <1>0, <2>1 DEF AuthorityTyped
  <2> QED BY <2>1, <2>2, FreeSlot, MemberMoves
<1>6. ASSUME NEW c \in Requests, Decide(c) PROVE GInv'
  <2>1. PICK a \in ask :
          request' = [request EXCEPT ![c] = [NoRequest EXCEPT !.at = "decide", !.who = "admin", !.target = a,
                                                              !.held = AccountAccess("admin")]]
    BY <1>6 DEF Decide, BeginRequest
  <2>2. UNCHANGED <<member, ask, released, crossed>> BY <1>6 DEF Decide
  <2> DEFINE may == AccountAccess("admin")
             rec == [NoRequest EXCEPT !.at = "decide", !.who = "admin", !.target = a, !.held = may]
  <2>3. may \subseteq Perms BY DEF AccountAccess, RoleDefault, Roles
  <2> HIDE DEF may
  <2>4. a \in Members /\ ask \subseteq Members BY <1>0 DEF AuthorityTyped
  <2>5. rec \in RequestRows /\ rec.at = "decide" /\ rec.who = "admin" /\ rec.target = a /\ rec.seen = NoRequest.seen
    BY <2>3, <2>4, FreeSlot DEF RequestRows, NoRequest, Privileged
  <2>6. request' = [request EXCEPT ![c] = rec] BY <2>1 DEF may
  <2> HIDE DEF rec
  <2> QED BY <2>2, <2>4, <2>5, <2>6, FreeSlot, RequestMoves DEF Privileged
<1>7. ASSUME NEW c \in Requests, DecideRead(c) PROVE GInv'
  <2>1. request[c].at = "decide" /\ UNCHANGED <<member, released, crossed>> BY <1>7 DEF DecideRead
  <2>2. request[c].target \in Members /\ ask \subseteq Members BY <1>0, <2>1 DEF AuthorityTyped
  <2>3. CASE EndRequest(c) /\ ask' \subseteq ask BY <2>1, <2>2, <2>3, EndStep
  <2>4. ASSUME NEW p \in (SUBSET request[c].held) \ {{}}, UNCHANGED ask,
               request' = [request EXCEPT ![c].at = "grant", ![c].perms = p, ![c].seen = member[request[c].target]]
        PROVE  GInv'
    <3> DEFINE old == member[request[c].target]
               rec == [request[c] EXCEPT !.at = "grant", !.perms = p, !.seen = old]
    <3>1. old \in Memberships BY <1>0, <2>2 DEF AuthorityTyped
    <3>2. request[c] \in RequestRows BY <1>0 DEF AuthorityTyped
    <3>3. ~ crossed => Effective(old) \subseteq released BY <2>2 DEF GInv, MembersReleased
    <3>4. request' = [request EXCEPT ![c] = rec] BY <2>4
    <3>5. p \in SUBSET Perms /\ p # {} BY <2>4, <3>2 DEF RequestRows
    <3> HIDE DEF old
    <3>6. /\ rec \in RequestRows /\ rec.at = "grant" /\ rec.target = request[c].target /\ rec.perms = p
          /\ rec.who = request[c].who /\ rec.held = request[c].held /\ rec.seen = old
      BY <3>1, <3>2, <3>5 DEF RequestRows
    <3> HIDE DEF rec
    <3>7. ~ crossed /\ request[c].who \notin Privileged => request[c].held \subseteq released
      BY <2>1 DEF GInv, HeldWasReleased
    <3> QED BY <2>1, <2>2, <2>4, <3>3, <3>4, <3>5, <3>6, <3>7, RequestMoves
  <2> QED BY <1>7, <2>3, <2>4 DEF DecideRead
<1>8. ASSUME NEW c \in Requests, ApplyServerGrant(c) PROVE GInv'
  <2> DEFINE t == request[c].target
             new == Effective(request[c].seen) \cup request[c].perms
             old == member[t]
  <2>1. EndRequest(c) /\ request[c].at = "grant" /\ crossed' = crossed BY <1>8 DEF ApplyServerGrant
  <2>2. t \in Members /\ ask \subseteq Members /\ old \in Memberships /\ request[c].perms # {}
    BY <1>0, <2>1 DEF AuthorityTyped
  <2>3. CASE UNCHANGED <<member, ask, released>> BY <2>1, <2>2, <2>3, EndStep
  <2>4. CASE member' = [member EXCEPT ![t].perms = new]
             /\ ask' = ask \ {t} /\ released' = released \cup request[c].perms
    <3> DEFINE m == [old EXCEPT !.perms = new]
    <3>1. request[c] \in RequestRows BY <1>0 DEF AuthorityTyped
    <3>2. new \subseteq Perms /\ new # {}
      BY <2>2, <3>1 DEF RequestRows, Memberships, Effective, RoleDefault, Roles
    <3>3. ~ crossed => new \subseteq released' BY <2>4 DEF GInv, HeldWasReleased
    <3>4. member' = [member EXCEPT ![t] = m] BY <2>4
    <3> HIDE DEF new
    <3>5. m \in Memberships /\ m.perms = new BY <2>2, <3>2 DEF Memberships
    <3> HIDE DEF m
    <3>6. Effective(m) \subseteq new BY <3>2, <3>5 DEF Effective
    <3> QED BY <2>1, <2>2, <2>4, <3>3, <3>4, <3>5, <3>6, MemberMoves
  <2> QED BY <1>8, <2>3, <2>4 DEF ApplyServerGrant
<1>9. ASSUME UNCHANGED <<member, request, released, crossed>>, ask' \subseteq Members PROVE GInv'
  BY <1>9 DEF GInv, AuthorityTyped, HeldWasReleased, MembersReleased, Effective
<1>10. CASE CreateKey \/ EndKey \/ AskForAccess \/ Withdraw \/ UNCHANGED authorityVars
  <2>1. UNCHANGED <<member, request, released, crossed>>
    BY <1>10 DEF CreateKey, EndKey, AskForAccess, Withdraw, authorityVars
  <2>2. ask' \subseteq Members
    BY <1>0, <1>10 DEF AuthorityTyped, CreateKey, EndKey, AskForAccess, Withdraw, authorityVars
  <2> QED BY <1>9, <2>1, <2>2
<1> QED BY <1>1, <1>2, <1>3, <1>4, <1>5, <1>6, <1>7, <1>8, <1>10 DEF AuthorityNext

\* Whatever a member can do was given out (routes/servers.ts), so long as no overrides
\* were cleared for a role another request had changed meanwhile.
THEOREM AlwaysDelegated == AuthoritySpec => []DelegatedOnly
<1>1. AuthorityInit => GInv
  <2> SUFFICES ASSUME AuthorityInit PROVE GInv OBVIOUS
  <2>1. AuthorityTyped BY FreeSlot DEF AuthorityInit, AuthorityTyped
  <2>2. MembersReleased BY FreeSlot DEF AuthorityInit, MembersReleased
  <2>3. HeldWasReleased BY FreeSlot DEF AuthorityInit, HeldWasReleased
  <2> QED BY <2>1, <2>2, <2>3 DEF GInv
<1>2. GInv => DelegatedOnly BY DEF GInv, MembersReleased, DelegatedOnly
<1> QED BY <1>1, <1>2, AuthorityStep, PTL DEF AuthoritySpec

(***************************************************************************)
(* The assistant.                                                          *)
(***************************************************************************)
\* An action that is about to run is one that the account may do, by what it
\* could do when it approved.
ApprovedMayRun ==
  \A r \in Reviews : review[r].at = "execute" =>
    Permits(review[r].may, review[r].seen[review[r].i].kind)

VInv ==
  /\ DOMAIN dialogue = Dialogues /\ DOMAIN review = Reviews
  /\ ApprovedMayRun /\ ApprovalHolds

\* What is kept of a reply is empty just when it has no places.
LEMMA KeptIsEmpty ==
  ASSUME NEW permissions, NEW reply \in Seq(Proposable)
  PROVE  LET Performable(k) == Permits(permissions, k)
             kept == SelectSeq(reply, Performable)
         IN  kept = <<>> <=> DOMAIN kept = {}
OBVIOUS

\* A request that is not about to run anything needs no permission.
LEMMA ReviewMoves ==
  ASSUME VInv, NEW r \in Reviews, NEW rec, review' = [review EXCEPT ![r] = rec], rec.at # "execute"
  PROVE  DOMAIN review' = Reviews /\ ApprovedMayRun'
BY DEF VInv, ApprovedMayRun

\* Every step keeps the invariant.
LEMMA AssistantStep == VInv /\ [AssistantNext]_assistantVars => VInv'
<1> SUFFICES ASSUME VInv, [AssistantNext]_assistantVars PROVE VInv' OBVIOUS
<1>0. NoReview.at = "free" BY DEF NoReview
<1>1. CASE DeleteProvider
  <2>1. /\ UNCHANGED <<review, ran>>
        /\ dialogue' = [d \in Dialogues |-> IF dialogue[d].status = "new" THEN dialogue[d]
                                            ELSE [status |-> "gone", actions |-> <<>>]]
    BY <1>1 DEF DeleteProvider
  <2>2. ApprovedMayRun' BY <2>1 DEF VInv, ApprovedMayRun
  <2>3. ApprovalHolds' BY <2>1 DEF VInv, ApprovalHolds
  <2> QED BY <2>1, <2>2, <2>3 DEF VInv
<1>2. ASSUME NEW r \in Reviews, Diagnose(r) PROVE VInv'
  <2>1. /\ review' = [review EXCEPT ![r] = [NoReview EXCEPT !.at = "asking", !.may = held]]
        /\ UNCHANGED <<dialogue, ran>>
    BY <1>2 DEF Diagnose, BeginReview
  <2>2. [NoReview EXCEPT !.at = "asking", !.may = held].at = "asking" BY DEF NoReview
  <2> QED BY <2>1, <2>2, ReviewMoves DEF VInv, ApprovalHolds
<1>3. ASSUME NEW r \in Reviews, DiagnoseReply(r) PROVE VInv'
  <2>1. review' = [review EXCEPT ![r] = NoReview] /\ ran' = ran BY <1>3 DEF DiagnoseReply, EndReview
  <2>2. ApprovalHolds'
    <3>1. CASE UNCHANGED dialogue BY <2>1, <3>1 DEF VInv, ApprovalHolds
    <3>2. CASE ~ UNCHANGED dialogue
      <4> DEFINE Performable(k) == Permits(review[r].may, k)
                 kept(reply) == SelectSeq(reply, Performable)
      <4>1. PICK reply \in Replies, d \in Dialogues :
              dialogue' = [dialogue EXCEPT ![d] =
                [status |-> IF kept(reply) = <<>> THEN "closed" ELSE "awaiting_approval",
                 actions |-> [i \in DOMAIN kept(reply) |-> [kind |-> kept(reply)[i], status |-> "pending"]]]]
        BY <1>3, <3>2 DEF DiagnoseReply
      <4>2. reply \in Seq(Proposable) BY AssistantAssumption DEF Replies
      <4>3. kept(reply) = <<>> <=> DOMAIN kept(reply) = {} BY <4>2, KeptIsEmpty
      <4> HIDE DEF kept
      <4>4. /\ dialogue'[d].status = StatusOf(dialogue'[d].actions)
            /\ \A e \in Dialogues \ {d} : dialogue'[e] = dialogue[e]
        BY <4>1, <4>3 DEF VInv, StatusOf
      <4> QED BY <2>1, <4>4 DEF VInv, ApprovalHolds
    <3> QED BY <3>1, <3>2
  <2>3. DOMAIN dialogue' = Dialogues BY <1>3 DEF DiagnoseReply, VInv
  <2> QED BY <1>0, <2>1, <2>2, <2>3, ReviewMoves DEF VInv
<1>4. ASSUME NEW r \in Reviews, Approve(r) PROVE VInv'
  <2>1. UNCHANGED <<dialogue, ran, held>> BY <1>4 DEF Approve
  <2>0. PICK d \in Dialogues : \E i \in DOMAIN dialogue[d].actions :
          /\ MayApprove(dialogue[d].actions[i].kind)
          /\ review' = [review EXCEPT ![r] = [NoReview EXCEPT !.at = "execute", !.d = d, !.i = i, !.may = held,
                                                              !.seen = dialogue[d].actions]]
    BY <1>4 DEF Approve, BeginReview
  <2>2. PICK i \in DOMAIN dialogue[d].actions :
          /\ MayApprove(dialogue[d].actions[i].kind)
          /\ review' = [review EXCEPT ![r] = [NoReview EXCEPT !.at = "execute", !.d = d, !.i = i, !.may = held,
                                                              !.seen = dialogue[d].actions]]
    BY <2>0
  <2> DEFINE rec == [NoReview EXCEPT !.at = "execute", !.d = d, !.i = i, !.may = held, !.seen = dialogue[d].actions]
  <2>3. rec.may = held /\ rec.i = i /\ rec.seen = dialogue[d].actions BY DEF NoReview
  <2>4. review'[r] = rec /\ \A q \in Reviews \ {r} : review'[q] = review[q] BY <2>2 DEF VInv
  <2> HIDE DEF rec
  <2>5. ApprovedMayRun' BY <2>2, <2>3, <2>4 DEF VInv, ApprovedMayRun, MayApprove
  <2> QED BY <2>1, <2>2, <2>5 DEF VInv, ApprovalHolds
<1>5. ASSUME NEW r \in Reviews, Execute(r) PROVE VInv'
  <2> DEFINE kind == review[r].seen[review[r].i].kind
  <2>1. review[r].at = "execute" /\ dialogue' = dialogue BY <1>5 DEF Execute
  <2>2. CASE EndReview(r) /\ ran' = ran
    BY <1>0, <2>1, <2>2, ReviewMoves DEF VInv, ApprovalHolds, EndReview
  <2>3. CASE /\ kind # "reinstall_server" /\ review' = [review EXCEPT ![r].at = "approved"]
             /\ ran' = ran \cup {[kind |-> kind, permitted |-> Permits(review[r].may, kind)]}
    <3>1. Permits(review[r].may, kind) BY <2>1 DEF VInv, ApprovedMayRun
    <3>2. /\ DOMAIN review' = Reviews /\ review'[r].at # "execute"
          /\ \A q \in Reviews \ {r} : review'[q] = review[q]
      BY <2>1, <2>3 DEF VInv
    <3>3. ApprovedMayRun' BY <3>2 DEF VInv, ApprovedMayRun
    <3> HIDE DEF kind
    <3>4. \A a \in ran' : a.permitted /\ a.kind # "reinstall_server" BY <2>3, <3>1 DEF VInv, ApprovalHolds
    <3> QED BY <2>1, <3>2, <3>3, <3>4 DEF VInv, ApprovalHolds
  <2> QED BY <1>5, <2>2, <2>3 DEF Execute
<1>6. ASSUME NEW r \in Reviews, Reject(r) PROVE VInv'
  <2>1. UNCHANGED <<dialogue, ran>> BY <1>6 DEF Reject
  <2>0. PICK d \in Dialogues : \E i \in DOMAIN dialogue[d].actions :
          review' = [review EXCEPT ![r] = [NoReview EXCEPT !.at = "rejected", !.d = d, !.i = i,
                                                           !.seen = dialogue[d].actions]]
    BY <1>6 DEF Reject, BeginReview
  <2>2. PICK i \in DOMAIN dialogue[d].actions :
          review' = [review EXCEPT ![r] = [NoReview EXCEPT !.at = "rejected", !.d = d, !.i = i,
                                                           !.seen = dialogue[d].actions]]
    BY <2>0
  <2>3. [NoReview EXCEPT !.at = "rejected", !.d = d, !.i = i, !.seen = dialogue[d].actions].at = "rejected"
    BY DEF NoReview
  <2> QED BY <2>1, <2>2, <2>3, ReviewMoves DEF VInv, ApprovalHolds
<1>7. ASSUME NEW r \in Reviews, WriteBack(r) PROVE VInv'
  <2> DEFINE where == review[r].d
             new == [review[r].seen EXCEPT ![review[r].i].status = review[r].at]
  <2>1. review' = [review EXCEPT ![r] = NoReview] /\ ran' = ran
        /\ dialogue' \in {dialogue, [dialogue EXCEPT ![where] = [actions |-> new, status |-> StatusOf(new)]]}
    BY <1>7 DEF WriteBack, EndReview
  <2> HIDE DEF new, where
  <2>2. DOMAIN dialogue' = Dialogues
        /\ \A e \in Dialogues : dialogue'[e] = dialogue[e] \/ dialogue'[e].status = StatusOf(dialogue'[e].actions)
    BY <2>1 DEF VInv
  <2>3. ApprovalHolds' BY <2>1, <2>2 DEF VInv, ApprovalHolds
  <2> QED BY <1>0, <2>1, <2>2, <2>3, ReviewMoves DEF VInv
<1>8. CASE AddProvider \/ HeldChanges \/ RunningChanges \/ UNCHANGED assistantVars
  <2>1. UNCHANGED <<dialogue, review, ran>>
    BY <1>8 DEF AddProvider, HeldChanges, RunningChanges, assistantVars
  <2> QED BY <2>1 DEF VInv, ApprovedMayRun, ApprovalHolds
<1> QED BY <1>1, <1>2, <1>3, <1>4, <1>5, <1>6, <1>7, <1>8 DEF AssistantNext

\* What runs was permitted, and sessions are closed when nothing is pending, for
\* any replies, any access and any number of requests and sessions.
THEOREM ApprovalAlwaysHolds == AssistantSpec => []ApprovalHolds
<1>1. AssistantInit => VInv
  BY DEF AssistantInit, VInv, ApprovedMayRun, ApprovalHolds, NoReview
<1>2. VInv => ApprovalHolds BY DEF VInv
<1> QED BY <1>1, <1>2, AssistantStep, PTL DEF AssistantSpec

(***************************************************************************)
(* Signing in.  A handler that answers a challenge was counted before it   *)
(* could fail, one that lets a sign-in through has consumed its challenge, *)
(* and a handler that a lock stopped never gets behind it.                 *)
(***************************************************************************)
\* A set of numbers has a least one.
LEMMA LeastNumber ==
  ASSUME NEW S \in SUBSET Nat, S # {}
  PROVE  \E m \in S : \A n \in S : m <= n
<1>1. \E m \in S : \A n \in S : ~(<<n, m>> \in OpToRel(<, Nat))
  BY WFMin, NatLessThanWellFounded
<1>2. \A m, n \in Nat : ~(<<n, m>> \in OpToRel(<, Nat)) => m <= n
  BY DEF OpToRel
<1> QED
  BY <1>1, <1>2

\* [f] keeps what is left of the first n devices, as Without does.
Leaves(n, f, devices, gone) ==
  f = [k \in 0..n |-> IF k = 0 THEN <<>>
                      ELSE IF devices[k] \in gone THEN f[k - 1] ELSE Append(f[k - 1], devices[k])]

\* There is such a function, however many devices there are.
LEMMA LeavesExists ==
  ASSUME NEW devices, NEW gone, NEW n \in Nat
  PROVE  \E f : Leaves(n, f, devices, gone)
<1> DEFINE Bad == {k \in Nat : ~ \E f : Leaves(k, f, devices, gone)}
<1>1. SUFFICES ASSUME Bad # {} PROVE FALSE
  BY <1>1 DEF Bad
<1>2. PICK k \in Bad : \A m \in Bad : k <= m
  BY <1>1, LeastNumber
<1>3. CASE k = 0
  <2>1. Leaves(0, [i \in 0..0 |-> <<>>], devices, gone)
    BY DEF Leaves
  <2> QED
    BY <1>2, <1>3, <2>1
<1>4. CASE k # 0
  <2>1. k - 1 \in Nat /\ k - 1 \notin Bad /\ k \in Nat
    BY <1>2, <1>4
  <2>2. PICK f : Leaves(k - 1, f, devices, gone)
    BY <2>1
  <2> DEFINE g == [i \in 0..k |-> IF i = k
                     THEN IF devices[k] \in gone THEN f[k - 1] ELSE Append(f[k - 1], devices[k]) ELSE f[i]]
  <2>3. \A i \in 0..(k - 1) : g[i] = f[i]
    BY <2>1
  <2>4. ASSUME NEW i \in 0..k
        PROVE  g[i] = IF i = 0 THEN <<>>
                      ELSE IF devices[i] \in gone THEN g[i - 1] ELSE Append(g[i - 1], devices[i])
    <3>1. CASE i = k
      BY <1>4, <2>1, <2>3, <3>1
    <3>2. CASE i # k
      <4>1. i \in 0..(k - 1) /\ (i # 0 => i - 1 \in 0..(k - 1))
        BY <2>1, <3>2
      <4>2. g[i] = f[i] /\ (i # 0 => g[i - 1] = f[i - 1])
        BY <2>3, <4>1
      <4>3. f[i] = IF i = 0 THEN <<>>
                   ELSE IF devices[i] \in gone THEN f[i - 1] ELSE Append(f[i - 1], devices[i])
        BY <2>2, <4>1 DEF Leaves
      <4> QED
        BY <4>2, <4>3
    <3> QED
      BY <3>1, <3>2
  <2>5. Leaves(k, g, devices, gone)
    BY <2>4 DEF Leaves
  <2> QED
    BY <1>2, <2>1, <2>5
<1> QED
  BY <1>3, <1>4

\* What is left is no longer, and shorter when something goes.
LEMMA FewerDevices ==
  ASSUME NEW S, NEW devices \in Seq(S), NEW gone
  PROVE  /\ Without(devices, gone) \in Seq(S) /\ Len(Without(devices, gone)) <= Len(devices)
         /\ \A i \in 1..Len(devices) : devices[i] \in gone => Len(Without(devices, gone)) < Len(devices)
<1> DEFINE Kept == CHOOSE f : Leaves(Len(devices), f, devices, gone)
<1>1. Leaves(Len(devices), Kept, devices, gone) /\ Len(devices) \in Nat
  BY LenProperties, LeavesExists
<1>2. Without(devices, gone) = Kept[Len(devices)]
  BY DEF Without, Leaves
<1> HIDE DEF Kept
<1> DEFINE Good(n) == /\ Kept[n] \in Seq(S) /\ Len(Kept[n]) <= n
                      /\ \A i \in 1..n : devices[i] \in gone => Len(Kept[n]) < n
           Bad == {n \in 0..Len(devices) : ~ Good(n)}
<1>3. Bad = {}
  <2> SUFFICES ASSUME Bad # {} PROVE FALSE
    OBVIOUS
  <2>1. PICK n \in Bad : \A m \in Bad : n <= m
    <3>1. Bad \in SUBSET Nat
      BY <1>1
    <3> HIDE DEF Bad
    <3> QED
      BY <3>1, LeastNumber
  <2>2. CASE n = 0
    <3>1. Kept[0] = <<>>
      BY <1>1 DEF Leaves
    <3>2. Good(0)
      BY <3>1
    <3> QED
      BY <2>1, <2>2, <3>2
  <2>3. CASE n # 0
    <3>1. n - 1 \in 0..Len(devices) /\ n \in 1..Len(devices) /\ ~ (n <= n - 1)
      BY <1>1, <2>1, <2>3
    <3>2. Good(n - 1)
      <4>1. n - 1 \notin Bad
        BY <2>1, <3>1
      <4> QED
        BY <3>1, <4>1
    <3>3. Kept[n] = IF devices[n] \in gone THEN Kept[n - 1] ELSE Append(Kept[n - 1], devices[n])
      BY <1>1, <2>3, <3>1 DEF Leaves
    <3>4. devices[n] \in S
      BY <3>1, ElementOfSeq
    <3> DEFINE u == Kept[n - 1]
    <3>5. u \in Seq(S) /\ Len(u) \in Nat /\ Len(u) <= n - 1
          /\ \A i \in 1..(n - 1) : devices[i] \in gone => Len(u) < n - 1
      BY <3>2, LenProperties
    <3>6. Append(u, devices[n]) \in Seq(S) /\ Len(Append(u, devices[n])) = Len(u) + 1
      BY <3>4, <3>5, AppendProperties
    <3>7. Kept[n] = IF devices[n] \in gone THEN u ELSE Append(u, devices[n])
      BY <3>3
    <3> HIDE DEF u
    <3>8. Kept[n] \in Seq(S) /\ Len(Kept[n]) <= n
      BY <3>1, <3>5, <3>6, <3>7
    <3>9. ASSUME NEW i \in 1..n, devices[i] \in gone PROVE Len(Kept[n]) < n
      <4>1. CASE i = n
        BY <3>1, <3>5, <3>7, <3>9, <4>1
      <4>2. CASE i # n
        <5>1. i \in 1..(n - 1)
          BY <3>1, <4>2
        <5>2. Len(u) < n - 1
          BY <3>5, <3>9, <5>1
        <5> QED
          BY <3>1, <3>5, <3>6, <3>7, <5>2
      <4> QED
        BY <4>1, <4>2
    <3>10. Good(n)
      BY <3>8, <3>9
    <3> QED
      BY <2>1, <3>10
  <2> QED
    BY <2>2, <2>3
<1>4. Good(Len(devices))
  BY <1>1, <1>3
<1> QED
  BY <1>2, <1>4

\* The duration of a lock is one of the durations there are.
LEMMA LockLasts ==
  ASSUME NEW n \in Nat
  PROVE  ComputeLockDuration(n) \in Nat
<1> DEFINE reached == {t \in Thresholds : n >= t.failures}
<1>1. CASE reached = {}
  BY <1>1 DEF ComputeLockDuration
<1>2. CASE reached # {}
  <2> DEFINE short == {n - t.failures : t \in reached}
  <2>1. \A t \in Thresholds : t.failures \in Nat /\ t.lock \in Nat
    BY SignInAssumption
  <2>2. short \in SUBSET Nat /\ short # {}
    BY <1>2, <2>1
  <2>3. PICK m \in short : \A k \in short : m <= k
    <3> HIDE DEF short
    <3> QED
      BY <2>2, LeastNumber
  <2>4. PICK t \in reached : m = n - t.failures
    BY <2>3
  <2>5. \A u \in reached : u.failures <= t.failures
    BY <2>1, <2>3, <2>4
  <2>6. (CHOOSE w \in reached : \A u \in reached : u.failures <= w.failures) \in reached
    BY <2>4, <2>5
  <2>7. ComputeLockDuration(n) = (CHOOSE w \in reached : \A u \in reached : u.failures <= w.failures).lock
    BY <1>2 DEF ComputeLockDuration
  <2> QED
    BY <2>1, <2>6, <2>7
<1> QED
  BY <1>1, <1>2

\* The type of the state: what a code may be, the columns of the two tables, and where
\* a handler may be.
Answers == {"none", "totp", "wrong", "right"} \cup Codes
Accounts == [fails : Nat, last : Int, open : BOOLEAN, must : BOOLEAN, step : Int, enrolled : BOOLEAN,
             unused : SUBSET Codes, until : Int]
Kinds == {"LOGIN_TOTP", "TOTP_ENROLLMENT", "gone"}
Challenges == [kind : Kinds, known : BOOLEAN, consumed : BOOLEAN, attempts : Nat, expires : Int, admitted : Nat]
Pcs == {"idle", "failure", "failureWrite", "attempt", "attemptOnly", "consume", "consumeEnrol", "commit",
        "revokeEnrol", "trust", "surplus", "device", "deviceLock", "deviceGrant", "issue", "issueUnknown",
        "load", "verifyLock", "answer", "grant", "passwordLock", "clear", "grantPlain", "rotate", "revoke",
        "issueEnrol", "enrol", "stepWrite"}
Handlers == [pc : Pcs, c : Nat, d : Nat, code : Answers, step : Int, row : Accounts, barred : BOOLEAN]

\* The type invariant of signing in.
SignInTyped ==
  /\ tick \in Nat /\ account \in Accounts
  /\ challenge \in Seq(Challenges) /\ device \in Seq(Int) /\ recent \in Seq(Nat)
  /\ handler \in [Slots -> Handlers] /\ handlers \in Nat

\* Where a handler still may count a wrong answer, where it lets a sign-in
\* through, and where it is behind the lock.
Reading == {"load", "verifyLock", "answer", "attempt", "attemptOnly"}
Through == {"commit", "grant"}
Pending == Reading \cup Through \cup {"consume", "consumeEnrol"}
Behind == {"deviceGrant", "answer", "consume", "commit", "grant", "clear", "grantPlain"}

Readers(c) == {s \in Slots : handler[s].pc \in Reading /\ handler[s].c = c}
Cutting == {s \in Slots : handler[s].pc = "surplus"}

\* Who was locked out is before the lock, and the lock holds.
BarredStays == \A s \in Slots : handler[s].barred => Locked /\ handler[s].pc \notin Behind

\* What a handler reads is there, and whoever may count a wrong answer was let in
\* before the limit.
ReadersCounted ==
  /\ \A s \in Slots : handler[s].pc \in Pending => handler[s].c \in DOMAIN challenge
  /\ \A c \in DOMAIN challenge :
       challenge[c].attempts + Cardinality(Readers(c)) <= MaxAttempts + Cardinality(Slots) - 1

\* One handler at most has consumed a challenge, and it lets one sign-in through.
OneThrough ==
  /\ \A s \in Slots : handler[s].pc \in Through =>
       challenge[handler[s].c].consumed /\ challenge[handler[s].c].admitted = 0
  /\ \A s, t \in Slots : handler[s].pc \in Through /\ handler[t].pc \in Through /\ handler[s].c = handler[t].c
       => s = t
  /\ \A c \in DOMAIN challenge : challenge[c].admitted <= 1 /\ (challenge[c].admitted > 0 => challenge[c].consumed)

\* The inductive invariant of signing in.
SInv == SignInTyped /\ BarredStays /\ ReadersCounted /\ OneThrough /\ DevicesBounded

\* Every challenge is what it was, as far as it is counted; a new one has counted nothing.
ChallengesKept ==
  /\ \A c \in DOMAIN challenge :
       /\ c \in DOMAIN challenge'
       /\ challenge'[c].attempts = challenge[c].attempts /\ challenge'[c].admitted = challenge[c].admitted
       /\ challenge'[c].consumed = challenge[c].consumed
  /\ \A c \in DOMAIN challenge' \ DOMAIN challenge : challenge'[c].attempts = 0 /\ challenge'[c].admitted = 0

\* Only s moves.
Alone(s) == \A t \in Slots : t # s => handler'[t].pc = handler[t].pc /\ handler'[t].c = handler[t].c

\* Handlers are finitely many, and so are those that read.
LEMMA FiniteReaders ==
  ASSUME NEW c
  PROVE  IsFiniteSet(Readers(c)) /\ Cardinality(Readers(c)) \in Nat
         /\ IsFiniteSet(Slots) /\ Cardinality(Slots) \in Nat /\ Cardinality(Readers(c)) <= Cardinality(Slots)
<1>1. Readers(c) \in SUBSET Slots
  BY DEF Readers
<1> QED
  BY <1>1, SignInAssumption, FS_Subset, FS_CardinalityType

\* The readers after a step of s alone, counted.
LEMMA ReadersMove ==
  ASSUME NEW s, NEW c, Alone(s), SignInTyped, SignInTyped'
  PROVE  /\ Cardinality(Readers(c)') \in Nat
         /\ (s \in Slots /\ handler'[s].pc \in Reading /\ handler'[s].c = c => handler[s].pc \in Reading /\ handler[s].c = c)
              => Cardinality(Readers(c)') <= Cardinality(Readers(c))
         /\ s \in Slots /\ ~ (handler[s].pc \in Reading /\ handler[s].c = c)
              => /\ Cardinality(Readers(c)') <= Cardinality(Readers(c)) + 1
                 /\ Cardinality(Readers(c)) + 1 <= Cardinality(Slots)
         /\ s \in Slots /\ handler[s].pc \in Reading /\ handler[s].c = c
            /\ ~ (handler'[s].pc \in Reading /\ handler'[s].c = c)
              => Cardinality(Readers(c)') + 1 <= Cardinality(Readers(c))
<1> DEFINE A == Readers(c)
           B == Readers(c)'
<1>1. IsFiniteSet(A) /\ Cardinality(A) \in Nat /\ IsFiniteSet(Slots) /\ Cardinality(Slots) \in Nat
  BY FiniteReaders
<1>2. A \in SUBSET Slots /\ B \in SUBSET Slots
  BY DEF Readers
<1>3. IsFiniteSet(B) /\ Cardinality(B) \in Nat
  BY <1>1, <1>2, FS_Subset, FS_CardinalityType
<1>4. /\ s \in A <=> s \in Slots /\ handler[s].pc \in Reading /\ handler[s].c = c
      /\ s \in B <=> s \in Slots /\ handler'[s].pc \in Reading /\ handler'[s].c = c
      /\ \A t : t # s => (t \in A <=> t \in B)
  BY DEF Readers, Alone
<1> HIDE DEF A, B
<1>5. ASSUME s \in B => s \in A PROVE Cardinality(B) <= Cardinality(A)
  <2>1. B \in SUBSET A
    BY <1>4, <1>5
  <2> QED
    BY <1>1, <2>1, FS_Subset
<1>6. ASSUME s \in Slots, s \notin A PROVE Cardinality(B) <= Cardinality(A) + 1 /\ Cardinality(A) + 1 <= Cardinality(Slots)
  <2>1. B \in SUBSET (A \cup {s}) /\ A \cup {s} \in SUBSET Slots
    BY <1>2, <1>4, <1>6
  <2>2. IsFiniteSet(A \cup {s}) /\ Cardinality(A \cup {s}) = Cardinality(A) + 1
    BY <1>1, <1>6, FS_AddElement
  <2>3. Cardinality(B) <= Cardinality(A \cup {s})
    BY <2>1, <2>2, FS_Subset
  <2>4. Cardinality(A \cup {s}) <= Cardinality(Slots)
    BY <1>1, <2>1, FS_Subset
  <2> QED
    BY <2>2, <2>3, <2>4
<1>7. ASSUME s \in A, s \notin B PROVE Cardinality(B) + 1 <= Cardinality(A)
  <2>1. B \in SUBSET (A \ {s})
    BY <1>4, <1>7
  <2>2. IsFiniteSet(A \ {s}) /\ Cardinality(A \ {s}) = Cardinality(A) - 1
    BY <1>1, <1>7, FS_RemoveElement
  <2>3. Cardinality(B) <= Cardinality(A \ {s})
    BY <2>1, <2>2, FS_Subset
  <2> QED
    BY <1>1, <1>3, <2>2, <2>3
<1>8. Cardinality(B) \in Nat
  BY <1>3
<1> QED
  BY <1>4, <1>5, <1>6, <1>7, <1>8 DEF A, B

\* The same of the handlers that are about to cut the list.
LEMMA CuttingMoves ==
  ASSUME NEW s, Alone(s)
  PROVE  /\ Cardinality(Cutting) \in Nat /\ Cardinality(Cutting') \in Nat
         /\ (s \in Slots /\ handler[s].pc = "surplus" => handler'[s].pc = "surplus")
              => Cardinality(Cutting) <= Cardinality(Cutting')
         /\ s \in Slots /\ handler[s].pc # "surplus" /\ handler'[s].pc = "surplus"
              => Cardinality(Cutting) + 1 <= Cardinality(Cutting')
<1> DEFINE A == Cutting
           B == Cutting'
<1>1. IsFiniteSet(Slots)
  BY SignInAssumption
<1>2. A \in SUBSET Slots /\ B \in SUBSET Slots
  BY DEF Cutting
<1>3. /\ IsFiniteSet(A) /\ Cardinality(A) \in Nat
      /\ IsFiniteSet(B) /\ Cardinality(B) \in Nat
  BY <1>1, <1>2, FS_Subset, FS_CardinalityType
<1>4. /\ s \in A <=> s \in Slots /\ handler[s].pc = "surplus"
      /\ s \in B <=> s \in Slots /\ handler'[s].pc = "surplus"
      /\ \A t : t # s => (t \in A <=> t \in B)
  BY DEF Cutting, Alone
<1> HIDE DEF A, B
<1>5. ASSUME s \in A => s \in B PROVE Cardinality(A) <= Cardinality(B)
  <2>1. A \in SUBSET B
    BY <1>4, <1>5
  <2> QED
    BY <1>3, <2>1, FS_Subset
<1>6. ASSUME s \notin A, s \in B PROVE Cardinality(A) + 1 <= Cardinality(B)
  <2>1. A \in SUBSET (B \ {s})
    BY <1>4, <1>6
  <2>2. IsFiniteSet(B \ {s}) /\ Cardinality(B \ {s}) = Cardinality(B) - 1
    BY <1>3, <1>6, FS_RemoveElement
  <2>3. Cardinality(A) <= Cardinality(B \ {s})
    BY <2>1, <2>2, FS_Subset
  <2> QED
    BY <1>3, <2>2, <2>3
<1> QED
  BY <1>3, <1>4, <1>5, <1>6 DEF A, B

\* The challenges are numbered from one, and each is a row.
LEMMA ChallengeRows ==
  ASSUME SignInTyped
  PROVE  /\ DOMAIN challenge = 1..Len(challenge) /\ Len(challenge) \in Nat
         /\ \A c \in DOMAIN challenge : challenge[c] \in Challenges
BY LenProperties, ElementOfSeq DEF SignInTyped

\* A step of one handler, or of none, that counts nothing on a challenge.
LEMMA HandlerMoves ==
  ASSUME SInv, SignInTyped', NEW s, Alone(s), ChallengesKept,
         \A t \in Slots : handler'[t].barred => Locked' /\ handler'[t].pc \notin Behind,
         s \in Slots /\ handler'[s].pc \in Pending => handler'[s].c \in DOMAIN challenge',
         s \in Slots /\ handler'[s].pc \in Reading =>
           \/ handler[s].pc \in Reading /\ handler[s].c = handler'[s].c
           \/ /\ handler'[s].c \in DOMAIN challenge /\ challenge[handler'[s].c].attempts < MaxAttempts
              /\ handler[s].pc \notin Reading,
         s \in Slots /\ handler'[s].pc \in Through => handler[s].pc \in Through /\ handler[s].c = handler'[s].c,
         \/ Len(recent') <= MaxDevices
         \/ /\ Len(recent') <= Len(recent)
            /\ s \in Slots /\ handler[s].pc = "surplus" => handler'[s].pc = "surplus"
         \/ /\ Len(recent') <= Len(recent) + 1
            /\ s \in Slots /\ handler[s].pc # "surplus" /\ handler'[s].pc = "surplus"
  PROVE  SInv'
<1>1. SignInTyped
  BY DEF SInv
<1>2. MaxAttempts \in Nat \ {0} /\ MaxDevices \in Nat \ {0}
  BY SignInAssumption
<1>3. BarredStays'
  BY DEF BarredStays
<1>4. \A t \in Slots : handler'[t].pc \in Pending => handler'[t].c \in DOMAIN challenge'
  BY DEF Alone, ChallengesKept, SInv, ReadersCounted
<1>5. ASSUME NEW c \in DOMAIN challenge'
      PROVE  challenge'[c].attempts + Cardinality(Readers(c)') <= MaxAttempts + Cardinality(Slots) - 1
  <2>1. /\ Cardinality(Readers(c)) \in Nat /\ Cardinality(Readers(c)') \in Nat /\ Cardinality(Slots) \in Nat
        /\ Cardinality(Readers(c)) <= Cardinality(Slots)
    BY <1>1, FiniteReaders, ReadersMove
  <2>2. CASE c \in DOMAIN challenge
    <3>1. challenge'[c].attempts = challenge[c].attempts /\ challenge[c].attempts \in Nat
      <4>1. challenge[c] \in Challenges
        BY <1>1, <2>2, ChallengeRows
      <4> QED
        BY <2>2, <4>1 DEF ChallengesKept, Challenges
    <3>2. challenge[c].attempts + Cardinality(Readers(c)) <= MaxAttempts + Cardinality(Slots) - 1
      BY <2>2 DEF SInv, ReadersCounted
    <3>3. CASE s \in Slots /\ handler'[s].pc \in Reading /\ handler'[s].c = c
                 => handler[s].pc \in Reading /\ handler[s].c = c
      <4>1. Cardinality(Readers(c)') <= Cardinality(Readers(c))
        BY <1>1, <3>3, ReadersMove
      <4> QED
        BY <1>2, <2>1, <3>1, <3>2, <4>1
    <3>4. CASE ~ (s \in Slots /\ handler'[s].pc \in Reading /\ handler'[s].c = c
                    => handler[s].pc \in Reading /\ handler[s].c = c)
      <4>1. challenge[c].attempts < MaxAttempts
        BY <3>4
      <4>2. /\ Cardinality(Readers(c)') <= Cardinality(Readers(c)) + 1
            /\ Cardinality(Readers(c)) + 1 <= Cardinality(Slots)
        BY <1>1, <3>4, ReadersMove
      <4> QED
        BY <1>2, <2>1, <3>1, <4>1, <4>2
    <3> QED
      BY <3>3, <3>4
  <2>3. CASE c \notin DOMAIN challenge
    <3>1. challenge'[c].attempts = 0
      BY <2>3 DEF ChallengesKept
    <3>2. Readers(c) = {}
      BY <2>3 DEF Readers, Pending, SInv, ReadersCounted
    <3>3. ~ (s \in Slots /\ handler'[s].pc \in Reading /\ handler'[s].c = c)
      <4>1. ASSUME s \in Slots, handler'[s].pc \in Reading, handler'[s].c = c PROVE FALSE
        <5>1. handler[s].pc \in Reading => handler[s].c \in DOMAIN challenge
          BY <4>1 DEF Pending, SInv, ReadersCounted
        <5> QED
          BY <2>3, <4>1, <5>1
      <4> QED
        BY <4>1
    <3>4. Cardinality(Readers(c)') <= Cardinality(Readers(c))
      BY <1>1, <3>3, ReadersMove
    <3>5. Cardinality(Readers(c)) = 0
      BY <3>2, FS_EmptySet
    <3> QED
      BY <1>2, <2>1, <3>1, <3>4, <3>5
  <2> QED
    BY <2>2, <2>3
<1>6. ReadersCounted'
  BY <1>4, <1>5 DEF ReadersCounted
<1>7. OneThrough'
  <2>1. ASSUME NEW t \in Slots, handler'[t].pc \in Through
        PROVE  handler[t].pc \in Through /\ handler[t].c = handler'[t].c /\ handler[t].c \in DOMAIN challenge
    <3>1. handler[t].pc \in Through /\ handler[t].c = handler'[t].c
      BY <2>1 DEF Alone
    <3> QED
      BY <3>1 DEF Pending, SInv, ReadersCounted
  <2>2. \A t \in Slots : handler'[t].pc \in Through =>
          challenge'[handler'[t].c].consumed /\ challenge'[handler'[t].c].admitted = 0
    BY <2>1 DEF ChallengesKept, SInv, OneThrough
  <2>3. \A t, u \in Slots : handler'[t].pc \in Through /\ handler'[u].pc \in Through /\ handler'[t].c = handler'[u].c
          => t = u
    BY <2>1 DEF SInv, OneThrough
  <2>4. ASSUME NEW c \in DOMAIN challenge'
        PROVE  challenge'[c].admitted <= 1 /\ (challenge'[c].admitted > 0 => challenge'[c].consumed)
    <3>1. CASE c \in DOMAIN challenge
      BY <3>1 DEF ChallengesKept, SInv, OneThrough
    <3>2. CASE c \notin DOMAIN challenge
      <4>1. challenge'[c].admitted = 0
        BY <3>2 DEF ChallengesKept
      <4> QED
        BY <4>1
    <3> QED
      BY <3>1, <3>2
  <2> QED
    BY <2>2, <2>3, <2>4 DEF OneThrough
<1>8. DevicesBounded'
  <2>1. Cardinality(Cutting) \in Nat /\ Cardinality(Cutting') \in Nat
    BY CuttingMoves
  <2>2. Len(recent) \in Nat /\ Len(recent') \in Nat /\ Len(recent) <= MaxDevices + Cardinality(Cutting)
    BY <1>1, LenProperties DEF SInv, DevicesBounded, Cutting, SignInTyped
  <2>3. CASE Len(recent') <= MaxDevices
    BY <1>2, <2>1, <2>2, <2>3 DEF DevicesBounded, Cutting
  <2>4. CASE /\ Len(recent') <= Len(recent)
             /\ s \in Slots /\ handler[s].pc = "surplus" => handler'[s].pc = "surplus"
    <3>1. Cardinality(Cutting) <= Cardinality(Cutting')
      BY <2>4, CuttingMoves
    <3>2. Len(recent') <= MaxDevices + Cardinality(Cutting')
      BY <1>2, <2>1, <2>2, <2>4, <3>1
    <3> QED
      BY <3>2 DEF DevicesBounded, Cutting
  <2>5. CASE /\ Len(recent') <= Len(recent) + 1
             /\ s \in Slots /\ handler[s].pc # "surplus" /\ handler'[s].pc = "surplus"
    <3>1. Cardinality(Cutting) + 1 <= Cardinality(Cutting')
      BY <2>5, CuttingMoves
    <3>2. Len(recent') <= MaxDevices + Cardinality(Cutting')
      BY <1>2, <2>1, <2>2, <2>5, <3>1
    <3> QED
      BY <3>2 DEF DevicesBounded, Cutting
  <2> QED
    BY <2>3, <2>4, <2>5
<1> QED
  BY <1>3, <1>6, <1>7, <1>8 DEF SInv

\* A step of one handler that writes nothing but its own record.
LEMMA QuietMove ==
  ASSUME SInv, NEW s \in Slots, NEW to \in Handlers, handler' = [handler EXCEPT ![s] = to],
         UNCHANGED <<tick, account, challenge, device, recent>>, handlers' \in Nat,
         handler[s].pc \notin {"surplus"},
         to.barred => Locked /\ to.pc \notin Behind,
         to.pc \in Pending => to.c \in DOMAIN challenge,
         to.pc \in Reading => \/ handler[s].pc \in Reading /\ handler[s].c = to.c
                              \/ challenge[to.c].attempts < MaxAttempts /\ handler[s].pc \notin Reading,
         to.pc \notin Through
  PROVE  SInv'
<1>1. SignInTyped
  BY DEF SInv
<1>2. handler'[s] = to /\ \A t \in Slots : t # s => handler'[t] = handler[t]
  BY <1>1 DEF SignInTyped
<1>3. SignInTyped'
  BY <1>1 DEF SignInTyped
<1>4. Alone(s)
  BY <1>2 DEF Alone
<1>5. ChallengesKept
  BY DEF ChallengesKept
<1>6. \A t \in Slots : handler'[t].barred => Locked' /\ handler'[t].pc \notin Behind
  BY <1>2 DEF SInv, BarredStays, Locked
<1>7. to.pc \in Reading => to.c \in DOMAIN challenge
  BY DEF Pending
<1>8. Len(recent') <= Len(recent)
  BY <1>1, LenProperties DEF SignInTyped
<1> QED
  BY <1>2, <1>3, <1>4, <1>5, <1>6, <1>7, <1>8, HandlerMoves

\* A handler that does nothing is a handler.
LEMMA IdleRow == Idle \in Handlers /\ Idle.pc = "idle" /\ ~ Idle.barred /\ Idle.row \in Accounts /\ Idle.c = 0
<1> DEFINE written == [fails |-> 0, last |-> -1, open |-> TRUE, must |-> TRUE, step |-> -1, enrolled |-> FALSE,
                   unused |-> {}, until |-> 0]
<1>1. written \in Accounts
  BY DEF Accounts
<1>2. Idle = [pc |-> "idle", c |-> 0, d |-> 0, code |-> "none", step |-> -1, row |-> written, barred |-> FALSE]
  BY DEF Idle
<1>3. "idle" \in Pcs /\ "none" \in Answers
  BY DEF Pcs, Answers
<1> HIDE DEF written
<1> QED
  BY <1>1, <1>2, <1>3 DEF Handlers, Pcs

\* A handler goes on, past nothing that would have stopped it.
LEMMA ToMove ==
  ASSUME SInv, NEW s \in Slots, NEW to \in Pcs, To(s, to),
         UNCHANGED <<tick, account, challenge, device, recent, handlers>>, handler[s].pc # "surplus",
         handler[s].barred => to \notin Behind,
         to \in Pending => handler[s].pc \in Pending, to \in Reading => handler[s].pc \in Reading,
         to \notin Through
  PROVE  SInv'
<1>1. handler[s] \in Handlers /\ handlers' \in Nat
  BY DEF SInv, SignInTyped
<1>2. PICK rec : rec = [handler[s] EXCEPT !.pc = to]
  OBVIOUS
<1>3. rec \in Handlers /\ rec.pc = to /\ rec.c = handler[s].c /\ rec.barred = handler[s].barred
  BY <1>1, <1>2 DEF Handlers, Pcs
<1>4. handler' = [handler EXCEPT ![s] = rec]
  BY <1>2 DEF To
<1>5. rec.barred => Locked /\ rec.pc \notin Behind
  BY <1>3 DEF SInv, BarredStays
<1>6. rec.pc \in Pending => rec.c \in DOMAIN challenge
  BY <1>3 DEF SInv, ReadersCounted
<1> QED
  BY <1>1, <1>3, <1>4, <1>5, <1>6, QuietMove

\* A handler ends.
LEMMA FinishMove ==
  ASSUME SInv, NEW s \in Slots, Finish(s),
         UNCHANGED <<tick, account, challenge, device, recent, handlers>>, handler[s].pc # "surplus"
  PROVE  SInv'
<1>1. handlers' \in Nat
  BY DEF SInv, SignInTyped
<1>2. "idle" \notin Pending /\ "idle" \notin Reading /\ "idle" \notin Through
  BY DEF Pending, Reading, Through
<1>3. handler' = [handler EXCEPT ![s] = Idle]
  BY DEF Finish
<1> QED
  BY <1>1, <1>2, <1>3, IdleRow, QuietMove

\* A handler begins.
LEMMA BeginMove ==
  ASSUME SInv, NEW s \in Slots, NEW rec \in Handlers, Begin(s, rec),
         UNCHANGED <<tick, account, challenge, device, recent>>,
         rec.pc \notin Behind, rec.pc \notin Through,
         rec.pc \in Pending => rec.c \in DOMAIN challenge,
         rec.pc \in Reading => challenge[rec.c].attempts < MaxAttempts
  PROVE  SInv'
<1>1. handlers' \in Nat /\ handler[s].pc = "idle"
  BY DEF SInv, SignInTyped, Begin
<1>2. PICK to : to = [rec EXCEPT !.barred = Locked]
  OBVIOUS
<1>3. to \in Handlers /\ to.pc = rec.pc /\ to.c = rec.c /\ (to.barred => Locked)
  <2>1. Locked \in BOOLEAN
    BY DEF Locked
  <2> QED
    BY <1>2, <2>1 DEF Handlers, Pcs
<1>4. handler' = [handler EXCEPT ![s] = to]
  BY <1>2 DEF Begin
<1>5. handler[s].pc \notin Reading /\ handler[s].pc # "surplus"
  BY <1>1 DEF Reading
<1> QED
  BY <1>1, <1>3, <1>4, <1>5, QuietMove

\* The actions of a handler that write nothing but its own record.
LEMMA QuietActions ==
  ASSUME SInv, NEW s \in Slots,
         \/ FailureRead(s) \/ LoginStart(s) \/ DeviceLock(s) \/ VerifyPeek(s) \/ VerifyLoad(s) \/ VerifyLock(s)
         \/ VerifyAnswer(s) \/ PasswordLogin(s) \/ PasswordLock(s) \/ ChangePassword(s)
         \/ EnrolStart(s) \/ EnrolConfirm(s) \/ StepUp(s)
  PROVE  SInv'
<1>1. SignInTyped /\ handler[s] \in Handlers /\ account \in Accounts /\ tick \in Nat /\ handlers \in Nat
  BY DEF SInv, SignInTyped
<1>2. handler[s].barred => Locked
  BY DEF SInv, BarredStays
<1>3. CASE FailureRead(s)
  <2>1. PICK to : to = [handler[s] EXCEPT !.pc = "failureWrite", !.row = account]
    OBVIOUS
  <2>2. to \in Handlers /\ to.pc = "failureWrite" /\ to.barred = handler[s].barred
    BY <1>1, <2>1 DEF Handlers, Pcs
  <2>3. handler' = [handler EXCEPT ![s] = to] /\ UNCHANGED <<tick, account, challenge, device, recent, handlers>>
        /\ handler[s].pc = "failure"
    BY <1>3, <2>1 DEF FailureRead
  <2>4. "failureWrite" \notin Pending /\ "failureWrite" \notin Reading /\ "failureWrite" \notin Through
        /\ "failureWrite" \notin Behind
    BY DEF Pending, Reading, Through, Behind
  <2> QED
    BY <1>1, <1>2, <2>2, <2>3, <2>4, QuietMove
<1>4. CASE LoginStart(s)
  <2>1. PICK d \in 0 .. Len(device), known \in BOOLEAN :
          Begin(s, [Idle EXCEPT !.pc = IF d # 0 /\ known /\ account.enrolled /\ account.open
                                        THEN "device" ELSE IF known THEN "issue" ELSE "issueUnknown",
                                !.d = d, !.row = account])
    BY <1>4 DEF LoginStart
  <2>2. PICK rec : rec = [Idle EXCEPT !.pc = IF d # 0 /\ known /\ account.enrolled /\ account.open
                                              THEN "device" ELSE IF known THEN "issue" ELSE "issueUnknown",
                                      !.d = d, !.row = account]
    OBVIOUS
  <2>3. rec \in Handlers /\ rec.pc \in {"device", "issue", "issueUnknown"}
    <3>1. d \in Nat
      BY <1>1, LenProperties DEF SignInTyped
    <3> QED
      BY <1>1, <2>2, <3>1, IdleRow DEF Handlers, Pcs
  <2>4. Begin(s, rec)
    BY <2>1, <2>2 DEF Begin
  <2>5. rec.pc \notin Pending /\ rec.pc \notin Reading /\ rec.pc \notin Through /\ rec.pc \notin Behind
    BY <2>3 DEF Pending, Reading, Through, Behind
  <2> QED
    BY <1>4, <2>3, <2>4, <2>5, BeginMove DEF LoginStart
<1>5. CASE DeviceLock(s)
  <2>1. CASE Locked
    BY <1>5, <2>1, FinishMove DEF DeviceLock
  <2>2. CASE ~ Locked
    <3>1. "deviceGrant" \notin Pending /\ "deviceGrant" \notin Reading /\ "deviceGrant" \notin Through
      BY DEF Pending, Reading, Through
    <3> QED
      BY <1>2, <1>5, <2>2, <3>1, ToMove DEF Pcs, DeviceLock
  <2> QED
    BY <2>1, <2>2
<1>6. CASE VerifyPeek(s)
  <2>1. PICK c \in DOMAIN challenge, code \in {"totp", "wrong"} \cup Codes :
          /\ Peeks(c, "LOGIN_TOTP")
          /\ Begin(s, [Idle EXCEPT !.pc = "load", !.c = c, !.code = code])
          /\ UNCHANGED <<tick, account, challenge, device, recent>>
    BY <1>6 DEF VerifyPeek
  <2>2. PICK rec : rec = [Idle EXCEPT !.pc = "load", !.c = c, !.code = code]
    OBVIOUS
  <2>3. rec \in Handlers /\ rec.pc = "load" /\ rec.c = c
    <3>1. c \in Nat /\ code \in Answers
      BY <1>1, <2>1, ChallengeRows DEF Answers
    <3> QED
      BY <2>2, <3>1, IdleRow DEF Handlers, Pcs
  <2>4. Begin(s, rec)
    BY <2>1, <2>2 DEF Begin
  <2>5. rec.pc \notin Through /\ rec.pc \notin Behind
    BY <2>3 DEF Through, Behind
  <2>6. challenge[c].attempts < MaxAttempts
    BY <2>1 DEF Peeks
  <2> QED
    BY <2>1, <2>3, <2>4, <2>5, <2>6, BeginMove
<1>7. CASE VerifyLoad(s)
  <2>1. PICK to : to = [handler[s] EXCEPT !.row = account,
                          !.pc = IF challenge[handler[s].c].known THEN "verifyLock" ELSE "attemptOnly"]
    OBVIOUS
  <2>2. to \in Handlers /\ to.pc \in {"verifyLock", "attemptOnly"} /\ to.barred = handler[s].barred
        /\ to.c = handler[s].c
    BY <1>1, <2>1 DEF Handlers, Pcs
  <2>3. handler' = [handler EXCEPT ![s] = to] /\ UNCHANGED <<tick, account, challenge, device, recent, handlers>>
        /\ handler[s].pc = "load"
    BY <1>7, <2>1 DEF VerifyLoad
  <2>4. to.pc \notin Through /\ to.pc \notin Behind /\ handler[s].pc \in Reading /\ handler[s].pc # "surplus"
    BY <2>2, <2>3 DEF Reading, Through, Behind
  <2>5. handler[s].c \in DOMAIN challenge
    BY <2>4 DEF SInv, ReadersCounted, Pending
  <2> QED
    BY <1>1, <1>2, <2>2, <2>3, <2>4, <2>5, QuietMove
<1>8. CASE VerifyLock(s)
  <2>1. CASE Finish(s)
    BY <1>8, <2>1, FinishMove DEF VerifyLock
  <2>2. CASE ~ Locked /\ To(s, "answer")
    <3>1. "verifyLock" \in Pending /\ "verifyLock" \in Reading /\ "answer" \notin Through
      BY DEF Pending, Reading, Through
    <3> QED
      BY <1>2, <1>8, <2>2, <3>1, ToMove DEF Pcs, VerifyLock
  <2> QED
    BY <1>8, <2>1, <2>2 DEF VerifyLock
<1>9. CASE VerifyAnswer(s)
  <2>1. /\ handler[s].pc = "answer" /\ UNCHANGED <<tick, account, challenge, device, recent, handlers>>
        /\ ~ handler[s].barred
    BY <1>9 DEF VerifyAnswer, SInv, BarredStays, Behind
  <2>2. /\ "answer" \in Pending /\ "answer" \in Reading /\ "consume" \notin Reading /\ "consume" \notin Through
        /\ "attempt" \notin Through
    BY DEF Pending, Reading, Through
  <2>3. CASE To(s, "consume")
    BY <2>1, <2>2, <2>3, ToMove DEF Pcs
  <2>4. CASE To(s, "attempt")
    BY <2>1, <2>2, <2>4, ToMove DEF Pcs
  <2>5. CASE \E k \in (tick - Window) .. (tick + Window) :
               handler' = [handler EXCEPT ![s].pc = "consume", ![s].step = k]
    <3>1. PICK k \in (tick - Window) .. (tick + Window) :
            handler' = [handler EXCEPT ![s].pc = "consume", ![s].step = k]
      BY <2>5
    <3>2. PICK to : to = [handler[s] EXCEPT !.pc = "consume", !.step = k]
      OBVIOUS
    <3>3. to \in Handlers /\ to.pc = "consume" /\ to.barred = handler[s].barred /\ to.c = handler[s].c
      <4>1. k \in Int
        BY <1>1, <3>1, SignInAssumption
      <4> QED
        BY <1>1, <3>2, <4>1 DEF Handlers, Pcs
    <3>4. handler' = [handler EXCEPT ![s] = to]
      BY <3>1, <3>2
    <3>5. handler[s].c \in DOMAIN challenge
      BY <2>1, <2>2 DEF SInv, ReadersCounted
    <3> QED
      BY <1>1, <2>1, <2>2, <3>3, <3>4, <3>5, QuietMove
  <2> QED
    BY <1>9, <2>3, <2>4, <2>5 DEF VerifyAnswer
<1>10. CASE PasswordLogin(s)
  <2>1. PICK code \in {"right", "wrong"} :
          Begin(s, [Idle EXCEPT !.pc = "passwordLock", !.code = code, !.row = account])
    BY <1>10 DEF PasswordLogin
  <2>2. PICK rec : rec = [Idle EXCEPT !.pc = "passwordLock", !.code = code, !.row = account]
    OBVIOUS
  <2>3. rec \in Handlers /\ rec.pc = "passwordLock"
    BY <1>1, <2>2, IdleRow DEF Handlers, Pcs, Answers
  <2>4. Begin(s, rec)
    BY <2>1, <2>2 DEF Begin
  <2>5. rec.pc \notin Pending /\ rec.pc \notin Reading /\ rec.pc \notin Through /\ rec.pc \notin Behind
    BY <2>3 DEF Pending, Reading, Through, Behind
  <2> QED
    BY <1>10, <2>3, <2>4, <2>5, BeginMove DEF PasswordLogin
<1>11. CASE PasswordLock(s)
  <2>1. CASE Finish(s)
    BY <1>11, <2>1, FinishMove DEF PasswordLock
  <2>2. CASE ~ Locked /\ (To(s, "failure") \/ To(s, "clear"))
    <3>1. /\ "failure" \notin Pending /\ "failure" \notin Reading /\ "failure" \notin Through
          /\ "clear" \notin Pending /\ "clear" \notin Reading /\ "clear" \notin Through
      BY DEF Pending, Reading, Through
    <3> QED
      BY <1>2, <1>11, <2>2, <3>1, ToMove DEF Pcs, PasswordLock
  <2> QED
    BY <1>11, <2>1, <2>2 DEF PasswordLock
<1>12. CASE ChangePassword(s)
  <2>1. PICK right \in BOOLEAN : Begin(s, [Idle EXCEPT !.pc = IF right THEN "rotate" ELSE "failure"])
    BY <1>12 DEF ChangePassword
  <2>2. PICK rec : rec = [Idle EXCEPT !.pc = IF right THEN "rotate" ELSE "failure"]
    OBVIOUS
  <2>3. rec \in Handlers /\ rec.pc \in {"rotate", "failure"}
    BY <2>2, IdleRow DEF Handlers, Pcs
  <2>4. Begin(s, rec)
    BY <2>1, <2>2 DEF Begin
  <2>5. rec.pc \notin Pending /\ rec.pc \notin Reading /\ rec.pc \notin Through /\ rec.pc \notin Behind
    BY <2>3 DEF Pending, Reading, Through, Behind
  <2> QED
    BY <1>12, <2>3, <2>4, <2>5, BeginMove DEF ChangePassword
<1>13. CASE EnrolStart(s)
  <2>1. PICK rec : rec = [Idle EXCEPT !.pc = "issueEnrol"]
    OBVIOUS
  <2>2. rec \in Handlers /\ rec.pc = "issueEnrol"
    BY <2>1, IdleRow DEF Handlers, Pcs
  <2>3. Begin(s, rec)
    BY <1>13, <2>1 DEF EnrolStart, Begin
  <2>4. rec.pc \notin Pending /\ rec.pc \notin Reading /\ rec.pc \notin Through /\ rec.pc \notin Behind
    BY <2>2 DEF Pending, Reading, Through, Behind
  <2> QED
    BY <1>13, <2>2, <2>3, <2>4, BeginMove DEF EnrolStart
<1>14. CASE EnrolConfirm(s)
  <2>1. PICK c \in DOMAIN challenge, code \in {"totp", "wrong"} :
          /\ Peeks(c, "TOTP_ENROLLMENT")
          /\ Begin(s, [Idle EXCEPT !.pc = IF code = "totp" THEN "consumeEnrol" ELSE "attemptOnly",
                                   !.c = c, !.code = code, !.step = tick])
          /\ UNCHANGED <<tick, account, challenge, device, recent>>
    BY <1>14 DEF EnrolConfirm
  <2>2. PICK rec : rec = [Idle EXCEPT !.pc = IF code = "totp" THEN "consumeEnrol" ELSE "attemptOnly",
                                      !.c = c, !.code = code, !.step = tick]
    OBVIOUS
  <2>3. rec \in Handlers /\ rec.pc \in {"consumeEnrol", "attemptOnly"} /\ rec.c = c
    <3>1. c \in Nat /\ code \in Answers /\ tick \in Int
      BY <1>1, <2>1, ChallengeRows DEF Answers
    <3> QED
      BY <2>2, <3>1, IdleRow DEF Handlers, Pcs
  <2>4. Begin(s, rec)
    BY <2>1, <2>2 DEF Begin
  <2>5. rec.pc \notin Through /\ rec.pc \notin Behind
    BY <2>3 DEF Through, Behind
  <2>6. challenge[c].attempts < MaxAttempts
    BY <2>1 DEF Peeks
  <2> QED
    BY <2>1, <2>3, <2>4, <2>5, <2>6, BeginMove
<1>15. CASE StepUp(s)
  <2>1. PICK code \in {"totp", "wrong"}, k \in (tick - Window) .. (tick + Window) :
          Begin(s, [Idle EXCEPT !.pc = IF VerifyTotp(account, code, k) THEN "stepWrite" ELSE "failure",
                                !.step = k])
    BY <1>15 DEF StepUp
  <2>2. PICK rec : rec = [Idle EXCEPT !.pc = IF VerifyTotp(account, code, k) THEN "stepWrite" ELSE "failure",
                                      !.step = k]
    OBVIOUS
  <2>3. rec \in Handlers /\ rec.pc \in {"stepWrite", "failure"}
    <3>1. k \in Int
      BY <1>1, <2>1, SignInAssumption
    <3> QED
      BY <2>2, <3>1, IdleRow DEF Handlers, Pcs
  <2>4. Begin(s, rec)
    BY <2>1, <2>2 DEF Begin
  <2>5. rec.pc \notin Pending /\ rec.pc \notin Reading /\ rec.pc \notin Through /\ rec.pc \notin Behind
    BY <2>3 DEF Pending, Reading, Through, Behind
  <2> QED
    BY <1>15, <2>3, <2>4, <2>5, BeginMove DEF StepUp
<1> QED
  BY <1>3, <1>4, <1>5, <1>6, <1>7, <1>8, <1>9, <1>10, <1>11, <1>12, <1>13, <1>14, <1>15

\* A handler that ends, or goes on to read or let through nothing, and leaves
\* the challenges and the lock alone: what it may do to the account and the devices.
LEMMA LastMove ==
  ASSUME SInv, NEW s \in Slots, NEW to \in Handlers, handler' = [handler EXCEPT ![s] = to],
         UNCHANGED <<tick, handlers>>, ChallengesKept, challenge' \in Seq(Challenges),
         account' \in Accounts, account'.until = account.until, device' \in Seq(Int), recent' \in Seq(Nat),
         to.pc \notin Pending, to.barred => Locked /\ to.pc \notin Behind,
         \/ Len(recent') <= MaxDevices
         \/ Len(recent') <= Len(recent) /\ handler[s].pc # "surplus"
         \/ Len(recent') <= Len(recent) + 1 /\ handler[s].pc # "surplus" /\ to.pc = "surplus"
  PROVE  SInv'
<1>1. SignInTyped
  BY DEF SInv
<1>2. handler'[s] = to /\ \A t \in Slots : t # s => handler'[t] = handler[t]
  BY <1>1 DEF SignInTyped
<1>3. SignInTyped'
  BY <1>1 DEF SignInTyped
<1>4. Alone(s)
  BY <1>2 DEF Alone
<1>5. Locked' = Locked
  BY DEF Locked
<1>6. \A t \in Slots : handler'[t].barred => Locked' /\ handler'[t].pc \notin Behind
  BY <1>2, <1>5 DEF SInv, BarredStays
<1>7. to.pc \notin Reading /\ to.pc \notin Through
  BY DEF Pending
<1> QED
  BY <1>2, <1>3, <1>4, <1>6, <1>7, HandlerMoves

\* A handler that does nothing reads nothing and lets nothing through.
LEMMA IdleIsQuiet ==
  Idle.pc \notin Pending /\ Idle.pc \notin Behind /\ Idle.pc \notin Reading /\ Idle.pc \notin Through
BY IdleRow DEF Pending, Behind, Reading, Through

\* A new challenge has counted nothing yet.
LEMMA IssueMoves ==
  ASSUME SInv, NEW s \in Slots, NEW kind \in Kinds, NEW known \in BOOLEAN, Issue(s, kind, known),
         handler[s].pc # "surplus"
  PROVE  SInv'
<1>1. SignInTyped
  BY DEF SInv
<1>2. tick + ChallengeLife \in Int
  BY <1>1, SignInAssumption DEF SignInTyped
<1>3. PICK new : new = NewChallenge(kind, known)
  OBVIOUS
<1>4. new \in Challenges /\ new.attempts = 0 /\ new.admitted = 0
  BY <1>2, <1>3 DEF NewChallenge, Challenges
<1>5. challenge' = Append(challenge, new)
  BY <1>3 DEF Issue
<1>6. challenge \in Seq(Challenges)
  BY <1>1 DEF SignInTyped
<1>7. /\ challenge' \in Seq(Challenges)
      /\ \A c \in 1..Len(challenge) : challenge'[c] = challenge[c]
      /\ challenge'[Len(challenge) + 1] = new /\ Len(challenge') = Len(challenge) + 1
  BY <1>4, <1>5, <1>6, AppendProperties
<1>8. ChallengesKept
  <2>1. /\ DOMAIN challenge = 1..Len(challenge) /\ DOMAIN challenge' = 1..Len(challenge')
        /\ Len(challenge) \in Nat
    BY <1>6, <1>7, LenProperties
  <2> QED
    BY <1>4, <1>7, <2>1 DEF ChallengesKept
<1>9. /\ handler' = [handler EXCEPT ![s] = Idle] /\ account' \in Accounts /\ device' \in Seq(Int)
      /\ recent' \in Seq(Nat) /\ Len(recent') <= Len(recent)
  BY <1>1, LenProperties DEF Issue, Finish, SignInTyped
<1> QED
  BY <1>7, <1>8, <1>9, IdleRow, IdleIsQuiet, LastMove DEF Issue

\* Challenges nobody writes are kept.
LEMMA SameChallenges ==
  ASSUME SInv, UNCHANGED challenge
  PROVE  ChallengesKept /\ challenge' \in Seq(Challenges)
BY DEF ChallengesKept, SInv, SignInTyped

\* Actions that leave the challenges alone but write the account or the devices.
LEMMA WritingActions ==
  ASSUME SInv, NEW s \in Slots,
         \/ TrustDevice(s) \/ CutSurplus(s) \/ DeviceCheck(s) \/ PasswordRotate(s) \/ RevokeDevices(s)
         \/ EnrolCommit(s) \/ StepWrite(s) \/ LoginIssue(s) \/ EnrolIssue(s)
  PROVE  SInv'
<1>1. SignInTyped /\ handler[s] \in Handlers /\ account \in Accounts /\ tick \in Nat /\ recent \in Seq(Nat)
      /\ device \in Seq(Int) /\ Len(recent) \in Nat
  BY LenProperties DEF SInv, SignInTyped
<1>2. handler[s].barred => Locked
  BY DEF SInv, BarredStays
<1>3. MaxDevices \in Nat \ {0} /\ DeviceLife \in Nat
  BY SignInAssumption
<1>4. ASSUME NEW pc \in Pcs
      PROVE  \E rec \in Handlers : /\ rec = [handler[s] EXCEPT !.pc = pc]
                                   /\ rec.pc = pc /\ rec.barred = handler[s].barred
  <2>1. PICK rec : rec = [handler[s] EXCEPT !.pc = pc]
    OBVIOUS
  <2>2. rec \in Handlers /\ rec.pc = pc /\ rec.barred = handler[s].barred
    BY <1>1, <1>4, <2>1 DEF Handlers
  <2> QED
    BY <2>1, <2>2
<1>5. CASE TrustDevice(s)
  <2>1. PICK to \in Handlers : to = [handler[s] EXCEPT !.pc = "surplus"] /\ to.pc = "surplus"
                               /\ to.barred = handler[s].barred
    BY <1>4 DEF Pcs
  <2>2. handler' = [handler EXCEPT ![s] = to] /\ handler[s].pc = "trust"
        /\ UNCHANGED <<tick, account, challenge, handlers>>
    BY <1>5, <2>1 DEF TrustDevice, To
  <2>3. device' \in Seq(Int)
    <3>1. tick + DeviceLife \in Int
      BY <1>1, <1>3
    <3> QED
      BY <1>1, <1>5, <3>1, AppendProperties DEF TrustDevice
  <2>4. recent' \in Seq(Nat) /\ Len(recent') = Len(recent) + 1
    <3>1. Len(device) + 1 \in Nat
      BY <1>1, LenProperties
    <3>2. PICK one : one = <<Len(device) + 1>>
      OBVIOUS
    <3>3. one \in Seq(Nat) /\ Len(one) = 1
      BY <3>1, <3>2
    <3>4. recent' = one \o recent
      BY <1>5, <3>2 DEF TrustDevice
    <3>5. recent' \in Seq(Nat) /\ Len(recent') = Len(one) + Len(recent)
      BY <1>1, <3>3, <3>4, ConcatProperties
    <3> QED
      BY <1>1, <3>3, <3>5
  <2>5. "surplus" \notin Pending /\ "surplus" \notin Behind
    BY DEF Pending, Reading, Through, Behind
  <2>6. /\ Len(recent') <= Len(recent) + 1 /\ handler[s].pc # "surplus" /\ to.pc = "surplus"
        /\ account' \in Accounts /\ account'.until = account.until
    BY <1>1, <2>1, <2>2, <2>4
  <2> QED
    BY <1>2, <2>1, <2>2, <2>3, <2>4, <2>5, <2>6, SameChallenges, LastMove
<1>6. CASE CutSurplus(s)
  <2>1. handler' = [handler EXCEPT ![s] = Idle] /\ UNCHANGED <<tick, account, challenge, device, handlers>>
    BY <1>6 DEF CutSurplus, Finish
  <2>2. recent' \in Seq(Nat) /\ Len(recent') <= MaxDevices
    <3>1. CASE Len(recent) > MaxDevices
      <4>1. recent' = SubSeq(recent, 1, MaxDevices)
        BY <1>6, <3>1 DEF CutSurplus
      <4>2. \A i \in 1..MaxDevices : recent[i] \in Nat
        BY <1>1, <1>3, <3>1, ElementOfSeq
      <4> QED
        BY <1>1, <1>3, <3>1, <4>1, <4>2
    <3>2. CASE ~ (Len(recent) > MaxDevices)
      BY <1>1, <1>3, <1>6, <3>2 DEF CutSurplus
    <3> QED
      BY <3>1, <3>2
  <2> QED
    BY <1>1, <2>1, <2>2, IdleRow, IdleIsQuiet, SameChallenges, LastMove
<1>7. CASE DeviceCheck(s)
  <2>1. /\ handler[s].pc = "device" /\ UNCHANGED <<tick, account, challenge, device, handlers>>
        /\ handler[s].d \in Nat
    BY <1>1, <1>7 DEF DeviceCheck, Handlers
  <2>2. "deviceLock" \notin Pending /\ "deviceLock" \notin Behind /\ "issue" \notin Pending /\ "issue" \notin Behind
        /\ {"deviceLock", "issue"} \subseteq Pcs
    BY DEF Pending, Reading, Through, Behind, Pcs
  <2>3. PICK pc \in {"deviceLock", "issue"} : To(s, pc)
    BY <1>7 DEF DeviceCheck
  <2>4. PICK to \in Handlers : to = [handler[s] EXCEPT !.pc = pc] /\ to.pc = pc /\ to.barred = handler[s].barred
    BY <1>4, <2>2
  <2>5. handler' = [handler EXCEPT ![s] = to]
    BY <2>3, <2>4 DEF To
  <2>6. recent' \in Seq(Nat) /\ Len(recent') <= Len(recent)
    <3>1. PICK d \in Nat : d = handler[s].d
      BY <2>1
    <3>2. PICK left : left = Drop(d)
      OBVIOUS
    <3>3. /\ left \in Seq(Nat) /\ Len(left) \in Nat /\ Len(left) <= Len(recent)
          /\ Live(d) => Len(left) + 1 <= Len(recent)
      <4>1. left \in Seq(Nat) /\ Len(left) <= Len(recent)
        BY <1>1, <3>2, FewerDevices DEF Drop
      <4>2. Len(left) \in Nat
        BY <4>1, LenProperties
      <4>3. Live(d) => \E i \in 1..Len(recent) : recent[i] \in {d}
        BY <1>1, LenProperties DEF Live
      <4>4. Live(d) => Len(left) < Len(recent)
        BY <1>1, <3>2, <4>3, FewerDevices DEF Drop
      <4> QED
        BY <1>1, <4>1, <4>2, <4>4
    <3>4. CASE recent' = <<d>> \o left /\ Live(d)
      <4>1. PICK one : one = <<d>>
        OBVIOUS
      <4>2. one \in Seq(Nat) /\ Len(one) = 1 /\ recent' = one \o left
        BY <3>1, <3>4, <4>1
      <4>3. recent' \in Seq(Nat) /\ Len(recent') = 1 + Len(left)
        BY <3>3, <4>2, ConcatProperties
      <4> QED
        BY <1>1, <3>3, <3>4, <4>3
    <3>5. CASE recent' = left
      BY <1>1, <3>3, <3>5
    <3>6. CASE recent' = recent
      BY <1>1, <3>6
    <3> QED
      BY <1>7, <3>1, <3>2, <3>4, <3>5, <3>6 DEF DeviceCheck
  <2> QED
    BY <1>1, <1>2, <2>1, <2>2, <2>4, <2>5, <2>6, SameChallenges, LastMove
<1>8. CASE PasswordRotate(s)
  <2>1. PICK to \in Handlers : to = [handler[s] EXCEPT !.pc = "revoke"] /\ to.pc = "revoke"
                               /\ to.barred = handler[s].barred
    BY <1>4 DEF Pcs
  <2>2. handler' = [handler EXCEPT ![s] = to] /\ handler[s].pc = "rotate"
        /\ UNCHANGED <<tick, challenge, device, recent, handlers>>
    BY <1>8, <2>1 DEF PasswordRotate, To
  <2>3. account' \in Accounts /\ account'.until = account.until
    BY <1>1, <1>8 DEF PasswordRotate, Accounts
  <2>4. "revoke" \notin Pending /\ "revoke" \notin Behind
    BY DEF Pending, Reading, Through, Behind
  <2>5. device' \in Seq(Int) /\ recent' \in Seq(Nat) /\ Len(recent') <= Len(recent) /\ handler[s].pc # "surplus"
    BY <1>1, <2>2
  <2> QED
    BY <1>2, <2>1, <2>2, <2>3, <2>4, <2>5, SameChallenges, LastMove
<1>9. CASE RevokeDevices(s)
  <2>1. recent' \in Seq(Nat) /\ Len(recent') <= MaxDevices
        /\ UNCHANGED <<tick, account, challenge, device, handlers>>
    BY <1>3, <1>9 DEF RevokeDevices, RevokeAllDevices
  <2>2. CASE Finish(s)
    BY <1>1, <2>1, <2>2, IdleRow, IdleIsQuiet, SameChallenges, LastMove DEF Finish
  <2>3. CASE To(s, "enrol")
    <3>1. PICK to \in Handlers : to = [handler[s] EXCEPT !.pc = "enrol"] /\ to.pc = "enrol"
                                 /\ to.barred = handler[s].barred
      BY <1>4 DEF Pcs
    <3>2. "enrol" \notin Pending /\ "enrol" \notin Behind
      BY DEF Pending, Reading, Through, Behind
    <3>3. handler' = [handler EXCEPT ![s] = to]
      BY <2>3, <3>1 DEF To
    <3> QED
      BY <1>1, <1>2, <2>1, <3>1, <3>2, <3>3, SameChallenges, LastMove
  <2> QED
    BY <1>9, <2>2, <2>3 DEF RevokeDevices
<1>10. CASE EnrolCommit(s)
  <2>1. handler' = [handler EXCEPT ![s] = Idle] /\ UNCHANGED <<tick, challenge, device, recent, handlers>>
        /\ handler[s].pc = "enrol" /\ handler[s].step \in Int
    BY <1>1, <1>10 DEF EnrolCommit, Finish, Handlers
  <2>2. account' \in Accounts /\ account'.until = account.until
    BY <1>1, <1>10, <2>1 DEF EnrolCommit, Accounts
  <2>3. device' \in Seq(Int) /\ recent' \in Seq(Nat) /\ Len(recent') <= Len(recent) /\ handler[s].pc # "surplus"
    BY <1>1, <2>1
  <2> QED
    BY <2>1, <2>2, <2>3, IdleRow, IdleIsQuiet, SameChallenges, LastMove
<1>11. CASE StepWrite(s)
  <2>1. handler' = [handler EXCEPT ![s] = Idle] /\ UNCHANGED <<tick, challenge, device, recent, handlers>>
        /\ handler[s].pc = "stepWrite" /\ handler[s].step \in Int
    BY <1>1, <1>11 DEF StepWrite, Finish, Handlers
  <2>2. account' \in Accounts /\ account'.until = account.until
    BY <1>1, <1>11, <2>1 DEF StepWrite, Accounts
  <2>3. device' \in Seq(Int) /\ recent' \in Seq(Nat) /\ Len(recent') <= Len(recent) /\ handler[s].pc # "surplus"
    BY <1>1, <2>1
  <2> QED
    BY <2>1, <2>2, <2>3, IdleRow, IdleIsQuiet, SameChallenges, LastMove
<1>12. CASE LoginIssue(s) \/ EnrolIssue(s)
  <2>1. \E kind \in Kinds, known \in BOOLEAN : Issue(s, kind, known) /\ handler[s].pc # "surplus"
    BY <1>12 DEF LoginIssue, EnrolIssue, Kinds
  <2> QED
    BY <2>1, IssueMoves
<1> QED
  BY <1>5, <1>6, <1>7, <1>8, <1>9, <1>10, <1>11, <1>12

\* Whoever lifts the lock or counts a failure anew: nobody is barred any more.
LEMMA LiftedMove ==
  ASSUME SInv, NEW s \in Slots, NEW to \in Handlers,
         handler' = [t \in Slots |-> [(IF t = s THEN to ELSE handler[t]) EXCEPT !.barred = FALSE]],
         UNCHANGED <<tick, challenge, device, recent, handlers>>, account' \in Accounts,
         handler[s].pc # "surplus", to.pc \notin Reading, to.pc \in Pending => to.c \in DOMAIN challenge,
         to.pc \in Through => handler[s].pc \in Through /\ handler[s].c = to.c
  PROVE  SInv'
<1>1. SignInTyped
  BY DEF SInv
<1>2. ASSUME NEW h \in Handlers
      PROVE  /\ [h EXCEPT !.barred = FALSE] \in Handlers /\ ~ [h EXCEPT !.barred = FALSE].barred
             /\ [h EXCEPT !.barred = FALSE].pc = h.pc /\ [h EXCEPT !.barred = FALSE].c = h.c
  BY <1>2 DEF Handlers
<1>3. \A t \in Slots : handler'[t] = [(IF t = s THEN to ELSE handler[t]) EXCEPT !.barred = FALSE]
  OBVIOUS
<1>4. \A t \in Slots : (IF t = s THEN to ELSE handler[t]) \in Handlers
  BY <1>1 DEF SignInTyped
<1>5. \A t \in Slots : /\ handler'[t] \in Handlers /\ ~ handler'[t].barred
                       /\ handler'[t].pc = (IF t = s THEN to ELSE handler[t]).pc
                       /\ handler'[t].c = (IF t = s THEN to ELSE handler[t]).c
  <2> TAKE t \in Slots
  <2>1. PICK h \in Handlers : h = IF t = s THEN to ELSE handler[t]
    BY <1>4
  <2>2. handler'[t] = [h EXCEPT !.barred = FALSE]
    BY <1>3, <2>1
  <2> QED
    BY <1>2, <2>1, <2>2
<1>6. handler' = [t \in Slots |-> handler'[t]]
  OBVIOUS
<1>7. SignInTyped'
  BY <1>1, <1>5, <1>6 DEF SignInTyped
<1>8. Alone(s)
  BY <1>5 DEF Alone
<1>9. ChallengesKept
  BY SameChallenges
<1>10. handler'[s].pc = to.pc /\ handler'[s].c = to.c
  BY <1>5
<1>11. Len(recent') <= Len(recent)
  BY <1>1, LenProperties DEF SignInTyped
<1> QED
  BY <1>5, <1>7, <1>8, <1>9, <1>10, <1>11, HandlerMoves

\* Steps of no handler: the clock, another administrator, the purge.
LEMMA OtherSteps ==
  ASSUME SInv, PruneSignIn \/ Suspend \/ TimePasses
  PROVE  SInv'
<1>1. SignInTyped /\ account \in Accounts /\ recent \in Seq(Nat) /\ Len(recent) \in Nat /\ tick \in Nat
      /\ account.until \in Int
  BY LenProperties DEF SInv, SignInTyped, Accounts
<1>2. PICK s : s \notin Slots
  <2> DEFINE x == {y \in Slots : y \notin y}
  <2>1. x \notin Slots
    OBVIOUS
  <2> QED
    BY <2>1
<1>3. CASE PruneSignIn
  <2>1. /\ UNCHANGED <<tick, account, device, handler, handlers>>
        /\ recent' \in Seq(Nat) /\ Len(recent') <= Len(recent)
    <3>1. PICK gone : gone = {d \in ToSet(recent) : device[d] < tick}
      OBVIOUS
    <3>2. recent' = Without(recent, gone)
      BY <1>3, <3>1 DEF PruneSignIn
    <3> QED
      BY <1>1, <1>3, <3>2, FewerDevices DEF PruneSignIn
  <2>2. /\ DOMAIN challenge' = DOMAIN challenge
        /\ \A c \in DOMAIN challenge : challenge'[c] \in {challenge[c], [challenge[c] EXCEPT !.kind = "gone"]}
    BY <1>3 DEF PruneSignIn
  <2>3. ASSUME NEW c \in DOMAIN challenge
        PROVE  challenge'[c] \in Challenges /\ challenge'[c].attempts = challenge[c].attempts
               /\ challenge'[c].admitted = challenge[c].admitted /\ challenge'[c].consumed = challenge[c].consumed
    <3>1. challenge[c] \in Challenges
      BY <1>1, ChallengeRows
    <3> QED
      BY <2>2, <3>1 DEF Challenges, Kinds
  <2>4. ChallengesKept
    BY <2>2, <2>3 DEF ChallengesKept
  <2>5. challenge' \in Seq(Challenges)
    <3>1. DOMAIN challenge = 1..Len(challenge) /\ Len(challenge) \in Nat
      BY <1>1, ChallengeRows
    <3>2. challenge' = [c \in 1..Len(challenge) |-> challenge'[c]]
      BY <1>3, <3>1 DEF PruneSignIn
    <3> QED
      BY <2>3, <3>1, <3>2, IsASeq
  <2>6. SignInTyped'
    BY <1>1, <2>1, <2>5 DEF SignInTyped
  <2>7. Alone(s)
    BY <2>1 DEF Alone
  <2>8. \A t \in Slots : handler'[t].barred => Locked' /\ handler'[t].pc \notin Behind
    BY <2>1 DEF SInv, BarredStays, Locked
  <2> QED
    BY <1>2, <2>1, <2>4, <2>6, <2>7, <2>8, HandlerMoves
<1>4. CASE Suspend
  <2>1. UNCHANGED <<tick, challenge, device, recent, handler, handlers>>
        /\ account' \in Accounts /\ account'.until = account.until
    BY <1>1, <1>4 DEF Suspend, Accounts
  <2>2. SignInTyped'
    BY <1>1, <2>1 DEF SignInTyped
  <2>3. Alone(s)
    BY <2>1 DEF Alone
  <2>4. \A t \in Slots : handler'[t].barred => Locked' /\ handler'[t].pc \notin Behind
    BY <2>1 DEF SInv, BarredStays, Locked
  <2>5. ChallengesKept /\ Len(recent') <= Len(recent)
    BY <1>1, <2>1, SameChallenges
  <2> QED
    BY <1>2, <2>2, <2>3, <2>4, <2>5, HandlerMoves
<1>5. CASE TimePasses
  <2>1. UNCHANGED <<account, challenge, device, recent, handlers>> /\ tick' = tick + 1 /\ tick' \in Nat
    BY <1>1, <1>5 DEF TimePasses
  <2>2. ASSUME NEW t \in Slots
        PROVE  /\ handler'[t] \in Handlers /\ handler'[t].pc = handler[t].pc /\ handler'[t].c = handler[t].c
               /\ handler'[t].barred => handler[t].barred /\ account.until > tick + 1
    <3>1. handler[t] \in Handlers
      BY <1>1 DEF SignInTyped
    <3>2. CASE account.until > tick + 1
      BY <1>5, <3>1, <3>2 DEF TimePasses
    <3>3. CASE ~ (account.until > tick + 1)
      BY <1>5, <3>1, <3>3 DEF TimePasses, Lifted, Handlers
    <3> QED
      BY <3>2, <3>3
  <2>3. handler' = [t \in Slots |-> handler'[t]]
    BY <1>1, <1>5 DEF TimePasses, Lifted, SignInTyped
  <2>4. SignInTyped'
    BY <1>1, <2>1, <2>2, <2>3 DEF SignInTyped
  <2>5. Alone(s)
    BY <2>2 DEF Alone
  <2>6. \A t \in Slots : handler'[t].barred => Locked' /\ handler'[t].pc \notin Behind
    BY <2>1, <2>2 DEF SInv, BarredStays, Locked
  <2>7. ChallengesKept /\ Len(recent') <= Len(recent)
    BY <1>1, <2>1, SameChallenges
  <2> QED
    BY <1>2, <2>4, <2>5, <2>6, <2>7, HandlerMoves
<1> QED
  BY <1>3, <1>4, <1>5

\* A row of the challenges with some of its columns written.
LEMMA ChallengeWritten ==
  ASSUME SInv, NEW c \in DOMAIN challenge, NEW written \in Challenges, challenge' = [challenge EXCEPT ![c] = written]
  PROVE  /\ challenge' \in Seq(Challenges) /\ DOMAIN challenge' = DOMAIN challenge /\ challenge'[c] = written
         /\ \A b \in DOMAIN challenge : b # c => challenge'[b] = challenge[b]
<1>1. challenge \in Seq(Challenges) /\ DOMAIN challenge = 1..Len(challenge)
  BY ChallengeRows DEF SInv, SignInTyped
<1>2. challenge' \in Seq(Challenges)
  BY <1>1, ExceptSeq
<1> QED
  BY <1>2

\* A wrong answer is counted by a handler that was counted as its reader.
LEMMA AttemptMove ==
  ASSUME SInv, NEW s \in Slots, Attempt(s)
  PROVE  SInv'
<1>1. SignInTyped /\ handler[s] \in Handlers
  BY DEF SInv, SignInTyped
<1>2. /\ handler[s].pc \in {"attempt", "attemptOnly"} /\ UNCHANGED <<tick, account, device, recent, handlers>>
      /\ handler[s].pc \in Reading /\ handler[s].pc \in Pending /\ handler[s].pc # "surplus"
  BY DEF Attempt, Reading, Pending
<1>3. PICK c \in DOMAIN challenge : c = handler[s].c
  BY <1>2 DEF SInv, ReadersCounted
<1>4. PICK written : written = [challenge[c] EXCEPT !.attempts = @ + 1]
  OBVIOUS
<1>5. challenge[c] \in Challenges /\ challenge[c].attempts \in Nat
  BY <1>1, ChallengeRows DEF Challenges
<1>6. /\ written \in Challenges /\ written.attempts = challenge[c].attempts + 1 /\ written.admitted = challenge[c].admitted
      /\ written.consumed = challenge[c].consumed
  BY <1>4, <1>5 DEF Challenges
<1>7. challenge' = [challenge EXCEPT ![c] = written]
  BY <1>3, <1>4 DEF Attempt
<1>8. /\ challenge' \in Seq(Challenges) /\ DOMAIN challenge' = DOMAIN challenge /\ challenge'[c] = written
      /\ \A b \in DOMAIN challenge : b # c => challenge'[b] = challenge[b]
  BY <1>6, <1>7, ChallengeWritten
<1>9. PICK to \in Handlers : /\ handler' = [handler EXCEPT ![s] = to] /\ to.pc \in {"failure", "idle"}
                             /\ to.barred => handler[s].barred
  <2>1. CASE Finish(s)
    BY <2>1, IdleRow DEF Finish
  <2>2. CASE To(s, "failure")
    <3>1. PICK to : to = [handler[s] EXCEPT !.pc = "failure"]
      OBVIOUS
    <3>2. to \in Handlers /\ to.pc = "failure" /\ to.barred = handler[s].barred
      BY <1>1, <3>1 DEF Handlers, Pcs
    <3> QED
      BY <2>2, <3>1, <3>2 DEF To
  <2> QED
    BY <2>1, <2>2 DEF Attempt
<1>10. handler'[s] = to /\ \A t \in Slots : t # s => handler'[t] = handler[t]
  BY <1>1, <1>9 DEF SignInTyped
<1>11. SignInTyped'
  BY <1>1, <1>2, <1>8, <1>9 DEF SignInTyped
<1>12. Alone(s)
  BY <1>10 DEF Alone
<1>13. to.pc \notin Pending /\ to.pc \notin Reading /\ to.pc \notin Through /\ to.pc \notin Behind
  BY <1>9 DEF Pending, Reading, Through, Behind
<1>14. BarredStays'
  BY <1>2, <1>9, <1>10, <1>13 DEF SInv, BarredStays, Locked
<1>15. ReadersCounted'
  <2>1. \A t \in Slots : handler'[t].pc \in Pending => handler'[t].c \in DOMAIN challenge'
    BY <1>8, <1>10, <1>13 DEF SInv, ReadersCounted
  <2>2. ASSUME NEW b \in DOMAIN challenge'
        PROVE  challenge'[b].attempts + Cardinality(Readers(b)') <= MaxAttempts + Cardinality(Slots) - 1
    <3>1. /\ Cardinality(Readers(b)) \in Nat /\ Cardinality(Readers(b)') \in Nat /\ Cardinality(Slots) \in Nat
          /\ MaxAttempts \in Nat
      BY <1>1, <1>11, <1>12, FiniteReaders, ReadersMove, SignInAssumption
    <3>2. /\ challenge[b].attempts + Cardinality(Readers(b)) <= MaxAttempts + Cardinality(Slots) - 1
          /\ challenge[b].attempts \in Nat
      <4>1. challenge[b] \in Challenges
        BY <1>1, <1>8, ChallengeRows
      <4> QED
        BY <1>8, <4>1 DEF SInv, ReadersCounted, Challenges
    <3>3. CASE b = c
      <4>1. Cardinality(Readers(b)') + 1 <= Cardinality(Readers(b))
        BY <1>1, <1>2, <1>3, <1>10, <1>11, <1>12, <1>13, <3>3, ReadersMove
      <4>2. challenge'[b].attempts = challenge[b].attempts + 1
        BY <1>6, <1>8, <3>3
      <4> QED
        BY <3>1, <3>2, <4>1, <4>2
    <3>4. CASE b # c
      <4>1. Cardinality(Readers(b)') <= Cardinality(Readers(b))
        BY <1>1, <1>10, <1>11, <1>12, <1>13, ReadersMove
      <4>2. challenge'[b].attempts = challenge[b].attempts
        BY <1>8, <3>4
      <4> QED
        BY <3>1, <3>2, <4>1, <4>2
    <3> QED
      BY <3>3, <3>4
  <2> QED
    BY <2>1, <2>2 DEF ReadersCounted
<1>16. OneThrough'
  <2>1. \A b \in DOMAIN challenge : /\ challenge'[b].admitted = challenge[b].admitted
                                    /\ challenge'[b].consumed = challenge[b].consumed
    BY <1>6, <1>8
  <2>2. ASSUME NEW t \in Slots, handler'[t].pc \in Through
        PROVE  handler[t].pc \in Through /\ handler[t].c = handler'[t].c /\ handler[t].c \in DOMAIN challenge
    BY <1>10, <1>13, <2>2 DEF Pending, SInv, ReadersCounted
  <2> QED
    BY <1>8, <2>1, <2>2 DEF SInv, OneThrough
<1>17. DevicesBounded'
  <2>1. Cardinality(Cutting) <= Cardinality(Cutting') /\ Cardinality(Cutting) \in Nat /\ Cardinality(Cutting') \in Nat
    BY <1>2, <1>12, CuttingMoves
  <2>2. Len(recent) \in Nat /\ Len(recent) <= MaxDevices + Cardinality(Cutting) /\ MaxDevices \in Nat
    BY <1>1, LenProperties, SignInAssumption DEF SInv, DevicesBounded, Cutting, SignInTyped
  <2>3. Len(recent') <= MaxDevices + Cardinality(Cutting')
    BY <1>2, <2>1, <2>2
  <2> QED
    BY <2>3 DEF DevicesBounded, Cutting
<1> QED
  BY <1>11, <1>14, <1>15, <1>16, <1>17 DEF SInv

\* The rows that a failure, a cleared counter and a finished sign-in write.
LEMMA AccountRows ==
  /\ \A a \in Accounts, fails \in Nat, last \in Int, until \in Int :
       /\ [a EXCEPT !.fails = fails, !.last = last, !.until = until] \in Accounts
       /\ [a EXCEPT !.fails = fails, !.until = until, !.last = last] \in Accounts
  /\ \A a \in Accounts, fails \in Nat, until \in Int, unused \in SUBSET Codes, step \in Int :
       [a EXCEPT !.fails = fails, !.until = until, !.unused = unused, !.step = step] \in Accounts
BY DEF Accounts

\* Whoever lifts the lock or writes it anew, and goes on.
LEMMA LiftingActions ==
  ASSUME SInv, NEW s \in Slots, FailureWrite(s) \/ VerifyCommit(s) \/ PasswordClear(s)
  PROVE  SInv'
<1>1. SignInTyped /\ handler[s] \in Handlers /\ account \in Accounts /\ tick \in Nat
      /\ handler \in [Slots -> Handlers] /\ handler[s].step \in Int /\ handler[s].row \in Accounts
  BY DEF SInv, SignInTyped, Handlers
<1>2. ASSUME NEW to \in Handlers
      PROVE  /\ Lifted([handler EXCEPT ![s] = to])
                  = [t \in Slots |-> [(IF t = s THEN to ELSE handler[t]) EXCEPT !.barred = FALSE]]
  BY <1>1 DEF Lifted
<1>3. ASSUME NEW pc \in Pcs, handler' = [Lifted(handler) EXCEPT ![s].pc = pc]
      PROVE  \E to \in Handlers :
               /\ handler' = [t \in Slots |-> [(IF t = s THEN to ELSE handler[t]) EXCEPT !.barred = FALSE]]
               /\ to.pc = pc /\ to.c = handler[s].c
  <2>1. PICK to : to = [handler[s] EXCEPT !.pc = pc]
    OBVIOUS
  <2>2. to \in Handlers /\ to.pc = pc /\ to.c = handler[s].c
    BY <1>1, <2>1 DEF Handlers
  <2>3. [to EXCEPT !.barred = FALSE] = [[handler[s] EXCEPT !.barred = FALSE] EXCEPT !.pc = pc]
    BY <1>1, <2>1 DEF Handlers
  <2>4. handler' = [t \in Slots |-> IF t = s THEN [[handler[s] EXCEPT !.barred = FALSE] EXCEPT !.pc = pc]
                                    ELSE [handler[t] EXCEPT !.barred = FALSE]]
    BY <1>3 DEF Lifted
  <2>5. handler' = [t \in Slots |-> [(IF t = s THEN to ELSE handler[t]) EXCEPT !.barred = FALSE]]
    BY <2>3, <2>4
  <2> QED
    BY <2>2, <2>5
<1>4. CASE FailureWrite(s)
  <2>1. /\ handler[s].pc = "failureWrite" /\ UNCHANGED <<tick, challenge, device, recent, handlers>>
        /\ handler' = [t \in Slots |-> [(IF t = s THEN Idle ELSE handler[t]) EXCEPT !.barred = FALSE]]
    BY <1>2, <1>4, IdleRow DEF FailureWrite
  <2>2. PICK n \in Nat : n = Counted(handler[s].row) + 1
    BY <1>1 DEF Counted, Accounts
  <2>3. PICK lock \in Nat : lock = ComputeLockDuration(n)
    BY LockLasts
  <2>4. account' = [account EXCEPT !.fails = n, !.last = tick, !.until = IF lock > 0 THEN tick + lock ELSE 0]
    BY <1>4, <2>2, <2>3 DEF FailureWrite
  <2>5. account' \in Accounts
    <3>1. PICK until \in Int : until = IF lock > 0 THEN tick + lock ELSE 0
      BY <1>1, <2>3
    <3>2. account' = [account EXCEPT !.fails = n, !.last = tick, !.until = until]
      BY <2>4, <3>1
    <3>3. account \in Accounts /\ tick \in Int
      BY <1>1
    <3> QED
      BY <2>2, <3>1, <3>2, <3>3, AccountRows
  <2> QED
    BY <2>1, <2>5, IdleRow, IdleIsQuiet, LiftedMove
<1>5. CASE VerifyCommit(s)
  <2>1. /\ handler[s].pc = "commit" /\ UNCHANGED <<tick, challenge, device, recent, handlers>>
        /\ handler' = [Lifted(handler) EXCEPT ![s].pc = "grant"]
    BY <1>5 DEF VerifyCommit
  <2>2. PICK to \in Handlers :
          /\ handler' = [t \in Slots |-> [(IF t = s THEN to ELSE handler[t]) EXCEPT !.barred = FALSE]]
          /\ to.pc = "grant" /\ to.c = handler[s].c
    BY <1>3, <2>1 DEF Pcs
  <2>3. account' \in Accounts
    <3>1. PICK step \in Int : step = IF handler[s].code = "totp" THEN handler[s].step ELSE account.step
      BY <1>1 DEF Accounts
    <3>2. PICK unused \in SUBSET Codes : unused = account.unused \ {handler[s].code}
      BY <1>1 DEF Accounts
    <3>3. account' = [account EXCEPT !.fails = 0, !.until = 0, !.unused = unused, !.step = step]
      BY <1>5, <3>1, <3>2 DEF VerifyCommit
    <3>4. account \in Accounts /\ 0 \in Nat /\ 0 \in Int
      BY <1>1
    <3> QED
      BY <3>1, <3>2, <3>3, <3>4, AccountRows
  <2>4. /\ "grant" \notin Reading /\ "commit" \in Through /\ "commit" \in Pending
        /\ handler[s].c \in DOMAIN challenge
    <3>1. "grant" \notin Reading /\ "commit" \in Through /\ "commit" \in Pending
      BY DEF Reading, Through, Pending
    <3> QED
      BY <2>1, <3>1 DEF SInv, ReadersCounted
  <2>5. /\ to.pc \notin Reading /\ handler[s].pc # "surplus" /\ handler[s].pc \in Through
        /\ to.c \in DOMAIN challenge
    BY <2>1, <2>2, <2>4
  <2> QED
    BY <2>1, <2>2, <2>3, <2>5, LiftedMove
<1>6. CASE PasswordClear(s)
  <2>1. PICK pc \in {"grantPlain", "issue"} : handler' = [Lifted(handler) EXCEPT ![s].pc = pc]
    BY <1>6 DEF PasswordClear
  <2>2. pc \in Pcs /\ pc \notin Reading /\ pc \notin Pending /\ pc \notin Through
    BY <2>1 DEF Pcs, Reading, Through, Pending
  <2>3. PICK to \in Handlers :
          /\ handler' = [t \in Slots |-> [(IF t = s THEN to ELSE handler[t]) EXCEPT !.barred = FALSE]]
          /\ to.pc = pc /\ to.c = handler[s].c
    BY <1>3, <2>1, <2>2
  <2>4. /\ account' = [account EXCEPT !.fails = 0, !.until = 0, !.last = -1]
        /\ handler[s].pc # "surplus" /\ UNCHANGED <<tick, challenge, device, recent, handlers>>
    BY <1>6 DEF PasswordClear
  <2>5. account' \in Accounts
    <3>1. PICK last \in Int : last = -1
      OBVIOUS
    <3>2. account' = [account EXCEPT !.fails = 0, !.until = 0, !.last = last]
      BY <2>4, <3>1
    <3>3. account \in Accounts /\ 0 \in Nat /\ 0 \in Int
      BY <1>1
    <3> QED
      BY <3>1, <3>2, <3>3, AccountRows
  <2> QED
    BY <2>2, <2>3, <2>4, <2>5, LiftedMove
<1> QED
  BY <1>4, <1>5, <1>6

\* What a handler may write to the challenge c it read, and where it may go on to.
MayWrite(s, c, written, to) ==
  /\ handler[s].c = c /\ handler[s].pc # "surplus"
  /\ written.attempts = challenge[c].attempts /\ written.admitted <= 1 /\ (written.admitted > 0 => written.consumed)
  /\ (to.barred => Locked /\ to.pc \notin Behind) /\ to.pc \notin Reading
  /\ (to.pc \in Pending => to.c = c) /\ (to.pc \in Through => written.consumed /\ written.admitted = 0)
  /\ \A t \in Slots \ {s} : ~ (handler[t].pc \in Through /\ handler[t].c = c)

\* A handler that writes its challenge so keeps the invariant.
LEMMA ChallengeMove ==
  ASSUME SInv, NEW s \in Slots, NEW c \in DOMAIN challenge, NEW written \in Challenges, NEW to \in Handlers,
         challenge' = [challenge EXCEPT ![c] = written], handler' = [handler EXCEPT ![s] = to],
         UNCHANGED <<tick, account, device, recent, handlers>>, MayWrite(s, c, written, to)
  PROVE  SInv'
<1> USE DEF MayWrite
<1>1. SignInTyped
  BY DEF SInv
<1>2. /\ challenge' \in Seq(Challenges) /\ DOMAIN challenge' = DOMAIN challenge /\ challenge'[c] = written
      /\ \A b \in DOMAIN challenge : b # c => challenge'[b] = challenge[b]
  BY ChallengeWritten
<1>3. handler'[s] = to /\ \A t \in Slots : t # s => handler'[t] = handler[t]
  BY <1>1 DEF SignInTyped
<1>4. SignInTyped'
  BY <1>1, <1>2 DEF SignInTyped
<1>5. Alone(s)
  BY <1>3 DEF Alone
<1>6. BarredStays'
  BY <1>3 DEF SInv, BarredStays, Locked
<1>7. ReadersCounted'
  <2>1. \A t \in Slots : handler'[t].pc \in Pending => handler'[t].c \in DOMAIN challenge'
    BY <1>2, <1>3 DEF SInv, ReadersCounted
  <2>2. ASSUME NEW b \in DOMAIN challenge'
        PROVE  challenge'[b].attempts + Cardinality(Readers(b)') <= MaxAttempts + Cardinality(Slots) - 1
    <3>1. /\ Cardinality(Readers(b)) \in Nat /\ Cardinality(Readers(b)') \in Nat /\ Cardinality(Slots) \in Nat
          /\ MaxAttempts \in Nat /\ Cardinality(Readers(b)') <= Cardinality(Readers(b))
      BY <1>1, <1>3, <1>4, <1>5, FiniteReaders, ReadersMove, SignInAssumption
    <3>2. /\ challenge[b].attempts + Cardinality(Readers(b)) <= MaxAttempts + Cardinality(Slots) - 1
          /\ challenge[b].attempts \in Nat
      <4>1. challenge[b] \in Challenges
        BY <1>1, <1>2, ChallengeRows
      <4> QED
        BY <1>2, <4>1 DEF SInv, ReadersCounted, Challenges
    <3>3. challenge'[b].attempts = challenge[b].attempts
      BY <1>2
    <3> QED
      BY <3>1, <3>2, <3>3
  <2> QED
    BY <2>1, <2>2 DEF ReadersCounted
<1>8. OneThrough'
  <2>1. ASSUME NEW t \in Slots \ {s}, handler'[t].pc \in Through
        PROVE  /\ handler[t].pc \in Through /\ handler[t].c = handler'[t].c /\ handler'[t].c \in DOMAIN challenge
               /\ handler'[t].c # c
    BY <1>3, <2>1 DEF Pending, SInv, ReadersCounted
  <2>2. to.pc \in Through => to.c = c
    BY DEF Pending
  <2>3. \A t \in Slots : handler'[t].pc \in Through =>
          challenge'[handler'[t].c].consumed /\ challenge'[handler'[t].c].admitted = 0
    <3>1. ASSUME NEW t \in Slots, handler'[t].pc \in Through
          PROVE  challenge'[handler'[t].c].consumed /\ challenge'[handler'[t].c].admitted = 0
      <4>1. CASE t = s
        BY <1>2, <1>3, <2>2, <3>1, <4>1
      <4>2. CASE t # s
        BY <1>2, <2>1, <3>1, <4>2 DEF SInv, OneThrough
      <4> QED
        BY <4>1, <4>2
    <3> QED
      BY <3>1
  <2>4. \A t, u \in Slots : handler'[t].pc \in Through /\ handler'[u].pc \in Through /\ handler'[t].c = handler'[u].c
          => t = u
    BY <1>3, <2>1, <2>2 DEF SInv, OneThrough
  <2>5. \A b \in DOMAIN challenge' :
          challenge'[b].admitted <= 1 /\ (challenge'[b].admitted > 0 => challenge'[b].consumed)
    BY <1>2 DEF SInv, OneThrough
  <2> QED
    BY <2>3, <2>4, <2>5 DEF OneThrough
<1>9. DevicesBounded'
  <2>1. Cardinality(Cutting) <= Cardinality(Cutting') /\ Cardinality(Cutting) \in Nat /\ Cardinality(Cutting') \in Nat
    BY <1>5, CuttingMoves
  <2>2. Len(recent) \in Nat /\ Len(recent) <= MaxDevices + Cardinality(Cutting) /\ MaxDevices \in Nat
    BY <1>1, LenProperties, SignInAssumption DEF SInv, DevicesBounded, Cutting, SignInTyped
  <2>3. Len(recent') <= MaxDevices + Cardinality(Cutting')
    BY <2>1, <2>2
  <2> QED
    BY <2>3 DEF DevicesBounded, Cutting
<1> QED
  BY <1>4, <1>6, <1>7, <1>8, <1>9 DEF SInv

\* A challenge is consumed by the first handler that comes to it.
LEMMA ConsumeMove ==
  ASSUME SInv, NEW s \in Slots, Consume(s)
  PROVE  SInv'
<1>1. SignInTyped /\ handler[s] \in Handlers
  BY DEF SInv, SignInTyped
<1>2. handler[s].pc \in {"consume", "consumeEnrol"} /\ UNCHANGED <<tick, account, device, recent, handlers>>
      /\ handler[s].pc # "surplus" /\ handler[s].pc \in Pending
  BY DEF Consume, Pending
<1>3. PICK c \in DOMAIN challenge : c = handler[s].c
  BY <1>2 DEF SInv, ReadersCounted
<1>4. CASE Finish(s) /\ UNCHANGED challenge
  BY <1>2, <1>4, FinishMove
<1>5. CASE Consumes(c) /\ (IF handler[s].pc = "consume" THEN To(s, "commit") ELSE To(s, "revokeEnrol"))
  <2>1. PICK written : written = [challenge[c] EXCEPT !.consumed = TRUE]
    OBVIOUS
  <2>2. challenge[c] \in Challenges /\ challenge[c].admitted \in Nat
    BY <1>1, ChallengeRows DEF Challenges
  <2>3. challenge[c].admitted = 0
    BY <1>5, <2>2 DEF Consumes, SInv, OneThrough
  <2>4. written \in Challenges /\ written.attempts = challenge[c].attempts /\ written.admitted = 0 /\ written.consumed
    BY <2>1, <2>2, <2>3 DEF Challenges
  <2>5. challenge' = [challenge EXCEPT ![c] = written]
    BY <1>5, <2>1 DEF Consumes
  <2>6. PICK pc \in {"commit", "revokeEnrol"} : /\ To(s, pc)
                                                /\ pc = "commit" => handler[s].pc = "consume"
    BY <1>5
  <2>7. PICK to : to = [handler[s] EXCEPT !.pc = pc]
    OBVIOUS
  <2>8. to \in Handlers /\ to.pc = pc /\ to.c = c /\ to.barred = handler[s].barred
    BY <1>1, <1>3, <2>6, <2>7 DEF Handlers, Pcs
  <2>9. handler' = [handler EXCEPT ![s] = to]
    BY <2>6, <2>7 DEF To
  <2>10. to.barred => Locked /\ to.pc \notin Behind
    BY <2>6, <2>8 DEF SInv, BarredStays, Behind
  <2>11. to.pc \notin Reading
    BY <2>6, <2>8 DEF Reading
  <2>12. \A t \in Slots \ {s} : ~ (handler[t].pc \in Through /\ handler[t].c = c)
    BY <1>5 DEF Consumes, SInv, OneThrough
  <2>13. MayWrite(s, c, written, to)
    BY <1>2, <1>3, <2>4, <2>8, <2>10, <2>11, <2>12 DEF MayWrite
  <2>14. written \in Challenges /\ to \in Handlers
    BY <2>4, <2>8
  <2> QED
    BY <1>2, <2>5, <2>9, <2>13, <2>14, ChallengeMove
<1> QED
  BY <1>3, <1>4, <1>5 DEF Consume

\* A sign-in is let through by the one handler that consumed its challenge.
LEMMA GrantMove ==
  ASSUME SInv, NEW s \in Slots, Grant(s)
  PROVE  SInv'
<1>1. SignInTyped /\ handler[s] \in Handlers
  BY DEF SInv, SignInTyped
<1>2. handler[s].pc \in {"deviceGrant", "grantPlain", "grant"} /\ UNCHANGED <<tick, account, device, recent, handlers>>
      /\ handler[s].pc # "surplus"
  BY DEF Grant
<1>3. CASE handler[s].pc # "grant"
  BY <1>2, <1>3, FinishMove DEF Grant
<1>4. CASE handler[s].pc = "grant"
  <2>1. handler[s].pc \in Through
    BY <1>4 DEF Through
  <2>2. PICK c \in DOMAIN challenge : c = handler[s].c
    BY <2>1 DEF SInv, ReadersCounted, Pending
  <2>3. challenge[c] \in Challenges /\ challenge[c].admitted = 0 /\ challenge[c].consumed
    BY <1>1, <2>1, <2>2, ChallengeRows DEF SInv, OneThrough
  <2>4. PICK written : written = [challenge[c] EXCEPT !.admitted = @ + 1]
    OBVIOUS
  <2>5. written \in Challenges /\ written.attempts = challenge[c].attempts /\ written.admitted = 1 /\ written.consumed
    BY <2>3, <2>4 DEF Challenges
  <2>6. challenge' = [challenge EXCEPT ![c] = written]
    BY <1>4, <2>2, <2>4 DEF Grant
  <2>7. PICK to \in Handlers : /\ handler' = [handler EXCEPT ![s] = to] /\ to.pc \in {"trust", "idle"}
                               /\ to.barred => handler[s].barred
    <3>1. CASE Finish(s)
      BY <3>1, IdleRow DEF Finish
    <3>2. CASE To(s, "trust")
      <4>1. PICK to : to = [handler[s] EXCEPT !.pc = "trust"]
        OBVIOUS
      <4>2. to \in Handlers /\ to.pc = "trust" /\ to.barred = handler[s].barred
        BY <1>1, <4>1 DEF Handlers, Pcs
      <4> QED
        BY <3>2, <4>1, <4>2 DEF To
    <3> QED
      BY <1>4, <3>1, <3>2 DEF Grant
  <2>8. to.pc \notin Behind /\ to.pc \notin Reading /\ to.pc \notin Pending /\ to.pc \notin Through
    BY <2>7 DEF Behind, Reading, Pending, Through
  <2>9. to.barred => Locked
    BY <2>7 DEF SInv, BarredStays
  <2>10. \A t \in Slots \ {s} : ~ (handler[t].pc \in Through /\ handler[t].c = c)
    BY <2>1, <2>2 DEF SInv, OneThrough
  <2>11. MayWrite(s, c, written, to)
    BY <1>2, <2>2, <2>5, <2>8, <2>9, <2>10 DEF MayWrite
  <2>12. written \in Challenges /\ handler' = [handler EXCEPT ![s] = to]
    BY <2>5, <2>7
  <2> QED
    BY <1>2, <2>6, <2>11, <2>12, ChallengeMove
<1> QED
  BY <1>3, <1>4

\* The invariant holds at first.
LEMMA SignInStart ==
  ASSUME SignInInit
  PROVE  SInv
<1>1. /\ tick = 0 /\ handlers = 0 /\ handler = [s \in Slots |-> Idle]
      /\ DeviceLife \in Nat /\ ChallengeLife \in Nat /\ MaxDevices \in Nat \ {0} /\ MaxAttempts \in Nat \ {0}
  BY SignInAssumption DEF SignInInit
<1>2. \A s \in Slots : handler[s] = Idle
  BY <1>1
<1>3. account \in Accounts
  <2>1. CASE account = Idle.row
    BY <2>1, IdleRow
  <2>2. CASE account = [Idle.row EXCEPT !.enrolled = TRUE, !.must = FALSE, !.unused = Codes]
    BY <2>2, IdleRow DEF Accounts
  <2> QED
    BY <2>1, <2>2 DEF SignInInit
<1>4. PICK new : new = NewChallenge("LOGIN_TOTP", TRUE)
  OBVIOUS
<1>5. new \in Challenges /\ new.attempts = 0 /\ new.admitted = 0
  <2>1. tick + ChallengeLife \in Int
    BY <1>1
  <2> QED
    BY <1>4, <2>1 DEF NewChallenge, Challenges, Kinds
<1>6. challenge = <<>> \/ challenge = <<new>>
  BY <1>4 DEF SignInInit
<1>7. /\ challenge \in Seq(Challenges)
      /\ \A c \in DOMAIN challenge : challenge[c].attempts = 0 /\ challenge[c].admitted = 0
  <2>1. CASE challenge = <<>>
    BY <2>1
  <2>2. CASE challenge = <<new>>
    <3>1. challenge \in Seq(Challenges)
      BY <1>5, <2>2
    <3>2. \A c \in DOMAIN challenge : challenge[c] = new
      BY <2>2
    <3> QED
      BY <1>5, <3>1, <3>2
  <2> QED
    BY <1>6, <2>1, <2>2
<1>8. device \in Seq(Int) /\ recent \in Seq(Nat) /\ Len(recent) <= 1
  <2>1. DeviceLife \in Int /\ 0 \in Int
    BY <1>1
  <2>2. device = <<>> \/ device = <<DeviceLife>> \/ device = <<0>>
    BY DEF SignInInit
  <2>3. recent = <<>> \/ recent = <<1>>
    BY DEF SignInInit
  <2>4. <<>> \in Seq(Int) /\ <<DeviceLife>> \in Seq(Int) /\ <<0>> \in Seq(Int)
    BY <2>1
  <2>5. <<>> \in Seq(Nat) /\ Len(<<>>) <= 1 /\ <<1>> \in Seq(Nat) /\ Len(<<1>>) <= 1
    OBVIOUS
  <2> QED
    BY <2>2, <2>3, <2>4, <2>5
<1>9. SignInTyped
  BY <1>1, <1>3, <1>7, <1>8, IdleRow DEF SignInTyped
<1>10. BarredStays
  BY <1>2, IdleRow DEF BarredStays
<1>11. ReadersCounted
  <2>1. \A s \in Slots : handler[s].pc \notin Pending
    BY <1>2, IdleIsQuiet
  <2>2. ASSUME NEW c \in DOMAIN challenge
        PROVE  challenge[c].attempts + Cardinality(Readers(c)) <= MaxAttempts + Cardinality(Slots) - 1
    <3>1. Readers(c) = {}
      BY <1>2, IdleIsQuiet DEF Readers
    <3>2. Cardinality(Readers(c)) = 0 /\ Cardinality(Slots) \in Nat
      BY <3>1, FS_EmptySet, FiniteReaders
    <3> QED
      BY <1>1, <1>7, <3>2
  <2> QED
    BY <2>1, <2>2 DEF ReadersCounted
<1>12. OneThrough
  <2>1. \A s \in Slots : handler[s].pc \notin Through
    BY <1>2, IdleIsQuiet
  <2> QED
    BY <1>7, <2>1 DEF OneThrough
<1>13. DevicesBounded
  <2>1. Cardinality(Cutting) \in Nat
    <3>1. Cutting \in SUBSET Slots
      BY DEF Cutting
    <3> QED
      BY <3>1, SignInAssumption, FS_Subset, FS_CardinalityType
  <2>2. Len(recent) \in Nat
    BY <1>8, LenProperties
  <2>3. Len(recent) <= MaxDevices + Cardinality(Cutting)
    BY <1>1, <1>8, <2>1, <2>2
  <2> QED
    BY <2>3 DEF DevicesBounded, Cutting
<1> QED
  BY <1>9, <1>10, <1>11, <1>12, <1>13 DEF SInv

\* Every step keeps the invariant.
LEMMA SignInStep ==
  ASSUME SInv, [SignInNext]_signInVars
  PROVE  SInv'
<1>1. CASE \E s \in Slots :
             \/ FailureRead(s) \/ LoginStart(s) \/ DeviceLock(s) \/ VerifyPeek(s) \/ VerifyLoad(s) \/ VerifyLock(s)
             \/ VerifyAnswer(s) \/ PasswordLogin(s) \/ PasswordLock(s) \/ ChangePassword(s)
             \/ EnrolStart(s) \/ EnrolConfirm(s) \/ StepUp(s)
  BY <1>1, QuietActions
<1>2. CASE \E s \in Slots :
             \/ TrustDevice(s) \/ CutSurplus(s) \/ DeviceCheck(s) \/ PasswordRotate(s) \/ RevokeDevices(s)
             \/ EnrolCommit(s) \/ StepWrite(s) \/ LoginIssue(s) \/ EnrolIssue(s)
  BY <1>2, WritingActions
<1>3. CASE \E s \in Slots : FailureWrite(s) \/ VerifyCommit(s) \/ PasswordClear(s)
  BY <1>3, LiftingActions
<1>4. CASE \E s \in Slots : Attempt(s) \/ Consume(s) \/ Grant(s)
  BY <1>4, AttemptMove, ConsumeMove, GrantMove
<1>5. CASE PruneSignIn \/ Suspend \/ TimePasses
  BY <1>5, OtherSteps
<1>6. CASE UNCHANGED signInVars
  BY <1>6 DEF signInVars, SInv, SignInTyped, BarredStays, ReadersCounted, OneThrough, DevicesBounded, Readers, Locked
<1> QED
  BY <1>1, <1>2, <1>3, <1>4, <1>5, <1>6 DEF SignInNext

\* A challenge lets one sign-in through and takes no more wrong answers than
\* challenges.ts allows it, and trusted-device.ts keeps no more devices than it cuts the
\* list to, for every set of handlers, lock-out rule and limit.
THEOREM SignInAlwaysCounts == SignInSpec => []SignInCounts
<1>1. SInv => SignInCounts
  <2> SUFFICES ASSUME SInv PROVE SignInCounts
    OBVIOUS
  <2>1. ChallengeOnce /\ DevicesBounded
    BY DEF SInv, OneThrough, ChallengeOnce
  <2>2. ASSUME NEW c \in DOMAIN challenge
        PROVE  challenge[c].attempts <= MaxAttempts + Cardinality(Slots) - 1
    <3>1. challenge[c] \in Challenges
      BY ChallengeRows DEF SInv
    <3>2. challenge[c].attempts \in Nat
      BY <3>1 DEF Challenges
    <3>3. Cardinality(Readers(c)) \in Nat /\ Cardinality(Slots) \in Nat /\ MaxAttempts \in Nat
      BY FiniteReaders, SignInAssumption
    <3>4. challenge[c].attempts + Cardinality(Readers(c)) <= MaxAttempts + Cardinality(Slots) - 1
      BY DEF SInv, ReadersCounted
    <3> QED
      BY <3>2, <3>3, <3>4
  <2> QED
    BY <2>1, <2>2 DEF SignInCounts, AttemptsBounded
<1>2. SignInInit => SInv
  BY SignInStart
<1>3. SInv /\ [SignInNext]_signInVars => SInv'
  BY SignInStep
<1> QED
  BY <1>1, <1>2, <1>3, PTL DEF SignInSpec

\* No path of auth.ts and admin-auth.ts lets a sign-in through that began under a lock
\* nothing has lifted since, for every set of handlers and every lock-out rule.
THEOREM LockAlwaysHolds == SignInSpec => LockHolds
<1>1. SInv /\ [SignInNext]_signInVars
        => [\A s \in Slots :
              handler[s].pc \in {"deviceGrant", "grantPlain", "grant"} /\ handler'[s].pc # handler[s].pc
                => ~ handler[s].barred]_signInVars
  BY DEF SInv, BarredStays, Behind
<1>2. SignInInit => SInv
  BY SignInStart
<1>3. SInv /\ [SignInNext]_signInVars => SInv'
  BY SignInStep
<1> QED
  BY <1>1, <1>2, <1>3, PTL DEF SignInSpec, LockHolds

(***************************************************************************)
(* Registration: what lets an account be created was given out when        *)
(* registration was open, for a name that was screened.                    *)
(***************************************************************************)
\* What a handler may hold.
UserNames == Names \cup {"none"}
Identities == Discords \cup {"none"}
AccountRecords == [state : {"live", "deleted"}, name : UserNames, discord : Identities]
TokenRows == [kind : {"none", "state", "link", "enrol"}, name : UserNames, discord : Identities, used : BOOLEAN]
FlowRecords ==
  [at : {"free", "count", "setup", "screen", "warn", "ban", "issue", "consume", "consumeState", "taken", "create",
         "discord", "link", "issueLink"},
   client : Clients \cup {"none"}, name : UserNames, discord : Identities, token : Tokens \cup {"none"},
   row : Nat, ready : BOOLEAN]
PlatformRows ==
  [complete : BOOLEAN, pass : BOOLEAN, open : BOOLEAN, bootstrap : BOOLEAN, must : BOOLEAN,
   verified : BOOLEAN, nodes : BOOLEAN, changed : BOOLEAN, enrolled : BOOLEAN, hosted : BOOLEAN]

\* The type invariant of registration.
RegistrationTyped ==
  /\ platform \in PlatformRows /\ row \in Seq(AccountRecords)
  /\ token \in [Tokens -> TokenRows] /\ flow \in [Flows -> FlowRecords]
  /\ \A f \in Flows : flow[f].row \in DOMAIN row \cup {0} /\ (flow[f].at = "link" => flow[f].row # 0)

\* A flow that may end in an account, and a token that such a flow may hold,
\* were begun when setup was complete, for a name that is not abusive.
Granted(f) ==
  /\ flow[f].at \in {"issue", "consume", "taken", "create"} => platform.complete /\ flow[f].name \notin Abusive
  /\ flow[f].at \in {"screen", "warn", "ban"} /\ flow[f].ready => platform.complete

\* So for every flow and every token.
GrantsScreened ==
  /\ \A f \in Flows : Granted(f)
  /\ \A t \in Tokens : token[t].kind = "enrol" => platform.complete /\ token[t].name \notin Abusive

\* What a gate of setup was opened by stays done.
GatesStand ==
  /\ ~ platform.must => platform.changed
  /\ platform.verified => platform.enrolled
  /\ platform.nodes => platform.hosted
  /\ \A f \in Flows : flow[f].at \in {"count", "setup"} => platform.changed /\ platform.enrolled
  /\ \A f \in Flows : flow[f].at = "setup" => platform.hosted

\* The inductive invariant of registration.
GateInv == RegistrationTyped /\ GrantsScreened /\ GatesStand /\ RegistrationSafe

\* Where a flow may go on to.
MayGoOn(to) ==
  /\ to.at \in {"issue", "consume", "taken", "create"} => platform.complete /\ to.name \notin Abusive
  /\ to.at \in {"screen", "warn", "ban"} /\ to.ready => platform.complete
  /\ to.row \in DOMAIN row \cup {0}
  /\ to.at = "link" => to.row # 0
  /\ to.at \notin {"count", "setup"}

\* The tokens are those of a registration that was open.
TokensScreened ==
  /\ token \in [Tokens -> TokenRows]
  /\ \A t \in Tokens : token[t].kind = "enrol" => platform.complete /\ token[t].name \notin Abusive

\* A flow that does nothing is a flow.
LEMMA NoFlowMayGoOn == NoFlow \in FlowRecords /\ MayGoOn(NoFlow) /\ NoToken \in TokenRows /\ NoToken.kind = "none"
BY DEF NoFlow, FlowRecords, MayGoOn, UserNames, Identities, NoToken, TokenRows

\* A flow goes on, and leaves the accounts and the platform alone.
LEMMA FlowMoves ==
  ASSUME GateInv, NEW f \in Flows, NEW to \in FlowRecords, flow' = [flow EXCEPT ![f] = to], MayGoOn(to),
         UNCHANGED <<platform, row>>, TokensScreened'
  PROVE  GateInv'
<1>1. RegistrationTyped
  BY DEF GateInv
<1>2. \A g \in Flows : flow'[g] = IF g = f THEN to ELSE flow[g]
  BY <1>1 DEF RegistrationTyped
<1>3. RegistrationTyped'
  BY <1>1, <1>2 DEF RegistrationTyped, TokensScreened, MayGoOn
<1>4. GrantsScreened'
  BY <1>2 DEF GateInv, GrantsScreened, Granted, TokensScreened, MayGoOn
<1>5. GatesStand'
  BY <1>2 DEF GateInv, GatesStand, MayGoOn
<1>6. RegistrationSafe'
  BY DEF GateInv, RegistrationSafe, NamesReserved, SetupGated, NoAbusiveNames, Rows
<1> QED
  BY <1>3, <1>4, <1>5, <1>6 DEF GateInv

\* The platform's row is written.
LEMMA PlatformMoves ==
  ASSUME GateInv, UNCHANGED <<row, token, flow>>, platform' \in PlatformRows, platform.complete = platform'.complete,
         ~ platform'.must => platform'.changed, platform'.verified => platform'.enrolled,
         platform'.nodes => platform'.hosted,
         platform.changed => platform'.changed, platform.enrolled => platform'.enrolled,
         platform.hosted => platform'.hosted, platform'.bootstrap => platform.bootstrap
  PROVE  GateInv'
<1>1. RegistrationTyped'
  BY DEF GateInv, RegistrationTyped
<1>2. GrantsScreened'
  BY DEF GateInv, GrantsScreened, Granted
<1>3. GatesStand'
  BY DEF GateInv, GatesStand
<1>4. RegistrationSafe'
  BY DEF GateInv, RegistrationSafe, NamesReserved, SetupGated, NoAbusiveNames, Rows
<1> QED
  BY <1>1, <1>2, <1>3, <1>4 DEF GateInv

\* An account's row is written, but for its name.
LEMMA AccountMoves ==
  ASSUME GateInv, NEW r \in DOMAIN row, NEW to \in AccountRecords, to.name = row[r].name, row' = [row EXCEPT ![r] = to],
         UNCHANGED <<platform, token>>, flow' \in [Flows -> FlowRecords],
         \A f \in Flows : flow'[f] = flow[f] \/ flow'[f] = NoFlow
  PROVE  GateInv'
<1>1. RegistrationTyped /\ row \in Seq(AccountRecords)
  BY DEF GateInv, RegistrationTyped
<1>2. /\ row' \in Seq(AccountRecords) /\ DOMAIN row' = DOMAIN row
      /\ \A q \in DOMAIN row : row'[q].name = row[q].name
  BY <1>1, LenProperties, ExceptSeq
<1>3. RegistrationTyped'
  BY <1>1, <1>2, NoFlowMayGoOn DEF RegistrationTyped, MayGoOn
<1>4. GrantsScreened'
  BY NoFlowMayGoOn DEF GateInv, GrantsScreened, Granted, MayGoOn
<1>5. GatesStand'
  BY NoFlowMayGoOn DEF GateInv, GatesStand, MayGoOn
<1>6. RegistrationSafe'
  <2>1. row # <<>> /\ Rows' = Rows
    BY <1>1, <1>2 DEF Rows
  <2> QED
    BY <1>2, <2>1 DEF GateInv, RegistrationSafe, NamesReserved, SetupGated, NoAbusiveNames, Rows
<1> QED
  BY <1>3, <1>4, <1>5, <1>6 DEF GateInv

\* Every step of registration keeps the invariant.
LEMMA RegistrationStep == GateInv /\ [RegistrationNext]_registrationVars => GateInv'
<1> SUFFICES ASSUME GateInv, [RegistrationNext]_registrationVars PROVE GateInv'
  OBVIOUS
<1>1. /\ RegistrationTyped /\ platform \in PlatformRows /\ row \in Seq(AccountRecords)
      /\ token \in [Tokens -> TokenRows] /\ flow \in [Flows -> FlowRecords]
  BY DEF GateInv, RegistrationTyped
<1>2. TokensScreened
  BY <1>1 DEF GateInv, GrantsScreened, TokensScreened
<1>3. UNCHANGED <<platform, token>> => TokensScreened'
  BY <1>2 DEF TokensScreened
<1>4. ASSUME UNCHANGED registrationVars PROVE GateInv'
  BY <1>4 DEF registrationVars, GateInv, RegistrationTyped, GrantsScreened, Granted, GatesStand, RegistrationSafe,
              NamesReserved, SetupGated, NoAbusiveNames, Rows
<1>5. ASSUME NEW f \in Flows, NEW at \in {"warn", "ban", "issue", "taken", "create", "discord"}
      PROVE  \E to \in FlowRecords : to = [flow[f] EXCEPT !.at = at] /\ to.at = at /\ to.name = flow[f].name
                                     /\ to.ready = flow[f].ready /\ to.row = flow[f].row
                                     /\ to.row \in DOMAIN row \cup {0}
  <2>1. flow[f] \in FlowRecords
    BY <1>1
  <2>2. PICK to : to = [flow[f] EXCEPT !.at = at]
    OBVIOUS
  <2>3. to \in FlowRecords /\ to.at = at /\ to.name = flow[f].name /\ to.ready = flow[f].ready
        /\ to.row = flow[f].row
    BY <2>1, <2>2 DEF FlowRecords
  <2>4. flow[f].row \in DOMAIN row \cup {0}
    BY <1>1 DEF RegistrationTyped
  <2> QED
    BY <2>2, <2>3, <2>4
<1>6. ASSUME NEW f \in Flows, End(f), UNCHANGED <<platform, row>>, TokensScreened' PROVE GateInv'
  BY <1>6, NoFlowMayGoOn, FlowMoves DEF End
<1>10. CASE RequirementsCheck \/ AdminPassword \/ AdminTotp \/ ResetAdminPassword \/ NodeAdded
         \/ NodeRemoved
  <2>1. CASE RequirementsCheck
    BY <1>1, <2>1, PlatformMoves DEF RequirementsCheck, PlatformRows, GateInv, GatesStand
  <2>2. CASE AdminPassword
    BY <1>1, <2>2, PlatformMoves DEF AdminPassword, PlatformRows, GateInv, GatesStand
  <2>3. CASE AdminTotp
    BY <1>1, <2>3, PlatformMoves DEF AdminTotp, PlatformRows, GateInv, GatesStand
  <2>4. CASE ResetAdminPassword
    BY <1>1, <2>4, PlatformMoves DEF ResetAdminPassword, PlatformRows, GateInv, GatesStand
  <2>5. CASE NodeAdded
    BY <1>1, <2>5, PlatformMoves DEF NodeAdded, PlatformRows, GateInv, GatesStand
  <2>6. CASE NodeRemoved
    BY <1>1, <2>6, PlatformMoves DEF NodeRemoved, PlatformRows, GateInv, GatesStand
  <2> QED
    BY <1>10, <2>1, <2>2, <2>3, <2>4, <2>5, <2>6
<1>11. CASE WarningExpires \/ BanEnds
  BY <1>11 DEF WarningExpires, BanEnds, GateInv, RegistrationTyped, GrantsScreened, Granted, GatesStand,
               RegistrationSafe, NamesReserved, SetupGated, NoAbusiveNames, Rows
<1>12. ASSUME UNCHANGED <<platform, row, flow>>, TokensScreened' PROVE GateInv'
  BY <1>12 DEF TokensScreened, GateInv, RegistrationTyped, GrantsScreened, Granted, GatesStand,
               RegistrationSafe, NamesReserved, SetupGated, NoAbusiveNames, Rows
<1>13. CASE PruneToken \/ DiscordStart
  <2>1. PICK t \in Tokens, new \in TokenRows : token' = [token EXCEPT ![t] = new] /\ new.kind # "enrol"
    <3>1. CASE PruneToken
      BY <3>1, NoFlowMayGoOn DEF PruneToken
    <3>2. CASE DiscordStart
      <4>1. PICK t \in Tokens : token' = [token EXCEPT ![t].kind = "state"]
        BY <3>2 DEF DiscordStart
      <4>2. PICK new : new = [token[t] EXCEPT !.kind = "state"]
        OBVIOUS
      <4>3. new \in TokenRows /\ new.kind # "enrol"
        BY <1>1, <4>2 DEF TokenRows
      <4> QED
        BY <4>1, <4>2, <4>3
    <3> QED
      BY <1>13, <3>1, <3>2
  <2>2. UNCHANGED <<platform, row, flow>>
    BY <1>13 DEF PruneToken, DiscordStart
  <2>3. TokensScreened'
    BY <1>2, <2>1, <2>2 DEF TokensScreened
  <2> QED
    BY <1>12, <2>2, <2>3
<1>14. CASE DiscordUnlink \/ DeleteAccount
  <2>1. PICK r \in DOMAIN row : \/ row' = [row EXCEPT ![r].discord = "none"]
                                \/ row' = [row EXCEPT ![r].state = "deleted", ![r].discord = "none"]
    BY <1>14 DEF DiscordUnlink, DeleteAccount, Rows
  <2>2. row[r] \in AccountRecords
    BY <1>1, LenProperties, ElementOfSeq
  <2>4. PICK new \in AccountRecords : new.name = row[r].name /\ row' = [row EXCEPT ![r] = new]
    <3>1. CASE row' = [row EXCEPT ![r].discord = "none"]
      <4>1. PICK new : new = [row[r] EXCEPT !.discord = "none"]
        OBVIOUS
      <4>2. new \in AccountRecords /\ new.name = row[r].name
        BY <2>2, <4>1 DEF AccountRecords, Identities
      <4> QED
        BY <3>1, <4>1, <4>2
    <3>2. CASE row' = [row EXCEPT ![r].state = "deleted", ![r].discord = "none"]
      <4>1. PICK new : new = [row[r] EXCEPT !.state = "deleted", !.discord = "none"]
        OBVIOUS
      <4>2. new \in AccountRecords /\ new.name = row[r].name
        BY <2>2, <4>1 DEF AccountRecords, Identities
      <4> QED
        BY <3>2, <4>1, <4>2
    <3> QED
      BY <2>1, <3>1, <3>2
  <2>5. UNCHANGED <<platform, token, flow>>
    BY <1>14 DEF DiscordUnlink, DeleteAccount
  <2> QED
    BY <1>1, <2>4, <2>5, AccountMoves
<1>19. ASSUME NEW f \in Flows, SetupCount(f) PROVE GateInv'
  <2>1. flow[f].at = "count" /\ UNCHANGED <<platform, row, token>>
    BY <1>19 DEF SetupCount
  <2>2. CASE ~ platform.nodes
    BY <1>3, <1>6, <1>19, <2>1, <2>2 DEF SetupCount
  <2>3. CASE platform.nodes
    <3>1. PICK to : to = [flow[f] EXCEPT !.at = "setup"]
      OBVIOUS
    <3>2. to \in FlowRecords /\ to.at = "setup" /\ to.row = flow[f].row
      BY <1>1, <3>1 DEF FlowRecords
    <3>3. flow' = [flow EXCEPT ![f] = to]
      BY <1>1, <1>19, <2>3, <3>1 DEF SetupCount, At
    <3>4. \A g \in Flows : flow'[g] = IF g = f THEN to ELSE flow[g]
      BY <1>1, <3>3
    <3>5. RegistrationTyped'
      BY <1>1, <2>1, <3>2, <3>3, <3>4 DEF RegistrationTyped
    <3>6. GrantsScreened'
      BY <2>1, <3>2, <3>4 DEF GateInv, GrantsScreened, Granted
    <3>7. GatesStand'
      BY <2>1, <2>3, <3>2, <3>4 DEF GateInv, GatesStand
    <3>8. RegistrationSafe'
      BY <2>1 DEF GateInv, RegistrationSafe, NamesReserved, SetupGated, NoAbusiveNames, Rows
    <3> QED
      BY <3>5, <3>6, <3>7, <3>8 DEF GateInv
  <2> QED
    BY <2>2, <2>3
<1>20. ASSUME NEW f \in Flows, SetupComplete(f) PROVE GateInv'
  <2>1. PICK to : to = [NoFlow EXCEPT !.at = "count", !.ready = TRUE]
    OBVIOUS
  <2>2. to \in FlowRecords /\ to.at = "count" /\ to.row = 0
    BY <2>1, NoFlowMayGoOn DEF FlowRecords, NoFlow
  <2>3. flow' = [flow EXCEPT ![f] = to] /\ UNCHANGED <<row, token>> /\ platform' = [platform EXCEPT !.pass = TRUE]
        /\ Gates
    BY <1>20, <2>1 DEF SetupComplete, Open
  <2>4. /\ platform' \in PlatformRows /\ platform'.complete = platform.complete /\ platform'.must = platform.must
        /\ platform'.changed = platform.changed /\ platform'.verified = platform.verified
        /\ platform'.enrolled = platform.enrolled /\ platform'.nodes = platform.nodes /\ platform'.hosted = platform.hosted
        /\ platform'.bootstrap = platform.bootstrap
    BY <1>1, <2>3 DEF PlatformRows
  <2>5. \A g \in Flows : flow'[g] = IF g = f THEN to ELSE flow[g]
    BY <1>1, <2>3
  <2>6. RegistrationTyped'
    BY <1>1, <2>2, <2>3, <2>4, <2>5 DEF RegistrationTyped
  <2>7. GrantsScreened'
    BY <2>2, <2>3, <2>4, <2>5 DEF GateInv, GrantsScreened, Granted
  <2>8. platform.changed /\ platform.enrolled
    BY <2>3 DEF Gates, GateInv, GatesStand
  <2>9. GatesStand'
    BY <2>2, <2>4, <2>5, <2>8 DEF GateInv, GatesStand
  <2>10. RegistrationSafe'
    BY <2>3, <2>4 DEF GateInv, RegistrationSafe, NamesReserved, SetupGated, NoAbusiveNames, Rows
  <2> QED
    BY <2>6, <2>7, <2>9, <2>10 DEF GateInv
<1>21. ASSUME NEW f \in Flows, SetupWrite(f) PROVE GateInv'
  <2>1. /\ flow' = [flow EXCEPT ![f] = NoFlow] /\ UNCHANGED <<row, token>> /\ flow[f].at = "setup"
        /\ platform' = [platform EXCEPT !.complete = TRUE, !.bootstrap = FALSE, !.open = TRUE]
    BY <1>21 DEF SetupWrite, End
  <2>2. /\ platform' \in PlatformRows /\ platform'.complete /\ platform'.must = platform.must
        /\ platform'.changed = platform.changed /\ platform'.verified = platform.verified
        /\ platform'.enrolled = platform.enrolled /\ platform'.nodes = platform.nodes /\ platform'.hosted = platform.hosted
        /\ ~ platform'.bootstrap
    BY <1>1, <2>1 DEF PlatformRows
  <2>3. \A g \in Flows : flow'[g] = IF g = f THEN NoFlow ELSE flow[g]
    BY <1>1, <2>1
  <2>4. RegistrationTyped'
    BY <1>1, <2>1, <2>2, <2>3, NoFlowMayGoOn DEF RegistrationTyped, MayGoOn
  <2>5. GrantsScreened'
    BY <2>1, <2>2, <2>3, NoFlowMayGoOn DEF GateInv, GrantsScreened, Granted, MayGoOn
  <2>6. platform.changed /\ platform.enrolled /\ platform.hosted
    BY <2>1 DEF GateInv, GatesStand
  <2>7. GatesStand'
    BY <2>2, <2>3, NoFlowMayGoOn DEF GateInv, GatesStand, MayGoOn
  <2>8. RegistrationSafe'
    BY <2>1, <2>2, <2>6 DEF GateInv, RegistrationSafe, NamesReserved, SetupGated, NoAbusiveNames, Rows
  <2> QED
    BY <2>4, <2>5, <2>7, <2>8 DEF GateInv
<1>22. ASSUME NEW f \in Flows, ScreenStart(f) PROVE GateInv'
  <2>1. PICK to \in FlowRecords : flow' = [flow EXCEPT ![f] = to] /\ MayGoOn(to)
    <3>1. PICK c \in Clients, n \in Names :
            \/ Open(f, [NoFlow EXCEPT !.at = "screen", !.client = c, !.name = n])
            \/ /\ platform.complete
               /\ \E d \in Discords \cup {"none"} :
                    Open(f, [NoFlow EXCEPT !.at = "screen", !.client = c, !.name = n, !.discord = d, !.ready = TRUE])
      BY <1>22 DEF ScreenStart, RegistrationIsOpen
    <3>2. CASE Open(f, [NoFlow EXCEPT !.at = "screen", !.client = c, !.name = n])
      <4>1. PICK to : to = [NoFlow EXCEPT !.at = "screen", !.client = c, !.name = n]
        OBVIOUS
      <4>2. to \in FlowRecords /\ to.at = "screen" /\ ~ to.ready /\ to.row = 0
        BY <4>1, NoFlowMayGoOn DEF FlowRecords, UserNames, NoFlow
      <4>3. MayGoOn(to)
        BY <4>2 DEF MayGoOn
      <4> QED
        BY <3>2, <4>1, <4>2, <4>3 DEF Open
    <3>3. CASE /\ platform.complete
               /\ \E d \in Discords \cup {"none"} :
                    Open(f, [NoFlow EXCEPT !.at = "screen", !.client = c, !.name = n, !.discord = d, !.ready = TRUE])
      <4>1. PICK d \in Discords \cup {"none"} :
              Open(f, [NoFlow EXCEPT !.at = "screen", !.client = c, !.name = n, !.discord = d, !.ready = TRUE])
        BY <3>3
      <4>2. PICK to : to = [NoFlow EXCEPT !.at = "screen", !.client = c, !.name = n, !.discord = d, !.ready = TRUE]
        OBVIOUS
      <4>3. to \in FlowRecords /\ to.at = "screen" /\ to.row = 0
        BY <4>2, NoFlowMayGoOn DEF FlowRecords, UserNames, Identities, NoFlow
      <4>4. MayGoOn(to)
        BY <3>3, <4>3 DEF MayGoOn
      <4> QED
        BY <4>1, <4>2, <4>3, <4>4 DEF Open
    <3> QED
      BY <3>1, <3>2, <3>3
  <2>2. UNCHANGED <<platform, row, token>>
    BY <1>22 DEF ScreenStart
  <2> QED
    BY <1>3, <2>1, <2>2, FlowMoves
<1>23. ASSUME NEW f \in Flows, ScreenRead(f) PROVE GateInv'
  <2>1. flow[f].at = "screen" /\ UNCHANGED <<platform, row, token>>
    BY <1>23 DEF ScreenRead
  <2>2. CASE End(f)
    BY <1>3, <1>6, <2>1, <2>2
  <2>3. CASE At(f, "ban") \/ At(f, "warn") \/ (At(f, "issue") /\ flow[f].ready /\ flow[f].name \notin Abusive)
    <3>1. PICK at \in {"ban", "warn", "issue"} :
            At(f, at) /\ (at = "issue" => flow[f].ready /\ flow[f].name \notin Abusive)
      BY <2>3
    <3>2. PICK to \in FlowRecords : /\ to = [flow[f] EXCEPT !.at = at] /\ to.at = at /\ to.name = flow[f].name
                                    /\ to.ready = flow[f].ready /\ to.row \in DOMAIN row \cup {0}
      BY <1>5
    <3>3. flow[f].ready => platform.complete
      BY <2>1 DEF GateInv, GrantsScreened, Granted
    <3>4. MayGoOn(to)
      BY <3>1, <3>2, <3>3 DEF MayGoOn
    <3>5. flow' = [flow EXCEPT ![f] = to]
      BY <3>1, <3>2 DEF At
    <3> QED
      BY <1>3, <2>1, <3>4, <3>5, FlowMoves
  <2> QED
    BY <1>23, <2>2, <2>3 DEF ScreenRead
<1>24. ASSUME NEW f \in Flows, ScreenWarn(f) \/ ScreenBan(f) PROVE GateInv'
  BY <1>3, <1>6, <1>24 DEF ScreenWarn, ScreenBan
<1>25. ASSUME NEW f \in Flows, RegisterIssue(f) \/ DiscordIssue(f) PROVE GateInv'
  <2>1. PICK kind \in {"enrol", "link"} : IssueToken(f, kind) /\ (kind = "enrol" => flow[f].at = "issue")
    BY <1>25 DEF RegisterIssue, DiscordIssue
  <2>2. PICK t \in Tokens : token' = [token EXCEPT ![t] = [kind |-> kind, name |-> flow[f].name,
                                                           discord |-> flow[f].discord, used |-> FALSE]]
    BY <2>1 DEF IssueToken
  <2>3. PICK new : new = [kind |-> kind, name |-> flow[f].name, discord |-> flow[f].discord, used |-> FALSE]
    OBVIOUS
  <2>4. new \in TokenRows /\ new.kind = kind /\ new.name = flow[f].name
    <3>1. flow[f].name \in UserNames /\ flow[f].discord \in Identities
      BY <1>1 DEF FlowRecords
    <3> QED
      BY <2>3, <3>1 DEF TokenRows
  <2>5. kind = "enrol" => platform.complete /\ flow[f].name \notin Abusive
    BY <2>1 DEF GateInv, GrantsScreened, Granted
  <2>6. End(f) /\ UNCHANGED <<platform, row>>
    BY <2>1 DEF IssueToken
  <2>7. TokensScreened'
    BY <1>2, <2>2, <2>3, <2>4, <2>5, <2>6 DEF TokensScreened
  <2> QED
    BY <1>6, <2>6, <2>7
<1>26. ASSUME NEW f \in Flows, RegisterPeek(f) PROVE GateInv'
  <2>1. PICK c \in Clients, t \in Tokens :
          /\ token[t].kind = "enrol"
          /\ Open(f, [NoFlow EXCEPT !.at = "consume", !.client = c, !.token = t,
                                    !.name = token[t].name, !.discord = token[t].discord])
          /\ UNCHANGED <<platform, row, token, warning, ban>>
    BY <1>26 DEF RegisterPeek
  <2>2. PICK to : to = [NoFlow EXCEPT !.at = "consume", !.client = c, !.token = t,
                                      !.name = token[t].name, !.discord = token[t].discord]
    OBVIOUS
  <2>3. to \in FlowRecords /\ to.at = "consume" /\ to.row = 0 /\ to.name = token[t].name
    <3>1. token[t].name \in UserNames /\ token[t].discord \in Identities
      BY <1>1 DEF TokenRows
    <3> QED
      BY <2>2, <3>1, NoFlowMayGoOn DEF FlowRecords, NoFlow
  <2>4. platform.complete /\ token[t].name \notin Abusive
    BY <1>2, <2>1 DEF TokensScreened
  <2>5. MayGoOn(to)
    BY <2>3, <2>4 DEF MayGoOn
  <2>6. flow' = [flow EXCEPT ![f] = to]
    BY <2>1, <2>2 DEF Open
  <2> QED
    BY <1>3, <2>1, <2>3, <2>5, <2>6, FlowMoves
<1>27. ASSUME NEW f \in Flows, ConsumeToken(f) PROVE GateInv'
  <2>1. flow[f].at \in {"consume", "consumeState"} /\ UNCHANGED <<platform, row>>
    BY <1>27 DEF ConsumeToken
  <2>2. CASE End(f) /\ UNCHANGED token
    BY <1>3, <1>6, <2>1, <2>2
  <2>3. CASE /\ token' = [token EXCEPT ![flow[f].token].used = TRUE]
             /\ At(f, IF flow[f].at = "consume" THEN "taken" ELSE "discord")
    <3>1. TokensScreened'
      <4>1. ASSUME NEW t \in Tokens
            PROVE  token'[t] \in TokenRows /\ token'[t].kind = token[t].kind /\ token'[t].name = token[t].name
        <5>1. token[t] \in TokenRows
          BY <1>1
        <5>2. token'[t] = token[t] \/ token'[t] = [token[t] EXCEPT !.used = TRUE]
          BY <1>1, <2>3
        <5> QED
          BY <5>1, <5>2 DEF TokenRows
      <4>2. token' = [t \in Tokens |-> token'[t]]
        BY <1>1, <2>3
      <4> QED
        BY <1>2, <2>1, <4>1, <4>2 DEF TokensScreened
    <3>2. PICK at \in {"taken", "discord"} : At(f, at) /\ (at = "taken" => flow[f].at = "consume")
      BY <2>3
    <3>3. PICK to \in FlowRecords : /\ to = [flow[f] EXCEPT !.at = at] /\ to.at = at /\ to.name = flow[f].name
                                    /\ to.ready = flow[f].ready /\ to.row \in DOMAIN row \cup {0}
      BY <1>5
    <3>4. MayGoOn(to)
      BY <3>2, <3>3 DEF MayGoOn, GateInv, GrantsScreened, Granted
    <3>5. flow' = [flow EXCEPT ![f] = to]
      BY <3>2, <3>3 DEF At
    <3> QED
      BY <2>1, <3>1, <3>4, <3>5, FlowMoves
  <2> QED
    BY <1>27, <2>2, <2>3 DEF ConsumeToken
<1>28. ASSUME NEW f \in Flows, RegisterTaken(f) PROVE GateInv'
  <2>1. flow[f].at = "taken" /\ UNCHANGED <<platform, row, token>>
    BY <1>28 DEF RegisterTaken
  <2>2. CASE End(f)
    BY <1>3, <1>6, <2>1, <2>2
  <2>3. CASE At(f, "create")
    <3>1. PICK to \in FlowRecords : /\ to = [flow[f] EXCEPT !.at = "create"] /\ to.at = "create"
                                    /\ to.name = flow[f].name /\ to.row \in DOMAIN row \cup {0}
      BY <1>5
    <3>2. MayGoOn(to)
      BY <2>1, <3>1 DEF MayGoOn, GateInv, GrantsScreened, Granted
    <3>3. flow' = [flow EXCEPT ![f] = to]
      BY <2>3, <3>1 DEF At
    <3> QED
      BY <1>3, <2>1, <3>1, <3>2, <3>3, FlowMoves
  <2> QED
    BY <1>28, <2>2, <2>3 DEF RegisterTaken
<1>29. ASSUME NEW f \in Flows, RegisterCreate(f) PROVE GateInv'
  <2>1. flow[f].at = "create" /\ UNCHANGED <<platform, token>> /\ End(f)
    BY <1>29 DEF RegisterCreate
  <2>2. CASE UNCHANGED row
    BY <1>3, <1>6, <2>1, <2>2
  <2>3. CASE /\ NameFree(flow[f].name)
             /\ row' = Append(row, [state |-> "live", name |-> flow[f].name, discord |-> flow[f].discord])
    <3>1. platform.complete /\ flow[f].name \notin Abusive /\ flow[f].name \in UserNames /\ flow[f].discord \in Identities
      BY <1>1, <2>1 DEF GateInv, GrantsScreened, Granted, FlowRecords
    <3>2. PICK new : new = [state |-> "live", name |-> flow[f].name, discord |-> flow[f].discord]
      OBVIOUS
    <3>3. new \in AccountRecords /\ new.name = flow[f].name
      BY <3>1, <3>2 DEF AccountRecords
    <3>4. row' = Append(row, new)
      BY <2>3, <3>2
    <3>5. /\ row' \in Seq(AccountRecords) /\ Len(row') = Len(row) + 1 /\ Len(row) \in Nat
          /\ \A r \in 1..Len(row) : row'[r] = row[r]
          /\ row'[Len(row) + 1] = new /\ DOMAIN row = 1..Len(row) /\ DOMAIN row' = 1..Len(row')
      BY <1>1, <3>3, <3>4, AppendProperties, LenProperties
    <3>6. \A g \in Flows : flow'[g] = IF g = f THEN NoFlow ELSE flow[g]
      BY <1>1, <2>1 DEF End
    <3>7. RegistrationTyped'
      <4>1. flow' \in [Flows -> FlowRecords]
        BY <1>1, <2>1, NoFlowMayGoOn DEF End
      <4>2. \A g \in Flows : flow'[g].row \in DOMAIN row' \cup {0} /\ (flow'[g].at = "link" => flow'[g].row # 0)
        BY <1>1, <3>5, <3>6, NoFlowMayGoOn DEF RegistrationTyped, MayGoOn
      <4> QED
        BY <1>1, <2>1, <3>5, <4>1, <4>2 DEF RegistrationTyped
    <3>8. GrantsScreened'
      BY <2>1, <3>6, NoFlowMayGoOn DEF GateInv, GrantsScreened, Granted, MayGoOn
    <3>9. GatesStand'
      BY <2>1, <3>6, NoFlowMayGoOn DEF GateInv, GatesStand, MayGoOn
    <3>10. NamesReserved'
      <4>1. \A r \in DOMAIN row : row[r].name # new.name
        BY <2>3, <3>3 DEF NameFree, Rows
      <4>2. ASSUME NEW r \in DOMAIN row', NEW q \in DOMAIN row', r # q PROVE row'[r].name # row'[q].name
        <5>1. (r \in DOMAIN row \/ r = Len(row) + 1) /\ (q \in DOMAIN row \/ q = Len(row) + 1)
          BY <3>5
        <5> QED
          BY <3>5, <4>1, <4>2, <5>1 DEF GateInv, RegistrationSafe, NamesReserved, Rows
      <4> QED
        BY <4>2 DEF NamesReserved, Rows
    <3>11. SetupGated'
      BY <2>1, <3>1 DEF GateInv, RegistrationSafe, SetupGated
    <3>12. NoAbusiveNames'
      <4>1. \A r \in DOMAIN row' : r \in DOMAIN row \/ r = Len(row) + 1
        BY <3>5
      <4> QED
        BY <3>1, <3>3, <3>5, <4>1 DEF GateInv, RegistrationSafe, NoAbusiveNames, Rows
    <3> QED
      BY <3>7, <3>8, <3>9, <3>10, <3>11, <3>12 DEF GateInv, RegistrationSafe
  <2> QED
    BY <1>29, <2>2, <2>3 DEF RegisterCreate
<1>30. ASSUME NEW f \in Flows, DiscordCallback(f) PROVE GateInv'
  <2>1. PICK t \in Tokens, r \in Rows \cup {0} :
          /\ \/ /\ Open(f, [NoFlow EXCEPT !.at = "consumeState", !.token = t, !.row = r])
                /\ UNCHANGED token
             \/ /\ flow[f].at = "free"
                /\ token' = [token EXCEPT ![t].used = TRUE]
                /\ UNCHANGED flow
          /\ UNCHANGED <<platform, row, warning, ban>>
    BY <1>30 DEF DiscordCallback
  <2>2. CASE Open(f, [NoFlow EXCEPT !.at = "consumeState", !.token = t, !.row = r]) /\ UNCHANGED token
    <3>1. PICK to : to = [NoFlow EXCEPT !.at = "consumeState", !.token = t, !.row = r]
      OBVIOUS
    <3>2. r \in Nat
      BY <1>1, LenProperties DEF Rows
    <3>3. to \in FlowRecords /\ to.at = "consumeState" /\ to.row = r
      BY <3>1, <3>2, NoFlowMayGoOn DEF FlowRecords
    <3>4. MayGoOn(to)
      BY <2>1, <3>3 DEF MayGoOn, Rows
    <3>5. flow' = [flow EXCEPT ![f] = to]
      BY <2>2, <3>1 DEF Open
    <3> QED
      BY <1>3, <2>1, <2>2, <3>3, <3>4, <3>5, FlowMoves
  <2>3. CASE token' = [token EXCEPT ![t].used = TRUE] /\ UNCHANGED flow
    <3>1. PICK new : new = [token[t] EXCEPT !.used = TRUE]
      OBVIOUS
    <3>2. new \in TokenRows /\ new.kind = token[t].kind /\ new.name = token[t].name
      BY <1>1, <3>1 DEF TokenRows
    <3>3. token' = [token EXCEPT ![t] = new]
      BY <2>3, <3>1
    <3>4. TokensScreened'
      BY <1>2, <2>1, <3>2, <3>3 DEF TokensScreened
    <3> QED
      BY <1>12, <2>1, <2>3, <3>4
  <2> QED
    BY <2>1, <2>2, <2>3
<1>31. ASSUME NEW f \in Flows, DiscordProfile(f) PROVE GateInv'
  <2>1. flow[f].at = "discord" /\ UNCHANGED <<platform, row, token>>
    BY <1>31 DEF DiscordProfile
  <2>2. CASE End(f)
    BY <1>3, <1>6, <2>1, <2>2
  <2>3. CASE ~ End(f)
    <3>1. PICK d \in Discords, at \in {"link", "issueLink"} :
            /\ flow' = [flow EXCEPT ![f].at = at, ![f].discord = d]
            /\ at = "link" => flow[f].row # 0
      BY <1>31, <2>3 DEF DiscordProfile
    <3>2. PICK to : to = [flow[f] EXCEPT !.at = at, !.discord = d]
      OBVIOUS
    <3>3. to \in FlowRecords /\ to.at = at /\ to.row = flow[f].row
      BY <1>1, <3>2 DEF FlowRecords, Identities
    <3>4. flow' = [flow EXCEPT ![f] = to]
      BY <3>1, <3>2
    <3>5. MayGoOn(to)
      BY <2>1, <3>1, <3>3 DEF MayGoOn, GateInv, RegistrationTyped
    <3> QED
      BY <1>3, <2>1, <3>3, <3>4, <3>5, FlowMoves
  <2> QED
    BY <2>2, <2>3
<1>32. ASSUME NEW f \in Flows, DiscordLink(f) PROVE GateInv'
  <2>1. flow[f].at = "link" /\ UNCHANGED <<platform, token>> /\ End(f)
    BY <1>32 DEF DiscordLink
  <2>2. CASE UNCHANGED row
    BY <1>3, <1>6, <2>1, <2>2
  <2>3. CASE row' = [row EXCEPT ![flow[f].row].discord = flow[f].discord]
    <3>1. PICK r \in DOMAIN row : r = flow[f].row
      BY <1>1, <2>1 DEF RegistrationTyped
    <3>2. PICK d \in Identities : d = flow[f].discord
      BY <1>1 DEF FlowRecords
    <3>3. PICK to : to = [row[r] EXCEPT !.discord = d]
      OBVIOUS
    <3>4. row[r] \in AccountRecords
      BY <1>1, LenProperties, ElementOfSeq
    <3>5. to \in AccountRecords /\ to.name = row[r].name
      BY <3>2, <3>3, <3>4 DEF AccountRecords
    <3>6. row' = [row EXCEPT ![r] = to]
      BY <2>3, <3>1, <3>2, <3>3
    <3>7. /\ flow' \in [Flows -> FlowRecords]
          /\ \A g \in Flows : flow'[g] = flow[g] \/ flow'[g] = NoFlow
      BY <1>1, <2>1, NoFlowMayGoOn DEF End
    <3> QED
      BY <2>1, <3>5, <3>6, <3>7, AccountMoves
  <2> QED
    BY <1>32, <2>2, <2>3 DEF DiscordLink
<1> QED
  BY <1>4, <1>10, <1>11, <1>13, <1>14, <1>19, <1>20, <1>21, <1>22, <1>23, <1>24, <1>25, <1>26, <1>27, <1>28, <1>29,
     <1>30, <1>31, <1>32 DEF RegistrationNext

\* What account.create, the wizard's gates and screenUsername promise together: names stay
\* reserved, accounts come only behind the gates, and none has an abusive name, for every set of
\* names, identities and requests.
THEOREM RegistrationAlwaysSafe == RegistrationSpec => []RegistrationSafe
<1>1. RegistrationInit => GateInv
  <2> SUFFICES ASSUME RegistrationInit PROVE GateInv
    OBVIOUS
  <2>1. platform \in PlatformRows
    BY DEF RegistrationInit, PlatformRows
  <2>2. /\ row = <<>> /\ row \in Seq(AccountRecords) /\ DOMAIN row = {}
        /\ token = [t \in Tokens |-> NoToken] /\ flow = [f \in Flows |-> NoFlow]
    BY DEF RegistrationInit
  <2>3. RegistrationTyped
    BY <2>1, <2>2, NoFlowMayGoOn DEF RegistrationTyped, MayGoOn
  <2>4. GrantsScreened
    BY <2>2, NoFlowMayGoOn DEF GrantsScreened, Granted, MayGoOn
  <2>5. GatesStand /\ ~ platform.complete
    BY <2>2, NoFlowMayGoOn DEF GatesStand, MayGoOn, RegistrationInit
  <2>6. RegistrationSafe
    BY <2>2, <2>5 DEF RegistrationSafe, NamesReserved, SetupGated, NoAbusiveNames, Rows
  <2> QED
    BY <2>3, <2>4, <2>5, <2>6 DEF GateInv
<1>2. GateInv => RegistrationSafe
  BY DEF GateInv
<1> QED
  BY <1>1, <1>2, RegistrationStep, PTL DEF RegistrationSpec

(***************************************************************************)
(* What is left of a word.                                                 *)
(***************************************************************************)

\* f[n] is what is kept of the first n characters.
Keeping(n, f, w, places) ==
  f = [k \in 0..n |-> IF k = 0 THEN <<>> ELSE IF k \in places THEN Append(f[k - 1], w[k]) ELSE f[k - 1]]

LEMMA KeepingExists ==
  ASSUME NEW w, NEW places, NEW n \in Nat
  PROVE  \E f : Keeping(n, f, w, places)
<1> DEFINE Bad == {k \in Nat : ~ \E f : Keeping(k, f, w, places)}
<1>1. SUFFICES ASSUME Bad # {} PROVE FALSE
  BY <1>1 DEF Bad
<1>2. PICK k \in Bad : \A m \in Bad : k <= m
  BY <1>1, LeastNumber
<1>3. CASE k = 0
  <2>1. Keeping(0, [i \in 0..0 |-> <<>>], w, places)
    BY DEF Keeping
  <2> QED
    BY <1>2, <1>3, <2>1
<1>4. CASE k # 0
  <2>1. k - 1 \in Nat /\ k - 1 \notin Bad /\ k \in Nat
    BY <1>2, <1>4
  <2>2. PICK f : Keeping(k - 1, f, w, places)
    BY <2>1
  <2> DEFINE g == [i \in 0..k |-> IF i = k
                     THEN IF k \in places THEN Append(f[k - 1], w[k]) ELSE f[k - 1] ELSE f[i]]
  <2>3. \A i \in 0..(k - 1) : g[i] = f[i]
    BY <2>1
  <2>4. ASSUME NEW i \in 0..k
        PROVE  g[i] = IF i = 0 THEN <<>>
                      ELSE IF i \in places THEN Append(g[i - 1], w[i]) ELSE g[i - 1]
    <3>1. CASE i = k
      BY <1>4, <2>1, <2>3, <3>1
    <3>2. CASE i # k
      <4>1. i \in 0..(k - 1) /\ (i # 0 => i - 1 \in 0..(k - 1))
        BY <2>1, <3>2
      <4>2. g[i] = f[i] /\ (i # 0 => g[i - 1] = f[i - 1])
        BY <2>3, <4>1
      <4>3. f[i] = IF i = 0 THEN <<>>
                   ELSE IF i \in places THEN Append(f[i - 1], w[i]) ELSE f[i - 1]
        BY <2>2, <4>1 DEF Keeping
      <4> QED
        BY <4>2, <4>3
    <3> QED
      BY <3>1, <3>2
  <2>5. Keeping(k, g, w, places)
    BY <2>4 DEF Keeping
  <2> QED
    BY <1>2, <2>1, <2>5
<1> QED
  BY <1>3, <1>4

\* v is w without all but some places, and f[i] of it come from the first i characters.
Sieved(w, places, v, f) ==
  /\ f[0] = 0 /\ f[Len(w)] = Len(v)
  /\ \A i \in 1..Len(w) : IF i \in places THEN f[i] = f[i - 1] + 1 /\ f[i] \in 1..Len(v) /\ v[f[i]] = w[i]
                          ELSE f[i] = f[i - 1]

\* Keep does what it says.
LEMMA KeepIs ==
  ASSUME NEW S, NEW w \in Seq(S), NEW places
  PROVE  /\ Keep(w, places) \in Seq(S)
         /\ \E f \in [0..Len(w) -> Nat] : Sieved(w, places, Keep(w, places), f)
<1> DEFINE Kept == CHOOSE f : Keeping(Len(w), f, w, places)
<1>1. Keeping(Len(w), Kept, w, places) /\ Len(w) \in Nat
  BY LenProperties, KeepingExists
<1>2. Keep(w, places) = Kept[Len(w)]
  BY DEF Keep, Keeping
<1> HIDE DEF Kept
<1> DEFINE Good(n) ==
      /\ Kept[n] \in Seq(S)
      /\ \A i \in 0..n : Kept[i] \in Seq(S) /\ Len(Kept[i]) \in Nat /\ Len(Kept[i]) <= Len(Kept[n])
      /\ \A i \in 1..n :
           IF i \in places
           THEN Len(Kept[i]) = Len(Kept[i - 1]) + 1 /\ Kept[n][Len(Kept[i])] = w[i]
           ELSE Len(Kept[i]) = Len(Kept[i - 1])
    Bad == {n \in 0..Len(w) : ~ Good(n)}
<1>3. Bad = {}
  <2> SUFFICES ASSUME Bad # {} PROVE FALSE
    OBVIOUS
  <2>1. PICK n \in Bad : \A m \in Bad : n <= m
    <3>1. Bad \in SUBSET Nat
      BY <1>1
    <3> HIDE DEF Bad
    <3> QED
      BY <3>1, LeastNumber
  <2>2. CASE n = 0
    <3>1. PICK e : e = <<>>
      OBVIOUS
    <3>2. e \in Seq(S) /\ Len(e) = 0
      BY <3>1, EmptySeq
    <3>3. Kept[0] = e
      BY <1>1, <3>1 DEF Keeping
    <3>4. Good(0)
      <4>1. \A i \in 1..0 : i \notin 1..0
        OBVIOUS
      <4>2. \A i \in 1..0 :
              IF i \in places
              THEN Len(Kept[i]) = Len(Kept[i - 1]) + 1 /\ Kept[0][Len(Kept[i])] = w[i]
              ELSE Len(Kept[i]) = Len(Kept[i - 1])
        BY <4>1
      <4>3. Kept[0] \in Seq(S) /\ Len(Kept[0]) \in Nat /\ Len(Kept[0]) <= Len(Kept[0])
        <5>1. e \in Seq(S) /\ Len(e) \in Nat /\ Len(e) <= Len(e)
          BY <3>2
        <5> QED
          BY <3>3, <5>1
      <4>4. \A i \in 0..0 : i = 0
        OBVIOUS
      <4> QED
        BY <4>2, <4>3, <4>4
    <3> QED
      BY <2>1, <2>2, <3>4
  <2>3. CASE n # 0
    <3>1. n - 1 \in 0..Len(w) /\ n \in 1..Len(w) /\ ~ (n <= n - 1) /\ n \in Nat
      BY <1>1, <2>1, <2>3
    <3>2. Good(n - 1)
      <4>1. n - 1 \notin Bad
        BY <2>1, <3>1
      <4> QED
        BY <3>1, <4>1
    <3>3. Kept[n] = IF n \in places THEN Append(Kept[n - 1], w[n]) ELSE Kept[n - 1]
      BY <1>1, <2>3, <3>1 DEF Keeping
    <3>4. w[n] \in S
      BY <1>1, <3>1, ElementOfSeq
    <3>5. PICK u : u = Kept[n - 1]
      OBVIOUS
    <3>6. u \in Seq(S) /\ Len(u) \in Nat
      BY <3>2, <3>5, LenProperties
    <3>7. PICK v : v = Kept[n]
      OBVIOUS
    <3>8. /\ v \in Seq(S) /\ Len(v) \in Nat /\ Len(u) <= Len(v)
          /\ \A i \in 1..Len(u) : v[i] = u[i]
          /\ IF n \in places THEN Len(v) = Len(u) + 1 /\ v[Len(v)] = w[n] ELSE Len(v) = Len(u)
      <4>1. CASE n \in places
        <5>1. v = Append(u, w[n])
          BY <3>3, <3>5, <3>7, <4>1
        <5> QED
          BY <3>4, <3>6, <4>1, <5>1, AppendProperties
      <4>2. CASE n \notin places
        <5>1. v = u
          BY <3>3, <3>5, <3>7, <4>2
        <5> QED
          BY <3>6, <4>2, <5>1
      <4> QED
        BY <4>1, <4>2
    <3>9. \A i \in 0..n : Kept[i] \in Seq(S) /\ Len(Kept[i]) \in Nat /\ Len(Kept[i]) <= Len(v)
      <4> TAKE i \in 0..n
      <4>1. CASE i = n
        BY <3>7, <3>8, <4>1
      <4>2. CASE i # n
        <5>1. i \in 0..(n - 1)
          BY <3>1, <4>2
        <5>2. Kept[i] \in Seq(S) /\ Len(Kept[i]) \in Nat /\ Len(Kept[i]) <= Len(u)
          BY <3>2, <3>5, <5>1
        <5> QED
          BY <3>6, <3>8, <5>2
      <4> QED
        BY <4>1, <4>2
    <3>10. ASSUME NEW i \in 1..n
           PROVE  IF i \in places THEN Len(Kept[i]) = Len(Kept[i - 1]) + 1 /\ v[Len(Kept[i])] = w[i]
                  ELSE Len(Kept[i]) = Len(Kept[i - 1])
      <4>1. CASE i = n
        BY <3>5, <3>7, <3>8, <4>1
      <4>2. CASE i # n
        <5>1. i \in 1..(n - 1) /\ i \in 0..(n - 1) /\ i - 1 \in 0..(n - 1)
          BY <3>1, <4>2
        <5>2. /\ IF i \in places THEN Len(Kept[i]) = Len(Kept[i - 1]) + 1 /\ u[Len(Kept[i])] = w[i]
                 ELSE Len(Kept[i]) = Len(Kept[i - 1])
              /\ Len(Kept[i]) \in Nat /\ Len(Kept[i]) <= Len(u) /\ Len(Kept[i - 1]) \in Nat
          BY <3>2, <3>5, <5>1
        <5>3. i \in places => Len(Kept[i]) \in 1..Len(u)
          BY <3>6, <5>2
        <5> QED
          BY <3>8, <5>2, <5>3
      <4> QED
        BY <4>1, <4>2
    <3>11. Good(n)
      BY <3>7, <3>8, <3>9, <3>10
    <3> QED
      BY <2>1, <3>11
  <2> QED
    BY <2>2, <2>3
<1>4. Good(Len(w))
  <2>1. Len(w) \in 0..Len(w) /\ Len(w) \notin Bad
    BY <1>1, <1>3
  <2> QED
    BY <2>1
<1>5. PICK v : v = Keep(w, places)
  OBVIOUS
<1>6. PICK f : f = [i \in 0..Len(w) |-> Len(Kept[i])]
  OBVIOUS
<1>7. \A i \in 0..Len(w) : f[i] = Len(Kept[i]) /\ f[i] \in Nat /\ f[i] <= Len(v)
  BY <1>2, <1>4, <1>5, <1>6
<1>8. f[0] = 0 /\ f[Len(w)] = Len(v)
  <2>1. Kept[0] = <<>> /\ 0 \in 0..Len(w) /\ Len(w) \in 0..Len(w)
    BY <1>1 DEF Keeping
  <2> QED
    BY <1>2, <1>5, <1>7, <2>1
<1>9. ASSUME NEW i \in 1..Len(w)
      PROVE  IF i \in places THEN f[i] = f[i - 1] + 1 /\ f[i] \in 1..Len(v) /\ v[f[i]] = w[i]
             ELSE f[i] = f[i - 1]
  <2>1. i \in 0..Len(w) /\ i - 1 \in 0..Len(w)
    BY <1>1
  <2>2. /\ f[i] = Len(Kept[i]) /\ f[i] \in Nat /\ f[i] <= Len(v)
        /\ f[i - 1] = Len(Kept[i - 1]) /\ f[i - 1] \in Nat
    BY <1>7, <2>1
  <2>3. IF i \in places THEN Len(Kept[i]) = Len(Kept[i - 1]) + 1 /\ v[Len(Kept[i])] = w[i]
        ELSE Len(Kept[i]) = Len(Kept[i - 1])
    BY <1>2, <1>4, <1>5
  <2>4. Len(v) \in Nat
    BY <1>2, <1>4, <1>5, LenProperties
  <2> QED
    BY <2>2, <2>3, <2>4
<1>10. f \in [0..Len(w) -> Nat]
  BY <1>6, <1>7
<1>11. Sieved(w, places, v, f)
  BY <1>8, <1>9 DEF Sieved
<1> QED
  BY <1>2, <1>4, <1>5, <1>10, <1>11

\* A count that goes up by one at most.
Counting(n, f) ==
  /\ f \in [0..n -> Nat] /\ f[0] = 0
  /\ \A i \in 1..n : f[i] = f[i - 1] \/ f[i] = f[i - 1] + 1

\* It passes every number up to the last.
LEMMA Reached ==
  ASSUME NEW n \in Nat, NEW f, Counting(n, f)
  PROVE  \A j \in 1..f[n] : \E i \in 1..n : f[i] = j /\ f[i - 1] = j - 1
<1> TAKE j \in 1..f[n]
<1> DEFINE Far == {i \in 0..n : f[i] >= j}
<1>1. f[n] \in Nat /\ j \in Nat /\ n \in Far
  BY DEF Counting
<1>2. PICK i \in Far : \A m \in Far : i <= m
  <2>1. Far \in SUBSET Nat /\ Far # {}
    BY <1>1
  <2> HIDE DEF Far
  <2> QED
    BY <2>1, LeastNumber
<1>3. i # 0 /\ i \in 1..n /\ i - 1 \in 0..n
  BY <1>1, <1>2 DEF Counting
<1>4. i - 1 \notin Far
  BY <1>2, <1>3
<1>5. f[i] \in Nat /\ f[i - 1] \in Nat /\ f[i] >= j /\ ~ (f[i - 1] >= j)
  BY <1>2, <1>3, <1>4 DEF Counting
<1>6. f[i] = f[i - 1] \/ f[i] = f[i - 1] + 1
  BY <1>3 DEF Counting
<1> QED
  BY <1>1, <1>3, <1>5, <1>6

\* And never goes back.
LEMMA Rising ==
  ASSUME NEW n \in Nat, NEW f, Counting(n, f), NEW i \in 0..n
  PROVE  f[i] \in 0..f[n] /\ f[i] \in Nat /\ f[n] \in Nat
<1> DEFINE Low == {m \in i..n : ~ (f[i] <= f[m])}
<1>1. Low = {}
  <2> SUFFICES ASSUME Low # {} PROVE FALSE
    OBVIOUS
  <2>1. PICK m \in Low : \A q \in Low : m <= q
    <3>1. Low \in SUBSET Nat
      OBVIOUS
    <3> HIDE DEF Low
    <3> QED
      BY <3>1, LeastNumber
  <2>2. m \in 0..n /\ i <= m /\ ~ (f[i] <= f[m]) /\ f[i] \in Nat /\ f[m] \in Nat
    BY <2>1 DEF Counting
  <2>3. m \in 1..n /\ m - 1 \in i..n /\ m - 1 \in 0..n
    BY <2>2
  <2>4. f[i] <= f[m - 1]
    <3>1. m - 1 \notin Low
      BY <2>1, <2>2
    <3> QED
      BY <2>3, <3>1
  <2>5. f[m - 1] \in Nat /\ (f[m] = f[m - 1] \/ f[m] = f[m - 1] + 1)
    BY <2>3 DEF Counting
  <2> QED
    BY <2>2, <2>4, <2>5
<1>2. n \in i..n /\ n \in 0..n
  OBVIOUS
<1>3. f[i] <= f[n]
  BY <1>1, <1>2
<1> QED
  BY <1>2, <1>3 DEF Counting

\* Two words are the same if each next character of them is.
LEMMA SameWalk ==
  ASSUME NEW S, NEW v \in Seq(S), NEW x \in Seq(S), NEW n \in Nat, NEW f, NEW g, Counting(n, f), Counting(n, g),
         f[n] = Len(v), g[n] = Len(x),
         \A i \in 1..n : f[i - 1] = g[i - 1] /\ (\A j \in 1..f[i - 1] : v[j] = x[j])
                           => f[i] = g[i] /\ (f[i] = f[i - 1] + 1 => v[f[i]] = x[f[i]])
  PROVE  v = x
<1> DEFINE Good(i) == f[i] = g[i] /\ \A j \in 1..f[i] : v[j] = x[j]
    Bad == {i \in 0..n : ~ Good(i)}
<1>1. Bad = {}
  <2> SUFFICES ASSUME Bad # {} PROVE FALSE
    OBVIOUS
  <2>1. PICK i \in Bad : \A m \in Bad : i <= m
    <3>1. Bad \in SUBSET Nat
      OBVIOUS
    <3> HIDE DEF Bad
    <3> QED
      BY <3>1, LeastNumber
  <2>2. i # 0
    <3>1. f[0] = 0 /\ g[0] = 0 /\ 1..0 = {}
      BY DEF Counting
    <3>2. Good(0)
      BY <3>1
    <3> QED
      BY <2>1, <3>2
  <2>3. i \in 1..n /\ i - 1 \in 0..n /\ ~ (i <= i - 1)
    BY <2>1, <2>2
  <2>4. Good(i - 1)
    <3>1. i - 1 \notin Bad
      BY <2>1, <2>3
    <3> QED
      BY <2>3, <3>1
  <2>5. f[i] = g[i] /\ (f[i] = f[i - 1] + 1 => v[f[i]] = x[f[i]])
    BY <2>3, <2>4
  <2>6. f[i - 1] \in Nat /\ f[i] \in Nat /\ (f[i] = f[i - 1] \/ f[i] = f[i - 1] + 1)
    BY <2>3 DEF Counting
  <2>7. \A j \in 1..f[i] : v[j] = x[j]
    <3> TAKE j \in 1..f[i]
    <3>1. j \in 1..f[i - 1] \/ (f[i] = f[i - 1] + 1 /\ j = f[i])
      BY <2>6
    <3> QED
      BY <2>4, <2>5, <3>1
  <2> QED
    BY <2>1, <2>5, <2>7
<1>2. Good(n)
  <2>1. n \in 0..n /\ n \notin Bad
    BY <1>1
  <2> QED
    BY <2>1
<1> QED
  BY <1>2, SeqEqual

\* Being sieved is counting.
LEMMA SievedCounts ==
  ASSUME NEW S, NEW w \in Seq(S), NEW places, NEW v \in Seq(S), NEW f \in [0..Len(w) -> Nat], Sieved(w, places, v, f)
  PROVE  Counting(Len(w), f)
BY DEF Sieved, Counting

\* What is sieved is determined.
LEMMA SievedOnce ==
  ASSUME NEW S, NEW w \in Seq(S), NEW places, NEW v \in Seq(S), NEW x \in Seq(S),
         NEW f \in [0..Len(w) -> Nat], NEW g \in [0..Len(w) -> Nat],
         Sieved(w, places, v, f), Sieved(w, places, x, g)
  PROVE  v = x
<1>1. PICK n \in Nat : n = Len(w)
  BY LenProperties
<1>2. Counting(n, f) /\ Counting(n, g)
  BY <1>1, SievedCounts
<1>3. ASSUME NEW i \in 1..n, f[i - 1] = g[i - 1]
      PROVE  f[i] = g[i] /\ (f[i] = f[i - 1] + 1 => v[f[i]] = x[f[i]])
  <2>1. f[i - 1] \in Nat /\ f[i - 1] # f[i - 1] + 1
    BY <1>2 DEF Counting
  <2>2. CASE i \in places
    BY <1>1, <1>3, <2>2 DEF Sieved
  <2>3. CASE i \notin places
    <3>1. f[i] = f[i - 1] /\ g[i] = g[i - 1]
      BY <1>1, <2>3 DEF Sieved
    <3> QED
      BY <1>3, <2>1, <3>1
  <2> QED
    BY <2>2, <2>3
<1>4. f[n] = Len(v) /\ g[n] = Len(x)
  BY <1>1 DEF Sieved
<1> QED
  BY <1>2, <1>3, <1>4, SameWalk

\* No character is followed by itself.
Bare(u) == \A j \in 1..(Len(u) - 1) : u[j] # u[j + 1]

\* u is x with some repeated characters left out.
Covers(u, x, h) ==
  /\ Counting(Len(x), h) /\ h[Len(x)] = Len(u)
  /\ \A i \in 1..Len(x) : h[i] \in 1..Len(u) /\ u[h[i]] = x[i]

\* So is whatever keeps the first of every run; and with nothing else it is bare.
LEMMA CollapseCovers ==
  ASSUME NEW S, NEW x \in Seq(S), NEW places, \A i \in 1..Len(x) : Starts(x, i) => i \in places
  PROVE  /\ Keep(x, places) \in Seq(S)
         /\ \E h : Covers(Keep(x, places), x, h)
         /\ (\A i \in places : Starts(x, i)) => Bare(Keep(x, places))
<1>1. PICK u \in Seq(S) : u = Keep(x, places)
  BY KeepIs
<1>2. PICK h : h \in [0..Len(x) -> Nat] /\ Sieved(x, places, u, h)
  BY <1>1, KeepIs
<1>3. PICK n \in Nat : n = Len(x)
  BY LenProperties
<1>4. Counting(n, h)
  BY <1>2, <1>3, SievedCounts
<1>5. PICK m \in Nat : m = Len(u)
  BY <1>1, LenProperties
<1>6. /\ h[n] = m
      /\ \A i \in 1..n : IF i \in places THEN h[i] = h[i - 1] + 1 /\ h[i] \in 1..m /\ u[h[i]] = x[i]
                         ELSE h[i] = h[i - 1]
  BY <1>2, <1>3, <1>5 DEF Sieved
<1> DEFINE Bad == {i \in 1..n : ~ (h[i] \in 1..m /\ u[h[i]] = x[i])}
<1>7. Bad = {}
  <2> SUFFICES ASSUME Bad # {} PROVE FALSE
    OBVIOUS
  <2>1. PICK i \in Bad : \A k \in Bad : i <= k
    <3>1. Bad \in SUBSET Nat
      OBVIOUS
    <3> HIDE DEF Bad
    <3> QED
      BY <3>1, LeastNumber
  <2>2. i \in 1..n /\ ~ (h[i] \in 1..m /\ u[h[i]] = x[i])
    BY <2>1
  <2>3. i \notin places /\ h[i] = h[i - 1]
    BY <1>6, <2>2
  <2>4. ~ Starts(x, i)
    BY <1>3, <2>2, <2>3
  <2>5. i # 1 /\ x[i - 1] = x[i]
    BY <2>4 DEF Starts
  <2>6. i - 1 \in 1..n /\ ~ (i <= i - 1)
    BY <2>2, <2>5
  <2>7. h[i - 1] \in 1..m /\ u[h[i - 1]] = x[i - 1]
    <3>1. i - 1 \notin Bad
      BY <2>1, <2>6
    <3> QED
      BY <2>6, <3>1
  <2> QED
    BY <2>2, <2>3, <2>5, <2>7
<1>8. Covers(u, x, h)
  BY <1>3, <1>4, <1>5, <1>6, <1>7 DEF Covers
<1>9. ASSUME \A i \in places : Starts(x, i) PROVE Bare(u)
  <2> SUFFICES \A j \in 1..(m - 1) : u[j] # u[j + 1]
    BY <1>5 DEF Bare
  <2> TAKE j \in 1..(m - 1)
  <2>2. j + 1 \in 1..m /\ j \in Nat /\ j # 0 /\ (j + 1) - 1 = j
    OBVIOUS
  <2>3. PICK i \in 1..n : h[i] = j + 1 /\ h[i - 1] = j
    <3>1. PICK k : k = j + 1
      OBVIOUS
    <3>2. k \in 1..h[n]
      <4>1. h[n] = m /\ k \in 1..m
        BY <1>6, <2>2, <3>1
      <4> QED
        BY <4>1
    <3>3. \E i \in 1..n : h[i] = k /\ h[i - 1] = k - 1
      BY <1>4, <3>2, Reached
    <3> QED
      BY <2>2, <3>1, <3>3
  <2>4. i \in places /\ u[j + 1] = x[i]
    BY <1>6, <2>2, <2>3
  <2>5. i # 1
    BY <1>4, <2>2, <2>3 DEF Counting
  <2>6. i - 1 \in 1..n
    BY <2>3, <2>5
  <2>7. u[j] = x[i - 1]
    <3>1. i - 1 \notin Bad
      BY <1>7
    <3> QED
      BY <2>3, <2>6, <3>1
  <2>8. x[i - 1] # x[i]
    BY <1>9, <2>4, <2>5 DEF Starts
  <2> QED
    BY <2>4, <2>7, <2>8
<1> QED
  BY <1>1, <1>8, <1>9

\* A bare word that is part of a word is part of what covers it.
LEMMA FoundCollapsed ==
  ASSUME NEW S, NEW x \in Seq(S), NEW u \in Seq(S), NEW h, Covers(u, x, h), NEW part \in Seq(S), Bare(part),
         Len(part) # 0, Includes(x, part)
  PROVE  Includes(u, part)
<1>1. PICK n \in Nat, m \in Nat, l \in Nat : n = Len(x) /\ m = Len(u) /\ l = Len(part)
  BY LenProperties
<1>2. /\ Counting(n, h) /\ h[n] = m /\ l # 0
      /\ \A i \in 1..n : h[i] \in 1..m /\ u[h[i]] = x[i]
      /\ \A j \in 1..(l - 1) : part[j] # part[j + 1]
  BY <1>1 DEF Covers, Bare
<1>3. PICK i \in 1..n : i + l - 1 <= n /\ SubSeq(x, i, i + l - 1) = part
  BY <1>1 DEF Includes
<1>4. \A k \in 1..l : part[k] = x[i + k - 1]
  <2>1. \A k \in i..(i + l - 1) : x[k] \in S
    <3> TAKE k \in i..(i + l - 1)
    <3>1. k \in 1..Len(x)
      BY <1>1, <1>3
    <3> QED
      BY <3>1, ElementOfSeq
  <2>2. i \in Int /\ i + l - 1 \in Int /\ (i + l - 1) - i + 1 = l
    BY <1>3
  <2>3. \A k \in 1..((i + l - 1) - i + 1) : SubSeq(x, i, i + l - 1)[k] = x[i + k - 1]
    BY <2>1, <2>2, SubSeqProperties
  <2> QED
    BY <1>3, <2>2, <2>3
<1> DEFINE Bad == {k \in 1..l : h[i + k - 1] # h[i] + k - 1}
<1>5. Bad = {}
  <2> SUFFICES ASSUME Bad # {} PROVE FALSE
    OBVIOUS
  <2>1. PICK k \in Bad : \A q \in Bad : k <= q
    <3>1. Bad \in SUBSET Nat
      OBVIOUS
    <3> HIDE DEF Bad
    <3> QED
      BY <3>1, LeastNumber
  <2>2. k \in 1..l /\ h[i + k - 1] # h[i] + k - 1
    BY <2>1
  <2>3. h[i] \in 1..m
    BY <1>2
  <2>4. k # 1
    <3>1. i + 1 - 1 = i /\ h[i] + 1 - 1 = h[i]
      BY <2>3
    <3> QED
      BY <2>2, <3>1
  <2>5. k - 1 \in 1..(l - 1) /\ k - 1 \in 1..l /\ ~ (k <= k - 1) /\ k - 1 + 1 = k
    BY <2>2, <2>4
  <2>6. PICK c \in Nat : c = i + k - 1
    BY <2>2
  <2>7. c \in 1..n /\ c - 1 \in 1..n /\ c - 1 = i + (k - 1) - 1
    BY <1>3, <2>2, <2>5, <2>6
  <2>8. h[c - 1] = h[i] + (k - 1) - 1
    <3>1. k - 1 \notin Bad
      BY <2>1, <2>5
    <3> QED
      BY <2>5, <2>7, <3>1
  <2>9. x[c - 1] # x[c]
    <3>1. part[k - 1] # part[k]
      BY <1>2, <2>5
    <3> QED
      BY <1>4, <2>2, <2>5, <2>6, <2>7, <3>1
  <2>10. h[c] # h[c - 1]
    BY <1>2, <2>7, <2>9
  <2>11. h[c] = h[c - 1] + 1
    BY <1>2, <2>7, <2>10 DEF Counting
  <2> QED
    BY <2>2, <2>3, <2>6, <2>8, <2>11
<1>6. PICK a \in 1..m : a = h[i]
  BY <1>2
<1>7. \A k \in 1..l : u[a + k - 1] = part[k] /\ a + k - 1 \in 1..m
  <2> TAKE k \in 1..l
  <2>1. i + k - 1 \in 1..n
    BY <1>3
  <2>2. k \notin Bad
    BY <1>5
  <2>3. h[i + k - 1] = a + k - 1
    BY <1>6, <2>2
  <2> QED
    BY <1>2, <1>4, <2>1, <2>3
<1>8. a + l - 1 <= m /\ a + l - 1 \in Int /\ (a + l - 1) - a + 1 = l /\ a <= a + l - 1
  <2>1. l \in 1..l /\ l \in Nat /\ a \in Nat
    BY <1>2
  <2>2. a + l - 1 \in 1..m
    BY <1>7, <2>1
  <2> QED
    BY <1>2, <2>1, <2>2
<1>9. SubSeq(u, a, a + l - 1) = part
  <2>1. \A k \in a..(a + l - 1) : u[k] \in S
    <3> TAKE k \in a..(a + l - 1)
    <3>1. k \in 1..Len(u)
      BY <1>1, <1>6, <1>8
    <3> QED
      BY <3>1, ElementOfSeq
  <2>2. PICK t : t = SubSeq(u, a, a + l - 1)
    OBVIOUS
  <2>3. /\ t \in Seq(S) /\ Len(t) = l
        /\ \A k \in 1..l : t[k] = u[a + k - 1]
    BY <1>8, <2>1, <2>2, SubSeqProperties
  <2>4. \A k \in 1..Len(t) : t[k] = part[k]
    BY <1>7, <2>3
  <2> QED
    BY <1>1, <2>2, <2>3, <2>4, SeqEqual
<1> QED
  BY <1>1, <1>8, <1>9 DEF Includes

(***************************************************************************)
(* What a word spells.                                                     *)
(***************************************************************************)
Folded(w) == [i \in DOMAIN w |-> Fold(w[i])]

\* g[i] letters of u are spelt by the first i characters of w.
Spells(w, u, g) ==
  /\ Counting(Len(w), g) /\ g[Len(w)] = Len(u)
  /\ \A i \in 1..Len(w) : IF Fold(w[i]) \in Letters THEN g[i] \in 1..Len(u) /\ u[g[i]] = Fold(w[i])
                          ELSE g[i] = g[i - 1]

\* What is folded stays a character, and a letter stays what it is.
LEMMA FoldIs ==
  /\ \A c \in Characters : Fold(c) \in Characters
  /\ \A c \in Letters : Fold(c) = c
  /\ \A c \in DOMAIN Leet : Fold(c) = Leet[c] /\ Leet[c] \in Letters
  /\ \A c \in Separators : Fold(c) \notin Letters /\ c \notin Letters
  /\ Letters \subseteq Characters /\ "_" \in Separators /\ "_" \in Characters /\ DOMAIN Leet \subseteq Characters
BY UsernamesAssumption DEF Fold, Characters, Separators

\* The folded word is as long as the word.
LEMMA FoldedIs ==
  ASSUME NEW w \in Seq(Characters)
  PROVE  /\ Folded(w) \in Seq(Characters) /\ Len(Folded(w)) = Len(w)
         /\ \A i \in 1..Len(w) : Folded(w)[i] = Fold(w[i])
<1>1. Len(w) \in Nat /\ DOMAIN w = 1..Len(w) /\ \A i \in 1..Len(w) : w[i] \in Characters
  BY LenProperties, ElementOfSeq
<1>2. PICK n \in Nat : n = Len(w)
  BY <1>1
<1>3. Folded(w) = [i \in 1..n |-> Fold(w[i])]
  BY <1>1, <1>2 DEF Folded
<1>4. \A i \in 1..n : Fold(w[i]) \in Characters
  BY <1>1, <1>2, FoldIs
<1> HIDE DEF Fold
<1>5. PICK f : f = Folded(w)
  OBVIOUS
<1>6. f \in [1..n -> Characters]
  BY <1>3, <1>4, <1>5
<1>7. f \in Seq(Characters) /\ Len(f) = n
  BY <1>6
<1> QED
  BY <1>2, <1>3, <1>5, <1>7

\* The letters of a word, once and twice collapsed: what the word spells.
LEMMA NormalSpells ==
  ASSUME NEW w \in Seq(Characters)
  PROVE  /\ Normalized(w) \in Seq(Characters) /\ FullyCollapse(Normalized(w)) \in Seq(Characters)
         /\ Bare(FullyCollapse(Normalized(w)))
         /\ \E h : Covers(FullyCollapse(Normalized(w)), Normalized(w), h)
         /\ \E g : Spells(w, FullyCollapse(Normalized(w)), g)
<1>1. PICK p \in Seq(Characters) : p = Folded(w)
  BY FoldedIs
<1>2. PICK n \in Nat : n = Len(w)
  BY LenProperties
<1>3. Len(p) = n /\ DOMAIN p = 1..n /\ \A i \in 1..n : p[i] = Fold(w[i])
  BY <1>1, <1>2, FoldedIs, LenProperties
<1> DEFINE places == {i \in DOMAIN p : p[i] \in Letters}
<1>4. PICK x \in Seq(Characters), f \in [0..n -> Nat] : x = LettersOf(p) /\ Sieved(p, places, x, f)
  BY <1>3, KeepIs DEF LettersOf
<1>5. Counting(n, f)
  BY <1>3, <1>4, SievedCounts
<1>6. PICK l \in Nat : l = Len(x)
  BY LenProperties
<1>7. /\ f[n] = l
      /\ \A i \in 1..n : IF Fold(w[i]) \in Letters THEN f[i] = f[i - 1] + 1 /\ f[i] \in 1..l /\ x[f[i]] = Fold(w[i])
                         ELSE f[i] = f[i - 1]
  BY <1>3, <1>4, <1>6 DEF Sieved
<1>8. PICK y \in Seq(Characters) : y = Normalized(w) /\ \E d : Covers(y, x, d)
  <2>1. Normalized(w) = CollapseRuns(x)
    BY <1>1, <1>4 DEF Normalized, Folded
  <2>2. \A i \in 1..Len(x) : Starts(x, i) =>
          i \in {j \in DOMAIN x : Starts(x, j) \/ (Starts(x, j - 1) /\ (j = Len(x) \/ x[j + 1] # x[j]))}
    BY LenProperties
  <2> QED
    BY <2>1, <2>2, CollapseCovers DEF CollapseRuns
<1>9. PICK u \in Seq(Characters) : u = FullyCollapse(y) /\ Bare(u) /\ \E e : Covers(u, y, e)
  <2>1. \A i \in 1..Len(y) : Starts(y, i) => i \in {j \in DOMAIN y : Starts(y, j)}
    BY LenProperties
  <2>2. \A i \in {j \in DOMAIN y : Starts(y, j)} : Starts(y, i)
    OBVIOUS
  <2> QED
    BY <2>1, <2>2, CollapseCovers DEF FullyCollapse
<1>20. PICK d, e : Covers(y, x, d) /\ Covers(u, y, e)
  BY <1>8, <1>9
<1>10. PICK q \in Nat, r \in Nat : q = Len(y) /\ r = Len(u)
  BY LenProperties
<1>11. /\ Counting(l, d) /\ d[l] = q /\ Counting(q, e) /\ e[q] = r
       /\ \A i \in 1..l : d[i] \in 1..q /\ y[d[i]] = x[i]
       /\ \A i \in 1..q : e[i] \in 1..r /\ u[e[i]] = y[i]
  BY <1>6, <1>10, <1>20 DEF Covers
<1>12. \A i \in 0..n : f[i] \in 0..l
  BY <1>5, <1>7, Rising
<1>13. \A i \in 0..l : d[i] \in 0..q
  BY <1>11, Rising
<1>14. PICK g : g = [i \in 0..n |-> e[d[f[i]]]]
  OBVIOUS
<1>15. Counting(n, g)
  <2>1. g \in [0..n -> Nat]
    BY <1>11, <1>12, <1>13, <1>14 DEF Counting
  <2>2. g[0] = 0
    BY <1>5, <1>11, <1>14 DEF Counting
  <2>3. ASSUME NEW i \in 1..n PROVE g[i] = g[i - 1] \/ g[i] = g[i - 1] + 1
    <3>1. PICK a \in 0..l, b \in 0..l : a = f[i] /\ b = f[i - 1]
      <4>1. i \in 0..n /\ i - 1 \in 0..n
        OBVIOUS
      <4> QED
        BY <1>12, <4>1
    <3>2. g[i] = e[d[a]] /\ g[i - 1] = e[d[b]]
      BY <1>14, <3>1
    <3>3. a = b \/ (a = b + 1 /\ a \in 1..l)
      BY <1>5, <3>1 DEF Counting
    <3>4. PICK s \in 0..q, t \in 0..q : s = d[a] /\ t = d[b]
      BY <1>13
    <3>5. s = t \/ (s = t + 1 /\ s \in 1..q)
      <4>1. CASE a = b
        BY <3>4, <4>1
      <4>2. CASE a = b + 1 /\ a \in 1..l
        <5>1. b = a - 1
          BY <4>2
        <5> QED
          BY <1>11, <3>4, <4>2, <5>1 DEF Counting
      <4> QED
        BY <3>3, <4>1, <4>2
    <3>6. CASE s = t
      BY <3>2, <3>4, <3>6
    <3>7. CASE s = t + 1 /\ s \in 1..q
      <4>1. t = s - 1
        BY <3>7
      <4>2. e[s] = e[s - 1] \/ e[s] = e[s - 1] + 1
        BY <1>11, <3>7 DEF Counting
      <4> QED
        BY <3>2, <3>4, <4>1, <4>2
    <3> QED
      BY <3>5, <3>6, <3>7
  <2> QED
    BY <2>1, <2>2, <2>3 DEF Counting
<1>16. ASSUME NEW i \in 1..n
       PROVE  IF Fold(w[i]) \in Letters THEN g[i] \in 1..r /\ u[g[i]] = Fold(w[i]) ELSE g[i] = g[i - 1]
  <2>1. CASE Fold(w[i]) \in Letters
    <3>1. PICK a \in 1..l : a = f[i] /\ x[a] = Fold(w[i])
      BY <1>7, <2>1
    <3>2. PICK s \in 1..q : s = d[a] /\ y[s] = x[a]
      BY <1>11
    <3>3. e[s] \in 1..r /\ u[e[s]] = y[s]
      BY <1>11
    <3>4. g[i] = e[s]
      BY <1>14, <3>1, <3>2
    <3> QED
      BY <2>1, <3>1, <3>2, <3>3, <3>4
  <2>2. CASE Fold(w[i]) \notin Letters
    <3>1. f[i] = f[i - 1] /\ i \in 0..n /\ i - 1 \in 0..n
      BY <1>7, <2>2
    <3> QED
      BY <1>14, <2>2, <3>1
  <2> QED
    BY <2>1, <2>2
<1>17. g[n] = r
  BY <1>7, <1>11, <1>14
<1>18. Spells(w, u, g)
  BY <1>2, <1>10, <1>15, <1>16, <1>17 DEF Spells
<1> QED
  BY <1>8, <1>9, <1>18

\* What a word spells is one word.
LEMMA SpellsOnce ==
  ASSUME NEW w \in Seq(Characters), NEW u \in Seq(Characters), NEW v \in Seq(Characters), Bare(u), Bare(v),
         NEW g, NEW h, Spells(w, u, g), Spells(w, v, h)
  PROVE  u = v
<1>1. PICK n \in Nat, l \in Nat, m \in Nat : n = Len(w) /\ l = Len(u) /\ m = Len(v)
  BY LenProperties
<1>2. /\ Counting(n, g) /\ Counting(n, h) /\ g[n] = l /\ h[n] = m
      /\ \A i \in 1..n : IF Fold(w[i]) \in Letters THEN g[i] \in 1..l /\ u[g[i]] = Fold(w[i]) ELSE g[i] = g[i - 1]
      /\ \A i \in 1..n : IF Fold(w[i]) \in Letters THEN h[i] \in 1..m /\ v[h[i]] = Fold(w[i]) ELSE h[i] = h[i - 1]
  BY <1>1 DEF Spells
<1>3. /\ \A j \in 1..(l - 1) : u[j] # u[j + 1]
      /\ \A j \in 1..(m - 1) : v[j] # v[j + 1]
  BY <1>1 DEF Bare
<1>4. ASSUME NEW i \in 1..n, g[i - 1] = h[i - 1], \A j \in 1..g[i - 1] : u[j] = v[j]
      PROVE  g[i] = h[i] /\ (g[i] = g[i - 1] + 1 => u[g[i]] = v[g[i]])
  <2>1. PICK a \in Nat : a = g[i - 1]
    BY <1>2 DEF Counting
  <2>2. (g[i] = a \/ g[i] = a + 1) /\ (h[i] = a \/ h[i] = a + 1)
    BY <1>2, <1>4, <2>1 DEF Counting
  <2>3. CASE Fold(w[i]) \notin Letters
    BY <1>2, <1>4, <2>1, <2>3
  <2>4. CASE Fold(w[i]) \in Letters
    <3>1. PICK c : c = Fold(w[i])
      OBVIOUS
    <3>2. g[i] \in 1..l /\ u[g[i]] = c /\ h[i] \in 1..m /\ v[h[i]] = c
      BY <1>2, <2>4, <3>1
    <3>3. ~ (g[i] = a /\ h[i] = a + 1)
      <4> SUFFICES ASSUME g[i] = a, h[i] = a + 1 PROVE FALSE
        OBVIOUS
      <4>1. a \in 1..(m - 1) /\ a \in 1..g[i - 1]
        BY <2>1, <3>2
      <4> QED
        BY <1>3, <1>4, <3>2, <4>1
    <3>4. ~ (g[i] = a + 1 /\ h[i] = a)
      <4> SUFFICES ASSUME g[i] = a + 1, h[i] = a PROVE FALSE
        OBVIOUS
      <4>1. a \in 1..(l - 1) /\ a \in 1..g[i - 1]
        BY <2>1, <3>2
      <4> QED
        BY <1>3, <1>4, <3>2, <4>1
    <3>5. g[i] = h[i]
      BY <2>2, <3>3, <3>4
    <3> QED
      BY <3>2, <3>5
  <2> QED
    BY <2>3, <2>4
<1>5. g[n] = Len(u) /\ h[n] = Len(v)
  BY <1>1, <1>2
<1>6. Counting(n, g) /\ Counting(n, h)
  BY <1>2
<1> HIDE DEF Bare
<1> QED
  BY <1>4, <1>5, <1>6, SameWalk

\* What is inserted stands behind its place, and pushes the rest on.
LEMMA InsertIs ==
  ASSUME NEW S, NEW w \in Seq(S), NEW i \in 1..Len(w), NEW c \in S
  PROVE  /\ Insert(w, i, c) \in Seq(S) /\ Len(Insert(w, i, c)) = Len(w) + 1
         /\ \A j \in 1..(Len(w) + 1) :
              Insert(w, i, c)[j] = IF j <= i THEN w[j] ELSE IF j = i + 1 THEN c ELSE w[j - 1]
<1>1. PICK n \in Nat : n = Len(w)
  BY LenProperties
<1>2. \A j \in 1..n : w[j] \in S
  BY <1>1, ElementOfSeq
<1>3. PICK x : x = Insert(w, i, c)
  OBVIOUS
<1>4. x = [j \in 1..(n + 1) |-> IF j <= i THEN w[j] ELSE IF j = i + 1 THEN c ELSE w[j - 1]]
  BY <1>1, <1>3 DEF Insert
<1>5. ASSUME NEW j \in 1..(n + 1)
      PROVE  (IF j <= i THEN w[j] ELSE IF j = i + 1 THEN c ELSE w[j - 1]) \in S
  <2>1. j <= i => j \in 1..n
    BY <1>1
  <2>2. ~ (j <= i) /\ j # i + 1 => j - 1 \in 1..n
    BY <1>1
  <2> QED
    BY <1>2, <2>1, <2>2
<1>6. x \in [1..(n + 1) -> S]
  BY <1>4, <1>5
<1>7. x \in Seq(S) /\ Len(x) = n + 1
  BY <1>6
<1> QED
  BY <1>1, <1>3, <1>4, <1>7

\* A disguise spells what it did.
LEMMA InsertSpells ==
  ASSUME NEW w \in Seq(Characters), NEW u \in Seq(Characters), NEW g, Spells(w, u, g), NEW i \in 1..Len(w),
         NEW c \in Characters, Fold(c) \in Letters => c = w[i]
  PROVE  Insert(w, i, c) \in Seq(Characters) /\ \E h : Spells(Insert(w, i, c), u, h)
<1>1. PICK n \in Nat, l \in Nat : n = Len(w) /\ l = Len(u)
  BY LenProperties
<1>2. /\ Counting(n, g) /\ g[n] = l
      /\ \A j \in 1..n : IF Fold(w[j]) \in Letters THEN g[j] \in 1..l /\ u[g[j]] = Fold(w[j]) ELSE g[j] = g[j - 1]
  BY <1>1 DEF Spells
<1>3. PICK p \in 1..n : p = i
  BY <1>1
<1>4. PICK x : x = Insert(w, i, c)
  OBVIOUS
<1>5. /\ x \in Seq(Characters) /\ Len(x) = n + 1
      /\ \A j \in 1..(n + 1) : x[j] = IF j <= p THEN w[j] ELSE IF j = p + 1 THEN c ELSE w[j - 1]
  BY <1>1, <1>3, <1>4, InsertIs
<1>6. PICK h : h = [j \in 0..(n + 1) |-> IF j <= p THEN g[j] ELSE g[j - 1]]
  OBVIOUS
<1>7. ASSUME NEW j \in 1..(n + 1)
      PROVE  /\ h[j] \in Nat /\ (h[j] = h[j - 1] \/ h[j] = h[j - 1] + 1)
             /\ IF Fold(x[j]) \in Letters THEN h[j] \in 1..l /\ u[h[j]] = Fold(x[j]) ELSE h[j] = h[j - 1]
  <2>1. j \in 0..(n + 1) /\ j - 1 \in 0..(n + 1)
    OBVIOUS
  <2>2. CASE j <= p
    <3>1. h[j] = g[j] /\ h[j - 1] = g[j - 1] /\ x[j] = w[j] /\ j \in 1..n
      BY <1>5, <1>6, <2>1, <2>2
    <3>2. g[j] \in Nat /\ (g[j] = g[j - 1] \/ g[j] = g[j - 1] + 1)
      <4>1. Counting(n, g) /\ j \in 0..n
        BY <1>2, <3>1
      <4> QED
        BY <3>1, <4>1 DEF Counting
    <3> QED
      BY <1>2, <3>1, <3>2
  <2>3. CASE j = p + 1
    <3>1. h[j] = g[p] /\ h[j - 1] = g[p] /\ x[j] = c
      BY <1>5, <1>6, <2>1, <2>3
    <3>2. g[p] \in Nat
      BY <1>2 DEF Counting
    <3> QED
      BY <1>2, <1>3, <3>1, <3>2
  <2>4. CASE j > p + 1
    <3>1. PICK k \in 1..n : k = j - 1
      BY <2>4
    <3>2. h[j] = g[k] /\ h[j - 1] = g[k - 1] /\ x[j] = w[k]
      <4>1. ~ (j <= p) /\ ~ (j - 1 <= p) /\ j # p + 1
        BY <2>4
      <4> QED
        BY <1>5, <1>6, <2>1, <3>1, <4>1
    <3>3. g[k] \in Nat /\ (g[k] = g[k - 1] \/ g[k] = g[k - 1] + 1)
      BY <1>2 DEF Counting
    <3> QED
      BY <1>2, <3>2, <3>3
  <2> QED
    BY <2>2, <2>3, <2>4
<1>8. h[0] = 0 /\ h[n + 1] = l
  <2>1. 0 <= p /\ ~ (n + 1 <= p) /\ (n + 1) - 1 = n /\ 0 \in 0..(n + 1) /\ n + 1 \in 0..(n + 1)
    OBVIOUS
  <2>2. h[0] = g[0] /\ h[n + 1] = g[n]
    BY <1>6, <2>1
  <2> QED
    BY <1>2, <2>2 DEF Counting
<1>9. Counting(n + 1, h)
  <2>1. ASSUME NEW j \in 0..(n + 1) PROVE h[j] \in Nat
    <3>1. j = 0 \/ j \in 1..(n + 1)
      OBVIOUS
    <3> QED
      BY <1>7, <1>8, <3>1
  <2>2. h \in [0..(n + 1) -> Nat]
    BY <1>6, <2>1
  <2> QED
    BY <1>7, <1>8, <2>2 DEF Counting
<1>10. Spells(x, u, h)
  BY <1>1, <1>5, <1>7, <1>8, <1>9 DEF Spells
<1> QED
  BY <1>4, <1>5, <1>10

\* So does another character for a letter.
LEMMA WriteSpells ==
  ASSUME NEW w \in Seq(Characters), NEW u \in Seq(Characters), NEW g, Spells(w, u, g), NEW i \in 1..Len(w),
         NEW c \in DOMAIN Leet, Leet[c] = w[i]
  PROVE  [w EXCEPT ![i] = c] \in Seq(Characters) /\ \E h : Spells([w EXCEPT ![i] = c], u, h)
<1>1. PICK n \in Nat, l \in Nat : n = Len(w) /\ l = Len(u)
  BY LenProperties
<1>2. c \in Characters /\ Fold(c) = Fold(w[i])
  BY FoldIs
<1>3. PICK x : x = [w EXCEPT ![i] = c]
  OBVIOUS
<1>4. x \in Seq(Characters) /\ Len(x) = n /\ \A j \in 1..n : x[j] = IF j = i THEN c ELSE w[j]
  BY <1>1, <1>2, <1>3, ExceptSeq
<1>5. \A j \in 1..n : Fold(x[j]) = Fold(w[j])
  BY <1>2, <1>4
<1>6. Spells(x, u, g)
  BY <1>1, <1>4, <1>5 DEF Spells
<1> QED
  BY <1>3, <1>4, <1>6

\* Without separators a word has the same letters, and the same mixture of scripts.
LEMMA ThroughCanonical ==
  ASSUME NEW w \in Seq(Characters)
  PROVE  LettersOf(Folded(w)) = LettersOf(Folded(Canonical(w))) /\ (Mixed(w) <=> Mixed(Canonical(w)))
<1>1. PICK n \in Nat : n = Len(w)
  BY LenProperties
<1>2. DOMAIN w = 1..n
  BY <1>1, LenProperties
<1> DEFINE P == {i \in DOMAIN w : w[i] \notin Separators}
<1>3. PICK c \in Seq(Characters) : c = Canonical(w) /\ \E f : f \in [0..n -> Nat] /\ Sieved(w, P, c, f)
  BY <1>1, KeepIs DEF Canonical
<1>4. PICK f : f \in [0..n -> Nat] /\ Sieved(w, P, c, f)
  BY <1>3
<1>5. PICK m \in Nat : m = Len(c)
  BY LenProperties
<1>6. DOMAIN c = 1..m
  BY <1>5, LenProperties
<1>7. Counting(n, f)
  BY <1>1, <1>4, SievedCounts
<1>8. /\ f[n] = m
      /\ \A i \in 1..n : IF w[i] \notin Separators THEN f[i] = f[i - 1] + 1 /\ f[i] \in 1..m /\ c[f[i]] = w[i]
                         ELSE f[i] = f[i - 1]
  BY <1>1, <1>2, <1>4, <1>5 DEF Sieved
<1>9. ASSUME NEW kind, kind \cap Separators = {}
      PROVE  (\E i \in DOMAIN w : w[i] \in kind) <=> (\E j \in DOMAIN c : c[j] \in kind)
  <2>1. ASSUME NEW i \in 1..n, w[i] \in kind PROVE \E j \in 1..m : c[j] \in kind
    <3>1. w[i] \notin Separators
      BY <1>9, <2>1
    <3>2. f[i] \in 1..m /\ c[f[i]] = w[i]
      BY <1>8, <3>1
    <3> QED
      BY <2>1, <3>2
  <2>2. ASSUME NEW j \in 1..m, c[j] \in kind PROVE \E i \in 1..n : w[i] \in kind
    <3>1. j \in 1..f[n]
      BY <1>8
    <3>2. PICK i \in 1..n : f[i] = j /\ f[i - 1] = j - 1
      BY <1>7, <3>1, Reached
    <3>3. w[i] \notin Separators
      BY <1>8, <3>2
    <3>4. c[j] = w[i]
      BY <1>8, <3>2, <3>3
    <3> QED
      BY <2>2, <3>4
  <2> QED
    BY <1>2, <1>6, <2>1, <2>2
<1>10. Mixed(w) <=> Mixed(c)
  <2>1. Letters \cap Separators = {} /\ Foreign \cap Separators = {}
    BY UsernamesAssumption
  <2> QED
    BY <1>9, <2>1 DEF Mixed
<1>11. PICK p \in Seq(Characters), q \in Seq(Characters) : p = Folded(w) /\ q = Folded(c)
  BY FoldedIs
<1>12. /\ Len(p) = n /\ DOMAIN p = 1..n /\ \A i \in 1..n : p[i] = Fold(w[i])
       /\ Len(q) = m /\ DOMAIN q = 1..m /\ \A i \in 1..m : q[i] = Fold(c[i])
  BY <1>1, <1>5, <1>11, FoldedIs, LenProperties
<1> DEFINE Q == {i \in DOMAIN q : q[i] \in Letters}
    R == {i \in DOMAIN p : p[i] \in Letters}
<1>13. PICK x \in Seq(Characters) : x = LettersOf(q) /\ \E k : k \in [0..m -> Nat] /\ Sieved(q, Q, x, k)
  BY <1>12, KeepIs DEF LettersOf
<1>14. PICK k : k \in [0..m -> Nat] /\ Sieved(q, Q, x, k)
  BY <1>13
<1>15. PICK y \in Seq(Characters) : y = LettersOf(p) /\ \E e : e \in [0..n -> Nat] /\ Sieved(p, R, y, e)
  BY <1>12, KeepIs DEF LettersOf
<1>16. PICK e : e \in [0..n -> Nat] /\ Sieved(p, R, y, e)
  BY <1>15
<1>17. PICK r \in Nat : r = Len(x)
  BY LenProperties
<1>18. /\ k[0] = 0 /\ k[m] = r
       /\ \A j \in 1..m : IF Fold(c[j]) \in Letters THEN k[j] = k[j - 1] + 1 /\ k[j] \in 1..r /\ x[k[j]] = Fold(c[j])
                          ELSE k[j] = k[j - 1]
  BY <1>12, <1>14, <1>17 DEF Sieved
<1>19. \A i \in 0..n : f[i] \in 0..m
  BY <1>7, <1>8, Rising
<1>20. PICK d : d = [i \in 0..n |-> k[f[i]]]
  OBVIOUS
<1>21. d \in [0..n -> Nat]
  BY <1>14, <1>19, <1>20
<1>22. d[0] = 0 /\ d[n] = r
  BY <1>7, <1>8, <1>18, <1>20 DEF Counting
<1>23. ASSUME NEW i \in 1..n
       PROVE  IF Fold(w[i]) \in Letters THEN d[i] = d[i - 1] + 1 /\ d[i] \in 1..r /\ x[d[i]] = Fold(w[i])
              ELSE d[i] = d[i - 1]
  <2>1. i \in 0..n /\ i - 1 \in 0..n
    OBVIOUS
  <2>2. d[i] = k[f[i]] /\ d[i - 1] = k[f[i - 1]]
    BY <1>20, <2>1
  <2>3. CASE w[i] \in Separators
    <3>1. f[i] = f[i - 1] /\ Fold(w[i]) \notin Letters
      BY <1>8, <2>3, FoldIs
    <3> QED
      BY <2>2, <3>1
  <2>4. CASE w[i] \notin Separators
    <3>1. PICK a \in 1..m : a = f[i] /\ f[i - 1] = a - 1 /\ c[a] = w[i]
      <4>1. f[i] = f[i - 1] + 1 /\ f[i] \in 1..m /\ c[f[i]] = w[i]
        BY <1>8, <2>4
      <4>2. f[i - 1] \in Nat
        BY <1>4, <2>1
      <4> QED
        BY <4>1, <4>2
    <3> QED
      BY <1>18, <2>2, <3>1
  <2> QED
    BY <2>3, <2>4
<1>24. Sieved(p, R, x, d)
  BY <1>12, <1>17, <1>22, <1>23 DEF Sieved
<1>25. x = y
  <2>1. /\ e \in [0..Len(p) -> Nat] /\ d \in [0..Len(p) -> Nat]
        /\ Sieved(p, R, x, d) /\ Sieved(p, R, y, e)
    BY <1>12, <1>16, <1>21, <1>24
  <2> HIDE DEF R, Q, P
  <2> QED
    BY <2>1, SievedOnce
<1> QED
  BY <1>3, <1>10, <1>11, <1>13, <1>15, <1>25

(***************************************************************************)
(* What is made of a name.                                                 *)
(***************************************************************************)

\* The first reason that applies.
LEMMA VerdictIs ==
  ASSUME NEW w
  PROVE  /\ Mixed(w) => CheckUsername(w) = "confusable"
         /\ ~ Mixed(w) /\ Malformed(w) => CheckUsername(w) = "malformed"
         /\ ~ Mixed(w) /\ ~ Malformed(w) /\ {Canonical(w), Normalized(w)} \cap Reserved # {}
              => CheckUsername(w) = "reserved"
         /\ ~ Mixed(w) /\ ~ Malformed(w) /\ {Canonical(w), Normalized(w)} \cap Reserved = {}
              => CheckUsername(w) =
                   IF \E f \in Impersonation : Includes(Normalized(w), f) THEN "impersonation"
                   ELSE IF Normalized(w) \in ExactWords \/ \E f \in Fragments : Hits(Normalized(w), f)
                        THEN "offensive" ELSE "ok"
BY DEF CheckUsername

\* A name that holds a fragment is not accepted.
LEMMA FragmentRefused ==
  ASSUME NEW w, NEW f \in Fragments, Hits(Normalized(w), f)
  PROVE  CheckUsername(w) # "ok"
<1>1. PICK n : n = Normalized(w)
  OBVIOUS
<1>2. \E e \in Fragments : Hits(n, e)
  BY <1>1
<1> QED
  BY <1>1, <1>2, VerdictIs

\* The canonical form decides what is screened.
LEMMA CanonicalDecides ==
  ASSUME NEW w \in Seq(Characters), NEW v \in Seq(Characters), Canonical(w) = Canonical(v)
  PROVE  Normalized(w) = Normalized(v) /\ (Mixed(w) <=> Mixed(v))
<1>1. Normalized(w) = CollapseRuns(LettersOf(Folded(w))) /\ Normalized(v) = CollapseRuns(LettersOf(Folded(v)))
  BY DEF Normalized, Folded
<1>2. LettersOf(Folded(w)) = LettersOf(Folded(v)) /\ (Mixed(w) <=> Mixed(v))
  BY ThroughCanonical
<1> QED
  BY <1>1, <1>2

\* Two well-formed names with one canonical form meet the same end, reserved or
\* not apart.
LEMMA OneCanonicalOneVerdict ==
  ASSUME NEW w \in Seq(Characters), NEW v \in Seq(Characters), Canonical(w) = Canonical(v),
         CheckUsername(w) # "malformed", CheckUsername(v) # "malformed"
  PROVE  CheckUsername(w) = CheckUsername(v)
<1>1. PICK n : n = Normalized(w) /\ n = Normalized(v)
  BY CanonicalDecides
<1>2. PICK c : c = Canonical(w) /\ c = Canonical(v)
  OBVIOUS
<1>3. CASE Mixed(w)
  BY <1>3, CanonicalDecides, VerdictIs
<1>4. CASE ~ Mixed(w)
  <2>1. ~ Mixed(v) /\ ~ Malformed(w) /\ ~ Malformed(v)
    BY <1>4, CanonicalDecides, VerdictIs
  <2>2. CASE {c, n} \cap Reserved # {}
    BY <1>1, <1>2, <1>4, <2>1, <2>2, VerdictIs
  <2>3. CASE {c, n} \cap Reserved = {}
    BY <1>1, <1>2, <1>4, <2>1, <2>3, VerdictIs
  <2> QED
    BY <2>2, <2>3
<1> QED
  BY <1>3, <1>4

\* Both names spell one word in which nothing is repeated.
Disguised ==
  /\ wanted \in Seq(Characters) /\ disguise \in Seq(Characters)
  /\ \E u \in Seq(Characters) :
       Bare(u) /\ (\E g : Spells(wanted, u, g)) /\ (\E g : Spells(disguise, u, g))

LEMMA DisguisedStart == UsernamesInit => Disguised
<1> SUFFICES ASSUME UsernamesInit PROVE Disguised
  OBVIOUS
<1>1. wanted \in Seq(Characters)
  <2>1. PICK n \in 1..WantedLength : wanted \in [1..n -> Characters]
    BY DEF UsernamesInit
  <2>2. n \in Nat
    BY <2>1, UsernamesAssumption
  <2> QED
    BY <2>1, <2>2
<1>2. disguise = wanted
  BY DEF UsernamesInit
<1>3. PICK w \in Seq(Characters) : w = wanted
  BY <1>1
<1>4. PICK u \in Seq(Characters) : Bare(u) /\ \E g : Spells(w, u, g)
  BY NormalSpells
<1> QED
  BY <1>2, <1>3, <1>4 DEF Disguised

LEMMA DisguisedStep == Disguised /\ [UsernamesNext]_usernamesVars => Disguised'
<1> SUFFICES ASSUME Disguised, [UsernamesNext]_usernamesVars PROVE Disguised'
  OBVIOUS
<1>1. PICK a \in Seq(Characters) : a = wanted
  BY DEF Disguised
<1>2. PICK w \in Seq(Characters) : w = disguise
  BY DEF Disguised
<1>3. PICK u \in Seq(Characters) : Bare(u) /\ (\E g : Spells(a, u, g)) /\ (\E g : Spells(w, u, g))
  BY <1>1, <1>2 DEF Disguised
<1>4. PICK g : Spells(w, u, g)
  BY <1>3
<1>5. wanted' = a
  BY <1>1 DEF UsernamesNext, DisguiseMore, usernamesVars
<1>6. PICK x : x = disguise'
  OBVIOUS
<1>7. x \in Seq(Characters) /\ \E h : Spells(x, u, h)
  <2>1. CASE UNCHANGED usernamesVars
    BY <1>2, <1>3, <1>6, <2>1 DEF usernamesVars
  <2>2. CASE DisguiseMore
    <3>1. PICK i : /\ i \in DOMAIN w
                   /\ \/ \E c : c \in Characters /\ (Fold(c) \in Letters => c = w[i]) /\ x = Insert(w, i, c)
                      \/ \E c \in DOMAIN Leet : Leet[c] = w[i] /\ x = [w EXCEPT ![i] = c]
      <4>1. PICK i : /\ i \in DOMAIN w
                     /\ \/ x = Insert(w, i, w[i])
                        \/ x = Insert(w, i, "_")
                        \/ \E c \in DOMAIN Leet : Leet[c] = w[i] /\ x = [w EXCEPT ![i] = c]
        BY <1>2, <1>6, <2>2 DEF DisguiseMore
      <4>2. w[i] \in Characters
        BY <4>1, LenProperties, ElementOfSeq
      <4>3. "_" \in Characters /\ Fold("_") \notin Letters
        BY FoldIs
      <4> QED
        BY <4>1, <4>2, <4>3
    <3>2. i \in 1..Len(w)
      BY <3>1, LenProperties
    <3>3. CASE \E c : c \in Characters /\ (Fold(c) \in Letters => c = w[i]) /\ x = Insert(w, i, c)
      <4>1. PICK c : c \in Characters /\ (Fold(c) \in Letters => c = w[i]) /\ x = Insert(w, i, c)
        BY <3>3
      <4> QED
        BY <1>4, <3>2, <4>1, InsertSpells
    <3>4. CASE \E c \in DOMAIN Leet : Leet[c] = w[i] /\ x = [w EXCEPT ![i] = c]
      <4>1. PICK c \in DOMAIN Leet : Leet[c] = w[i] /\ x = [w EXCEPT ![i] = c]
        BY <3>4
      <4> QED
        BY <1>4, <3>2, <4>1, WriteSpells
    <3> QED
      BY <3>1, <3>3, <3>4
  <2> QED
    BY <2>1, <2>2 DEF UsernamesNext
<1> QED
  BY <1>3, <1>5, <1>6, <1>7 DEF Disguised

\* Names are of characters that may be listed.
LEMMA ListedWords == \A w \in Seq(Characters) : w \in Seq(Listable)
<1> TAKE w \in Seq(Characters)
<1>1. PICK n \in Nat : n = Len(w)
  BY LenProperties
<1>2. \A c \in Characters : c \in Listable
  BY DEF Listable
<1>3. w \in [1..n -> Listable]
  BY <1>1, <1>2, LenProperties, ElementOfSeq
<1> QED
  BY <1>1, <1>3

\* What both spell is what screening compares.
LEMMA DisguisedIsRefused == Disguised => DisguiseRefused
<1> SUFFICES ASSUME Disguised PROVE DisguiseRefused
  OBVIOUS
<1>1. PICK a : a \in Seq(Characters) /\ a = wanted
  BY DEF Disguised
<1>2. PICK d : d \in Seq(Characters) /\ d = disguise
  BY DEF Disguised
<1>3. PICK u \in Seq(Characters) : Bare(u) /\ (\E g : Spells(a, u, g)) /\ (\E g : Spells(d, u, g))
  BY <1>1, <1>2 DEF Disguised
<1>4. u = FullyCollapse(Normalized(a)) /\ u = FullyCollapse(Normalized(d))
  BY <1>1, <1>2, <1>3, NormalSpells, SpellsOnce
<1>5. ASSUME NEW f \in Fragments, Plain(Needle(f)), Hits(Normalized(a), f)
      PROVE  CheckUsername(d) # "ok"
  <2>1. f \in Seq(Listable)
    BY UsernamesAssumption
  <2>2. PICK part \in Seq(Listable) : part = Needle(f)
    BY <2>1, KeepIs DEF Needle, LettersOf
  <2>3. part = FullyCollapse(part) /\ Len(part) >= 3
    BY <1>5, <2>2 DEF Plain, Hits
  <2>4. Bare(part) /\ Len(part) # 0
    <3>1. Bare(FullyCollapse(part))
      BY CollapseCovers DEF FullyCollapse
    <3> QED
      BY <2>3, <3>1
  <2>5. PICK n \in Seq(Characters) : n = Normalized(a)
    BY <1>1, NormalSpells
  <2>0. u \in Seq(Listable) /\ n \in Seq(Listable)
    BY ListedWords
  <2>6. \E h : Covers(u, n, h)
    BY <1>1, <1>4, <2>5, NormalSpells
  <2>7. Includes(u, part)
    <3>1. CASE Includes(n, part)
      BY <2>0, <2>4, <2>6, <3>1, FoundCollapsed
    <3>2. CASE ~ Includes(n, part)
      BY <1>4, <1>5, <2>2, <2>5, <3>2 DEF Hits
    <3> QED
      BY <3>1, <3>2
  <2>8. Hits(Normalized(d), f)
    BY <1>4, <1>5, <2>2, <2>3, <2>7 DEF Hits
  <2> QED
    BY <2>8, FragmentRefused
<1>6. Canonical(a) = Canonical(d) /\ {CheckUsername(a), CheckUsername(d)} \cap {"malformed"} = {}
        => AbusiveRejection(CheckUsername(a)) = AbusiveRejection(CheckUsername(d))
  <2> SUFFICES ASSUME Canonical(a) = Canonical(d), {CheckUsername(a), CheckUsername(d)} \cap {"malformed"} = {}
               PROVE  AbusiveRejection(CheckUsername(a)) = AbusiveRejection(CheckUsername(d))
    OBVIOUS
  <2>1. CheckUsername(a) # "malformed" /\ CheckUsername(d) # "malformed"
    OBVIOUS
  <2>2. CheckUsername(a) = CheckUsername(d)
    BY <1>1, <1>2, <2>1, OneCanonicalOneVerdict
  <2> QED
    BY <2>2
<1> QED
  BY <1>1, <1>2, <1>5, <1>6 DEF DisguiseRefused

\* No disguise gets past the screening (usernames.ts): repeated letters, separators
\* and digits for letters hide no fragment without doubled letters, and two
\* well-formed spellings of one canonical name are both abusive or neither is.
THEOREM DisguiseAlwaysRefused == UsernamesSpec => []DisguiseRefused
<1>1. UsernamesInit => Disguised
  BY DisguisedStart
<1>2. Disguised /\ [UsernamesNext]_usernamesVars => Disguised'
  BY DisguisedStep
<1>3. Disguised => DisguiseRefused
  BY DisguisedIsRefused
<1> QED
  BY <1>1, <1>2, <1>3, PTL DEF UsernamesSpec
=============================================================================
