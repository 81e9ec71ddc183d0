------------------------------ MODULE Sessions ------------------------------
(***************************************************************************)
(* apps/api/src/security/session.ts and the handlers that use it: the      *)
(* session rows of one administrator's account, the browsers that hold     *)
(* their cookies, and requests in flight between the two.  An ordinary     *)
(* account has the same behaviours without StepUp and ChangePassword.      *)
(*                                                                         *)
(* A token is the row it was minted for and its number among the tokens of *)
(* that row; random tokens never collide.  A CSRF token is minted with it  *)
(* and travels with it, so one number stands for the pair.  resolveSession *)
(* waits for the database between its two reads and its write, and these   *)
(* are steps of their own; what runs between two awaits is one step.  The  *)
(* clock is read before a statement is sent, so what a statement compares  *)
(* with or writes is a time up to Slow before the one it takes effect at.  *)
(***************************************************************************)
EXTENDS Integers, FiniteSets

CONSTANTS
  Ids,            \* session rows
  Browsers,
  Requests,       \* requests that may be in flight at once
  None, Clear,
  RotateAfter,    \* SESSION.rotateAfterMs
  Grace,          \* ROTATION_GRACE_MS
  Idle,           \* SESSION.idleTimeoutMs
  AdminIdle,      \* SESSION.adminIdleTimeoutMs
  Absolute,       \* SESSION.absoluteTimeoutMs
  AdminAbsolute,  \* SESSION.adminAbsoluteTimeoutMs
  Slow,           \* bound on the time from a read to the write that follows it,
                  \* and from reading the clock to the statement that uses it
  MaxTokens,      \* bound on the tokens of a row
  Horizon         \* bound on time

Token == [id : Ids, n : Nat \ {0}]
Row == [st : {"new", "row", "gone"}, token : Nat, prev : Nat, prevUntil : Nat,
        rotatedAt : Nat, lastSeen : Nat, expires : Nat,
        elevated : BOOLEAN, revoked : BOOLEAN]

ASSUME SessionAssumption ==
  /\ {RotateAfter, Grace, Idle, AdminIdle, Absolute, AdminAbsolute, Slow} \subseteq Nat
  /\ {MaxTokens, Horizon} \subseteq Nat
  /\ Grace < RotateAfter /\ 2 * Slow <= RotateAfter
  /\ AdminIdle <= Idle /\ AdminAbsolute <= Absolute
  /\ None # Clear /\ {None, Clear} \cap Token = {}
  /\ None \notin Row /\ None \notin Browsers

VARIABLES
  now,
  session,  \* the rows
  jar,      \* browser -> the token in its session cookie, or None
  req,      \* the requests
  floor,    \* row -> number of the token its last privilege change minted
  lost      \* rows one of whose cookies never reached the browser
            \* (floor, lost, and the fields sent and fresh of a request
            \* only record what happened)

vars == <<now, session, jar, req, floor, lost>>

Request == [at : {"free", "lookup", "grace", "check", "handler", "changed", "forbidden", "reply"},
            from : Browsers \cup {None}, token : Token \cup {None}, seen : Row \cup {None},
            via : BOOLEAN, auth : BOOLEAN, reply : Token \cup {None, Clear},
            asked : Nat, sent : Nat, fresh : BOOLEAN]

\* What each stage of a request has to have.
WellFormed == {q \in Request :
  /\ q.at # "free" => q.from # None
  /\ (q.auth \/ q.at \in {"lookup", "grace", "check"}) => q.token # None
  /\ q.at = "check" => q.seen # None
  /\ q.via => q.at = "check"
  /\ q.at \in {"free", "lookup", "grace", "check"} => q.reply = None
  /\ q.at = "changed" => q.auth}

NoRow == [st |-> "new", token |-> 0, prev |-> 0, prevUntil |-> 0, rotatedAt |-> 0,
          lastSeen |-> 0, expires |-> 0, elevated |-> FALSE, revoked |-> FALSE]
Free == [at |-> "free", from |-> None, token |-> None, seen |-> None, via |-> FALSE,
         auth |-> FALSE, reply |-> None, asked |-> 0, sent |-> 0, fresh |-> FALSE]

Mine(r) == req[r].token.id

\* The times that "new Date()" may have returned for the statement of request r
\* that takes effect now: no earlier than the read it follows.
Stamps(r) == {t \in req[r].asked .. now : now - t <= Slow}

(***************************************************************************)
(* The request and its session lookup                                      *)
(***************************************************************************)

\* A browser sends its cookie with every request; without one there is no lookup.
Send(b, r) ==
  /\ req[r].at = "free"
  /\ req' = [req EXCEPT ![r] =
       IF jar[b] = None
       THEN [Free EXCEPT !.at = "handler", !.from = b]
       ELSE [Free EXCEPT !.at = "lookup", !.from = b, !.token = jar[b], !.sent = now,
                         !.fresh = (session[jar[b].id].token = jar[b].n)]]
  /\ UNCHANGED <<now, session, jar, floor, lost>>

\* findUnique on tokenHash
Lookup(r) ==
  /\ req[r].at = "lookup"
  /\ LET s == session[Mine(r)]
     IN req' = [req EXCEPT ![r] =
          IF s.st = "row" /\ s.token = req[r].token.n
          THEN [@ EXCEPT !.at = "check", !.seen = s, !.asked = now, !.sent = 0, !.fresh = FALSE]
          ELSE [@ EXCEPT !.at = "grace"]]
  /\ UNCHANGED <<now, session, jar, floor, lost>>

ByGrace(s, n, t) ==
  s.st = "row" /\ s.prev = n /\ s.prevUntil > t /\ ~s.revoked

\* findFirst on previousTokenHash; an unknown token leaves the cookie alone.
GraceLookup(r) ==
  /\ req[r].at = "grace"
  /\ \E t \in Stamps(r) :
       LET s == session[Mine(r)]
       IN req' = [req EXCEPT ![r] =
          IF ByGrace(s, req[r].token.n, t)
          THEN [@ EXCEPT !.at = "check", !.seen = s, !.via = TRUE, !.asked = now,
                         !.sent = 0, !.fresh = FALSE]
          ELSE [Free EXCEPT !.at = "handler", !.from = req[r].from]]
  /\ UNCHANGED <<now, session, jar, floor, lost>>

Revoke(rows) == [i \in Ids |-> IF i \in rows /\ session[i].st = "row"
                               THEN [session[i] EXCEPT !.revoked = TRUE] ELSE session[i]]

\* revoked, or past the absolute or the idle limit at time t, as the row was read
Expired(s, t) ==
  \/ s.expires <= t
  \/ t - s.lastSeen > IF s.elevated THEN AdminIdle ELSE Idle

Refused(s, t) == s.revoked \/ Expired(s, t)

\* The request carries on without a session and its cookie is cleared.  It may
\* also be refused for its user agent or for the state of the account.
Refuse(r) ==
  /\ req[r].at = "check"
  /\ session' = IF req[r].seen.revoked THEN session ELSE Revoke({Mine(r)})
  /\ req' = [req EXCEPT ![r] = [Free EXCEPT !.at = "handler", !.from = req[r].from, !.reply = Clear]]
  /\ UNCHANGED <<now, jar, floor, lost>>

\* Mutated: the digest that is current, whichever token was presented.
ExpectedCsrfMut(s, via) == s.token
ExpectedCsrf(s, via) == IF via THEN s.prev ELSE s.token

\* The double-submit check, then the handler; a rejection drops the cookie.
Accept(r, reply) ==
  LET ok == ExpectedCsrf(req[r].seen, req[r].via) = req[r].token.n
  IN [req EXCEPT ![r] = [Free EXCEPT !.at = IF ok THEN "handler" ELSE "forbidden",
                                     !.from = req[r].from, !.token = req[r].token, !.auth = ok,
                                     !.reply = IF ok THEN reply ELSE None]]

RotationDue(r, t) == ~req[r].via /\ t - req[r].seen.rotatedAt > RotateAfter

\* Mutated: the update is not conditional on rotatedAt.
ClaimsMut(i, s) == session[i].st = "row" /\ ~session[i].revoked
Claims(i, s) ==
  session[i].st = "row" /\ session[i].rotatedAt = s.rotatedAt /\ ~session[i].revoked

\* Mutated: the old token stops working as soon as it is rotated away.
GraceUntilMut(t) == t
GraceUntil(t) == t + Grace

\* The conditional update of a routine rotation, won.  All its times are the
\* one the request read before it sent the update, the end of the grace too.
Rotate(r, t) ==
  LET i == Mine(r) IN
  /\ req[r].at = "check" /\ ~Refused(req[r].seen, t)
  /\ RotationDue(r, t) /\ Claims(i, req[r].seen)
  /\ session[i].token < MaxTokens
  /\ session' = [session EXCEPT ![i] =
       [@ EXCEPT !.token = session[i].token + 1, !.prev = req[r].seen.token,
                 !.prevUntil = GraceUntil(t), !.rotatedAt = t, !.lastSeen = t]]
  /\ req' = Accept(r, [id |-> i, n |-> session[i].token + 1])
  /\ UNCHANGED <<now, jar, floor, lost>>

\* Mutated: the loser hands out its candidate as well.
LosersReplyMut(r) == [id |-> Mine(r), n |-> session[Mine(r)].token + 1]
LosersReply(r) == None

\* Another request won: this one stays on the old cookie.
RotationLost(r, t) ==
  /\ req[r].at = "check" /\ ~Refused(req[r].seen, t)
  /\ RotationDue(r, t) /\ ~Claims(Mine(r), req[r].seen)
  /\ req' = Accept(r, LosersReply(r))
  /\ UNCHANGED <<now, session, jar, floor, lost>>

\* No rotation due: lastSeenAt is written.  A row pruned meanwhile is an error.
Touch(r, t) ==
  LET i == Mine(r) IN
  /\ req[r].at = "check" /\ ~Refused(req[r].seen, t) /\ ~RotationDue(r, t)
  /\ IF session[i].st = "row"
     THEN /\ session' = [session EXCEPT ![i].lastSeen = t]
          /\ req' = Accept(r, None)
     ELSE /\ req' = [req EXCEPT ![r] = Free]
          /\ UNCHANGED session
  /\ UNCHANGED <<now, jar, floor, lost>>

(***************************************************************************)
(* Handlers                                                                *)
(***************************************************************************)

\* The reply is sent; one that carries no cookie changes nothing when it arrives.
Done(r, reply) ==
  [req EXCEPT ![r] = IF reply = None THEN Free
                     ELSE [Free EXCEPT !.at = "reply", !.from = req[r].from, !.reply = reply]]

\* A cookie already on the reply is replaced by a later one.
Dropped(r) == IF req[r].reply \in {None, Clear} THEN {} ELSE {req[r].reply.id}

Finish(r) ==
  /\ req[r].at \in {"handler", "forbidden"}
  /\ req' = Done(r, req[r].reply)
  /\ UNCHANGED <<now, session, jar, floor, lost>>

\* createSession, elevated after a second factor of an administrator.  The
\* database stamps the row; the deadline is the handler's.
SignIn(r, t) ==
  /\ req[r].at = "handler"
  /\ \E i \in Ids, elevated \in BOOLEAN :
       /\ session[i].st = "new"
       /\ session' = [session EXCEPT ![i] =
            [NoRow EXCEPT !.st = "row", !.token = 1, !.rotatedAt = now, !.lastSeen = now,
                          !.elevated = elevated,
                          !.expires = t + IF elevated THEN AdminAbsolute ELSE Absolute]]
       /\ req' = Done(r, [id |-> i, n |-> 1])
  /\ lost' = lost \cup Dropped(r)
  /\ UNCHANGED <<now, jar, floor>>

\* Mutated: the old token is kept for the grace period, as in a routine rotation.
PrivilegedMut(s, t) ==
  [s EXCEPT !.token = s.token + 1, !.prev = s.token, !.prevUntil = t + Grace,
            !.rotatedAt = t, !.lastSeen = t]
Privileged(s, t) ==
  [s EXCEPT !.token = s.token + 1, !.prev = 0, !.prevUntil = 0, !.rotatedAt = t, !.lastSeen = t]

ElevatedRow(s, t) == [s EXCEPT !.elevated = TRUE, !.expires = t + AdminAbsolute]

\* rotateSession, which throws when the row has been pruned
RotateSession(r, row, t) ==
  LET i == Mine(r) IN
  /\ IF session[i].st = "row"
     THEN /\ session[i].token < MaxTokens
          /\ session' = [session EXCEPT ![i] = Privileged(row, t)]
          /\ floor' = [floor EXCEPT ![i] = session[i].token + 1]
          /\ req' = Done(r, [id |-> i, n |-> session[i].token + 1])
     ELSE /\ req' = Done(r, req[r].reply)
          /\ UNCHANGED <<session, floor>>
  /\ UNCHANGED <<now, jar, lost>>

\* Step-up, and the confirmation of a TOTP enrolment.
StepUp(r, t) ==
  /\ req[r].at = "handler" /\ req[r].auth
  /\ RotateSession(r, ElevatedRow(session[Mine(r)], t), t)

\* Every other session is revoked, and then the surviving one rotated.
ChangePassword(r) ==
  /\ req[r].at = "handler" /\ req[r].auth
  /\ session' = Revoke(Ids \ {Mine(r)})
  /\ req' = [req EXCEPT ![r].at = "changed"]
  /\ UNCHANGED <<now, jar, floor, lost>>

PasswordChanged(r, t) ==
  /\ req[r].at = "changed"
  /\ RotateSession(r, session[Mine(r)], t)

Logout(r) ==
  /\ req[r].at = "handler"
  /\ session' = IF req[r].auth THEN Revoke({Mine(r)}) ELSE session
  /\ req' = Done(r, Clear)
  /\ lost' = lost \cup Dropped(r)
  /\ UNCHANGED <<now, jar, floor>>

LogoutEverywhere(r) ==
  /\ req[r].at = "handler" /\ req[r].auth
  /\ session' = Revoke(Ids \ {Mine(r)})
  /\ req' = Done(r, req[r].reply)
  /\ UNCHANGED <<now, jar, floor, lost>>

\* DELETE /account/sessions/:sessionId
RevokeOne(r, i) ==
  /\ req[r].at = "handler" /\ req[r].auth
  /\ session[i].st = "row"
  /\ session' = Revoke({i})
  /\ req' = Done(r, req[r].reply)
  /\ UNCHANGED <<now, jar, floor, lost>>

(***************************************************************************)
(* The reply on its way back, the scheduler, and time                      *)
(***************************************************************************)

Receive(r) ==
  /\ req[r].at = "reply"
  /\ jar' = [jar EXCEPT ![req[r].from] =
       CASE req[r].reply = None -> @ [] req[r].reply = Clear -> None [] OTHER -> req[r].reply]
  /\ req' = [req EXCEPT ![r] = Free]
  /\ UNCHANGED <<now, session, floor, lost>>

Lose(r) ==
  /\ req[r].at = "reply"
  /\ req' = [req EXCEPT ![r] = Free]
  /\ lost' = lost \cup Dropped(r)
  /\ UNCHANGED <<now, session, jar, floor>>

\* Another account's doing: permissions changed, account deleted, password reset.
RevokeAllSessions ==
  /\ \E i \in Ids : session[i].st = "row" /\ ~session[i].revoked
  /\ session' = Revoke(Ids)
  /\ UNCHANGED <<now, jar, req, floor, lost>>

\* pruneExpiredSessions: rows past their deadline, and some revoked before.
Prune ==
  LET expired == {i \in Ids : session[i].st = "row" /\ session[i].expires < now}
      revoked == {i \in Ids : session[i].st = "row" /\ session[i].revoked}
  IN \E old \in SUBSET revoked :
       /\ expired \cup old # {}
       /\ session' = [i \in Ids |-> IF i \in expired \cup old
                                    THEN [NoRow EXCEPT !.st = "gone"] ELSE session[i]]
       /\ UNCHANGED <<now, jar, req, floor, lost>>

\* A row that has been read is acted on within Slow.
Tick ==
  /\ now < Horizon
  /\ \A r \in Requests : req[r].at = "check" => now < req[r].asked + Slow
  /\ now' = now + 1
  /\ UNCHANGED <<session, jar, req, floor, lost>>

Step(r) ==
  \/ Lookup(r) \/ GraceLookup(r)
  \/ \E t \in Stamps(r) :
       \/ Rotate(r, t) \/ RotationLost(r, t) \/ Touch(r, t)
       \/ SignIn(r, t) \/ StepUp(r, t) \/ PasswordChanged(r, t)
  \/ Refuse(r) \/ Finish(r) \/ ChangePassword(r)
  \/ Logout(r) \/ LogoutEverywhere(r)
  \/ \E i \in Ids : RevokeOne(r, i)
  \/ Receive(r) \/ Lose(r)

Init ==
  /\ now = 0
  /\ session = [i \in Ids |-> NoRow]
  /\ jar = [b \in Browsers |-> None]
  /\ req = [r \in Requests |-> Free]
  /\ floor = [i \in Ids |-> 0]
  /\ lost = {}

Next ==
  \/ \E b \in Browsers, r \in Requests : Send(b, r)
  \/ \E r \in Requests : Step(r)
  \/ RevokeAllSessions \/ Prune \/ Tick

Spec == Init /\ [][Next]_vars

(***************************************************************************)
(* Properties                                                              *)
(***************************************************************************)

TypeOK ==
  /\ now \in Nat
  /\ session \in [Ids -> Row]
  /\ jar \in [Browsers -> Token \cup {None}]
  /\ req \in [Requests -> WellFormed]
  /\ floor \in [Ids -> Nat]
  /\ lost \subseteq Ids

\* After a privilege change no earlier token of the session is honoured again,
\* not even by way of a routine rotation that was under way at the time
\* (session.ts:229, "the old token must stop working at once").
OldTokensStayDead ==
  \A i \in Ids : session[i].st = "row" =>
    /\ session[i].token >= floor[i]
    /\ session[i].prev # 0 => session[i].prev >= floor[i]

\* Of the requests that find the rotation due, one rotates: two routine
\* rotations of a session are more than the rotation period apart (session.ts:169).
RotationsSpaced ==
  [][\A i \in Ids :
       (session[i].st = "row" /\ session'[i].token # session[i].token /\ session'[i].prev # 0)
         => now - session[i].rotatedAt > RotateAfter]_vars

Usable(i) == session[i].st = "row" /\ ~session[i].revoked

\* The browser holds the current token of its session, or a reply that brings
\* it is under way, whatever the order of the replies, unless a cookie was lost.
KeepsUp(i) ==
  \A b \in Browsers :
    (jar[b] # None /\ jar[b].id = i /\ Usable(i) /\ i \notin lost)
      => \/ jar[b].n = session[i].token
         \/ \E r \in Requests : /\ req[r].from = b
                                /\ req[r].reply = [id |-> i, n |-> session[i].token]

\* Routine rotations never sign a browser out (session.ts:83 and 169).
RotationKeepsBrowser == \A i \in Ids : floor[i] = 0 => KeepsUp(i)

\* A request sent with the current token is not turned away because a routine
\* rotation overtook it, for as long as the grace period less the time the
\* rotation's update took to land: the grace runs from the clock the rotation
\* read (session.ts:129 and 180), and the token works until the update does
\* (session.ts:111).
OvertakenRequestSurvives ==
  [][\A r \in Requests :
       (req[r].at = "grace" /\ req'[r].at = "handler" /\ req[r].fresh)
         => \/ now - req[r].sent >= Grace - Slow
            \/ ~Usable(Mine(r))
            \/ req[r].token.n < floor[Mine(r)]]_vars

\* The CSRF digest a request is held to is that of the token it presented, also
\* on a rotation boundary (session.ts:71-77).
CsrfFollowsToken == \A r \in Requests : req[r].at # "forbidden"

\* An elevated session never has more than the administrator's limit left
\* (session.ts:11, "both shorter for elevated admin sessions").
ElevationIsShort ==
  \A i \in Ids : session[i].elevated => session[i].expires <= now + AdminAbsolute

\* Claimed: the expiry is hard, "enforced regardless of activity"
\* (prisma/schema.prisma:172).  A step-up moves it.
HardExpiry ==
  [][\A i \in Ids : session[i].st = "row" => session'[i].expires <= session[i].expires]_vars
=============================================================================
