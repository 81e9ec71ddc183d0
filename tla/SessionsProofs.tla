--------------------------- MODULE SessionsProofs ---------------------------
(***************************************************************************)
(* What holds of Sessions for every set of rows, browsers and requests,    *)
(* and for every choice of the time-outs that SessionAssumption allows.    *)
(***************************************************************************)
EXTENDS Sessions, TLAPS

\* The row of a token is a row.
LEMMA MineIsRow ==
  ASSUME TypeOK, NEW r \in Requests, req[r].token # None
  PROVE  /\ Mine(r) \in Ids /\ req[r].token \in Token /\ session[Mine(r)] \in Row
  BY DEF TypeOK, WellFormed, Request, Mine, Token

\* A reply leaves the request free or on its way back.
LEMMA DoneWellFormed ==
  ASSUME TypeOK, NEW r \in Requests, req[r].at # "free",
         NEW c \in Token \cup {None, Clear}
  PROVE  Done(r, c) \in [Requests -> WellFormed]
  BY SessionAssumption DEF TypeOK, Done, Free, WellFormed, Request

\* An accepted request is in its handler, or rejected without its cookie.
LEMMA AcceptWellFormed ==
  ASSUME TypeOK, NEW r \in Requests, req[r].at = "check",
         NEW c \in Token \cup {None, Clear}
  PROVE  Accept(r, c) \in [Requests -> WellFormed]
<1> DEFINE ok == ExpectedCsrf(req[r].seen, req[r].via) = req[r].token.n
           new == [Free EXCEPT !.at = IF ok THEN "handler" ELSE "forbidden",
                               !.from = req[r].from, !.token = req[r].token, !.auth = ok,
                               !.reply = IF ok THEN c ELSE None]
<1>1. ok \in BOOLEAN
  OBVIOUS
<1> HIDE DEF ok
<1>2. new \in WellFormed
  BY <1>1, SessionAssumption DEF TypeOK, Free, WellFormed, Request
<1>3. Accept(r, c) = [req EXCEPT ![r] = new]
  BY DEF Accept, ok
<1> HIDE DEF new
<1> QED
  BY <1>2, <1>3 DEF TypeOK

\* Revoking keeps the table a table.
LEMMA RevokeRows ==
  ASSUME TypeOK, NEW rows
  PROVE  Revoke(rows) \in [Ids -> Row]
  BY DEF TypeOK, Revoke, Row

\* A cookie on a reply belongs to a row.
LEMMA DroppedRows ==
  ASSUME TypeOK, NEW r \in Requests
  PROVE  Dropped(r) \subseteq Ids
  BY DEF TypeOK, Dropped, WellFormed, Request, Token

\* What a lookup makes of a request.
LEMMA LookedUp ==
  ASSUME TypeOK, NEW q \in WellFormed, q.at \in {"lookup", "grace"}, NEW s \in Row
  PROVE  /\ [q EXCEPT !.at = "check", !.seen = s, !.asked = now,
                       !.sent = 0, !.fresh = FALSE] \in WellFormed
         /\ [q EXCEPT !.at = "check", !.seen = s, !.via = TRUE, !.asked = now,
                       !.sent = 0, !.fresh = FALSE] \in WellFormed
         /\ [q EXCEPT !.at = "grace"] \in WellFormed
         /\ [Free EXCEPT !.at = "handler", !.from = q.from] \in WellFormed
<1>1. now \in Nat
  BY DEF TypeOK
<1>2. s # None /\ q \in Request /\ q.token # None /\ q.from # None
  BY SessionAssumption DEF WellFormed
<1>3. [q EXCEPT !.at = "check", !.seen = s, !.asked = now,
                !.sent = 0, !.fresh = FALSE] \in WellFormed
  BY <1>1, <1>2 DEF WellFormed, Request
<1>4. [q EXCEPT !.at = "check", !.seen = s, !.via = TRUE, !.asked = now,
                !.sent = 0, !.fresh = FALSE] \in WellFormed
  BY <1>1, <1>2 DEF WellFormed, Request
<1>5. [q EXCEPT !.at = "grace"] \in WellFormed
  BY <1>2 DEF WellFormed, Request
<1>6. [Free EXCEPT !.at = "handler", !.from = q.from] \in WellFormed
  BY <1>2, SessionAssumption DEF Free, WellFormed, Request
<1> QED
  BY <1>3, <1>4, <1>5, <1>6

\* A row stays a row when its times and its tokens are written.
LEMMA WrittenRow ==
  ASSUME NEW row \in Row, NEW n \in Nat, NEW p \in Nat, NEW u \in Nat, NEW e \in Nat,
         NEW t \in Nat
  PROVE  /\ [row EXCEPT !.token = n, !.prev = p, !.prevUntil = u,
                         !.rotatedAt = t, !.lastSeen = t] \in Row
         /\ [row EXCEPT !.elevated = TRUE, !.expires = e] \in Row
         /\ [row EXCEPT !.lastSeen = t] \in Row
  BY DEF Row

\* The time-outs are natural numbers.
LEMMA TimeOuts ==
  {RotateAfter, Grace, Idle, AdminIdle, Absolute, AdminAbsolute, Slow} \subseteq Nat
  BY SessionAssumption

\* The clock of a request shows a time between its last read and now, and is
\* not much behind.
LEMMA StampIsTime ==
  ASSUME TypeOK, NEW r \in Requests, NEW t \in Stamps(r)
  PROVE  /\ t \in Nat /\ now \in Nat /\ req[r].asked \in Nat
         /\ req[r].asked <= t /\ t <= now /\ now <= t + Slow
         /\ t + Grace \in Nat /\ t + Absolute \in Nat
         /\ t + AdminAbsolute \in Nat /\ t + AdminAbsolute <= now + AdminAbsolute
<1>1. now \in Nat /\ req[r].asked \in Nat
  BY DEF TypeOK, WellFormed, Request
<1>2. t \in req[r].asked .. now /\ now - t <= Slow
  BY DEF Stamps
<1> QED
  BY <1>1, <1>2, TimeOuts

\* Rotating after a privilege change keeps the shape of every variable.
LEMMA RotateSessionType ==
  ASSUME TypeOK, NEW r \in Requests, req[r].auth, req[r].at # "free",
         NEW row \in Row, NEW t \in Nat, RotateSession(r, row, t)
  PROVE  TypeOK'
<1>1. req[r].token # None
  BY DEF TypeOK, WellFormed
<1>2. Mine(r) \in Ids /\ session[Mine(r)] \in Row
  BY <1>1, MineIsRow
<1>3. CASE session[Mine(r)].st = "row"
  <2>1. [id |-> Mine(r), n |-> session[Mine(r)].token + 1] \in Token
    BY <1>2 DEF Token, Row
  <2>2. req' \in [Requests -> WellFormed]
    BY <1>3, <2>1, DoneWellFormed DEF RotateSession
  <2>3. Privileged(row, t) \in Row
    <3>1. row.token + 1 \in Nat /\ 0 \in Nat
      BY DEF Row
    <3> QED
      BY <3>1, WrittenRow DEF Privileged
  <2>4. session' \in [Ids -> Row] /\ floor' \in [Ids -> Nat]
    BY <1>2, <1>3, <2>3 DEF RotateSession, TypeOK, Row
  <2> QED
    BY <2>2, <2>4 DEF RotateSession, TypeOK
<1>4. CASE session[Mine(r)].st # "row"
  <2>1. req' \in [Requests -> WellFormed]
    BY <1>4, DoneWellFormed DEF RotateSession, TypeOK, WellFormed, Request
  <2> QED
    BY <1>4, <2>1 DEF RotateSession, TypeOK
<1> QED
  BY <1>3, <1>4

\* Every operation of session.ts, and every handler that uses it, keeps the
\* shape of the rows, the cookies and the requests.
LEMMA StepKeepsType == TypeOK /\ [Next]_vars => TypeOK'
<1> SUFFICES ASSUME TypeOK, [Next]_vars PROVE TypeOK'
  OBVIOUS
<1>1. ASSUME NEW b \in Browsers, NEW r \in Requests, Send(b, r) PROVE TypeOK'
  <2>1. CASE jar[b] = None
    <3>1. [Free EXCEPT !.at = "handler", !.from = b] \in WellFormed
      BY SessionAssumption DEF Free, WellFormed, Request
    <3> QED
      BY <1>1, <2>1, <3>1 DEF Send, TypeOK
  <2>2. CASE jar[b] # None
    <3>1. jar[b] \in Token /\ jar[b].id \in Ids /\ session[jar[b].id].revoked \in BOOLEAN
      BY <2>2 DEF TypeOK, Token, Row
    <3>2. [Free EXCEPT !.at = "lookup", !.from = b, !.token = jar[b], !.sent = now,
                       !.fresh = (session[jar[b].id].token = jar[b].n)] \in WellFormed
      BY <3>1, SessionAssumption DEF TypeOK, Free, WellFormed, Request
    <3> QED
      BY <1>1, <2>2, <3>2 DEF Send, TypeOK
  <2> QED
    BY <2>1, <2>2
<1>2. ASSUME NEW r \in Requests, Lookup(r) PROVE TypeOK'
  <2>1. session[Mine(r)] \in Row
    BY <1>2, MineIsRow DEF Lookup, TypeOK, WellFormed
  <2>2. req' \in [Requests -> WellFormed]
    BY <1>2, <2>1, LookedUp DEF Lookup, TypeOK
  <2> QED
    BY <1>2, <2>2 DEF Lookup, TypeOK
<1>3. ASSUME NEW r \in Requests, GraceLookup(r) PROVE TypeOK'
  <2>1. session[Mine(r)] \in Row
    BY <1>3, MineIsRow DEF GraceLookup, TypeOK, WellFormed
  <2>2. PICK new \in WellFormed : req' = [req EXCEPT ![r] = new]
    BY <1>3, <2>1, LookedUp DEF GraceLookup, TypeOK
  <2>3. req' \in [Requests -> WellFormed]
    BY <2>2 DEF TypeOK
  <2> QED
    BY <1>3, <2>3 DEF GraceLookup, TypeOK
<1>4. ASSUME NEW r \in Requests, Refuse(r) PROVE TypeOK'
  <2>1. req' \in [Requests -> WellFormed]
    BY <1>4, SessionAssumption DEF Refuse, Free, TypeOK, WellFormed, Request
  <2> QED
    BY <1>4, <2>1, RevokeRows DEF Refuse, TypeOK
<1>5. ASSUME NEW r \in Requests, NEW t \in Stamps(r), Rotate(r, t) PROVE TypeOK'
  <2>1. /\ Mine(r) \in Ids /\ session[Mine(r)] \in Row
        /\ req[r].seen \in Row /\ req[r].at = "check"
    BY <1>5, MineIsRow DEF Rotate, TypeOK, WellFormed, Request
  <2>2. req' \in [Requests -> WellFormed]
    BY <1>5, <2>1, AcceptWellFormed DEF Rotate, Token, Row
  <2>3. session' \in [Ids -> Row]
    <3>1. /\ session[Mine(r)].token + 1 \in Nat /\ req[r].seen.token \in Nat
          /\ GraceUntil(t) \in Nat /\ t \in Nat
      BY <2>1, StampIsTime DEF TypeOK, Row, GraceUntil
    <3> DEFINE new == [session[Mine(r)] EXCEPT !.token = session[Mine(r)].token + 1,
                         !.prev = req[r].seen.token, !.prevUntil = GraceUntil(t),
                         !.rotatedAt = t, !.lastSeen = t]
    <3>2. new \in Row
      BY <2>1, <3>1, WrittenRow
    <3>3. session' = [session EXCEPT ![Mine(r)] = new]
      BY <1>5 DEF Rotate
    <3> HIDE DEF new
    <3> QED
      BY <2>1, <3>2, <3>3 DEF TypeOK
  <2> QED
    BY <1>5, <2>2, <2>3 DEF Rotate, TypeOK
<1>6. ASSUME NEW r \in Requests, NEW t \in Stamps(r), RotationLost(r, t) PROVE TypeOK'
  BY <1>6, AcceptWellFormed DEF RotationLost, LosersReply, TypeOK
<1>7. ASSUME NEW r \in Requests, NEW t \in Stamps(r), Touch(r, t) PROVE TypeOK'
  <2>1. Mine(r) \in Ids /\ session[Mine(r)] \in Row
    BY <1>7, MineIsRow DEF Touch, TypeOK, WellFormed
  <2>2. session' \in [Ids -> Row]
    BY <1>7, <2>1, StampIsTime DEF Touch, TypeOK, Row
  <2>3. Free \in WellFormed
    BY SessionAssumption DEF Free, WellFormed, Request
  <2>4. req' \in [Requests -> WellFormed]
    BY <1>7, <2>3, AcceptWellFormed DEF Touch, TypeOK
  <2> QED
    BY <1>7, <2>2, <2>4 DEF Touch, TypeOK
<1>8. ASSUME NEW r \in Requests, Finish(r) PROVE TypeOK'
  <2>1. req[r].reply \in Token \cup {None, Clear}
    BY DEF TypeOK, WellFormed, Request
  <2> QED
    BY <1>8, <2>1, DoneWellFormed DEF Finish, TypeOK
<1>9. ASSUME NEW r \in Requests, NEW t \in Stamps(r), SignIn(r, t) PROVE TypeOK'
  <2>1. PICK i \in Ids, elevated \in BOOLEAN :
          /\ session' = [session EXCEPT ![i] =
               [NoRow EXCEPT !.st = "row", !.token = 1, !.rotatedAt = now, !.lastSeen = now,
                             !.elevated = elevated,
                             !.expires = t + IF elevated THEN AdminAbsolute ELSE Absolute]]
          /\ req' = Done(r, [id |-> i, n |-> 1])
    BY <1>9 DEF SignIn
  <2>2. session' \in [Ids -> Row]
    <3>1. t + AdminAbsolute \in Nat /\ t + Absolute \in Nat /\ now \in Nat
      BY StampIsTime
    <3>2. [NoRow EXCEPT !.st = "row", !.token = 1, !.rotatedAt = now, !.lastSeen = now,
                        !.elevated = elevated,
                        !.expires = t + IF elevated THEN AdminAbsolute ELSE Absolute] \in Row
      BY <3>1 DEF NoRow, Row
    <3> QED
      BY <2>1, <3>2 DEF TypeOK
  <2>3. [id |-> i, n |-> 1] \in Token
    BY DEF Token
  <2>4. req' \in [Requests -> WellFormed]
    BY <1>9, <2>1, <2>3, DoneWellFormed DEF SignIn
  <2> QED
    BY <1>9, <2>2, <2>4, DroppedRows DEF SignIn, TypeOK
<1>10. ASSUME NEW r \in Requests, NEW t \in Stamps(r), StepUp(r, t) PROVE TypeOK'
  <2>1. req[r].token # None
    BY <1>10 DEF StepUp, TypeOK, WellFormed
  <2>2. ElevatedRow(session[Mine(r)], t) \in Row
    BY <2>1, StampIsTime, MineIsRow, WrittenRow DEF ElevatedRow
  <2> QED
    BY <1>10, <2>2, StampIsTime, RotateSessionType DEF StepUp
<1>11. ASSUME NEW r \in Requests, ChangePassword(r) PROVE TypeOK'
  <2>1. req' \in [Requests -> WellFormed]
    BY <1>11 DEF ChangePassword, TypeOK, WellFormed, Request
  <2> QED
    BY <1>11, <2>1, RevokeRows DEF ChangePassword, TypeOK
<1>12. ASSUME NEW r \in Requests, NEW t \in Stamps(r), PasswordChanged(r, t) PROVE TypeOK'
  <2>1. req[r].auth /\ session[Mine(r)] \in Row
    BY <1>12, MineIsRow DEF PasswordChanged, TypeOK, WellFormed
  <2> QED
    BY <1>12, <2>1, StampIsTime, RotateSessionType DEF PasswordChanged
<1>13. ASSUME NEW r \in Requests, Logout(r) PROVE TypeOK'
  BY <1>13, RevokeRows, DoneWellFormed, DroppedRows DEF Logout, TypeOK
<1>14. ASSUME NEW r \in Requests,
              LogoutEverywhere(r) \/ \E i \in Ids : RevokeOne(r, i) PROVE TypeOK'
  <2>1. req[r].reply \in Token \cup {None, Clear}
    BY DEF TypeOK, WellFormed, Request
  <2> QED
    BY <1>14, <2>1, RevokeRows, DoneWellFormed DEF LogoutEverywhere, RevokeOne, TypeOK
<1>15. ASSUME NEW r \in Requests, Receive(r) \/ Lose(r) PROVE TypeOK'
  <2>1. Free \in WellFormed
    BY SessionAssumption DEF Free, WellFormed, Request
  <2>2. req[r].reply \in Token \cup {None, Clear} /\ req[r].from \in Browsers
    BY <1>15 DEF Receive, Lose, TypeOK, WellFormed, Request
  <2> QED
    BY <1>15, <2>1, <2>2, DroppedRows DEF Receive, Lose, TypeOK
<1>16. CASE RevokeAllSessions
  BY <1>16, RevokeRows DEF RevokeAllSessions, TypeOK
<1>17. CASE Prune
  <2>1. [NoRow EXCEPT !.st = "gone"] \in Row
    BY DEF NoRow, Row
  <2> QED
    BY <1>17, <2>1 DEF Prune, TypeOK
<1>18. CASE Tick
  BY <1>18 DEF Tick, TypeOK
<1>19. CASE UNCHANGED vars
  BY <1>19 DEF vars, TypeOK
<1> QED
  BY <1>1, <1>2, <1>3, <1>4, <1>5, <1>6, <1>7, <1>8, <1>9, <1>10, <1>11, <1>12, <1>13,
     <1>14, <1>15, <1>16, <1>17, <1>18, <1>19
  DEF Next, Step

\* The rows, the cookies and the requests keep their shape.
THEOREM TypeCorrect == Spec => []TypeOK
<1>1. Init => TypeOK
  BY SessionAssumption DEF Init, TypeOK, NoRow, Row, Free, WellFormed, Request
<1> QED
  BY <1>1, StepKeepsType, PTL DEF Spec

(***************************************************************************)
(* The inductive invariant.  The conditional update of a rotation compares *)
(* rotatedAt, and the argument is that this stands for comparing the       *)
(* token.  Both the writer of rotatedAt and the request that finds it old  *)
(* may be behind by Slow; as long as the rotation period is twice that, a  *)
(* request that finds the rotation due has read its row so long after      *)
(* rotatedAt that any rotation since the read has written a later one.     *)
(***************************************************************************)

\* What a request between its read and its write knows of its row.
SnapshotOf(r) ==
  LET s == req[r].seen
      i == Mine(r)
  IN  /\ s.st = "row"
      /\ IF req[r].via THEN s.prev = req[r].token.n ELSE s.token = req[r].token.n
      /\ req[r].asked <= now /\ now <= req[r].asked + Slow
      /\ session[i].st # "new"
      /\ (s.rotatedAt + Slow < req[r].asked /\ session[i].st = "row"
            /\ session[i].rotatedAt = s.rotatedAt)
           => session[i].token = s.token

SnapshotsHold == \A r \in Requests : req[r].at = "check" => SnapshotOf(r)

Timely ==
  \A i \in Ids : /\ session[i].rotatedAt <= now
                 /\ session[i].st = "new" => floor[i] = 0

RowsHold == OldTokensStayDead /\ ElevationIsShort /\ Timely

IInv == TypeOK /\ RowsHold /\ SnapshotsHold /\ CsrfFollowsToken

\* The ways a step leaves a row.
SameRow(i) ==
  /\ session'[i].st = session[i].st /\ session'[i].token = session[i].token
  /\ session'[i].prev = session[i].prev /\ session'[i].rotatedAt = session[i].rotatedAt
  /\ session'[i].expires = session[i].expires /\ session'[i].elevated = session[i].elevated
RotatedRow(i) ==
  /\ session'[i].st = "row"
  /\ session'[i].rotatedAt \in Nat /\ session'[i].rotatedAt <= now
  /\ now <= session'[i].rotatedAt + Slow
GoneRow(i) == session'[i] = [NoRow EXCEPT !.st = "gone"]

\* A rotation since the read shows in rotatedAt.
LEMMA SnapshotsKept ==
  ASSUME IInv, now' = now,
         \A i \in Ids : SameRow(i) \/ RotatedRow(i) \/ GoneRow(i),
         \A r \in Requests : req'[r].at = "check" => req'[r] = req[r]
  PROVE  SnapshotsHold'
<1> SUFFICES ASSUME NEW r \in Requests, req'[r].at = "check" PROVE SnapshotOf(r)'
  BY DEF SnapshotsHold
<1>1. /\ req'[r] = req[r] /\ req[r].at = "check" /\ SnapshotOf(r)
      /\ req[r].token # None /\ req[r].seen \in Row /\ req[r].asked \in Nat
  BY DEF IInv, SnapshotsHold, TypeOK, WellFormed, Request
<1>2. Mine(r) \in Ids /\ session[Mine(r)] \in Row /\ Mine(r)' = Mine(r)
  BY <1>1, MineIsRow DEF IInv, Mine
<1>3. now \in Nat /\ Slow \in Nat
  BY TimeOuts DEF IInv, TypeOK
<1>4. CASE SameRow(Mine(r))
  BY <1>1, <1>2, <1>4 DEF SnapshotOf, SameRow
<1>5. CASE RotatedRow(Mine(r))
  BY <1>1, <1>2, <1>3, <1>5 DEF SnapshotOf, RotatedRow, Row
<1>6. CASE GoneRow(Mine(r))
  BY <1>1, <1>2, <1>6 DEF SnapshotOf, GoneRow, NoRow
<1> QED
  BY <1>2, <1>4, <1>5, <1>6

\* Steps that leave floor, and rows only unchanged or gone.
LEMMA RowsKept ==
  ASSUME IInv, UNCHANGED <<now, floor>>,
         \A i \in Ids : SameRow(i) \/ GoneRow(i)
  PROVE  RowsHold'
<1> SUFFICES ASSUME NEW i \in Ids
             PROVE  /\ session'[i].st = "row" =>
                         /\ session'[i].token >= floor[i]
                         /\ session'[i].prev # 0 => session'[i].prev >= floor[i]
                    /\ session'[i].elevated => session'[i].expires <= now + AdminAbsolute
                    /\ session'[i].rotatedAt <= now
                    /\ session'[i].st = "new" => floor[i] = 0
  BY DEF RowsHold, OldTokensStayDead, ElevationIsShort, Timely
<1>1. CASE SameRow(i)
  BY <1>1 DEF IInv, RowsHold, OldTokensStayDead, ElevationIsShort, Timely, SameRow
<1>2. CASE GoneRow(i)
  BY <1>2 DEF GoneRow, NoRow, IInv, TypeOK
<1> QED
  BY <1>1, <1>2

\* Revocation touches nothing but the mark.
LEMMA RevokedRows ==
  ASSUME TypeOK, NEW rows, session' = Revoke(rows), NEW i \in Ids
  PROVE  SameRow(i)
  BY DEF TypeOK, Revoke, SameRow, Row

\* An accepted request is held to the token it presented, and moves on.
LEMMA AcceptedRequest ==
  ASSUME IInv, NEW r \in Requests, req[r].at = "check", NEW c, req' = Accept(r, c)
  PROVE  /\ req'[r].at = "handler" /\ req'[r].auth
         /\ \A q \in Requests \ {r} : req'[q] = req[q]
<1>1. SnapshotOf(r)
  BY DEF IInv, SnapshotsHold
<1>2. ExpectedCsrf(req[r].seen, req[r].via) = req[r].token.n
  BY <1>1 DEF SnapshotOf, ExpectedCsrf
<1>3. req \in [Requests -> WellFormed]
  BY DEF IInv, TypeOK
<1>4. req' = [req EXCEPT ![r] = [Free EXCEPT !.at = "handler", !.from = req[r].from,
                                   !.token = req[r].token, !.auth = TRUE, !.reply = c]]
  BY <1>2 DEF Accept
<1> QED
  BY <1>3, <1>4 DEF Free

\* A request that is answered is neither being looked up nor rejected.
LEMMA AnsweredRequest ==
  ASSUME TypeOK, NEW r \in Requests, NEW c, req' = Done(r, c)
  PROVE  /\ req'[r].at \in {"free", "reply"}
         /\ \A q \in Requests \ {r} : req'[q] = req[q]
  BY DEF TypeOK, Done, Free

\* rotateSession: the new token is the floor, and the time of the change is new.
LEMMA RotateSessionKeeps ==
  ASSUME IInv, NEW r \in Requests, req[r].auth, NEW row \in Row,
         row.st = session[Mine(r)].st, row.token = session[Mine(r)].token,
         row.elevated => row.expires <= now + AdminAbsolute,
         NEW t \in Stamps(r), RotateSession(r, row, t)
  PROVE  RowsHold' /\ SnapshotsHold' /\ CsrfFollowsToken'
<1> USE DEF IInv
<1>1. req[r].token # None
  BY DEF TypeOK, WellFormed
<1>2. Mine(r) \in Ids /\ session[Mine(r)] \in Row
  BY <1>1, MineIsRow
<1>3. PICK c : req' = Done(r, c)
  BY DEF RotateSession
<1>4. /\ req'[r].at \in {"free", "reply"}
      /\ \A q \in Requests \ {r} : req'[q] = req[q]
  BY <1>3, AnsweredRequest
<1>5. CsrfFollowsToken'
  BY <1>4 DEF CsrfFollowsToken
<1>6. now' = now
  BY DEF RotateSession
<1>7. CASE session[Mine(r)].st = "row"
  <2>1. /\ session' = [session EXCEPT ![Mine(r)] = Privileged(row, t)]
        /\ floor' = [floor EXCEPT ![Mine(r)] = session[Mine(r)].token + 1]
    BY <1>7 DEF RotateSession
  <2>2. /\ Privileged(row, t).st = "row" /\ Privileged(row, t).token = row.token + 1
        /\ Privileged(row, t).prev = 0 /\ Privileged(row, t).rotatedAt = t
        /\ Privileged(row, t).elevated = row.elevated /\ Privileged(row, t).expires = row.expires
    BY <1>7 DEF Privileged, Row
  <2>3. \A i \in Ids \ {Mine(r)} : session'[i] = session[i] /\ floor'[i] = floor[i]
    BY <2>1 DEF TypeOK
  <2>4. session'[Mine(r)] = Privileged(row, t) /\ floor'[Mine(r)] = session[Mine(r)].token + 1
    BY <1>2, <2>1 DEF TypeOK
  <2>5. \A i \in Ids : SameRow(i) \/ RotatedRow(i) \/ GoneRow(i)
    BY <2>2, <2>3, <2>4, StampIsTime DEF SameRow, RotatedRow
  <2>6. SnapshotsHold'
    BY <1>4, <1>6, <2>5, SnapshotsKept
  <2>7. RowsHold'
    BY <1>2, <1>6, <2>2, <2>3, <2>4, StampIsTime
    DEF RowsHold, OldTokensStayDead, ElevationIsShort, Timely, TypeOK, Row
  <2> QED
    BY <1>5, <2>6, <2>7
<1>8. CASE session[Mine(r)].st # "row"
  <2>1. UNCHANGED <<session, floor>>
    BY <1>8 DEF RotateSession
  <2>2. \A i \in Ids : SameRow(i)
    BY <2>1 DEF SameRow
  <2> QED
    BY <1>4, <1>5, <1>6, <2>1, <2>2, SnapshotsKept, RowsKept
<1> QED
  BY <1>7, <1>8

\* Every step of the code keeps the invariant.
THEOREM InvariantKept == IInv /\ [Next]_vars => IInv'
<1> SUFFICES ASSUME IInv, [Next]_vars PROVE RowsHold' /\ SnapshotsHold' /\ CsrfFollowsToken'
  BY StepKeepsType DEF IInv
<1> USE DEF IInv
<1>1. ASSUME UNCHANGED <<now, session, floor>>,
             \A r \in Requests : req'[r].at \in {"check", "forbidden"} => req'[r] = req[r]
      PROVE  RowsHold' /\ SnapshotsHold' /\ CsrfFollowsToken'
  <2>1. \A i \in Ids : SameRow(i)
    BY <1>1 DEF SameRow
  <2>2. CsrfFollowsToken'
    BY <1>1 DEF CsrfFollowsToken
  <2> QED
    BY <1>1, <2>1, <2>2, SnapshotsKept, RowsKept
<1>2. ASSUME NEW rows, session' = Revoke(rows), UNCHANGED <<now, floor>>,
             \A r \in Requests : req'[r].at \in {"check", "forbidden"} => req'[r] = req[r]
      PROVE  RowsHold' /\ SnapshotsHold' /\ CsrfFollowsToken'
  <2>1. \A i \in Ids : SameRow(i)
    BY <1>2, RevokedRows
  <2>2. CsrfFollowsToken'
    BY <1>2 DEF CsrfFollowsToken
  <2> QED
    BY <1>2, <2>1, <2>2, SnapshotsKept, RowsKept
<1>3. ASSUME NEW b \in Browsers, NEW r \in Requests, Send(b, r)
      PROVE  RowsHold' /\ SnapshotsHold' /\ CsrfFollowsToken'
  BY <1>1, <1>3 DEF Send, Free, TypeOK
<1>4. ASSUME NEW r \in Requests, Lookup(r) \/ GraceLookup(r)
      PROVE  RowsHold' /\ SnapshotsHold' /\ CsrfFollowsToken'
  <2>1. /\ Mine(r) \in Ids /\ session[Mine(r)] \in Row
        /\ req[r].token \in Token /\ req[r].seen \in Row \cup {None}
    BY <1>4, MineIsRow DEF Lookup, GraceLookup, TypeOK, WellFormed, Request
  <2>2. \A i \in Ids : SameRow(i)
    BY <1>4 DEF Lookup, GraceLookup, SameRow
  <2>3. RowsHold'
    BY <1>4, <2>2, RowsKept DEF Lookup, GraceLookup
  <2>4. /\ \A q \in Requests \ {r} : req'[q] = req[q]
        /\ req'[r].at # "forbidden"
    <3>1. CASE Lookup(r)
      BY <3>1 DEF Lookup, TypeOK, WellFormed, Request
    <3>2. CASE GraceLookup(r)
      BY <3>2 DEF GraceLookup, Free, TypeOK, WellFormed, Request
    <3> QED
      BY <1>4, <3>1, <3>2
  <2>5. CsrfFollowsToken'
    BY <2>4 DEF CsrfFollowsToken
  <2>6. ASSUME NEW q \in Requests \ {r}, req'[q].at = "check" PROVE SnapshotOf(q)'
    BY <1>4, <2>4, <2>6 DEF Lookup, GraceLookup, SnapshotsHold, SnapshotOf, Mine
  <2>7. ASSUME req'[r].at = "check" PROVE SnapshotOf(r)'
    <3>1. now \in Nat /\ now <= now + Slow
      BY TimeOuts DEF TypeOK
    <3>2. CASE Lookup(r)
      <4>1. /\ req' = [req EXCEPT ![r] = [@ EXCEPT !.at = "check", !.seen = session[Mine(r)],
                                            !.asked = now, !.sent = 0, !.fresh = FALSE]]
            /\ session[Mine(r)].st = "row" /\ session[Mine(r)].token = req[r].token.n
        BY <2>7, <3>2 DEF Lookup, TypeOK, WellFormed, Request
      <4>2. /\ req'[r].seen = session[Mine(r)] /\ req'[r].asked = now
            /\ req'[r].via = req[r].via /\ req'[r].token = req[r].token
        BY <4>1 DEF TypeOK, WellFormed, Request
      <4>3. ~req[r].via
        BY <3>2 DEF Lookup, TypeOK, WellFormed
      <4> QED
        BY <3>1, <3>2, <4>1, <4>2, <4>3 DEF Lookup, SnapshotOf, Mine
    <3>3. CASE GraceLookup(r)
      <4>1. /\ req' = [req EXCEPT ![r] = [@ EXCEPT !.at = "check", !.seen = session[Mine(r)],
                                            !.via = TRUE, !.asked = now, !.sent = 0,
                                            !.fresh = FALSE]]
            /\ session[Mine(r)].st = "row" /\ session[Mine(r)].prev = req[r].token.n
        BY <2>7, <3>3 DEF GraceLookup, ByGrace, Free, TypeOK, WellFormed, Request
      <4>2. /\ req'[r].seen = session[Mine(r)] /\ req'[r].asked = now
            /\ req'[r].via /\ req'[r].token = req[r].token
        BY <4>1 DEF TypeOK, WellFormed, Request
      <4> QED
        BY <3>1, <3>3, <4>1, <4>2 DEF GraceLookup, SnapshotOf, Mine
    <3> QED
      BY <1>4, <3>2, <3>3
  <2> QED
    BY <2>3, <2>5, <2>6, <2>7 DEF SnapshotsHold
<1>5. ASSUME NEW r \in Requests, Refuse(r)
      PROVE  RowsHold' /\ SnapshotsHold' /\ CsrfFollowsToken'
  <2>1. \A q \in Requests : req'[q].at \in {"check", "forbidden"} => req'[q] = req[q]
    BY <1>5 DEF Refuse, Free, TypeOK
  <2> QED
    BY <1>1, <1>2, <1>5, <2>1 DEF Refuse
<1>6. ASSUME NEW r \in Requests, NEW t \in Stamps(r), Rotate(r, t)
      PROVE  RowsHold' /\ SnapshotsHold' /\ CsrfFollowsToken'
  <2> DEFINE i == Mine(r)
             s == req[r].seen
  <2>1. /\ i \in Ids /\ session[i] \in Row /\ s \in Row
        /\ req[r].asked \in Nat /\ now \in Nat
    BY <1>6, MineIsRow DEF Rotate, TypeOK, WellFormed, Request
  <2>2. SnapshotOf(r)
    BY <1>6 DEF Rotate, SnapshotsHold
  <2>3. s.token = session[i].token
    <3>1. s.rotatedAt + Slow < req[r].asked
      BY <1>6, <2>1, <2>2, StampIsTime, SessionAssumption DEF Rotate, RotationDue, SnapshotOf, Row
    <3> QED
      BY <1>6, <2>2, <3>1 DEF Rotate, Claims, SnapshotOf
  <2>4. /\ session'[i].st = "row" /\ session'[i].token = session[i].token + 1
        /\ session'[i].prev = session[i].token /\ session'[i].rotatedAt = t
        /\ session'[i].expires = session[i].expires
        /\ session'[i].elevated = session[i].elevated
    BY <1>6, <2>1, <2>3 DEF Rotate, Claims, TypeOK, Row
  <2>5. \A j \in Ids \ {i} : session'[j] = session[j]
    BY <1>6 DEF Rotate, TypeOK
  <2>6. session[i].st = "row" /\ UNCHANGED <<now, floor>>
    BY <1>6 DEF Rotate, Claims
  <2>7. \A j \in Ids : SameRow(j) \/ RotatedRow(j) \/ GoneRow(j)
    BY <2>4, <2>5, StampIsTime DEF SameRow, RotatedRow
  <2>8. /\ req'[r].at = "handler"
        /\ \A q \in Requests \ {r} : req'[q] = req[q]
    BY <1>6, AcceptedRequest DEF Rotate
  <2>9. SnapshotsHold' /\ CsrfFollowsToken'
    BY <2>6, <2>7, <2>8, SnapshotsKept DEF CsrfFollowsToken
  <2>10. RowsHold'
    BY <2>1, <2>4, <2>5, <2>6, StampIsTime
    DEF RowsHold, OldTokensStayDead, ElevationIsShort, Timely, TypeOK, Row
  <2> QED
    BY <2>9, <2>10
<1>7. ASSUME NEW r \in Requests, NEW t \in Stamps(r), RotationLost(r, t)
      PROVE  RowsHold' /\ SnapshotsHold' /\ CsrfFollowsToken'
  <2>1. /\ req'[r].at = "handler"
        /\ \A q \in Requests \ {r} : req'[q] = req[q]
    BY <1>7, AcceptedRequest DEF RotationLost
  <2> QED
    BY <1>1, <1>7, <2>1 DEF RotationLost
<1>8. ASSUME NEW r \in Requests, NEW t \in Stamps(r), Touch(r, t)
      PROVE  RowsHold' /\ SnapshotsHold' /\ CsrfFollowsToken'
  <2>1. Mine(r) \in Ids /\ session[Mine(r)] \in Row
    BY <1>8, MineIsRow DEF Touch, TypeOK, WellFormed
  <2>2. \A j \in Ids : SameRow(j)
    BY <1>8, <2>1 DEF Touch, SameRow, TypeOK, Row
  <2>3. \A q \in Requests : req'[q].at \in {"check", "forbidden"} => req'[q] = req[q]
    BY <1>8, AcceptedRequest DEF Touch, Free, TypeOK
  <2> QED
    BY <1>8, <2>2, <2>3, SnapshotsKept, RowsKept DEF Touch, CsrfFollowsToken
<1>9. ASSUME NEW r \in Requests, NEW t \in Stamps(r), SignIn(r, t)
      PROVE  RowsHold' /\ SnapshotsHold' /\ CsrfFollowsToken'
  <2>1. PICK i \in Ids, elevated \in BOOLEAN :
          /\ session[i].st = "new"
          /\ session' = [session EXCEPT ![i] =
               [NoRow EXCEPT !.st = "row", !.token = 1, !.rotatedAt = now, !.lastSeen = now,
                             !.elevated = elevated,
                             !.expires = t + IF elevated THEN AdminAbsolute ELSE Absolute]]
          /\ req' = Done(r, [id |-> i, n |-> 1])
          /\ UNCHANGED <<now, floor>>
    BY <1>9 DEF SignIn
  <2>2. /\ session'[i].st = "row" /\ session'[i].token = 1 /\ session'[i].prev = 0
        /\ session'[i].rotatedAt = now /\ session'[i].elevated = elevated
        /\ elevated => session'[i].expires = t + AdminAbsolute
    BY <2>1 DEF NoRow, TypeOK
  <2>3. \A j \in Ids \ {i} : session'[j] = session[j]
    BY <2>1 DEF TypeOK
  <2>4. \A j \in Ids : SameRow(j) \/ RotatedRow(j) \/ GoneRow(j)
    BY <2>2, <2>3, StampIsTime, TimeOuts DEF SameRow, RotatedRow
  <2>5. SnapshotsHold' /\ CsrfFollowsToken'
    BY <2>1, <2>4, AnsweredRequest, SnapshotsKept DEF CsrfFollowsToken
  <2>6. now \in Nat /\ t + AdminAbsolute \in Nat /\ t + AdminAbsolute <= now + AdminAbsolute
    BY StampIsTime
  <2>7. RowsHold'
    BY <2>1, <2>2, <2>3, <2>6
    DEF RowsHold, OldTokensStayDead, ElevationIsShort, Timely
  <2> QED
    BY <2>5, <2>7
<1>10. ASSUME NEW r \in Requests, NEW t \in Stamps(r), StepUp(r, t)
       PROVE  RowsHold' /\ SnapshotsHold' /\ CsrfFollowsToken'
  <2>1. /\ Mine(r) \in Ids /\ session[Mine(r)] \in Row /\ t \in Nat
        /\ t + AdminAbsolute \in Nat /\ t + AdminAbsolute <= now + AdminAbsolute
    BY <1>10, MineIsRow, StampIsTime DEF StepUp, TypeOK, WellFormed
  <2>2. ElevatedRow(session[Mine(r)], t) \in Row
    BY <2>1, WrittenRow DEF ElevatedRow
  <2>3. /\ ElevatedRow(session[Mine(r)], t).st = session[Mine(r)].st
        /\ ElevatedRow(session[Mine(r)], t).token = session[Mine(r)].token
        /\ ElevatedRow(session[Mine(r)], t).expires = t + AdminAbsolute
    BY <2>1 DEF ElevatedRow, Row
  <2> QED
    BY <1>10, <2>1, <2>2, <2>3, RotateSessionKeeps DEF StepUp
<1>11. ASSUME NEW r \in Requests, ChangePassword(r)
       PROVE  RowsHold' /\ SnapshotsHold' /\ CsrfFollowsToken'
  <2>1. \A q \in Requests : req'[q].at \in {"check", "forbidden"} => req'[q] = req[q]
    BY <1>11 DEF ChangePassword, TypeOK, WellFormed, Request
  <2> QED
    BY <1>2, <1>11, <2>1 DEF ChangePassword
<1>12. ASSUME NEW r \in Requests, NEW t \in Stamps(r), PasswordChanged(r, t)
       PROVE  RowsHold' /\ SnapshotsHold' /\ CsrfFollowsToken'
  <2>1. req[r].auth /\ Mine(r) \in Ids /\ session[Mine(r)] \in Row
    BY <1>12, MineIsRow DEF PasswordChanged, TypeOK, WellFormed
  <2>2. session[Mine(r)].elevated => session[Mine(r)].expires <= now + AdminAbsolute
    BY <2>1 DEF RowsHold, ElevationIsShort
  <2> QED
    BY <1>12, <2>1, <2>2, RotateSessionKeeps DEF PasswordChanged
<1>13. ASSUME NEW r \in Requests,
              Finish(r) \/ Logout(r) \/ LogoutEverywhere(r) \/ \E i \in Ids : RevokeOne(r, i)
       PROVE  RowsHold' /\ SnapshotsHold' /\ CsrfFollowsToken'
  <2>1. \E c : req' = Done(r, c)
    BY <1>13 DEF Finish, Logout, LogoutEverywhere, RevokeOne
  <2>2. \A q \in Requests : req'[q].at \in {"check", "forbidden"} => req'[q] = req[q]
    BY <2>1, AnsweredRequest
  <2>3. (session' = session \/ \E rows : session' = Revoke(rows)) /\ UNCHANGED <<now, floor>>
    BY <1>13 DEF Finish, Logout, LogoutEverywhere, RevokeOne
  <2> QED
    BY <1>1, <1>2, <2>2, <2>3
<1>14. ASSUME NEW r \in Requests, Receive(r) \/ Lose(r)
       PROVE  RowsHold' /\ SnapshotsHold' /\ CsrfFollowsToken'
  <2>1. \A q \in Requests : req'[q].at \in {"check", "forbidden"} => req'[q] = req[q]
    BY <1>14 DEF Receive, Lose, Free, TypeOK
  <2> QED
    BY <1>1, <1>14, <2>1 DEF Receive, Lose
<1>15. CASE RevokeAllSessions
  BY <1>2, <1>15 DEF RevokeAllSessions
<1>16. CASE Prune
  <2>1. \A i \in Ids : SameRow(i) \/ GoneRow(i)
    BY <1>16 DEF Prune, SameRow, GoneRow, TypeOK
  <2> QED
    BY <1>16, <2>1, SnapshotsKept, RowsKept DEF Prune, CsrfFollowsToken
<1>17. CASE Tick
  <2>1. now \in Nat /\ now' = now + 1 /\ Slow \in Nat /\ AdminAbsolute \in Nat
    BY <1>17, TimeOuts DEF Tick, TypeOK
  <2>2. UNCHANGED <<session, req, floor>>
    BY <1>17 DEF Tick
  <2>3. RowsHold'
    BY <2>1, <2>2 DEF RowsHold, OldTokensStayDead, ElevationIsShort, Timely, TypeOK, Row
  <2>4. ASSUME NEW r \in Requests, req'[r].at = "check" PROVE SnapshotOf(r)'
    <3>1. SnapshotOf(r) /\ now < req[r].asked + Slow /\ req[r].asked \in Nat
      BY <1>17, <2>2, <2>4 DEF Tick, SnapshotsHold, TypeOK, WellFormed, Request
    <3> QED
      BY <2>1, <2>2, <3>1 DEF SnapshotOf, Mine
  <2> QED
    BY <2>2, <2>3, <2>4 DEF SnapshotsHold, CsrfFollowsToken
<1>18. CASE UNCHANGED vars
  BY <1>1, <1>18 DEF vars
<1> QED
  BY <1>3, <1>4, <1>5, <1>6, <1>7, <1>8, <1>9, <1>10, <1>11, <1>12, <1>13, <1>14, <1>15,
     <1>16, <1>17, <1>18
  DEF Next, Step

\* The first state has the invariant.
LEMMA InvariantAtStart == Init => IInv
<1> SUFFICES ASSUME Init PROVE IInv
  OBVIOUS
<1>1. TypeOK
  BY SessionAssumption DEF Init, TypeOK, NoRow, Row, Free, WellFormed, Request
<1>2. SnapshotsHold /\ CsrfFollowsToken
  BY DEF Init, Free, SnapshotsHold, CsrfFollowsToken
<1>3. RowsHold
  BY DEF Init, NoRow, RowsHold, OldTokensStayDead, ElevationIsShort, Timely
<1> QED
  BY <1>1, <1>2, <1>3 DEF IInv

\* Every reachable state has the invariant.
THEOREM InvariantHolds == Spec => []IInv
  BY InvariantAtStart, InvariantKept, PTL DEF Spec

\* A privilege change ends every earlier token of its session for good, also
\* with a routine rotation under way: the comparison of rotatedAt suffices.
THEOREM OldTokensStayDeadAlways == Spec => []OldTokensStayDead
<1>1. IInv => OldTokensStayDead
  BY DEF IInv, RowsHold
<1> QED
  BY <1>1, InvariantHolds, PTL

\* An elevated session never has more than the administrator's limit left.
THEOREM ElevationIsShortAlways == Spec => []ElevationIsShort
<1>1. IInv => ElevationIsShort
  BY DEF IInv, RowsHold
<1> QED
  BY <1>1, InvariantHolds, PTL

\* The CSRF token a request came with is the one it is held to.
THEOREM CsrfFollowsTokenAlways == Spec => []CsrfFollowsToken
<1>1. IInv => CsrfFollowsToken
  BY DEF IInv
<1> QED
  BY <1>1, InvariantHolds, PTL

(***************************************************************************)
(* Routine rotations and the browser                                       *)
(***************************************************************************)

HasCookie(b, i) == jar[b] # None /\ jar[b].id = i
HoldsToken(r, i) == req[r].token # None /\ req[r].token.id = i
Brings(r, i) == req[r].reply \notin {None, Clear} /\ req[r].reply.id = i

\* Rows whose tokens have only been rotated as a matter of routine.
Quiet(i) == Usable(i) /\ i \notin lost /\ floor[i] = 0

\* At most one reply brings a token of the row, the current one, which nobody has
\* used yet; one browser holds, sends and receives the tokens of the row.
CookiesOf(i) ==
  /\ \A b \in Browsers : HasCookie(b, i) => jar[b].n <= session[i].token
  /\ \A r \in Requests : HoldsToken(r, i) => req[r].token.n <= session[i].token
  /\ \A r \in Requests : Brings(r, i) =>
       /\ req[r].reply.n = session[i].token
       /\ \A q \in Requests : Brings(q, i) => q = r
       /\ \A b \in Browsers : HasCookie(b, i) => jar[b].n < session[i].token
       /\ \A q \in Requests : HoldsToken(q, i) => req[q].token.n < session[i].token
  /\ \E h \in Browsers :
       /\ \A b \in Browsers : HasCookie(b, i) => b = h
       /\ \A r \in Requests : HoldsToken(r, i) \/ Brings(r, i) => req[r].from = h
  /\ \A b \in Browsers :
       HasCookie(b, i) => jar[b].n = session[i].token \/ \E r \in Requests : Brings(r, i)

\* Nobody has heard of a row that does not exist yet.
Unheard(i) ==
  /\ \A b \in Browsers : ~HasCookie(b, i)
  /\ \A r \in Requests : ~HoldsToken(r, i) /\ ~Brings(r, i)

RowCookies(i) ==
  /\ session[i].st = "new" => Unheard(i)
  /\ Quiet(i) => CookiesOf(i)

\* The cookie a handler has on its reply is one of its own session.
OwnCookies ==
  \A r \in Requests :
    (req[r].at \in {"handler", "changed"} /\ req[r].reply \notin {None, Clear})
      => req[r].token # None /\ req[r].reply.id = req[r].token.id

CInv == IInv /\ OwnCookies /\ \A i \in Ids : RowCookies(i)

\* A request goes on with what it has, or gives some of it up.
Passes(r, i) ==
  /\ HoldsToken(r, i)' => HoldsToken(r, i) /\ req'[r].token = req[r].token
                          /\ req'[r].from = req[r].from
  /\ Brings(r, i)' => Brings(r, i) /\ req'[r].reply = req[r].reply
                      /\ req'[r].from = req[r].from

\* Steps that mint no token and deliver none.
LEMMA CookiesKept ==
  ASSUME CInv, UNCHANGED jar, NEW i \in Ids,
         session'[i].st = "new" => session[i].st = "new",
         Quiet(i)' => Quiet(i) /\ session'[i].token = session[i].token
                      /\ \A r \in Requests : Brings(r, i) => Brings(r, i)',
         \A r \in Requests : Passes(r, i)
  PROVE  RowCookies(i)'
<1>1. ASSUME session'[i].st = "new" PROVE Unheard(i)'
  BY <1>1 DEF CInv, RowCookies, Unheard, HasCookie, Passes
<1>2. ASSUME Quiet(i)' PROVE CookiesOf(i)'
  <2>1. /\ CookiesOf(i) /\ session'[i].token = session[i].token
        /\ \A r \in Requests : Brings(r, i) => Brings(r, i)'
    BY <1>2 DEF CInv, RowCookies
  <2>2. \A b \in Browsers : HasCookie(b, i)' <=> HasCookie(b, i)
    BY DEF HasCookie
  <2>3. \A r \in Requests :
          /\ HoldsToken(r, i)' => HoldsToken(r, i) /\ req'[r].token = req[r].token
                                  /\ req'[r].from = req[r].from
          /\ Brings(r, i)' => Brings(r, i) /\ req'[r].reply = req[r].reply
                              /\ req'[r].from = req[r].from
    BY DEF Passes
  <2> HIDE DEF HasCookie, HoldsToken, Brings
  <2> QED
    BY <2>1, <2>2, <2>3 DEF CookiesOf
<1> QED
  BY <1>1, <1>2 DEF RowCookies

\* What an answer leaves of a request.
LEMMA DonePasses ==
  ASSUME CInv, NEW r \in Requests, NEW c, req' = Done(r, c), NEW i \in Ids,
         c \in {None, Clear} \/ c = req[r].reply
  PROVE  /\ \A q \in Requests : Passes(q, i)
         /\ \A q \in Requests \ {r} : Brings(q, i) => Brings(q, i)'
         /\ c = req[r].reply => (Brings(r, i) => Brings(r, i)')
<1>1. req \in [Requests -> WellFormed]
  BY DEF CInv, IInv, TypeOK
<1>2. \A q \in Requests \ {r} : req'[q] = req[q]
  BY <1>1 DEF Done
<1>3. /\ req'[r].token = None /\ req'[r].reply = c
      /\ c \notin {None, Clear} => req'[r].from = req[r].from
  BY <1>1, SessionAssumption DEF Done, Free
<1> QED
  BY <1>2, <1>3 DEF Passes, HoldsToken, Brings

\* Where requests are looked up, and steps that only touch the rows.
LEMMA LookupCookies ==
  ASSUME CInv, NEW r \in Requests, NEW i \in Ids,
         NEW t, Lookup(r) \/ GraceLookup(r) \/ Refuse(r) \/ RotationLost(r, t) \/ Touch(r, t)
  PROVE  RowCookies(i)'
<1>1. /\ req \in [Requests -> WellFormed] /\ session \in [Ids -> Row]
      /\ req[r].at \in {"lookup", "grace", "check"} /\ req[r].reply = None
      /\ Mine(r) \in Ids
  <2>1. req[r].at \in {"lookup", "grace", "check"}
    BY DEF Lookup, GraceLookup, Refuse, RotationLost, Touch
  <2> QED
    BY <2>1, MineIsRow DEF CInv, IInv, TypeOK, WellFormed
<1>2. \A q \in Requests \ {r} : req'[q] = req[q]
  BY <1>1 DEF Lookup, GraceLookup, Refuse, RotationLost, Touch, Accept
<1>3. /\ req'[r].token \in {None, req[r].token} /\ req'[r].reply \in {None, Clear}
      /\ req'[r].token # None => req'[r].from = req[r].from
  <2>1. CASE Lookup(r)
    BY <1>1, <2>1 DEF Lookup, WellFormed, Request
  <2>5. CASE GraceLookup(r)
    BY <1>1, <2>5 DEF GraceLookup, Free, WellFormed, Request
  <2>2. CASE Refuse(r)
    BY <1>1, <2>2 DEF Refuse, Free
  <2>3. ASSUME req' = Accept(r, None)
        PROVE  /\ req'[r].token \in {None, req[r].token} /\ req'[r].reply \in {None, Clear}
               /\ req'[r].from = req[r].from
    BY <1>1, <2>3 DEF Accept, Free
  <2>4. CASE Touch(r, t) \/ RotationLost(r, t)
    BY <1>1, <2>3, <2>4 DEF Touch, RotationLost, LosersReply, Free
  <2> QED
    BY <2>1, <2>2, <2>4, <2>5
<1>4. \A q \in Requests : Passes(q, i) /\ (Brings(q, i) => Brings(q, i)')
  BY <1>1, <1>2, <1>3 DEF Passes, HoldsToken, Brings
<1>5. /\ session'[i].st = session[i].st /\ session'[i].token = session[i].token
      /\ session'[i].revoked \/ session'[i].revoked = session[i].revoked
      /\ UNCHANGED <<jar, floor, lost>>
  BY <1>1 DEF Lookup, GraceLookup, Refuse, RotationLost, Touch, Revoke, Row
<1>6. session[i].revoked \in BOOLEAN
  BY <1>1 DEF Row
<1> QED
  BY <1>4, <1>5, <1>6, CookiesKept DEF Quiet, Usable

\* Handlers that mint no token.
LEMMA HandlerCookies ==
  ASSUME CInv, NEW r \in Requests, NEW i \in Ids,
         \/ Finish(r) \/ ChangePassword(r) \/ Logout(r) \/ LogoutEverywhere(r)
         \/ \E j \in Ids : RevokeOne(r, j)
         \/ Lose(r)
  PROVE  RowCookies(i)'
<1>1. req \in [Requests -> WellFormed] /\ session \in [Ids -> Row]
  BY DEF CInv, IInv, TypeOK
<1>2. \A rows : /\ Revoke(rows)[i].st = session[i].st /\ Revoke(rows)[i].token = session[i].token
                /\ Revoke(rows)[i].revoked \/ Revoke(rows)[i].revoked = session[i].revoked
  BY <1>1 DEF Revoke, Row
<1>3. session' = session \/ \E rows : session' = Revoke(rows)
  BY DEF Finish, ChangePassword, Logout, LogoutEverywhere, RevokeOne, Lose
<1>4. /\ session'[i].st = session[i].st /\ session'[i].token = session[i].token
      /\ session'[i].revoked \/ session'[i].revoked = session[i].revoked
      /\ UNCHANGED <<jar, floor>> /\ lost \subseteq lost'
  <2>1. UNCHANGED <<jar, floor>> /\ lost \subseteq lost'
    BY DEF Finish, ChangePassword, Logout, LogoutEverywhere, RevokeOne, Lose
  <2> QED
    BY <1>2, <1>3, <2>1
<1>5. session[i].revoked \in BOOLEAN
  BY <1>1 DEF Row
<1>6. Quiet(i)' => Quiet(i)
  BY <1>4, <1>5 DEF Quiet, Usable
<1>7. CASE Finish(r) \/ LogoutEverywhere(r) \/ \E j \in Ids : RevokeOne(r, j)
  <2>1. req' = Done(r, req[r].reply)
    BY <1>7 DEF Finish, LogoutEverywhere, RevokeOne
  <2> QED
    BY <1>4, <1>6, <2>1, DonePasses, CookiesKept
<1>8. CASE Logout(r)
  <2>1. req' = Done(r, Clear) /\ lost' = lost \cup Dropped(r)
    BY <1>8 DEF Logout
  <2>2. Brings(r, i) => i \in lost'
    BY <2>1 DEF Brings, Dropped
  <2> QED
    BY <1>4, <1>6, <2>1, <2>2, DonePasses, CookiesKept DEF Quiet
<1>9. CASE Lose(r)
  <2>1. req' = [req EXCEPT ![r] = Free] /\ lost' = lost \cup Dropped(r)
    BY <1>9 DEF Lose
  <2>2. Brings(r, i) => i \in lost'
    BY <2>1 DEF Brings, Dropped
  <2>3. \A q \in Requests : Passes(q, i) /\ (Brings(q, i) => Brings(q, i)' \/ i \in lost')
    BY <1>1, <2>1, <2>2 DEF Passes, HoldsToken, Brings, Free
  <2> QED
    BY <1>4, <1>6, <2>3, CookiesKept DEF Quiet
<1>10. CASE ChangePassword(r)
  <2>1. \A q \in Requests : /\ req'[q].token = req[q].token /\ req'[q].reply = req[q].reply
                            /\ req'[q].from = req[q].from
    BY <1>1, <1>10 DEF ChangePassword, WellFormed, Request
  <2>2. \A q \in Requests : Passes(q, i) /\ (Brings(q, i) => Brings(q, i)')
    BY <2>1 DEF Passes, HoldsToken, Brings
  <2> QED
    BY <1>4, <1>6, <2>2, CookiesKept
<1> QED
  BY <1>7, <1>8, <1>9, <1>10

\* After a privilege change the row is no longer quiet; every other row is left alone.
LEMMA PrivilegeCookies ==
  ASSUME CInv, NEW r \in Requests, NEW i \in Ids,
         NEW t \in Stamps(r), StepUp(r, t) \/ PasswordChanged(r, t)
  PROVE  RowCookies(i)'
<1>1. /\ req \in [Requests -> WellFormed] /\ session \in [Ids -> Row]
      /\ floor \in [Ids -> Nat] /\ Mine(r) \in Ids /\ session[Mine(r)] \in Row
      /\ req[r].at \in {"handler", "changed"} /\ req[r].token # None
  <2>1. req[r].at \in {"handler", "changed"} /\ req[r].token # None
    BY DEF StepUp, PasswordChanged, CInv, IInv, TypeOK, WellFormed
  <2> QED
    BY <2>1, MineIsRow DEF CInv, IInv, TypeOK
<1>2. PICK row : /\ RotateSession(r, row, t) /\ row \in Row /\ row.st = session[Mine(r)].st
  <2>1. ElevatedRow(session[Mine(r)], t).st = session[Mine(r)].st
    BY <1>1 DEF ElevatedRow, Row
  <2>2. ElevatedRow(session[Mine(r)], t) \in Row
    <3>1. t \in Nat /\ t + AdminAbsolute \in Nat
      BY StampIsTime DEF CInv, IInv
    <3> QED
      BY <1>1, <3>1, WrittenRow DEF ElevatedRow
  <2> QED
    BY <1>1, <2>1, <2>2 DEF StepUp, PasswordChanged
<1>3. CASE session[Mine(r)].st # "row"
  <2>1. req' = Done(r, req[r].reply) /\ UNCHANGED <<session, floor, jar, lost>>
    BY <1>2, <1>3 DEF RotateSession
  <2> QED
    BY <2>1, DonePasses, CookiesKept DEF Quiet, Usable
<1>4. CASE session[Mine(r)].st = "row"
  <2>1. /\ session' = [session EXCEPT ![Mine(r)] = Privileged(row, t)]
        /\ floor' = [floor EXCEPT ![Mine(r)] = session[Mine(r)].token + 1]
        /\ req' = Done(r, [id |-> Mine(r), n |-> session[Mine(r)].token + 1])
        /\ UNCHANGED <<jar, lost>>
    BY <1>2, <1>4 DEF RotateSession
  <2>2. CASE i = Mine(r)
    <3>1. floor'[i] # 0 /\ session'[i].st = "row"
      BY <1>1, <1>2, <1>4, <2>1, <2>2 DEF Row, Privileged
    <3> QED
      BY <3>1 DEF RowCookies, Quiet
  <2>3. CASE i # Mine(r)
    <3>1. \A q \in Requests \ {r} : req'[q] = req[q]
      BY <1>1, <2>1 DEF Done
    <3>2. /\ req'[r].token = None
          /\ req'[r].reply \notin {None, Clear} => req'[r].reply.id = Mine(r)
      BY <1>1, <2>1 DEF Done, Free
    <3>3. ~Brings(r, i)
      BY <1>1, <2>3 DEF CInv, OwnCookies, Brings, Mine
    <3>4. \A q \in Requests : Passes(q, i) /\ (Brings(q, i) => Brings(q, i)')
      BY <2>3, <3>1, <3>2, <3>3 DEF Passes, HoldsToken, Brings
    <3>5. session'[i] = session[i] /\ floor'[i] = floor[i]
      BY <1>1, <2>1, <2>3
    <3> QED
      BY <2>1, <3>4, <3>5, CookiesKept DEF Quiet, Usable
  <2> QED
    BY <2>2, <2>3
<1> QED
  BY <1>3, <1>4

\* A browser sends the cookie it holds.
LEMMA SendCookies ==
  ASSUME CInv, NEW b \in Browsers, NEW r \in Requests, NEW i \in Ids, Send(b, r)
  PROVE  RowCookies(i)'
<1>1. req \in [Requests -> WellFormed] /\ UNCHANGED <<session, jar, floor, lost>>
  BY DEF CInv, IInv, TypeOK, Send
<1>2. \A q \in Requests \ {r} : req'[q] = req[q]
  BY <1>1 DEF Send
<1>3. /\ req'[r].token = jar[b] /\ req'[r].reply = None /\ req'[r].from = b
      /\ req[r].reply = None
  BY <1>1 DEF Send, Free, WellFormed
<1>4. \A q \in Requests :
        /\ Brings(q, i)' <=> Brings(q, i)
        /\ Brings(q, i) => req'[q].reply = req[q].reply /\ req'[q].from = req[q].from
        /\ q # r => (HoldsToken(q, i)' <=> HoldsToken(q, i))
  BY <1>2, <1>3 DEF Brings, HoldsToken
<1>5. HoldsToken(r, i)' <=> HasCookie(b, i)
  BY <1>3 DEF HoldsToken, HasCookie
<1>6. \A c \in Browsers : HasCookie(c, i)' <=> HasCookie(c, i)
  BY <1>1 DEF HasCookie
<1>7. Quiet(i)' <=> Quiet(i)
  BY <1>1 DEF Quiet, Usable
<1>8. ASSUME session[i].st = "new" PROVE Unheard(i)'
  BY <1>4, <1>5, <1>6, <1>8 DEF CInv, RowCookies, Unheard
<1>9. ASSUME Quiet(i) PROVE CookiesOf(i)'
  <2>1. CookiesOf(i)
    BY <1>9 DEF CInv, RowCookies
  <2> QED
    BY <1>1, <1>2, <1>3, <1>4, <1>5, <1>6, <2>1 DEF CookiesOf
<1> QED
  BY <1>1, <1>7, <1>8, <1>9 DEF RowCookies

\* The reply that brings a token hands it to the one browser of the row.
LEMMA ReceiveCookies ==
  ASSUME CInv, NEW r \in Requests, NEW i \in Ids, Receive(r)
  PROVE  RowCookies(i)'
<1>1. /\ req \in [Requests -> WellFormed] /\ jar \in [Browsers -> Token \cup {None}]
      /\ UNCHANGED <<session, floor, lost>>
      /\ req[r].from \in Browsers /\ req' = [req EXCEPT ![r] = Free]
      /\ req[r].reply \in Token \cup {None, Clear}
  BY DEF CInv, IInv, TypeOK, Receive, WellFormed, Request
<1>2. \A q \in Requests :
        /\ HoldsToken(q, i)' => HoldsToken(q, i) /\ req'[q] = req[q]
        /\ Brings(q, i)' => Brings(q, i) /\ req'[q] = req[q] /\ q # r
        /\ q # r /\ Brings(q, i) => Brings(q, i)'
  BY <1>1 DEF HoldsToken, Brings, Free
<1>3. \A b \in Browsers :
        jar'[b] = IF b = req[r].from /\ req[r].reply # None
                  THEN IF req[r].reply = Clear THEN None ELSE req[r].reply
                  ELSE jar[b]
  BY <1>1, SessionAssumption DEF Receive
<1>4. \A b \in Browsers :
        HasCookie(b, i)' => \/ HasCookie(b, i) /\ jar'[b] = jar[b]
                            \/ Brings(r, i) /\ b = req[r].from /\ jar'[b] = req[r].reply
  BY <1>3 DEF HasCookie, Brings
<1>5. Quiet(i)' <=> Quiet(i)
  BY <1>1 DEF Quiet, Usable
<1>6. ASSUME session[i].st = "new" PROVE Unheard(i)'
  BY <1>2, <1>4, <1>6 DEF CInv, RowCookies, Unheard
<1>7. ASSUME Quiet(i) PROVE CookiesOf(i)'
  <2>1. CookiesOf(i) /\ session[i].token \in Nat
    BY <1>7 DEF CInv, IInv, TypeOK, Row, RowCookies
  <2>2. ASSUME Brings(r, i) PROVE CookiesOf(i)'
    <3>1. /\ req[r].reply.n = session[i].token
          /\ \A q \in Requests : ~Brings(q, i)'
          /\ \A b \in Browsers : HasCookie(b, i) => b = req[r].from
      BY <1>2, <2>1, <2>2 DEF CookiesOf
    <3>2. \A b \in Browsers :
            HasCookie(b, i)' => b = req[r].from /\ jar'[b].n = session[i].token
      <4>1. jar'[req[r].from] = req[r].reply
        BY <1>1, <1>3, <2>2 DEF Brings
      <4> QED
        BY <1>4, <3>1, <4>1
    <3> QED
      BY <1>1, <1>2, <2>1, <2>2, <3>1, <3>2 DEF CookiesOf
  <2>3. ASSUME ~Brings(r, i) PROVE CookiesOf(i)'
    <3>1. \A b \in Browsers : HasCookie(b, i)' => HasCookie(b, i) /\ jar'[b] = jar[b]
      BY <1>4, <2>3
    <3>2. \A q \in Requests : Brings(q, i) => Brings(q, i)'
      BY <1>2, <2>3
    <3> QED
      BY <1>1, <1>2, <2>1, <3>1, <3>2 DEF CookiesOf
  <2> QED
    BY <2>2, <2>3
<1> QED
  BY <1>1, <1>5, <1>6, <1>7 DEF RowCookies

\* What the winner of a rotation has read is still the current token.
LEMMA WinnerIsCurrent ==
  ASSUME IInv, NEW r \in Requests, NEW t \in Stamps(r), Rotate(r, t)
  PROVE  req[r].seen.token = session[Mine(r)].token /\ req[r].seen.token = req[r].token.n
<1>1. /\ session[Mine(r)] \in Row /\ req[r].seen \in Row
      /\ req[r].asked \in Nat /\ now \in Nat /\ SnapshotOf(r)
  BY MineIsRow DEF Rotate, IInv, TypeOK, WellFormed, Request, SnapshotsHold
<1>2. req[r].seen.rotatedAt + Slow < req[r].asked
  BY <1>1, StampIsTime, SessionAssumption DEF IInv, Rotate, RotationDue, SnapshotOf, Row
<1> QED
  BY <1>1, <1>2 DEF Rotate, RotationDue, Claims, SnapshotOf

\* The winner of a rotation puts the new token on its way to the browser.
LEMMA RotateCookies ==
  ASSUME CInv, NEW r \in Requests, NEW i \in Ids, NEW t \in Stamps(r), Rotate(r, t)
  PROVE  RowCookies(i)'
<1> DEFINE k == Mine(r)
           c == [id |-> k, n |-> session[k].token + 1]
<1>1. /\ req \in [Requests -> WellFormed] /\ session \in [Ids -> Row]
      /\ k \in Ids /\ session[k].token \in Nat /\ session[k].st = "row"
      /\ req[r].reply = None /\ req[r].token # None /\ c \notin {None, Clear}
      /\ req[r].from \in Browsers
  <2>1. /\ req[r].token # None /\ req[r].reply = None /\ session[k].st = "row"
        /\ req[r].from \in Browsers
    BY DEF CInv, IInv, TypeOK, WellFormed, Request, Rotate, Claims
  <2>2. k \in Ids /\ session[k] \in Row
    BY <2>1, MineIsRow DEF CInv, IInv
  <2>3. c \in Token
    BY <2>2 DEF Token, Row
  <2> QED
    BY <2>1, <2>2, <2>3, SessionAssumption DEF CInv, IInv, TypeOK, Row
<1>2. /\ req' = [req EXCEPT ![r] = [Free EXCEPT !.at = "handler", !.from = req[r].from,
                                     !.token = req[r].token, !.auth = TRUE, !.reply = c]]
      /\ req[r].seen.token = session[k].token /\ req[r].token.n = session[k].token
  <2>1. IInv /\ req[r].at = "check" /\ SnapshotOf(r) /\ req' = Accept(r, c)
    BY DEF CInv, IInv, SnapshotsHold, Rotate
  <2>2. ExpectedCsrf(req[r].seen, req[r].via) = req[r].token.n
    BY <2>1 DEF SnapshotOf, ExpectedCsrf
  <2> QED
    BY <2>1, <2>2, WinnerIsCurrent DEF Accept
<1>3. /\ \A j \in Ids \ {k} : session'[j] = session[j]
      /\ session'[k].token = session[k].token + 1 /\ session'[k].st = "row"
      /\ session'[k].revoked = session[k].revoked
      /\ UNCHANGED <<jar, floor, lost>>
  BY <1>1 DEF Rotate, Row
<1> HIDE DEF c
<1>4. /\ \A q \in Requests \ {r} : req'[q] = req[q]
      /\ req'[r].token = req[r].token /\ req'[r].from = req[r].from /\ req'[r].reply = c
  BY <1>1, <1>2 DEF Free
<1>5. c.id = k /\ c.n = session[k].token + 1
  BY DEF c
<1>6. HoldsToken(r, k) /\ ~\E j \in Ids : Brings(r, j)
  BY <1>1 DEF HoldsToken, Brings, Mine
<1>7. CASE i # k
  <2>1. \A q \in Requests : Passes(q, i) /\ (Brings(q, i) => Brings(q, i)')
    BY <1>4, <1>5, <1>6, <1>7 DEF Passes, HoldsToken, Brings
  <2> QED
    BY <1>3, <1>7, <2>1, CookiesKept DEF Quiet, Usable
<1>8. CASE i = k
  <2>1. session'[i].st # "new"
    BY <1>3, <1>8
  <2>2. ASSUME Quiet(i)' PROVE CookiesOf(i)'
    <3>1. CookiesOf(i)
      BY <1>1, <1>3, <1>8, <2>2 DEF Quiet, Usable, CInv, RowCookies
    <3>2. \A q \in Requests : ~Brings(q, i)
      BY <1>1, <1>2, <1>6, <1>8, <3>1 DEF CookiesOf
    <3>3. /\ \A q \in Requests : HoldsToken(q, i)' <=> HoldsToken(q, i)
          /\ \A q \in Requests : req'[q].token = req[q].token /\ req'[q].from = req[q].from
          /\ \A b \in Browsers : HasCookie(b, i)' <=> HasCookie(b, i)
      BY <1>3, <1>4 DEF HoldsToken, HasCookie
    <3>4. \A q \in Requests : Brings(q, i)' <=> q = r
      BY <1>1, <1>4, <1>5, <1>8, <3>2 DEF Brings
    <3>5. /\ session'[i].token = session[i].token + 1 /\ session[i].token \in Nat
          /\ req'[r].reply.n = session'[i].token
          /\ \A b \in Browsers : HasCookie(b, i) => jar'[b] = jar[b] /\ jar[b].n \in Nat
          /\ \A q \in Requests : HoldsToken(q, i) => req[q].token.n \in Nat
      BY <1>1, <1>3, <1>4, <1>5, <1>8
      DEF CInv, IInv, TypeOK, HasCookie, HoldsToken, WellFormed, Request, Token
    <3>6. \E h \in Browsers :
            /\ \A b \in Browsers : HasCookie(b, i)' => b = h
            /\ \A q \in Requests : HoldsToken(q, i)' \/ Brings(q, i)' => req'[q].from = h
      BY <1>6, <1>8, <3>1, <3>3, <3>4 DEF CookiesOf
    <3> QED
      BY <3>1, <3>3, <3>4, <3>5, <3>6 DEF CookiesOf
  <2> QED
    BY <2>1, <2>2 DEF RowCookies
<1> QED
  BY <1>7, <1>8

\* The first token of a new row is on its way to the browser that signed in.
LEMMA SignInCookies ==
  ASSUME CInv, NEW r \in Requests, NEW i \in Ids, NEW t, SignIn(r, t)
  PROVE  RowCookies(i)'
<1>1. PICK k \in Ids, elevated \in BOOLEAN :
        /\ session[k].st = "new"
        /\ session' = [session EXCEPT ![k] =
             [NoRow EXCEPT !.st = "row", !.token = 1, !.rotatedAt = now, !.lastSeen = now,
                           !.elevated = elevated,
                           !.expires = t + IF elevated THEN AdminAbsolute ELSE Absolute]]
        /\ req' = Done(r, [id |-> k, n |-> 1])
  BY DEF SignIn
<1>2. /\ req \in [Requests -> WellFormed] /\ session \in [Ids -> Row]
      /\ req[r].from \in Browsers /\ UNCHANGED <<jar, floor>> /\ lost' = lost \cup Dropped(r)
  BY DEF CInv, IInv, TypeOK, WellFormed, Request, SignIn
<1>3. [id |-> k, n |-> 1] \notin {None, Clear}
  BY SessionAssumption DEF Token
<1>4. /\ \A q \in Requests \ {r} : req'[q] = req[q]
      /\ req'[r].token = None /\ req'[r].from = req[r].from
      /\ req'[r].reply = [id |-> k, n |-> 1]
  BY <1>1, <1>2, <1>3 DEF Done, Free
<1>5. /\ \A j \in Ids \ {k} : session'[j] = session[j]
      /\ session'[k].st = "row" /\ session'[k].token = 1
  BY <1>1, <1>2 DEF NoRow
<1>6. CASE i # k
  <2>1. \A q \in Requests : Passes(q, i)
    BY <1>4, <1>6 DEF Passes, HoldsToken, Brings
  <2>2. \A q \in Requests : Brings(q, i) => Brings(q, i)' \/ i \in lost'
    BY <1>2, <1>4 DEF Brings, Dropped
  <2> QED
    BY <1>2, <1>5, <1>6, <2>1, <2>2, CookiesKept DEF Quiet, Usable
<1>7. CASE i = k
  <2>1. Unheard(i)
    BY <1>1, <1>7 DEF CInv, RowCookies
  <2>2. /\ \A b \in Browsers : ~HasCookie(b, i)'
        /\ \A q \in Requests : ~HoldsToken(q, i)'
        /\ \A q \in Requests : Brings(q, i)' => q = r
        /\ req'[r].reply.n = session'[i].token
    BY <1>2, <1>4, <1>5, <1>7, <2>1 DEF Unheard, HasCookie, HoldsToken, Brings
  <2>3. CookiesOf(i)'
    BY <1>2, <1>4, <2>2 DEF CookiesOf
  <2> QED
    BY <1>5, <1>7, <2>3 DEF RowCookies
<1> QED
  BY <1>6, <1>7

\* Only a rotation puts a cookie on the reply of a request that is still handled.
LEMMA OwnCookiesKept ==
  ASSUME CInv, [Next]_vars
  PROVE  OwnCookies'
<1> SUFFICES ASSUME NEW r \in Requests, req'[r].at \in {"handler", "changed"},
                    req'[r].reply \notin {None, Clear}
             PROVE  req'[r].token # None /\ req'[r].reply.id = req'[r].token.id
  BY DEF OwnCookies
<1>1. req \in [Requests -> WellFormed] /\ OwnCookies
  BY DEF CInv, IInv, TypeOK
<1>2. CASE \/ req'[r] = req[r]
           \/ ChangePassword(r)
  BY <1>1, <1>2 DEF OwnCookies, ChangePassword, WellFormed, Request
<1>3. ASSUME NEW c, req' = Done(r, c) PROVE FALSE
  BY <1>1, <1>3 DEF Done, Free
<1>4. ASSUME NEW c, c \in {None, Clear}, req' = Accept(r, c) PROVE FALSE
  BY <1>1, <1>4 DEF Accept, Free
<1>5. ASSUME NEW t, Rotate(r, t) PROVE req'[r].token # None /\ req'[r].reply.id = req'[r].token.id
  <2>1. req[r].token # None
    BY <1>1, <1>5 DEF Rotate, WellFormed
  <2> QED
    BY <1>1, <1>5, <2>1 DEF Rotate, Accept, Free, Mine
<1>6. ASSUME NEW b \in Browsers, Send(b, r) PROVE FALSE
  BY <1>1, <1>6 DEF Send, Free
<1>7. ASSUME Lookup(r) \/ GraceLookup(r) \/ Refuse(r) \/ Receive(r) \/ Lose(r) PROVE FALSE
  <2>1. CASE Lookup(r)
    BY <1>1, <2>1 DEF Lookup, WellFormed, Request
  <2>2. CASE GraceLookup(r)
    BY <1>1, <2>2 DEF GraceLookup, Free, WellFormed, Request
  <2>3. CASE Refuse(r)
    BY <1>1, <2>3 DEF Refuse, Free
  <2>4. CASE Receive(r) \/ Lose(r)
    <3>1. req' = [req EXCEPT ![r] = Free]
      BY <2>4 DEF Receive, Lose
    <3> QED
      BY <1>1, <3>1 DEF Free
  <2> QED
    BY <1>7, <2>1, <2>2, <2>3, <2>4
<1>8. ASSUME NEW t, RotationLost(r, t) \/ Touch(r, t) PROVE FALSE
  BY <1>1, <1>4, <1>8 DEF RotationLost, LosersReply, Touch, Free
<1>9. ASSUME NEW t,
             \/ Finish(r) \/ SignIn(r, t) \/ StepUp(r, t) \/ PasswordChanged(r, t)
             \/ Logout(r) \/ LogoutEverywhere(r) \/ \E i \in Ids : RevokeOne(r, i)
      PROVE  FALSE
  BY <1>3, <1>9
  DEF Finish, SignIn, StepUp, PasswordChanged, RotateSession, Logout, LogoutEverywhere, RevokeOne
<1>10. ASSUME NEW q \in Requests, q # r, (\E b \in Browsers : Send(b, q)) \/ Step(q)
       PROVE  req'[r] = req[r]
  <2>1. \/ \E v : req' = [req EXCEPT ![q] = v]
        \/ \E c : req' = Done(q, c)
        \/ \E c : req' = Accept(q, c)
    BY <1>10
    DEF Send, Step, Lookup, GraceLookup, Refuse, Rotate, RotationLost, Touch, Finish, SignIn,
        StepUp, ChangePassword, PasswordChanged, RotateSession, Logout, LogoutEverywhere,
        RevokeOne, Receive, Lose
  <2> QED
    BY <1>1, <1>10, <2>1 DEF Done, Accept
<1>11. CASE RevokeAllSessions \/ Prune \/ Tick \/ UNCHANGED vars
  <2>1. req' = req
    BY <1>11 DEF RevokeAllSessions, Prune, Tick, vars
  <2> QED
    BY <1>2, <2>1
<1> QED
  BY <1>2, <1>5, <1>6, <1>7, <1>8, <1>9, <1>10, <1>11 DEF Next, Step

\* Every step keeps the cookies in step with the rows.
LEMMA CookiesFollow ==
  ASSUME CInv, [Next]_vars, NEW i \in Ids
  PROVE  RowCookies(i)'
<1>1. session \in [Ids -> Row] /\ session[i].revoked \in BOOLEAN
  BY DEF CInv, IInv, TypeOK, Row
<1>2. ASSUME UNCHANGED <<jar, req, floor, lost>>,
             session'[i].st = "new" => session[i].st = "new",
             Usable(i)' => Usable(i) /\ session'[i].token = session[i].token
      PROVE  RowCookies(i)'
  <2>1. \A r \in Requests : Passes(r, i) /\ (Brings(r, i) => Brings(r, i)')
    BY <1>2 DEF Passes, HoldsToken, Brings
  <2> QED
    BY <1>2, <2>1, CookiesKept DEF Quiet
<1>3. CASE RevokeAllSessions
  BY <1>1, <1>2, <1>3 DEF RevokeAllSessions, Revoke, Usable, Row
<1>4. CASE Prune
  BY <1>1, <1>2, <1>4 DEF Prune, Usable, NoRow
<1>5. CASE Tick \/ UNCHANGED vars
  BY <1>2, <1>5 DEF Tick, vars, Usable
<1>6. ASSUME NEW b \in Browsers, NEW r \in Requests, Send(b, r) PROVE RowCookies(i)'
  BY <1>6, SendCookies
<1>7. ASSUME NEW r \in Requests, Step(r) PROVE RowCookies(i)'
  BY <1>7, LookupCookies, HandlerCookies, PrivilegeCookies, ReceiveCookies, RotateCookies,
     SignInCookies DEF Step
<1> QED
  BY <1>3, <1>4, <1>5, <1>6, <1>7 DEF Next

\* Routine rotations never leave the browser with a token that no longer exists:
\* it holds the current one, or the reply that brings it is still under way.
THEOREM RotationKeepsBrowserAlways == Spec => []RotationKeepsBrowser
<1>1. Init => CInv
  <2> SUFFICES ASSUME Init PROVE CInv
    OBVIOUS
  <2>1. OwnCookies
    BY DEF Init, Free, OwnCookies
  <2>2. \A i \in Ids : RowCookies(i)
    BY DEF Init, Free, NoRow, RowCookies, Unheard, HasCookie, HoldsToken, Brings, Quiet, Usable
  <2> QED
    BY <2>1, <2>2, InvariantAtStart DEF CInv
<1>2. CInv /\ [Next]_vars => CInv'
  BY InvariantKept, OwnCookiesKept, CookiesFollow DEF CInv
<1>3. CInv => RotationKeepsBrowser
  <2> SUFFICES ASSUME CInv, NEW i \in Ids, floor[i] = 0, NEW b \in Browsers,
                      jar[b] # None, jar[b].id = i, Usable(i), i \notin lost,
                      jar[b].n # session[i].token
               PROVE  \E r \in Requests : /\ req[r].from = b
                                          /\ req[r].reply = [id |-> i, n |-> session[i].token]
    BY DEF RotationKeepsBrowser, KeepsUp
  <2>1. CookiesOf(i) /\ HasCookie(b, i)
    BY DEF CInv, RowCookies, Quiet, HasCookie
  <2>2. PICK r \in Requests : Brings(r, i)
    BY <2>1 DEF CookiesOf
  <2>3. req[r].from = b /\ req[r].reply.n = session[i].token
    BY <2>1, <2>2 DEF CookiesOf
  <2>4. req[r].reply \in Token /\ req[r].reply.id = i
    BY <2>2 DEF CInv, IInv, TypeOK, WellFormed, Request, Brings
  <2>5. req[r].reply = [id |-> i, n |-> session[i].token]
    BY <2>3, <2>4 DEF Token
  <2> QED
    BY <2>3, <2>5
<1> QED
  BY <1>1, <1>2, <1>3, PTL DEF Spec

\* Two routine rotations of a session are more than the rotation period apart.
THEOREM RotationsSpacedAlways == Spec => RotationsSpaced
<1> DEFINE Spaced(i) ==
      (session[i].st = "row" /\ session'[i].token # session[i].token /\ session'[i].prev # 0)
        => now - session[i].rotatedAt > RotateAfter
<1>1. TypeOK /\ [Next]_vars => [\A i \in Ids : Spaced(i)]_vars
  <2> SUFFICES ASSUME TypeOK, Next, NEW i \in Ids, session[i].st = "row",
                      session'[i].token # session[i].token, session'[i].prev # 0
               PROVE  now - session[i].rotatedAt > RotateAfter
    OBVIOUS
  <2>1. session \in [Ids -> Row]
    BY DEF TypeOK
  <2>2. ASSUME NEW r \in Requests, NEW t \in Stamps(r), Rotate(r, t)
        PROVE  now - session[i].rotatedAt > RotateAfter
    BY <2>1, <2>2, StampIsTime, TimeOuts DEF Row, Rotate, RotationDue, Claims
  <2>3. ASSUME NEW r \in Requests, NEW row, NEW t \in Nat, RotateSession(r, row, t), row \in Row
        PROVE  FALSE
    BY <2>1, <2>3 DEF RotateSession, Privileged, Row
  <2>4. ASSUME NEW r \in Requests, NEW t \in Stamps(r), StepUp(r, t) \/ PasswordChanged(r, t)
        PROVE  FALSE
    <3>1. req[r].token # None
      BY <2>4 DEF StepUp, PasswordChanged, TypeOK, WellFormed
    <3>2. session[Mine(r)] \in Row /\ t \in Nat /\ t + AdminAbsolute \in Nat
      BY <3>1, MineIsRow, StampIsTime
    <3>3. ElevatedRow(session[Mine(r)], t) \in Row
      BY <3>2, WrittenRow DEF ElevatedRow
    <3> QED
      BY <2>3, <2>4, <3>2, <3>3 DEF StepUp, PasswordChanged
  <2>5. ASSUME NEW rows, session' = Revoke(rows) PROVE FALSE
    BY <2>1, <2>5 DEF Revoke, Row
  <2>6. ASSUME NEW r \in Requests, NEW t,
               Touch(r, t) \/ SignIn(r, t) \/ Refuse(r) \/ Lookup(r) \/ GraceLookup(r)
               \/ RotationLost(r, t) \/ Finish(r) \/ Receive(r) \/ Lose(r)
        PROVE  FALSE
    <3>1. CASE SignIn(r, t)
      BY <2>1, <3>1 DEF SignIn, NoRow
    <3>2. CASE Touch(r, t)
      BY <2>1, <3>2 DEF Touch, Row
    <3>3. CASE Refuse(r)
      BY <2>5, <3>3 DEF Refuse
    <3>4. CASE Lookup(r) \/ GraceLookup(r) \/ RotationLost(r, t) \/ Finish(r) \/ Receive(r) \/ Lose(r)
      BY <3>4 DEF Lookup, GraceLookup, RotationLost, Finish, Receive, Lose
    <3> QED
      BY <2>6, <3>1, <3>2, <3>3, <3>4
  <2>7. ASSUME NEW r \in Requests,
               ChangePassword(r) \/ Logout(r) \/ LogoutEverywhere(r)
               \/ \E j \in Ids : RevokeOne(r, j)
        PROVE  FALSE
    BY <2>5, <2>7 DEF ChangePassword, Logout, LogoutEverywhere, RevokeOne
  <2>8. CASE Prune
    BY <2>1, <2>8 DEF Prune, NoRow
  <2>9. CASE RevokeAllSessions \/ Tick \/ \E b \in Browsers, r \in Requests : Send(b, r)
    BY <2>5, <2>9 DEF RevokeAllSessions, Tick, Send
  <2> QED
    BY <2>2, <2>4, <2>6, <2>7, <2>8, <2>9 DEF Next, Step
<1> QED
  BY <1>1, TypeCorrect, PTL DEF Spec, RotationsSpaced

(***************************************************************************)
(* A request that a routine rotation overtakes.  It was sent with the      *)
(* current token; from then on that is the current token or, once one      *)
(* rotation has taken place, the previous one, which is honoured for as    *)
(* long as the grace period, from the time at which the rotation read the  *)
(* clock: at most Slow before its update replaced the token.  For a second *)
(* rotation to push it out it would have to be due, and by then the grace  *)
(* period is over.                                                         *)
(***************************************************************************)

\* Where the token of a request that was sent with the current one stands.
Overtaken(r) ==
  LET s == session[Mine(r)]
      n == req[r].token.n
  IN  /\ req[r].sent <= now /\ s.st # "new"
      /\ s.st = "row" => n <= s.token
      /\ s.st = "row" /\ n >= floor[Mine(r)] /\ now - req[r].sent < Grace - Slow =>
           \/ req[r].at = "lookup" /\ s.token = n
           \/ s.prev = n /\ s.prevUntil + Slow >= req[r].sent + Grace
              /\ s.rotatedAt + Slow >= req[r].sent

Looking(r) == req[r].at \in {"lookup", "grace"} /\ req[r].fresh

OInv ==
  /\ IInv
  /\ \A i \in Ids : session[i].st = "new" => session[i].token = 0
  /\ \A r \in Requests : Looking(r) => Overtaken(r)

\* The ways a step leaves a row, told apart by what they do to its tokens.
LeftRow(i) ==
  /\ session'[i].st = session[i].st /\ session'[i].token = session[i].token
  /\ session'[i].prev = session[i].prev /\ session'[i].prevUntil = session[i].prevUntil
  /\ session'[i].rotatedAt = session[i].rotatedAt /\ floor'[i] = floor[i]
TurnedRow(i) ==
  /\ session[i].st = "row" /\ session'[i].st = "row" /\ now - session[i].rotatedAt > RotateAfter
  /\ session'[i].token = session[i].token + 1 /\ session'[i].prev = session[i].token
  /\ session'[i].prevUntil = session'[i].rotatedAt + Grace /\ floor'[i] = floor[i]
  /\ session'[i].rotatedAt \in Nat /\ now <= session'[i].rotatedAt + Slow
RaisedRow(i) ==
  /\ session[i].st = "row" /\ session'[i].st = "row"
  /\ session'[i].token = session[i].token + 1 /\ floor'[i] = session[i].token + 1
OpenedRow(i) == session[i].st = "new" /\ session'[i].st = "row"

RowMoves(i) == LeftRow(i) \/ TurnedRow(i) \/ RaisedRow(i) \/ OpenedRow(i) \/ session'[i].st = "gone"

\* The ways a step leaves a request.
RequestMoves(r) ==
  \/ req'[r] = req[r]
  \/ req'[r].at \notin {"lookup", "grace"}
  \/ Lookup(r)
  \/ \E b \in Browsers : Send(b, r)

\* A row moves under a request that is still looking.
LEMMA RowMovesUnder ==
  ASSUME OInv, now' = now, NEW r \in Requests, Looking(r), req'[r] = req[r], RowMoves(Mine(r))
  PROVE  Overtaken(r)'
<1> DEFINE i == Mine(r)
           n == req[r].token.n
<1>1. /\ Overtaken(r) /\ req[r].token \in Token /\ i \in Ids /\ session[i] \in Row /\ req[r].sent \in Nat
      /\ now \in Nat /\ Mine(r)' = i /\ n \in Nat /\ session[i].rotatedAt <= now /\ floor[i] \in Nat
  <2>1. req[r] \in WellFormed /\ req[r].token # None
    BY DEF OInv, IInv, TypeOK, WellFormed, Looking
  <2>2. Mine(r) \in Ids /\ req[r].token \in Token /\ session[Mine(r)] \in Row
    BY <2>1, MineIsRow DEF OInv, IInv
  <2> QED
    BY <2>1, <2>2 DEF OInv, IInv, TypeOK, WellFormed, Request, Mine, Token, RowsHold, Timely
<1>2. Slow \in Nat /\ Grace \in Nat /\ RotateAfter \in Nat /\ Grace < RotateAfter
  BY SessionAssumption
<1>3. /\ session[i].token \in Nat /\ session[i].prev \in Nat /\ session[i].prevUntil \in Nat
      /\ session[i].rotatedAt \in Nat
  BY <1>1 DEF Row
<1>4. req'[r].token.n = n /\ req'[r].sent = req[r].sent /\ req'[r].at = req[r].at
  OBVIOUS
<1> HIDE DEF i, n
<1>5. CASE LeftRow(i)
  BY <1>1, <1>4, <1>5 DEF LeftRow, Overtaken, i, n
<1>6. CASE TurnedRow(i)
  <2>1. req[r].sent <= now /\ n <= session[i].token
    BY <1>1, <1>6 DEF Overtaken, TurnedRow, i, n
  <2>2. ASSUME n >= floor[i], now - req[r].sent < Grace - Slow PROVE session[i].token = n
    <3>1. \/ session[i].token = n
          \/ session[i].rotatedAt + Slow >= req[r].sent
      BY <1>1, <1>6, <2>2 DEF Overtaken, TurnedRow, i, n
    <3>2. now - session[i].rotatedAt > RotateAfter
      BY <1>6 DEF TurnedRow
    <3> QED
      BY <1>1, <1>2, <1>3, <2>2, <3>1, <3>2
  <2>3. /\ session'[i].st = "row" /\ session'[i].token = session[i].token + 1 /\ session'[i].prev = session[i].token
        /\ session'[i].prevUntil = session'[i].rotatedAt + Grace /\ floor'[i] = floor[i]
        /\ session'[i].rotatedAt \in Nat /\ now <= session'[i].rotatedAt + Slow
    BY <1>6 DEF TurnedRow
  <2>4. /\ n <= session'[i].token /\ session'[i].prevUntil + Slow >= req[r].sent + Grace
        /\ session'[i].rotatedAt + Slow >= req[r].sent
    BY <1>1, <1>2, <1>3, <2>1, <2>3
  <2> QED
    BY <1>1, <1>4, <2>1, <2>2, <2>3, <2>4 DEF Overtaken
<1>7. CASE RaisedRow(i)
  <2>1. n <= session[i].token /\ req[r].sent <= now
    BY <1>1, <1>7 DEF Overtaken, RaisedRow, i, n
  <2>2. ~ (n >= floor'[i]) /\ n <= session'[i].token /\ session'[i].st = "row"
    BY <1>1, <1>3, <1>7, <2>1 DEF RaisedRow
  <2> QED
    BY <1>1, <1>4, <2>1, <2>2 DEF Overtaken
<1>8. CASE OpenedRow(i)
  BY <1>1, <1>8 DEF OpenedRow, Overtaken, i
<1>9. CASE session'[i].st = "gone"
  BY <1>1, <1>4, <1>9 DEF Overtaken
<1> QED
  BY <1>5, <1>6, <1>7, <1>8, <1>9 DEF RowMoves, i

\* What has to be said of a step that takes no time.
LEMMA OvertakenKept ==
  ASSUME OInv, IInv', now' = now,
         \A i \in Ids : RowMoves(i),
         \A r \in Requests : RequestMoves(r)
  PROVE  OInv'
<1>1. \A i \in Ids : session'[i].st = "new" => session'[i].token = 0
  BY DEF OInv, RowMoves, LeftRow, TurnedRow, RaisedRow, OpenedRow
<1>2. ASSUME NEW r \in Requests, Looking(r)' PROVE Overtaken(r)'
  <2>0. /\ req \in [Requests -> WellFormed] /\ session \in [Ids -> Row]
        /\ jar \in [Browsers -> Token \cup {None}] /\ now \in Nat /\ Grace \in Nat
    BY SessionAssumption DEF OInv, IInv, TypeOK
  <2>1. CASE req'[r] = req[r]
    <3>1. Looking(r)
      BY <1>2, <2>1 DEF Looking
    <3>2. Mine(r) \in Ids
      BY <3>1, MineIsRow DEF OInv, IInv, TypeOK, WellFormed, Looking
    <3> QED
      BY <2>1, <3>1, <3>2, RowMovesUnder
  <2>2. CASE Lookup(r)
    <3>1. UNCHANGED <<now, session, floor>> /\ req[r].at = "lookup"
      BY <2>2 DEF Lookup
    <3>2. /\ req'[r] = [req[r] EXCEPT !.at = "grace"]
          /\ ~ (session[Mine(r)].st = "row" /\ session[Mine(r)].token = req[r].token.n)
      BY <1>2, <2>0, <2>2 DEF Lookup, Looking
    <3>3. /\ req'[r].at = "grace" /\ req'[r].token = req[r].token /\ req'[r].sent = req[r].sent
          /\ req'[r].fresh = req[r].fresh
      BY <2>0, <3>2 DEF WellFormed, Request
    <3>4. Overtaken(r) /\ Mine(r)' = Mine(r)
      BY <1>2, <3>1, <3>3 DEF OInv, Looking, Mine
    <3> QED
      BY <3>1, <3>2, <3>3, <3>4 DEF Overtaken
  <2>3. CASE \E b \in Browsers : Send(b, r)
    <3>1. PICK b \in Browsers : Send(b, r)
      BY <2>3
    <3>2. /\ jar[b] # None /\ UNCHANGED <<now, session, floor>>
          /\ req'[r] = [Free EXCEPT !.at = "lookup", !.from = b, !.token = jar[b], !.sent = now,
                                    !.fresh = (session[jar[b].id].token = jar[b].n)]
      BY <1>2, <2>0, <3>1 DEF Send, Looking, Free
    <3>3. /\ req'[r].at = "lookup" /\ req'[r].token = jar[b] /\ req'[r].sent = now
          /\ req'[r].fresh = (session[jar[b].id].token = jar[b].n)
      BY <3>2 DEF Free
    <3>4. jar[b].id \in Ids /\ jar[b].n \in Nat \ {0} /\ session[jar[b].id].token = jar[b].n
      BY <1>2, <2>0, <3>2, <3>3 DEF Token, Looking
    <3>5. session[jar[b].id].st # "new"
      BY <3>4 DEF OInv
    <3>6. Mine(r)' = jar[b].id
      BY <3>3 DEF Mine
    <3> QED
      BY <2>0, <3>2, <3>3, <3>4, <3>5, <3>6 DEF Overtaken
  <2>4. CASE req'[r].at \notin {"lookup", "grace"}
    BY <1>2, <2>4 DEF Looking
  <2> QED
    BY <2>1, <2>2, <2>3, <2>4 DEF RequestMoves
<1> QED
  BY <1>1, <1>2 DEF OInv

\* Revoking moves no token.
LEMMA RevokeLeaves ==
  ASSUME TypeOK, NEW rows, session' = Revoke(rows), floor' = floor, NEW i \in Ids
  PROVE  LeftRow(i)
  BY DEF TypeOK, Revoke, LeftRow, Row

\* A request that is answered, or accepted, does not look any longer.
LEMMA AnsweredMoves ==
  ASSUME IInv, NEW r \in Requests, NEW c, req' = Done(r, c)
  PROVE  \A q \in Requests : RequestMoves(q)
<1>1. req'[r].at \notin {"lookup", "grace"} /\ \A q \in Requests \ {r} : req'[q] = req[q]
  BY AnsweredRequest DEF IInv
<1> QED
  BY <1>1 DEF RequestMoves

LEMMA AcceptedMoves ==
  ASSUME IInv, NEW r \in Requests, req[r].at = "check", NEW c, req' = Accept(r, c)
  PROVE  \A q \in Requests : RequestMoves(q)
<1>1. req'[r].at \notin {"lookup", "grace"} /\ \A q \in Requests \ {r} : req'[q] = req[q]
  BY AcceptedRequest
<1> QED
  BY <1>1 DEF RequestMoves

\* So does one that is given another stage.
LEMMA StagedMoves ==
  ASSUME TypeOK, NEW r \in Requests, NEW q, q.at \notin {"lookup", "grace"}, req' = [req EXCEPT ![r] = q]
  PROVE  \A p \in Requests : RequestMoves(p)
  BY DEF TypeOK, RequestMoves

\* rotateSession raises the floor to the token it mints.
LEMMA RotateSessionRaises ==
  ASSUME IInv, NEW r \in Requests, req[r].auth, NEW row \in Row,
         row.token = session[Mine(r)].token, row.st = session[Mine(r)].st,
         NEW t, RotateSession(r, row, t)
  PROVE  now' = now /\ (\A i \in Ids : RowMoves(i)) /\ (\A q \in Requests : RequestMoves(q))
<1>1. Mine(r) \in Ids /\ session[Mine(r)] \in Row
  BY MineIsRow DEF IInv, TypeOK, WellFormed
<1>2. PICK c : req' = Done(r, c)
  BY DEF RotateSession
<1>3. \A q \in Requests : RequestMoves(q)
  BY <1>2, AnsweredMoves
<1>4. CASE session[Mine(r)].st = "row"
  <2>1. /\ session' = [session EXCEPT ![Mine(r)] = Privileged(row, t)]
        /\ floor' = [floor EXCEPT ![Mine(r)] = session[Mine(r)].token + 1]
    BY <1>4 DEF RotateSession
  <2>2. Privileged(row, t).st = "row" /\ Privileged(row, t).token = row.token + 1
    BY <1>4 DEF Privileged, Row
  <2>3. \A i \in Ids \ {Mine(r)} : session'[i] = session[i] /\ floor'[i] = floor[i]
    BY <2>1 DEF IInv, TypeOK
  <2>4. session'[Mine(r)] = Privileged(row, t) /\ floor'[Mine(r)] = session[Mine(r)].token + 1
    BY <1>1, <2>1 DEF IInv, TypeOK
  <2>5. RaisedRow(Mine(r))
    BY <1>4, <2>2, <2>4 DEF RaisedRow
  <2> QED
    BY <1>3, <2>3, <2>5 DEF RotateSession, RowMoves, LeftRow
<1>5. CASE session[Mine(r)].st # "row"
  BY <1>3, <1>5 DEF RotateSession, RowMoves, LeftRow
<1> QED
  BY <1>4, <1>5

\* A rotation is of the token the row has, and the rotation before it is long past.
LEMMA RotateTurns ==
  ASSUME IInv, NEW r \in Requests, NEW t \in Stamps(r), Rotate(r, t)
  PROVE  \A i \in Ids : RowMoves(i)
<1> DEFINE i == Mine(r)
           s == req[r].seen
<1>1. /\ SnapshotOf(r) /\ i \in Ids /\ session[i] \in Row /\ s \in Row /\ req[r].asked \in Nat /\ now \in Nat
  <2>1. req[r].at = "check" /\ req[r] \in WellFormed /\ req[r].token # None
    BY DEF Rotate, IInv, TypeOK, WellFormed
  <2> QED
    BY <2>1, MineIsRow DEF IInv, TypeOK, SnapshotsHold, WellFormed, Request
<1>2. /\ t - s.rotatedAt > RotateAfter /\ session[i].st = "row" /\ session[i].rotatedAt = s.rotatedAt
      /\ session' = [session EXCEPT ![i] =
           [session[i] EXCEPT !.token = session[i].token + 1, !.prev = s.token, !.prevUntil = t + Grace,
                              !.rotatedAt = t, !.lastSeen = t]]
      /\ floor' = floor
  BY DEF Rotate, RotationDue, Claims, GraceUntil
<1>3. s.rotatedAt + Slow < req[r].asked
  BY <1>1, <1>2, StampIsTime, SessionAssumption DEF IInv, SnapshotOf, Row
<1>4. session[i].token = s.token
  BY <1>1, <1>2, <1>3 DEF SnapshotOf
<1> HIDE DEF i, s
<1>5. TurnedRow(i)
  BY <1>1, <1>2, <1>4, StampIsTime, TimeOuts DEF TurnedRow, Row, IInv, TypeOK
<1>6. \A j \in Ids \ {i} : LeftRow(j)
  BY <1>2 DEF LeftRow, IInv, TypeOK
<1> QED
  BY <1>5, <1>6 DEF RowMoves

\* Every step keeps what is said of overtaken requests.
LEMMA OvertakenStep == OInv /\ [Next]_vars => OInv'
<1> SUFFICES ASSUME OInv, [Next]_vars PROVE OInv'
  OBVIOUS
<1>0. IInv' /\ IInv /\ TypeOK
  BY InvariantKept DEF OInv, IInv
<1>1. SUFFICES (Next \/ UNCHANGED vars) /\ ~ Tick =>
                 now' = now /\ (\A i \in Ids : RowMoves(i)) /\ (\A q \in Requests : RequestMoves(q))
  <2>1. CASE Tick
    <3>1. /\ UNCHANGED <<session, jar, req, floor, lost>> /\ now' = now + 1
      BY <2>1 DEF Tick
    <3>2. now \in Nat /\ \A r \in Requests : req[r].sent \in Nat
      BY <1>0 DEF TypeOK, WellFormed, Request
    <3>3. \A r \in Requests : Overtaken(r) => Overtaken(r)'
      BY <3>1, <3>2, SessionAssumption DEF Overtaken, Mine
    <3>4. \A r \in Requests : Looking(r)' = Looking(r)
      BY <3>1 DEF Looking
    <3> QED
      BY <1>0, <3>1, <3>3, <3>4 DEF OInv
  <2>2. CASE ~ Tick
    BY <1>0, <1>1, <2>2, OvertakenKept
  <2> QED
    BY <2>1, <2>2
<1>2. ASSUME UNCHANGED <<now, session, floor>>, \A q \in Requests : RequestMoves(q)
      PROVE  now' = now /\ (\A i \in Ids : RowMoves(i)) /\ (\A q \in Requests : RequestMoves(q))
  BY <1>2 DEF RowMoves, LeftRow
<1>3. ASSUME NEW b \in Browsers, NEW r \in Requests, Send(b, r)
      PROVE  now' = now /\ (\A i \in Ids : RowMoves(i)) /\ (\A q \in Requests : RequestMoves(q))
  <2>1. \A q \in Requests : RequestMoves(q)
    BY <1>0, <1>3 DEF Send, TypeOK, RequestMoves
  <2>2. UNCHANGED <<now, session, floor>>
    BY <1>3 DEF Send
  <2> QED
    BY <1>2, <2>1, <2>2
<1>4. ASSUME NEW r \in Requests, Step(r)
      PROVE  now' = now /\ (\A i \in Ids : RowMoves(i)) /\ (\A q \in Requests : RequestMoves(q))
  <2>1. CASE Lookup(r)
    <3>1. UNCHANGED <<now, session, floor>> /\ \A q \in Requests : RequestMoves(q)
      BY <1>0, <2>1 DEF Lookup, TypeOK, RequestMoves
    <3> QED
      BY <1>2, <3>1
  <2>2. CASE GraceLookup(r)
    <3>1. UNCHANGED <<now, session, floor>>
      BY <2>2 DEF GraceLookup
    <3>2. req'[r].at \in {"check", "handler"} /\ \A q \in Requests \ {r} : req'[q] = req[q]
      BY <1>0, <2>2 DEF GraceLookup, TypeOK, WellFormed, Request, Free
    <3> QED
      BY <1>2, <3>1, <3>2 DEF RequestMoves
  <2>3. CASE Refuse(r)
    <3>1. req' = [req EXCEPT ![r] = [Free EXCEPT !.at = "handler", !.from = req[r].from, !.reply = Clear]]
      BY <2>3 DEF Refuse
    <3>2. \A q \in Requests : RequestMoves(q)
      BY <1>0, <3>1, StagedMoves DEF Free
    <3>3. \A i \in Ids : LeftRow(i)
      BY <1>0, <2>3, RevokeLeaves DEF Refuse, LeftRow
    <3> QED
      BY <2>3, <3>2, <3>3 DEF Refuse, RowMoves
  <2>4. CASE \E t \in Stamps(r) : Rotate(r, t)
    <3>1. PICK t \in Stamps(r) : Rotate(r, t)
      BY <2>4
    <3> QED
      BY <1>0, <3>1, RotateTurns, AcceptedMoves DEF Rotate
  <2>5. CASE \E t \in Stamps(r) : RotationLost(r, t)
    BY <1>0, <1>2, <2>5, AcceptedMoves DEF RotationLost
  <2>6. CASE \E t \in Stamps(r) : Touch(r, t)
    <3>0. PICK t \in Stamps(r) : Touch(r, t)
      BY <2>6
    <3>1. CASE session[Mine(r)].st = "row"
      <4>1. \A i \in Ids : LeftRow(i)
        BY <1>0, <3>0, <3>1 DEF Touch, TypeOK, LeftRow, Row
      <4> QED
        BY <1>0, <3>0, <3>1, <4>1, AcceptedMoves DEF Touch, RowMoves
    <3>2. CASE session[Mine(r)].st # "row"
      BY <1>0, <1>2, <3>0, <3>2, StagedMoves DEF Touch, Free
    <3> QED
      BY <3>1, <3>2
  <2>7. CASE Finish(r)
    BY <1>0, <1>2, <2>7, AnsweredMoves DEF Finish
  <2>8. CASE \E t \in Stamps(r) : SignIn(r, t)
    <3>0. PICK t \in Stamps(r) : SignIn(r, t)
      BY <2>8
    <3>1. PICK i \in Ids, elevated \in BOOLEAN :
            /\ session[i].st = "new" /\ req' = Done(r, [id |-> i, n |-> 1])
            /\ session' = [session EXCEPT ![i] =
                 [NoRow EXCEPT !.st = "row", !.token = 1, !.rotatedAt = now, !.lastSeen = now,
                               !.elevated = elevated,
                               !.expires = t + IF elevated THEN AdminAbsolute ELSE Absolute]]
      BY <3>0 DEF SignIn
    <3>2. session'[i].st = "row" /\ \A j \in Ids \ {i} : session'[j] = session[j]
      BY <1>0, <3>1 DEF TypeOK, NoRow
    <3>3. now' = now /\ floor' = floor
      BY <3>0 DEF SignIn
    <3>4. \A j \in Ids : RowMoves(j)
      BY <3>1, <3>2, <3>3 DEF RowMoves, OpenedRow, LeftRow
    <3> QED
      BY <1>0, <3>1, <3>3, <3>4, AnsweredMoves
  <2>9. CASE \E t \in Stamps(r) : StepUp(r, t)
    <3>0. PICK t \in Stamps(r) : StepUp(r, t)
      BY <2>9
    <3>1. /\ req[r].auth /\ session[Mine(r)] \in Row
          /\ RotateSession(r, ElevatedRow(session[Mine(r)], t), t)
      BY <1>0, <3>0, MineIsRow DEF StepUp, TypeOK, WellFormed
    <3>2. /\ ElevatedRow(session[Mine(r)], t) \in Row
          /\ ElevatedRow(session[Mine(r)], t).token = session[Mine(r)].token
          /\ ElevatedRow(session[Mine(r)], t).st = session[Mine(r)].st
      <4>1. t \in Nat /\ t + AdminAbsolute \in Nat
        BY <1>0, <3>0, StampIsTime
      <4> QED
        BY <1>0, <3>1, <4>1, WrittenRow DEF ElevatedRow, Row
    <3> QED
      BY <1>0, <3>1, <3>2, RotateSessionRaises
  <2>10. CASE \E t \in Stamps(r) : PasswordChanged(r, t)
    <3>0. PICK t \in Stamps(r) : PasswordChanged(r, t)
      BY <2>10
    <3>1. /\ req[r].auth /\ session[Mine(r)] \in Row
          /\ RotateSession(r, session[Mine(r)], t)
      BY <1>0, <3>0, MineIsRow DEF PasswordChanged, TypeOK, WellFormed
    <3> QED
      BY <1>0, <3>1, RotateSessionRaises
  <2>11. CASE ChangePassword(r)
    <3>1. PICK q : q = [req[r] EXCEPT !.at = "changed"]
      OBVIOUS
    <3>2. req' = [req EXCEPT ![r] = q] /\ q.at = "changed"
      BY <1>0, <2>11, <3>1 DEF ChangePassword, TypeOK, WellFormed, Request
    <3>3. \A p \in Requests : RequestMoves(p)
      BY <1>0, <3>2, StagedMoves
    <3> QED
      BY <1>0, <2>11, <3>3, RevokeLeaves DEF ChangePassword, RowMoves
  <2>12. CASE Logout(r)
    <3>1. \A i \in Ids : LeftRow(i)
      BY <1>0, <2>12, RevokeLeaves DEF Logout, LeftRow
    <3> QED
      BY <1>0, <2>12, <3>1, AnsweredMoves DEF Logout, RowMoves
  <2>13. CASE LogoutEverywhere(r)
    <3>1. \A i \in Ids : LeftRow(i)
      BY <1>0, <2>13, RevokeLeaves DEF LogoutEverywhere
    <3> QED
      BY <1>0, <2>13, <3>1, AnsweredMoves DEF LogoutEverywhere, RowMoves
  <2>14. CASE \E i \in Ids : RevokeOne(r, i)
    <3>1. PICK j \in Ids : RevokeOne(r, j)
      BY <2>14
    <3>2. \A i \in Ids : LeftRow(i)
      BY <1>0, <3>1, RevokeLeaves DEF RevokeOne
    <3> QED
      BY <1>0, <3>1, <3>2, AnsweredMoves DEF RevokeOne, RowMoves
  <2>15. CASE Receive(r) \/ Lose(r)
    <3>1. UNCHANGED <<now, session, floor>> /\ req' = [req EXCEPT ![r] = Free]
      BY <2>15 DEF Receive, Lose
    <3>2. \A q \in Requests : RequestMoves(q)
      BY <1>0, <3>1, StagedMoves DEF Free
    <3> QED
      BY <1>2, <3>1, <3>2
  <2> QED
    BY <1>4, <2>1, <2>2, <2>3, <2>4, <2>5, <2>6, <2>7, <2>8, <2>9, <2>10, <2>11, <2>12, <2>13, <2>14, <2>15 DEF Step
<1>5. CASE RevokeAllSessions
  <2>1. \A i \in Ids : LeftRow(i)
    BY <1>0, <1>5, RevokeLeaves DEF RevokeAllSessions
  <2> QED
    BY <1>5, <2>1 DEF RevokeAllSessions, RowMoves, RequestMoves
<1>6. CASE Prune
  <2>1. PICK gone : session' = [i \in Ids |-> IF i \in gone THEN [NoRow EXCEPT !.st = "gone"] ELSE session[i]]
    BY <1>6 DEF Prune
  <2>2. UNCHANGED <<now, req, floor>>
    BY <1>6 DEF Prune
  <2>3. \A i \in Ids : session'[i].st = "gone" \/ LeftRow(i)
    BY <2>1, <2>2 DEF NoRow, LeftRow
  <2> QED
    BY <2>2, <2>3 DEF RowMoves, RequestMoves
<1>7. CASE UNCHANGED vars
  BY <1>7, <1>2 DEF vars, RequestMoves
<1> QED
  BY <1>3, <1>4, <1>5, <1>6, <1>7 DEF Next

\* OvertakenRequestSurvives, for every set of rows, browsers and requests and
\* every choice of time-outs: a request that was sent with the current token
\* and is turned away at the second look-up was sent the grace period ago, less
\* the time a rotation's update takes, or the session is not usable any longer, or a privilege change replaced the
\* token (resolveSession, session.ts:111).
THEOREM OvertakenRequestSurvivesAlways == Spec => OvertakenRequestSurvives
<1> DEFINE Survives(r) ==
      (req[r].at = "grace" /\ req'[r].at = "handler" /\ req[r].fresh)
        => \/ now - req[r].sent >= Grace - Slow
           \/ ~Usable(Mine(r))
           \/ req[r].token.n < floor[Mine(r)]
<1>1. Init => OInv
  BY InvariantAtStart DEF Init, OInv, NoRow, Looking, Free
<1>2. OInv /\ [Next]_vars => [\A r \in Requests : Survives(r)]_vars
  <2> SUFFICES ASSUME OInv, Next, NEW r \in Requests, req[r].at = "grace", req'[r].at = "handler", req[r].fresh
               PROVE  Survives(r)
    OBVIOUS
  <2>1. /\ Overtaken(r) /\ session[Mine(r)] \in Row /\ req[r].sent \in Nat /\ now \in Nat /\ Grace \in Nat /\ Slow \in Nat
        /\ req \in [Requests -> WellFormed] /\ req[r].token.n \in Nat /\ floor[Mine(r)] \in Nat
    <3>1. req[r] \in WellFormed /\ req[r].token # None
      BY DEF OInv, IInv, TypeOK, WellFormed
    <3>2. Mine(r) \in Ids /\ req[r].token \in Token /\ session[Mine(r)] \in Row
      BY <3>1, MineIsRow DEF OInv, IInv
    <3> QED
      BY <3>1, <3>2, SessionAssumption DEF OInv, IInv, TypeOK, WellFormed, Request, Looking, Token
  <2> SUFFICES ASSUME now - req[r].sent < Grace - Slow, Usable(Mine(r)), req[r].token.n >= floor[Mine(r)]
               PROVE  FALSE
    BY <2>1
  <2>2. \A t \in Stamps(r) : ByGrace(session[Mine(r)], req[r].token.n, t)
    BY <2>1, StampIsTime DEF OInv, IInv, Overtaken, Usable, ByGrace, Row
  <2>3. ASSUME GraceLookup(r) PROVE FALSE
    <3>1. req'[r] = [req[r] EXCEPT !.at = "check", !.seen = session[Mine(r)], !.via = TRUE, !.asked = now,
                                   !.sent = 0, !.fresh = FALSE]
      BY <2>1, <2>2, <2>3 DEF GraceLookup
    <3>2. req'[r].at = "check"
      BY <2>1, <3>1 DEF WellFormed, Request
    <3> QED
      BY <3>2
  <2>4. ASSUME NEW q \in Requests, NEW new, req' = [req EXCEPT ![q] = new], q # r PROVE FALSE
    BY <2>1, <2>4
  <2>5. ASSUME NEW q \in Requests, Step(q) PROVE FALSE
    <3>1. q # r
      BY <2>3, <2>5 DEF Step, Lookup, Refuse, Rotate, RotationLost, Touch, Finish, SignIn, StepUp, ChangePassword,
                        PasswordChanged, Logout, LogoutEverywhere, RevokeOne, Receive, Lose
    <3>2. \E new : req' = [req EXCEPT ![q] = new]
      BY <2>5 DEF Step, Lookup, GraceLookup, Refuse, Rotate, RotationLost, Touch, Finish, SignIn, StepUp,
                  ChangePassword, PasswordChanged, Logout, LogoutEverywhere, RevokeOne, Receive, Lose,
                  RotateSession, Done, Accept
    <3> QED
      BY <2>4, <3>1, <3>2
  <2>6. ASSUME NEW q \in Requests, NEW b \in Browsers, Send(b, q) PROVE FALSE
    BY <2>1, <2>6 DEF Send
  <2>7. req' # req
    BY <2>1
  <2> QED
    BY <2>5, <2>6, <2>7 DEF Next, RevokeAllSessions, Prune, Tick
<1> QED
  BY <1>1, <1>2, OvertakenStep, PTL DEF Spec, OvertakenRequestSurvives
=============================================================================
