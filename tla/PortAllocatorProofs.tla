------------------------- MODULE PortAllocatorProofs -------------------------
(***************************************************************************)
(* What holds of PortAllocator for any titles, blocks and ranges, and any  *)
(* number of servers, requests and failures.                               *)
(***************************************************************************)
EXTENDS PortAllocator, TLAPS

Rows == [claim : 1 .. claims, port : Nat, server : Servers \cup {NoServer}]

Requests == [op : {"none", "create", "reallocate", "delete"}, pc : Pcs,
             server : Servers \cup {NoServer}, claim : Nat,
             old : SUBSET Nat, read : SUBSET Nat, base : Nat]

Histories == [abandoned : SUBSET Nat, disturbed : SUBSET (Servers \cup {NoServer})]

\* A request that is under way is about a server.
BusyHasServer == \A p \in Procs : procs[p].pc # "idle" => procs[p].server \in Servers

Shape == TypeOK /\ BusyHasServer

\* A window starts in the range it was searched in, and holds the block's ports.
LEMMA FreeBlockFacts ==
  ASSUME NEW g \in Games, NEW used, NEW base \in Eligible(used, g)
  PROVE  /\ base \in Nat
         /\ Block(base, g) \subseteq Nat
         /\ Block(base, g) \cap used = {}
<1>1. base \in Nat /\ Window(base, g) \cap used = {}
  BY PortsAssumption DEF Eligible, InBand, InNodeRange, FreeBlocks, Min2
<1>2. BlockSize(g) \in Nat /\ Span[g] <= BlockSize(g)
  BY PortsAssumption DEF BlockSize, Max2
<1>3. ASSUME NEW o \in Offsets[g]
      PROVE  base + o \in Nat /\ base + o \in Window(base, g)
  <2>1. o \in Nat /\ o < Span[g] /\ Span[g] \in Nat
    BY PortsAssumption, SpanAssumption
  <2> QED
    BY <1>1, <1>2, <2>1 DEF Window
<1> QED
  BY <1>1, <1>3 DEF Block

\* A request that goes on, with everything else it holds unchanged.
LEMMA Moving ==
  ASSUME Shape, NEW p \in Procs, NEW pc \in Pcs, procs[p].pc # "idle", GoTo(p, pc)
  PROVE  procs' \in [Procs -> Requests] /\ BusyHasServer'
  BY DEF Shape, TypeOK, BusyHasServer, GoTo, Requests

\* A request that ends.
LEMMA Ending ==
  ASSUME Shape, NEW p \in Procs, Finish(p)
  PROVE  procs' \in [Procs -> Requests] /\ BusyHasServer'
  BY DEF Shape, TypeOK, BusyHasServer, Finish, Requests, Idle, Pcs

\* A request that begins.
LEMMA Beginning ==
  ASSUME Shape, NEW p \in Procs, NEW h \in Requests, h.server \in Servers,
         procs' = [procs EXCEPT ![p] = h]
  PROVE  procs' \in [Procs -> Requests] /\ BusyHasServer'
  BY DEF Shape, TypeOK, BusyHasServer, Requests

\* Linking rows to a server leaves rows.
LEMMA LinkingKeepsRows ==
  ASSUME Shape, NEW p \in Procs, procs[p].server \in Servers, LinkRows(p)
  PROVE  rows' \subseteq Rows
<1>1. ASSUME NEW r \in Rows PROVE [r EXCEPT !.server = procs[p].server] \in Rows
  BY DEF Rows
<1> QED
  BY <1>1 DEF LinkRows, RowsIn, Shape, TypeOK, Rows

\* What is remembered of requests that end early or overlap.
LEMMA AbandonKeepsHistory ==
  ASSUME Shape, NEW ps \in SUBSET Procs, Abandon(ps)
  PROVE  history' \in Histories
<1> DEFINE a == history.abandoned \cup {procs[p].claim : p \in ps}
           d == history.disturbed \cup
                {procs[p].server : p \in {q \in ps : procs[q].pc \in {"relink", "rebase"}}}
<1>1. a \in SUBSET Nat
  BY DEF Shape, TypeOK
<1>2. d \in SUBSET (Servers \cup {NoServer})
  BY DEF Shape, TypeOK
<1>3. history' = [abandoned |-> a, disturbed |-> d]
  BY DEF Abandon
<1> HIDE DEF a, d
<1> QED
  BY <1>1, <1>2, <1>3 DEF Histories

\* What is remembered of a request that arrives.
LEMMA DisturbKeepsHistory ==
  ASSUME Shape, NEW s \in Servers, Disturb(s)
  PROVE  history' \in Histories
<1> DEFINE d == IF \E q \in Procs : procs[q].server = s
                  THEN history.disturbed \cup {s} ELSE history.disturbed
<1>1. d \in SUBSET (Servers \cup {NoServer})
  BY DEF Shape, TypeOK
<1>2. history' = [history EXCEPT !.disturbed = d]
  BY DEF Disturb
<1> HIDE DEF d
<1> QED
  BY <1>1, <1>2 DEF Histories, Shape, TypeOK

\* A committed allocation: rows of a claim nobody has had before.
LEMMA ClaimKeepsShape ==
  ASSUME Shape, NEW p \in Procs, Claim(p)
  PROVE  Shape'
<1> DEFINE s == procs[p].server
           g == GameOf[s]
<1>1. s \in Servers /\ g \in Games
  BY PortsAssumption DEF Claim, At, Shape, BusyHasServer
<1>2. PICK base \in Eligible(procs[p].read, g) :
        /\ rows' = rows \cup {[claim |-> claims + 1, port |-> port, server |-> NoServer] :
                                port \in Block(base, g)}
        /\ procs' = [procs EXCEPT ![p] = [@ EXCEPT
             !.claim = claims + 1,
             !.base = base,
             !.read = {},
             !.pc = AfterClaim(procs[p], base)]]
  BY DEF Claim
<1>3. base \in Nat /\ Block(base, g) \subseteq Nat
  BY <1>1, <1>2, FreeBlockFacts
<1>4. claims' = claims + 1 /\ claims \in Nat /\ claims' \in Nat
  BY DEF Claim, Shape, TypeOK
<1>5. rows' \subseteq Rows'
  BY <1>2, <1>3, <1>4 DEF Rows, Shape, TypeOK
<1>6. procs' \in [Procs -> Requests] /\ BusyHasServer'
  <2> DEFINE next == AfterClaim(procs[p], base)
             h1 == [procs[p] EXCEPT !.claim = claims + 1]
             h2 == [h1 EXCEPT !.base = base]
             h3 == [h2 EXCEPT !.read = {}]
             h4 == [h3 EXCEPT !.pc = next]
  <2>1. procs' = [procs EXCEPT ![p] = h4]
    BY <1>2
  <2>2. next \in Pcs
    BY DEF Pcs, AfterClaim
  <2> HIDE DEF next
  <2>3. h1 \in Requests /\ h1.server = s
    BY <1>4 DEF Shape, TypeOK, Requests
  <2> HIDE DEF h1
  <2>4. h2 \in Requests /\ h2.server = s
    BY <1>3, <2>3 DEF Requests
  <2> HIDE DEF h2
  <2>5. h3 \in Requests /\ h3.server = s
    BY <2>4 DEF Requests
  <2> HIDE DEF h3
  <2>6. h4 \in Requests /\ h4.server = s
    BY <2>2, <2>5 DEF Requests
  <2> HIDE DEF h4
  <2> QED
    BY <1>1, <2>1, <2>6, Beginning
<1> QED
  BY <1>4, <1>5, <1>6 DEF Claim, Shape, TypeOK, Rows, Requests

\* A server that is moved to another status.
LEMMA NewStatus ==
  ASSUME TypeOK, NEW s \in Servers, NEW status \in Statuses
  PROVE  [servers EXCEPT ![s].status = status] \in [Servers -> [status : Statuses, base : Nat]]
  BY DEF TypeOK

\* The other statements of a request.
LEMMA StepsKeepShape ==
  ASSUME Shape, NEW p \in Procs, Step(p), ~Claim(p)
  PROVE  Shape'
<1> USE DEF Shape
<1>0. TypeOK /\ BusyHasServer
  OBVIOUS
<1>1. CASE AcquireLock(p) \/ ReadExisting(p) \/ ReadTaken(p)
  <2>1. CASE AcquireLock(p)
    <3>1. procs' \in [Procs -> Requests] /\ BusyHasServer'
      BY <2>1, Moving DEF AcquireLock, At, Pcs
    <3> QED
      BY <2>1, <3>1 DEF AcquireLock, TypeOK, Requests
  <2>2. CASE ReadExisting(p)
    <3> DEFINE old == {r.claim : r \in RowsOf(procs[p].server)}
               h1 == [procs[p] EXCEPT !.old = old]
               h2 == [h1 EXCEPT !.pc = "lock"]
    <3>1. old \in SUBSET Nat
      BY DEF RowsOf, TypeOK
    <3>2. procs' = [procs EXCEPT ![p] = h2]
      BY <2>2 DEF ReadExisting
    <3> HIDE DEF old
    <3>3. h1 \in Requests /\ h1.server = procs[p].server
      BY <3>1 DEF TypeOK, Requests
    <3> HIDE DEF h1
    <3>4. h2 \in Requests /\ h2.server = procs[p].server
      BY <3>3 DEF Requests, Pcs
    <3> HIDE DEF h2
    <3>5. procs[p].server \in Servers
      BY <2>2 DEF ReadExisting, At, BusyHasServer
    <3>6. procs' \in [Procs -> Requests] /\ BusyHasServer'
      BY <3>2, <3>4, <3>5, Beginning
    <3> QED
      BY <2>2, <3>6 DEF ReadExisting, TypeOK, Requests
  <2>3. CASE ReadTaken(p)
    <3> DEFINE h1 == [procs[p] EXCEPT !.read = Ports]
               h2 == [h1 EXCEPT !.pc = "claim"]
    <3>1. Ports \in SUBSET Nat
      BY DEF Ports, TypeOK
    <3>2. procs' = [procs EXCEPT ![p] = h2]
      BY <2>3 DEF ReadTaken
    <3>3. h1 \in Requests /\ h1.server = procs[p].server
      BY <3>1 DEF TypeOK, Requests
    <3> HIDE DEF h1
    <3>4. h2 \in Requests /\ h2.server = procs[p].server
      BY <3>3 DEF Requests, Pcs
    <3> HIDE DEF h2
    <3>5. procs[p].server \in Servers
      BY <2>3 DEF ReadTaken, At, BusyHasServer
    <3>6. procs' \in [Procs -> Requests] /\ BusyHasServer'
      BY <3>2, <3>4, <3>5, Beginning
    <3> QED
      BY <2>3, <3>6 DEF ReadTaken, TypeOK, Requests
  <2> QED
    BY <1>1, <2>1, <2>2, <2>3
<1>2. CASE ClaimFails(p) \/ Undo(p) \/ DropNew(p) \/ ReallocateFails(p)
  <2>1. procs' \in [Procs -> Requests] /\ BusyHasServer'
    BY <1>2, Ending DEF ClaimFails, Undo, DropNew, ReallocateFails
  <2>2. rows' \subseteq rows /\ UNCHANGED <<servers, claims>>
    BY <1>2 DEF ClaimFails, Undo, DropNew, ReallocateFails
  <2>3. lock' \in Procs \cup {NoProc} /\ faults' \in Nat
    BY <1>2 DEF ClaimFails, Undo, DropNew, ReallocateFails, Fault, TypeOK
  <2>4. history' \in Histories
    BY <1>2, AbandonKeepsHistory
    DEF ClaimFails, Undo, DropNew, ReallocateFails, TypeOK, Histories
  <2> QED
    BY <2>1, <2>2, <2>3, <2>4 DEF TypeOK, Requests, Histories
<1>3. CASE InsertServer(p)
  <2>1. procs' \in [Procs -> Requests] /\ BusyHasServer'
    BY <1>3, Moving DEF InsertServer, At, Pcs
  <2>2. servers' \in [Servers -> [status : Statuses, base : Nat]]
    BY <1>3 DEF InsertServer, TypeOK, Statuses
  <2> QED
    BY <1>3, <2>1, <2>2 DEF InsertServer, Fault, TypeOK, Requests
<1>4. CASE Link(p)
  <2>1. procs' \in [Procs -> Requests] /\ BusyHasServer'
    BY <1>4, Ending DEF Link
  <2>2. rows' \subseteq Rows
    BY <1>4, LinkingKeepsRows DEF Link, At, BusyHasServer
  <2>3. servers' \in [Servers -> [status : Statuses, base : Nat]]
    <3> DEFINE s == procs[p].server
               status == IF servers[s].status = "creating" THEN "live" ELSE servers[s].status
    <3>1. s \in Servers /\ status \in Statuses
      BY <1>4 DEF Link, At, BusyHasServer, TypeOK, Statuses
    <3>2. servers' = [servers EXCEPT ![s].status = status]
      BY <1>4 DEF Link
    <3> HIDE DEF s, status
    <3> QED
      BY <3>1, <3>2, NewStatus
  <2> QED
    BY <1>4, <2>1, <2>2, <2>3 DEF Link, TypeOK, Requests, Rows
<1>5. CASE LinkFails(p)
  <2>1. procs' \in [Procs -> Requests] /\ BusyHasServer'
    BY <1>5, Moving DEF LinkFails, At, Pcs
  <2>2. rows' \subseteq Rows
    BY <1>5, LinkingKeepsRows DEF LinkFails, At, BusyHasServer, TypeOK, Rows
  <2> QED
    BY <1>5, <2>1, <2>2 DEF LinkFails, Fault, TypeOK, Requests, Rows
<1>6. CASE Relink(p)
  <2>1. procs' \in [Procs -> Requests] /\ BusyHasServer'
    BY <1>6, Moving DEF Relink, At, Pcs
  <2>2. rows' \subseteq Rows
    BY <1>6, LinkingKeepsRows DEF Relink, At, BusyHasServer
  <2> QED
    BY <1>6, <2>1, <2>2 DEF Relink, TypeOK, Requests, Rows
<1>7. CASE DropOld(p) \/ Release(p) \/ ReleaseFails(p)
  <2>1. procs' \in [Procs -> Requests] /\ BusyHasServer'
    BY <1>7, Moving DEF DropOld, Release, ReleaseFails, At, Pcs
  <2>2. rows' \subseteq rows /\ UNCHANGED <<servers, lock, claims>> /\ faults' \in Nat
    BY <1>7 DEF DropOld, Release, ReleaseFails, Fault, TypeOK
  <2>3. history' \in Histories
    <3>1. CASE UNCHANGED history
      BY <3>1 DEF TypeOK, Histories
    <3>2. CASE history' = [history EXCEPT !.disturbed = @ \cup {procs[p].server}]
      BY <3>2 DEF TypeOK, Histories
    <3> QED
      BY <1>7, <3>1, <3>2 DEF DropOld, Release, ReleaseFails
  <2> QED
    BY <2>1, <2>2, <2>3 DEF TypeOK, Requests, Histories
<1>8. CASE Rebase(p) \/ Hide(p)
  <2>1. procs' \in [Procs -> Requests] /\ BusyHasServer'
    BY <1>8, Ending DEF Rebase, Hide
  <2>2. servers' \in [Servers -> [status : Statuses, base : Nat]]
    BY <1>8 DEF Rebase, Hide, TypeOK, Statuses
  <2>3. UNCHANGED <<rows, lock, claims, faults, history>>
    BY <1>8 DEF Rebase, Hide
  <2> QED
    BY <2>1, <2>2, <2>3 DEF TypeOK, Requests
<1> QED
  BY <1>1, <1>2, <1>3, <1>4, <1>5, <1>6, <1>7, <1>8 DEF Step

\* Requests that arrive, and a crash of the API.
LEMMA ArrivalsKeepShape ==
  ASSUME Shape,
         \/ ApiCrash
         \/ \E p \in Procs, s \in Servers :
              BeginCreate(p, s) \/ BeginReallocate(p, s) \/ BeginDelete(p, s)
  PROVE  Shape'
<1> USE DEF Shape
<1>1. CASE ApiCrash
  <2>1. history' \in Histories
    BY <1>1, AbandonKeepsHistory DEF ApiCrash
  <2> QED
    BY <1>1, <2>1 DEF ApiCrash, Fault, TypeOK, BusyHasServer, Idle, Pcs, Histories
<1>2. ASSUME NEW p \in Procs, NEW s \in Servers, BeginCreate(p, s) PROVE Shape'
  <2> DEFINE h == [Idle EXCEPT !.op = "create", !.server = s, !.pc = "lock"]
  <2>1. h \in Requests /\ h.server = s /\ procs' = [procs EXCEPT ![p] = h]
    BY <1>2 DEF BeginCreate, Idle, Requests, Pcs
  <2> HIDE DEF h
  <2>2. procs' \in [Procs -> Requests] /\ BusyHasServer'
    BY <2>1, Beginning
  <2> QED
    BY <1>2, <2>2 DEF BeginCreate, TypeOK, Requests
<1>3. ASSUME NEW p \in Procs, NEW s \in Servers, BeginReallocate(p, s) PROVE Shape'
  <2> DEFINE h == [Idle EXCEPT !.op = "reallocate", !.server = s,
                               !.base = servers[s].base, !.pc = "existing"]
  <2>1. h \in Requests /\ h.server = s /\ procs' = [procs EXCEPT ![p] = h]
    BY <1>3 DEF BeginReallocate, Idle, Requests, Pcs, TypeOK
  <2> HIDE DEF h
  <2>2. procs' \in [Procs -> Requests] /\ BusyHasServer'
    BY <2>1, Beginning
  <2> QED
    BY <1>3, <2>2, DisturbKeepsHistory DEF BeginReallocate, TypeOK, Requests, Histories
<1>4. ASSUME NEW p \in Procs, NEW s \in Servers, BeginDelete(p, s) PROVE Shape'
  <2> DEFINE h == [Idle EXCEPT !.op = "delete", !.server = s, !.pc = "release"]
  <2>1. h \in Requests /\ h.server = s /\ procs' = [procs EXCEPT ![p] = h]
    BY <1>4 DEF BeginDelete, Idle, Requests, Pcs
  <2> HIDE DEF h
  <2>2. procs' \in [Procs -> Requests] /\ BusyHasServer'
    BY <2>1, Beginning
  <2>3. servers' \in [Servers -> [status : Statuses, base : Nat]]
    BY <1>4, NewStatus DEF BeginDelete, Statuses
  <2> QED
    BY <1>4, <2>2, <2>3, DisturbKeepsHistory DEF BeginDelete, TypeOK, Requests, Histories
<1> QED
  BY <1>1, <1>2, <1>3, <1>4

\* Every statement of the three handlers keeps the shape of the tables.
THEOREM ShapeCorrect == Spec => []Shape
<1>1. Init => Shape
  BY PortsAssumption DEF Init, Shape, TypeOK, BusyHasServer, Idle, Pcs, Statuses
<1>2. Shape /\ [Next]_vars => Shape'
  <2> SUFFICES ASSUME Shape, [Next]_vars PROVE Shape'
    OBVIOUS
  <2>1. CASE UNCHANGED vars
    BY <2>1 DEF vars, Shape, TypeOK, BusyHasServer
  <2>2. ASSUME NEW p \in Procs, Step(p) PROVE Shape'
    BY <2>2, ClaimKeepsShape, StepsKeepShape
  <2> QED
    BY <2>1, <2>2, ArrivalsKeepShape DEF Next
<1> QED
  BY <1>1, <1>2, PTL DEF Spec

\* The tables of the node, and the requests on them, keep their types.
THEOREM TypeCorrect == Spec => []TypeOK
<1>1. Shape => TypeOK
  BY DEF Shape
<1> QED
  BY <1>1, ShapeCorrect, PTL

(***************************************************************************)
(* No port is handed out twice                                             *)
(***************************************************************************)

\* A request between reading the ports and claiming some has the advisory lock.
LockHeld == \A p \in Procs : procs[p].pc \in {"read", "claim"} => lock = p

\* What it has read covers every port that is taken now: others may have given
\* ports up or linked them since, but none can have claimed any.
SeenAll == \A p \in Procs : At(p, "claim") => Ports \subseteq procs[p].read

Exclusive == LockHeld /\ SeenAll /\ PortsDisjoint

\* Giving rows up, and linking them, adds no port and splits none.
LEMMA LinkingKeepsPorts ==
  ASSUME Shape, NEW p \in Procs, LinkRows(p), PortsDisjoint
  PROVE  Ports' \subseteq Ports /\ PortsDisjoint'
<1> DEFINE image(r) == IF r \in RowsIn({procs[p].claim})
                         THEN [r EXCEPT !.server = procs[p].server] ELSE r
<1>1. ASSUME NEW r \in rows PROVE image(r).port = r.port
  BY DEF Shape, TypeOK
<1>2. rows' = {image(r) : r \in rows}
  <2>1. RowsIn({procs[p].claim}) \subseteq rows
    BY DEF RowsIn
  <2> QED
    BY <2>1 DEF LinkRows
<1> HIDE DEF image
<1>3. Ports' \subseteq Ports
  BY <1>1, <1>2 DEF Ports
<1>4. ASSUME NEW r1 \in rows', NEW r2 \in rows', r1.port = r2.port
      PROVE  r1 = r2
  <2>1. PICK q1 \in rows, q2 \in rows : r1 = image(q1) /\ r2 = image(q2)
    BY <1>2
  <2> QED
    BY <1>1, <1>4, <2>1 DEF PortsDisjoint
<1> QED
  BY <1>3, <1>4 DEF PortsDisjoint

\* A step of p after which the ports taken are among those taken before, and nobody
\* else is further than before.
LEMMA ExclusiveUntouched ==
  ASSUME Shape, Exclusive, Shape',
         Ports' \subseteq Ports, PortsDisjoint',
         \A q \in Procs : procs'[q].pc \in {"read", "claim"} =>
                            procs'[q] = procs[q] /\ (lock' = lock \/ lock' = q)
  PROVE  Exclusive'
  BY DEF Exclusive, LockHeld, SeenAll, At, Ports, PortsDisjoint

\* The block that is claimed is disjoint from every port that is taken.
LEMMA ClaimIsExclusive ==
  ASSUME Shape, Exclusive, NEW p \in Procs, Claim(p)
  PROVE  Exclusive'
<1> DEFINE g == GameOf[procs[p].server]
<1>1. g \in Games
  BY PortsAssumption DEF Claim, At, Shape, BusyHasServer
<1>2. PICK base \in Eligible(procs[p].read, g) :
        rows' = rows \cup {[claim |-> claims + 1, port |-> port, server |-> NoServer] :
                             port \in Block(base, g)}
  BY DEF Claim
<1>3. Block(base, g) \cap procs[p].read = {}
  BY <1>1, <1>2, FreeBlockFacts
<1>4. Ports \subseteq procs[p].read
  BY DEF Exclusive, SeenAll, Claim
<1>5. PortsDisjoint'
  <2> SUFFICES ASSUME NEW r1 \in rows', NEW r2 \in rows', r1.port = r2.port
               PROVE  r1 = r2
    BY DEF PortsDisjoint
  <2>1. \A r \in rows : r.port \notin Block(base, g)
    BY <1>3, <1>4 DEF Ports
  <2>2. \A r \in rows' : \/ r \in rows
                         \/ /\ r.port \in Block(base, g)
                            /\ r = [claim |-> claims + 1, port |-> r.port, server |-> NoServer]
    BY <1>2
  <2> QED
    BY <2>1, <2>2 DEF Exclusive, PortsDisjoint
<1>6. \A q \in Procs : procs'[q].pc \notin {"read", "claim"}
  <2>1. ASSUME NEW q \in Procs, q # p PROVE procs'[q].pc \notin {"read", "claim"}
    <3>1. procs'[q] = procs[q] /\ lock = p
      BY <2>1 DEF Claim, Exclusive, LockHeld, At, Shape, TypeOK
    <3> QED
      BY <2>1, <3>1 DEF Exclusive, LockHeld
  <2>2. procs'[p].pc \notin {"read", "claim"}
    <3> DEFINE next(b) == AfterClaim(procs[p], b)
    <3>1. PICK b : procs' = [procs EXCEPT ![p] = [@ EXCEPT !.claim = claims + 1,
                               !.base = b, !.read = {}, !.pc = next(b)]]
      BY DEF Claim
    <3>2. next(b) \notin {"read", "claim"}
      BY DEF AfterClaim
    <3> HIDE DEF next
    <3>3. procs'[p].pc = next(b)
      BY <3>1 DEF Shape, TypeOK
    <3> QED
      BY <3>2, <3>3
  <2> QED
    BY <2>1, <2>2
<1> QED
  BY <1>5, <1>6 DEF Exclusive, LockHeld, SeenAll, At

\* The other statements of a request.
LEMMA StepsKeepExclusive ==
  ASSUME Shape, Exclusive, NEW p \in Procs, Step(p), ~Claim(p), Shape'
  PROVE  Exclusive'
<1>1. CASE AcquireLock(p)
  <2>1. \A q \in Procs : procs[q].pc \notin {"read", "claim"}
    BY <1>1, PortsAssumption DEF AcquireLock, Exclusive, LockHeld
  <2>2. \A q \in Procs : procs'[q].pc = IF q = p THEN "read" ELSE procs[q].pc
    BY <1>1 DEF AcquireLock, GoTo, Shape, TypeOK
  <2> QED
    BY <1>1, <2>1, <2>2
    DEF AcquireLock, Exclusive, LockHeld, SeenAll, At, PortsDisjoint
<1>2. CASE ReadTaken(p)
  <2>1. \A q \in Procs : q # p => procs'[q] = procs[q]
    BY <1>2 DEF ReadTaken, Shape, TypeOK
  <2>2. procs'[p].read = Ports /\ lock = p
    BY <1>2 DEF ReadTaken, Exclusive, LockHeld, At, Shape, TypeOK
  <2>3. UNCHANGED <<rows, lock>>
    BY <1>2 DEF ReadTaken
  <2> QED
    BY <2>1, <2>2, <2>3 DEF Exclusive, LockHeld, SeenAll, At, PortsDisjoint, Ports
<1>3. CASE ClaimFails(p)
  <2>1. procs'[p].pc = "idle" /\ \A q \in Procs : q # p => procs'[q] = procs[q]
    BY <1>3 DEF ClaimFails, Finish, Idle, Shape, TypeOK
  <2>2. lock = p
    BY <1>3 DEF ClaimFails, Exclusive, LockHeld, At
  <2>3. \A q \in Procs : procs'[q].pc \notin {"read", "claim"}
    BY <2>1, <2>2 DEF Exclusive, LockHeld
  <2> QED
    BY <1>3, <2>3 DEF ClaimFails, Exclusive, LockHeld, SeenAll, At, PortsDisjoint
<1>4. CASE Link(p) \/ LinkFails(p) \/ Relink(p)
  <2>1. Ports' \subseteq Ports /\ PortsDisjoint'
    BY <1>4, LinkingKeepsPorts DEF Link, LinkFails, Relink, Exclusive, Ports, PortsDisjoint
  <2>2. /\ procs'[p].pc \notin {"read", "claim"}
        /\ \A q \in Procs : q # p => procs'[q] = procs[q]
        /\ UNCHANGED lock
    BY <1>4 DEF Link, LinkFails, Relink, GoTo, Finish, Idle, Shape, TypeOK
  <2> QED
    BY <2>1, <2>2, ExclusiveUntouched
<1>5. CASE \/ InsertServer(p) \/ Undo(p) \/ ReadExisting(p) \/ DropNew(p) \/ DropOld(p)
           \/ Rebase(p) \/ ReallocateFails(p) \/ Release(p) \/ ReleaseFails(p) \/ Hide(p)
  <2>1. rows' \subseteq rows
    BY <1>5 DEF InsertServer, Undo, ReadExisting, DropNew, DropOld, Rebase, ReallocateFails,
       Release, ReleaseFails, Hide
  <2>2. Ports' \subseteq Ports /\ PortsDisjoint'
    BY <2>1 DEF Exclusive, Ports, PortsDisjoint
  <2>3. /\ procs'[p].pc \notin {"read", "claim"}
        /\ \A q \in Procs : q # p => procs'[q] = procs[q]
        /\ UNCHANGED lock
    BY <1>5 DEF InsertServer, Undo, ReadExisting, DropNew, DropOld, Rebase, ReallocateFails,
       Release, ReleaseFails, Hide, GoTo, Finish, Idle, Shape, TypeOK
  <2> QED
    BY <2>2, <2>3, ExclusiveUntouched
<1> QED
  BY <1>1, <1>2, <1>3, <1>4, <1>5 DEF Step

\* allocatePorts under its advisory lock: no two reservations of a node share a port,
\* whatever titles, ranges and numbers of requests, through failures and restarts.
THEOREM PortsAreDisjoint == Spec => []PortsDisjoint
<1>1. Init => Exclusive
  BY DEF Init, Exclusive, LockHeld, SeenAll, PortsDisjoint, At, Idle
<1>2. Shape /\ Shape' /\ Exclusive /\ [Next]_vars => Exclusive'
  <2> SUFFICES ASSUME Shape, Shape', Exclusive, [Next]_vars PROVE Exclusive'
    OBVIOUS
  <2>1. CASE UNCHANGED vars
    BY <2>1 DEF vars, Exclusive, LockHeld, SeenAll, PortsDisjoint, At, Ports
  <2>2. ASSUME NEW p \in Procs, Step(p) PROVE Exclusive'
    BY <2>2, ClaimIsExclusive, StepsKeepExclusive
  <2>3. ASSUME NEW p \in Procs, NEW s \in Servers,
               BeginCreate(p, s) \/ BeginReallocate(p, s) \/ BeginDelete(p, s)
        PROVE  Exclusive'
    <3>1. /\ [Idle EXCEPT !.op = "create", !.server = s, !.pc = "lock"].pc = "lock"
          /\ [Idle EXCEPT !.op = "reallocate", !.server = s,
                          !.base = servers[s].base, !.pc = "existing"].pc = "existing"
          /\ [Idle EXCEPT !.op = "delete", !.server = s, !.pc = "release"].pc = "release"
      BY DEF Idle
    <3>2. PICK h : procs' = [procs EXCEPT ![p] = h] /\ h.pc \in {"lock", "existing", "release"}
      BY <2>3, <3>1, Zenon DEF BeginCreate, BeginReallocate, BeginDelete
    <3>3. /\ procs'[p].pc \notin {"read", "claim"}
          /\ \A q \in Procs : q # p => procs'[q] = procs[q]
      BY <3>2 DEF Shape, TypeOK
    <3>4. UNCHANGED <<rows, lock>>
      BY <2>3 DEF BeginCreate, BeginReallocate, BeginDelete
    <3> QED
      BY <3>3, <3>4, ExclusiveUntouched DEF Exclusive, PortsDisjoint, Ports
  <2>4. CASE ApiCrash
    BY <2>4 DEF ApiCrash, Idle, Exclusive, LockHeld, SeenAll, PortsDisjoint, At
  <2> QED
    BY <2>1, <2>2, <2>3, <2>4 DEF Next
<1>3. Exclusive => PortsDisjoint
  BY DEF Exclusive
<1> QED
  BY <1>1, <1>2, <1>3, ShapeCorrect, PTL DEF Spec
(***************************************************************************)
(* Blocks are kept: the requests, the claims and the rows of each server   *)
(***************************************************************************)

Requesting(s) == {p \in Procs : procs[p].server = s}
PortsOf(s) == {r.port : r \in RowsOf(s)}
PortsIn(c) == {r.port : r \in RowsIn({c})}

Unclaimed == {"idle", "existing", "lock", "read", "claim", "release", "hide"}
Allocating == {"lock", "read", "claim"}

\* A request is where its kind can be, and has a claim once it has made one.
Fits(h) ==
  /\ h.pc = "idle" => h = Idle
  /\ h.pc \in {"insert", "link", "undo"} => h.op = "create"
  /\ h.pc \in {"existing", "dropNew", "dropOld", "relink", "rebase"} => h.op = "reallocate"
  /\ h.pc \in {"release", "hide"} => h.op = "delete"
  /\ h.pc \in Allocating => h.op \in {"create", "reallocate"}
  /\ IF h.pc \in Unclaimed THEN h.claim = 0 ELSE h.claim \in 1 .. claims
OpsSound == \A p \in Procs : Fits(procs[p])

\* A claim is one request's, and its rows are one server's.
ClaimsSound ==
  /\ \A p, q \in Procs : procs[p].claim = procs[q].claim /\ procs[p].claim # 0 => p = q
  /\ \A r1, r2 \in rows : r1.claim = r2.claim => r1.server = r2.server
  /\ \A r \in rows, p \in Procs :
       procs[p].claim = r.claim /\ r.server # NoServer => r.server = procs[p].server

\* What a reallocation found on its server is nobody's own claim elsewhere, nor its own.
OldSound ==
  \A q \in Procs : \A c \in procs[q].old :
    /\ c \in 1 .. claims
    /\ \A p \in Procs : procs[p].claim = c => p # q /\ procs[p].server = procs[q].server
    /\ \A r \in RowsIn({c}) : r.server = procs[q].server

\* A row without a server has a holder, or lost it.
HeldOrAbandoned ==
  /\ \A r \in rows : r.server = NoServer =>
       r.claim \in history.abandoned \/ \E p \in Procs : procs[p].claim = r.claim
  /\ \A p \in Procs : At(p, "rebase") =>
       \A r \in RowsIn({procs[p].claim}) : r.server = procs[p].server

\* How far the one request on a server is, and what the server has by then.
Creating(p, s) ==
  /\ procs[p].op = "create" =>
       servers[s].status \in (CASE procs[p].pc = "link" -> {"creating"}
                                [] procs[p].pc = "undo" -> {"none", "creating"}
                                [] OTHER -> {"none"})
  /\ At(p, "link") => RowsOf(s) = {} /\ servers[s].base = procs[p].base
Reallocating(p, s) ==
  /\ procs[p].op = "reallocate" => servers[s].status = "live"
  /\ procs[p].op = "reallocate" /\ procs[p].pc \notin {"relink", "rebase"} =>
       PortsOf(s) = Block(servers[s].base, GameOf[s])
  /\ procs[p].op = "reallocate" /\ procs[p].pc \in Allocating \cup {"dropNew", "dropOld"} =>
       \A r \in RowsOf(s) : r.claim \in procs[p].old
  /\ At(p, "relink") => RowsOf(s) = {}
  /\ At(p, "rebase") => RowsOf(s) = RowsIn({procs[p].claim})
Deleting(p, s) ==
  /\ procs[p].op = "delete" => servers[s].status = "deleting"
  /\ At(p, "hide") => RowsOf(s) = {}
Claiming(p, s) ==
  procs[p].pc \in {"insert", "link", "dropOld", "relink", "rebase"} =>
    PortsIn(procs[p].claim) = Block(procs[p].base, GameOf[s])

Progress(s) ==
  \A p \in Requesting(s) :
    /\ Requesting(s) = {p}
    /\ Creating(p, s) /\ Reallocating(p, s) /\ Deleting(p, s) /\ Claiming(p, s)

Rest(s) ==
  /\ servers[s].status \in {"none", "deleted"} => RowsOf(s) = {}
  /\ servers[s].status = "live" /\ Requesting(s) = {} =>
       PortsOf(s) = Block(servers[s].base, GameOf[s])

ServersSound == \A s \in Servers \ history.disturbed : Progress(s) /\ Rest(s)

Keeping == OpsSound /\ ClaimsSound /\ OldSound /\ HeldOrAbandoned /\ ServersSound

\* A step that frees rows at most, and after which a request holds what it held or
\* holds nothing.
LEMMA ClaimsAndOldStay ==
  ASSUME Shape, Shape', ClaimsSound, OldSound, claims' = claims, rows' \subseteq rows,
         \A q \in Procs :
           \/ /\ procs'[q].claim = procs[q].claim /\ procs'[q].old = procs[q].old
              /\ procs'[q].server = procs[q].server
           \/ procs'[q].claim = 0 /\ procs'[q].old = {}
  PROVE  ClaimsSound' /\ OldSound'
<1>1. \A r \in rows : r.claim # 0
  BY DEF Shape, TypeOK
<1>2. ClaimsSound'
  BY <1>1 DEF ClaimsSound
<1>3. OldSound'
  <2> SUFFICES ASSUME NEW q \in Procs, NEW c \in procs'[q].old
               PROVE  /\ c \in 1 .. claims'
                      /\ \A p \in Procs : procs'[p].claim = c =>
                           p # q /\ procs'[p].server = procs'[q].server
                      /\ \A r \in RowsIn({c})' : r.server = procs'[q].server
    BY DEF OldSound
  <2>1. procs'[q].old = procs[q].old /\ procs'[q].server = procs[q].server
    OBVIOUS
  <2>2. c \in 1 .. claims /\ claims \in Nat
    BY <2>1 DEF OldSound, Shape, TypeOK
  <2>3. ASSUME NEW p \in Procs, procs'[p].claim = c
        PROVE  p # q /\ procs'[p].server = procs'[q].server
    <3>1. c # 0
      BY <2>2
    <3>2. procs[p].claim = c /\ procs'[p].server = procs[p].server
      BY <2>3, <3>1
    <3> QED
      BY <2>1, <3>2 DEF OldSound
  <2>4. RowsIn({c})' \subseteq RowsIn({c})
    BY DEF RowsIn
  <2> QED
    BY <2>1, <2>2, <2>3, <2>4 DEF OldSound
<1> QED
  BY <1>2, <1>3

\* The rows a request has claimed become its server's.
LEMMA Linked ==
  ASSUME Shape, NEW p \in Procs, LinkRows(p)
  PROVE  /\ \A r \in rows' : \E q \in rows :
              /\ r.claim = q.claim /\ r.port = q.port
              /\ IF q.claim = procs[p].claim THEN r.server = procs[p].server ELSE r = q
         /\ \A q \in rows : \E r \in rows' :
              /\ r.claim = q.claim /\ r.port = q.port
              /\ IF q.claim = procs[p].claim THEN r.server = procs[p].server ELSE r = q
<1> DEFINE image(q) == [q EXCEPT !.server = procs[p].server]
<1>1. ASSUME NEW q \in rows
      PROVE  /\ image(q).claim = q.claim /\ image(q).port = q.port
             /\ image(q).server = procs[p].server
  BY DEF Shape, TypeOK
<1>2. /\ \A r \in rows' : \/ r \in rows /\ r.claim # procs[p].claim
                          \/ \E q \in rows : q.claim = procs[p].claim /\ r = image(q)
      /\ \A q \in rows : q.claim # procs[p].claim => q \in rows'
      /\ \A q \in rows : q.claim = procs[p].claim => image(q) \in rows'
  BY DEF LinkRows, RowsIn
<1> HIDE DEF image
<1>3. ASSUME NEW r \in rows'
      PROVE  \E q \in rows : 
              /\ r.claim = q.claim /\ r.port = q.port
              /\ IF q.claim = procs[p].claim THEN r.server = procs[p].server ELSE r = q
  BY <1>1, <1>2
<1>4. ASSUME NEW q \in rows
      PROVE  \E r \in rows' : 
              /\ r.claim = q.claim /\ r.port = q.port
              /\ IF q.claim = procs[p].claim THEN r.server = procs[p].server ELSE r = q
  BY <1>1, <1>2
<1> QED
  BY <1>3, <1>4

\* Linking them keeps claims sound: only the claimant's rows change, and only to its server.
LEMMA LinkingKeepsClaims ==
  ASSUME Shape, Shape', ClaimsSound, OldSound, claims' = claims, NEW p \in Procs, LinkRows(p),
         procs[p].claim # 0,
         \A q \in Procs :
           \/ /\ procs'[q].claim = procs[q].claim /\ procs'[q].old = procs[q].old
              /\ procs'[q].server = procs[q].server
           \/ procs'[q].claim = 0 /\ procs'[q].old = {}
  PROVE  ClaimsSound' /\ OldSound'
<1>1. \A r \in rows' : \E q \in rows :
              /\ r.claim = q.claim
              /\ IF q.claim = procs[p].claim THEN r.server = procs[p].server ELSE r = q
  BY Linked
<1>2. \A r \in rows' : r.claim # 0
  BY DEF Shape, TypeOK
<1>3. \A r1, r2 \in rows' : r1.claim = r2.claim => r1.server = r2.server
  BY <1>1 DEF ClaimsSound
<1>4. ASSUME NEW r \in rows', NEW q \in Procs, procs'[q].claim = r.claim, r.server # NoServer
      PROVE  r.server = procs'[q].server
  <2>1. procs[q].claim = r.claim /\ procs'[q].server = procs[q].server
    BY <1>2, <1>4
  <2>2. CASE r.claim = procs[p].claim
    BY <1>1, <2>1, <2>2 DEF ClaimsSound
  <2>3. CASE r.claim # procs[p].claim
    BY <1>1, <1>4, <2>1, <2>3 DEF ClaimsSound
  <2> QED
    BY <2>2, <2>3
<1>5. ClaimsSound'
  BY <1>2, <1>3, <1>4 DEF ClaimsSound
<1>6. OldSound'
  <2> SUFFICES ASSUME NEW q \in Procs, NEW c \in procs'[q].old
               PROVE  /\ c \in 1 .. claims'
                      /\ \A x \in Procs : procs'[x].claim = c =>
                           x # q /\ procs'[x].server = procs'[q].server
                      /\ \A r \in RowsIn({c})' : r.server = procs'[q].server
    BY DEF OldSound
  <2>1. procs'[q].old = procs[q].old /\ procs'[q].server = procs[q].server
    OBVIOUS
  <2>2. c \in 1 .. claims /\ claims \in Nat
    BY <2>1 DEF OldSound, Shape, TypeOK
  <2>3. ASSUME NEW x \in Procs, procs'[x].claim = c
        PROVE  x # q /\ procs'[x].server = procs'[q].server
    <3>1. c # 0
      BY <2>2
    <3>2. procs[x].claim = c /\ procs'[x].server = procs[x].server
      BY <2>3, <3>1
    <3> QED
      BY <2>1, <3>2 DEF OldSound
  <2>4. ASSUME NEW r \in rows', r.claim = c PROVE r.server = procs'[q].server
    <3>1. PICK r0 \in rows :
              /\ r.claim = r0.claim
              /\ IF r0.claim = procs[p].claim THEN r.server = procs[p].server ELSE r = r0
      BY <1>1
    <3>2. r0.server = procs[q].server
      BY <2>1, <2>4, <3>1 DEF OldSound, RowsIn
    <3>3. procs[p].claim = c => procs[p].server = procs[q].server
      BY <2>1 DEF OldSound
    <3> QED
      BY <2>1, <2>4, <3>1, <3>2, <3>3
  <2> QED
    BY <2>2, <2>3, <2>4 DEF RowsIn
<1> QED
  BY <1>5, <1>6

\* The rows of a claim after a step.
RowsWith(c) == {r \in rows' : r.claim = c}

\* A server that a step is not about.
LEMMA ServerUntouched ==
  ASSUME NEW s \in Servers, Progress(s), Rest(s),
         servers'[s] = servers[s], RowsOf(s)' = RowsOf(s),
         \A q \in Procs : \/ procs'[q] = procs[q]
                          \/ procs[q].server # s /\ procs'[q].server # s,
         \A q \in Requesting(s) : procs[q].pc \notin Unclaimed =>
           RowsWith(procs[q].claim) = RowsIn({procs[q].claim})
  PROVE  Progress(s)' /\ Rest(s)'
<1>1. Requesting(s)' = Requesting(s) /\ \A q \in Requesting(s) : procs'[q] = procs[q]
  BY DEF Requesting
<1>2. PortsOf(s)' = PortsOf(s)
  BY DEF PortsOf
<1>3. Rest(s)'
  BY <1>1, <1>2 DEF Rest
<1>4. ASSUME NEW q \in Requesting(s)
      PROVE  Creating(q, s)' /\ Reallocating(q, s)' /\ Deleting(q, s)' /\ Claiming(q, s)'
  <2>1. procs'[q] = procs[q] /\ Creating(q, s) /\ Reallocating(q, s) /\ Deleting(q, s)
        /\ Claiming(q, s)
    BY <1>1 DEF Progress
  <2>2. Creating(q, s)'
    BY <2>1 DEF Creating, At
  <2>3. Reallocating(q, s)'
    <3>1. At(q, "rebase") => RowsIn({procs[q].claim})' = RowsIn({procs[q].claim})
      BY <2>1 DEF At, Unclaimed, RowsIn, RowsWith
    <3> QED
      BY <1>2, <2>1, <3>1 DEF Reallocating, At, Allocating, Unclaimed
  <2>4. Deleting(q, s)'
    BY <2>1 DEF Deleting, At
  <2>5. Claiming(q, s)'
    <3>1. procs[q].pc \in {"insert", "link", "dropOld", "relink", "rebase"} =>
            procs[q].pc \notin Unclaimed
      BY DEF Unclaimed
    <3>2. Claiming(q, s)' <=>
            (procs[q].pc \in {"insert", "link", "dropOld", "relink", "rebase"} =>
               {r.port : r \in RowsWith(procs[q].claim)} = Block(procs[q].base, GameOf[s]))
      BY <2>1 DEF Claiming, PortsIn, RowsIn, RowsWith
    <3> QED
      BY <2>1, <3>1, <3>2 DEF Claiming, PortsIn
  <2> QED
    BY <2>2, <2>3, <2>4, <2>5
<1> QED
  BY <1>1, <1>3, <1>4 DEF Progress

\* The rows a request's own statement can change are not those of another server.
RowsChange(p) ==
  \/ UNCHANGED rows
  \/ LinkRows(p) /\ procs[p].claim # 0
  \/ rows' = rows \ RowsIn({procs[p].claim}) /\ procs[p].claim # 0
  \/ rows' = rows \ RowsIn(procs[p].old)
  \/ rows' = rows \ RowsOf(procs[p].server)
  \/ \E ports \in SUBSET Nat :
       rows' = rows \cup {[claim |-> claims + 1, port |-> port, server |-> NoServer] : port \in ports}

\* What a request does to its rows leaves the rows of every other server, and the
\* blocks claimed by the requests on it.
LEMMA RowsElsewhere ==
  ASSUME Shape, OpsSound, ClaimsSound, OldSound, NEW p \in Procs, procs[p].server \in Servers,
         RowsChange(p), NEW s \in Servers, s # procs[p].server
  PROVE  /\ RowsOf(s)' = RowsOf(s)
         /\ \A q \in Requesting(s) : procs[q].pc \notin Unclaimed =>
              RowsWith(procs[q].claim) = RowsIn({procs[q].claim})
<1> DEFINE t == procs[p].server
<1>0. s # NoServer /\ t # NoServer
  BY PortsAssumption
<1>1. ASSUME NEW q \in Requesting(s), procs[q].pc \notin Unclaimed
      PROVE  procs[q].server = s /\ procs[q].claim \in 1 .. claims
  BY <1>1 DEF OpsSound, Fits, Requesting
<1>2. CASE UNCHANGED rows
  BY <1>2 DEF RowsOf, RowsIn, RowsWith
<1>3. CASE LinkRows(p) /\ procs[p].claim # 0
  <2>1. \A r \in rows : r.claim = procs[p].claim => r.server # s
    BY <1>0 DEF ClaimsSound
  <2>2. \A r \in rows' : r.claim = procs[p].claim => r.server = t
    BY <1>3, Linked
  <2>3. \A r : r.claim # procs[p].claim => (r \in rows <=> r \in rows')
    <3>1. \A r \in rows : r.claim # procs[p].claim => r \in rows'
      BY <1>3 DEF LinkRows, RowsIn
    <3>2. \A r \in rows' : r.claim # procs[p].claim => r \in rows
      BY <1>3, Linked
    <3> QED
      BY <3>1, <3>2
  <2>4. RowsOf(s)' = RowsOf(s)
    BY <2>1, <2>2, <2>3 DEF RowsOf
  <2>5. ASSUME NEW q \in Requesting(s), procs[q].pc \notin Unclaimed
        PROVE  RowsWith(procs[q].claim) = RowsIn({procs[q].claim})
    <3>1. procs[q].claim # procs[p].claim
      BY <1>1, <1>3, <2>5 DEF ClaimsSound, Requesting
    <3>2. {r \in rows' : r.claim = procs[q].claim} = {r \in rows : r.claim = procs[q].claim}
      BY <2>3, <3>1
    <3> QED
      BY <3>2 DEF RowsIn, RowsWith
  <2> QED
    BY <2>4, <2>5
<1>4. CASE rows' = rows \ RowsIn({procs[p].claim}) /\ procs[p].claim # 0
  <2>1. \A r \in rows : r.claim = procs[p].claim => r.server # s
    BY <1>0 DEF ClaimsSound
  <2>2. RowsOf(s)' = RowsOf(s)
    BY <1>4, <2>1 DEF RowsOf, RowsIn
  <2> QED
    BY <1>1, <1>4, <2>2 DEF ClaimsSound, RowsIn, RowsWith, Requesting
<1>5. CASE rows' = rows \ RowsIn(procs[p].old)
  <2>1. RowsOf(s)' = RowsOf(s)
    BY <1>5 DEF RowsOf, RowsIn, OldSound
  <2>2. \A q \in Requesting(s) : procs[q].claim \notin procs[p].old
    BY DEF OldSound, Requesting
  <2> QED
    BY <1>5, <2>1, <2>2 DEF RowsIn, RowsWith
<1>6. CASE rows' = rows \ RowsOf(t)
  <2>1. RowsOf(s)' = RowsOf(s)
    BY <1>6 DEF RowsOf
  <2>2. ASSUME NEW q \in Requesting(s), NEW r \in rows, r.claim = procs[q].claim
        PROVE  r.server # t
    BY <1>0, <2>2 DEF ClaimsSound, Requesting
  <2> QED
    BY <1>6, <2>1, <2>2 DEF RowsIn, RowsOf, RowsWith
<1>7. ASSUME NEW ports \in SUBSET Nat,
             rows' = rows \cup {[claim |-> claims + 1, port |-> port, server |-> NoServer] :
                                  port \in ports}
      PROVE  /\ RowsOf(s)' = RowsOf(s)
             /\ \A q \in Requesting(s) : procs[q].pc \notin Unclaimed =>
                  RowsWith(procs[q].claim) = RowsIn({procs[q].claim})
  <2>1. RowsOf(s)' = RowsOf(s)
    BY <1>0, <1>7 DEF RowsOf
  <2>2. claims \in Nat
    BY DEF Shape, TypeOK
  <2>3. ASSUME NEW q \in Requesting(s), procs[q].pc \notin Unclaimed
        PROVE  RowsWith(procs[q].claim) = RowsIn({procs[q].claim})
    <3>1. procs[q].claim # claims + 1
      BY <1>1, <2>2, <2>3
    <3> QED
      BY <1>7, <3>1 DEF RowsIn, RowsWith
  <2> QED
    BY <2>1, <2>3
<1> QED
  BY <1>2, <1>3, <1>4, <1>5, <1>6, <1>7 DEF RowsChange

\* A statement of a request disturbs no server but its own.
LEMMA OwnServerOnly ==
  ASSUME Shape, Keeping, NEW p \in Procs, NEW t \in Servers, procs[p].server = t,
         RowsChange(p), history.disturbed \subseteq history'.disturbed,
         \A s \in Servers \ {t} : servers'[s] = servers[s],
         \A q \in Procs \ {p} : procs'[q] = procs[q],
         procs'[p].server \in {t, NoServer},
         t \notin history'.disturbed =>
           Progress(t)' /\ Rest(t)'
  PROVE  ServersSound'
<1> SUFFICES ASSUME NEW s \in Servers, s \notin history'.disturbed
             PROVE  Progress(s)' /\ Rest(s)'
  BY DEF ServersSound
<1>1. CASE s = t
  BY <1>1
<1>2. CASE s # t
  <2>1. Progress(s) /\ Rest(s)
    BY DEF Keeping, ServersSound
  <2>2. /\ RowsOf(s)' = RowsOf(s)
        /\ \A q \in Requesting(s) : procs[q].pc \notin Unclaimed =>
             RowsWith(procs[q].claim) = RowsIn({procs[q].claim})
    BY <1>2, RowsElsewhere DEF Keeping
  <2>3. \A q \in Procs : \/ procs'[q] = procs[q]
                         \/ procs[q].server # s /\ procs'[q].server # s
    BY <1>2, PortsAssumption
  <2>4. servers'[s] = servers[s]
    BY <1>2
  <2> QED
    BY <2>1, <2>2, <2>3, <2>4, ServerUntouched
<1> QED
  BY <1>1, <1>2

\* A request alone on its server that goes on, or ends.
LEMMA GoingOn ==
  ASSUME Shape, NEW p \in Procs, NEW pc \in Pcs, GoTo(p, pc)
  PROVE  /\ \A q \in Procs \ {p} : procs'[q] = procs[q]
         /\ procs'[p].pc = pc
         /\ procs'[p].op = procs[p].op /\ procs'[p].server = procs[p].server
         /\ procs'[p].claim = procs[p].claim /\ procs'[p].old = procs[p].old
         /\ procs'[p].read = procs[p].read /\ procs'[p].base = procs[p].base
         /\ \A s : Requesting(s)' = Requesting(s)
<1>1. /\ \A q \in Procs \ {p} : procs'[q] = procs[q]
      /\ procs'[p].pc = pc
      /\ procs'[p].op = procs[p].op /\ procs'[p].server = procs[p].server
      /\ procs'[p].claim = procs[p].claim /\ procs'[p].old = procs[p].old
      /\ procs'[p].read = procs[p].read /\ procs'[p].base = procs[p].base
  BY DEF Shape, TypeOK, GoTo
<1> QED
  BY <1>1 DEF Requesting

\* A request that ends leaves its server to the others.
LEMMA Ended ==
  ASSUME Shape, NEW p \in Procs, Finish(p)
  PROVE  /\ \A q \in Procs \ {p} : procs'[q] = procs[q]
         /\ procs'[p] = Idle
         /\ \A s \in Servers : Requesting(s)' = Requesting(s) \ {p}
<1>1. procs'[p] = Idle /\ \A q \in Procs \ {p} : procs'[q] = procs[q]
  BY DEF Shape, TypeOK, Finish
<1>2. Idle.server = NoServer
  BY DEF Idle
<1>3. ASSUME NEW s \in Servers PROVE Requesting(s)' = Requesting(s) \ {p}
  BY <1>1, <1>2, PortsAssumption DEF Requesting
<1> QED
  BY <1>1, <1>3

\* What is known of a request and of its server, when no other disturbs them.
LEMMA Alone ==
  ASSUME Keeping, NEW p \in Procs, NEW s \in Servers, procs[p].server = s,
         s \notin history.disturbed
  PROVE  /\ Requesting(s) = {p}
         /\ Creating(p, s) /\ Reallocating(p, s) /\ Deleting(p, s) /\ Claiming(p, s)
         /\ Rest(s)
  BY DEF Keeping, ServersSound, Progress, Requesting

\* Once the one request on a server has ended, only what the server has at rest matters.
LEMMA EndsSound ==
  ASSUME Keeping, Shape, NEW p \in Procs, NEW s \in Servers, procs[p].server = s,
         s \notin history.disturbed, Finish(p), Rest(s)'
  PROVE  Progress(s)' /\ Rest(s)'
<1>1. Requesting(s)' = {}
  BY Alone, Ended
<1> QED
  BY <1>1 DEF Progress

\* The other requests are as they were, and p fits.
LEMMA OpsStay ==
  ASSUME Shape, Shape', OpsSound, NEW p \in Procs, \A q \in Procs \ {p} : procs'[q] = procs[q],
         claims' \in {claims, claims + 1}, Fits(procs[p])'
  PROVE  OpsSound'
<1>1. claims \in Nat
  BY DEF Shape, TypeOK
<1>2. ASSUME NEW q \in Procs, q # p PROVE Fits(procs[q])'
  BY <1>1, <1>2 DEF OpsSound, Fits, Unclaimed, Allocating
<1> QED
  BY <1>2 DEF OpsSound

\* A slot without a request fits.
LEMMA IdleFits == Fits(Idle) /\ Fits(Idle)'
  BY DEF Fits, Idle, Unclaimed, Allocating

\* Rows without a server stay held.
LEMMA StillHeld ==
  ASSUME Shape, OpsSound, ClaimsSound, HeldOrAbandoned, NEW p \in Procs,
         \A r \in rows' : \/ r \in rows
                          \/ /\ r.claim = procs[p].claim /\ r.server = procs[p].server
                             /\ r.server # NoServer,
         history.abandoned \subseteq history'.abandoned,
         \A q \in Procs \ {p} : procs'[q] = procs[q],
         \/ procs'[p].claim = procs[p].claim
         \/ procs[p].claim = 0
         \/ procs[p].claim \in history'.abandoned
         \/ \A r \in rows' : r.claim = procs[p].claim => r.server # NoServer,
         procs'[p].pc = "rebase" =>
           /\ procs'[p].claim = procs[p].claim /\ procs'[p].server = procs[p].server
           /\ \A r \in rows' : r.claim = procs[p].claim => r.server = procs[p].server
  PROVE  HeldOrAbandoned'
<1>1. ASSUME NEW r \in rows', r.server = NoServer
      PROVE  r.claim \in history'.abandoned \/ \E q \in Procs : procs'[q].claim = r.claim
  <2>1. r \in rows /\ r.claim # 0
    BY <1>1 DEF Shape, TypeOK
  <2>2. CASE r.claim \in history.abandoned
    BY <2>2
  <2>3. ASSUME NEW q \in Procs, procs[q].claim = r.claim
        PROVE  r.claim \in history'.abandoned \/ \E x \in Procs : procs'[x].claim = r.claim
    BY <1>1, <2>1, <2>3 DEF RowsIn
  <2> QED
    BY <1>1, <2>1, <2>2, <2>3 DEF HeldOrAbandoned
<1>2. ASSUME NEW q \in Procs, At(q, "rebase")', NEW r \in RowsIn({procs[q].claim})'
      PROVE  r.server = procs'[q].server
  <2>1. r \in rows' /\ r.claim = procs'[q].claim
    BY <1>2 DEF RowsIn
  <2>2. CASE q = p
    BY <1>2, <2>1, <2>2 DEF At
  <2>3. CASE q # p
    <3>1. procs'[q] = procs[q] /\ At(q, "rebase")
      BY <1>2, <2>3 DEF At
    <3>2. procs[q].claim # procs[p].claim
      BY <2>3, <3>1 DEF OpsSound, Fits, ClaimsSound, At, Unclaimed
    <3>3. r \in RowsIn({procs[q].claim})
      BY <2>1, <3>1, <3>2 DEF RowsIn
    <3> QED
      BY <3>1, <3>3 DEF HeldOrAbandoned
  <2> QED
    BY <2>2, <2>3
<1> QED
  BY <1>1, <1>2 DEF HeldOrAbandoned

\* A request goes on alone on its server.
LEMMA GoesSound ==
  ASSUME Keeping, Shape, NEW p \in Procs, NEW s \in Servers, procs[p].server = s,
         s \notin history.disturbed, Requesting(s)' = Requesting(s),
         Creating(p, s)', Reallocating(p, s)', Deleting(p, s)', Claiming(p, s)',
         servers'[s].status \in {"none", "deleted"} => RowsOf(s)' = {}
  PROVE  Progress(s)' /\ Rest(s)'
<1>1. Requesting(s)' = {p}
  BY Alone
<1> QED
  BY <1>1 DEF Progress, Rest

\* The statements that only read, or wait for the lock.
LEMMA ReadingKeeps ==
  ASSUME Shape, Shape', Keeping, NEW p \in Procs, NEW t \in Servers, procs[p].server = t,
         AcquireLock(p) \/ ReadTaken(p) \/ ReadExisting(p)
  PROVE  Keeping'
<1>1. /\ \A q \in Procs \ {p} : procs'[q] = procs[q]
      /\ procs'[p].op = procs[p].op /\ procs'[p].server = procs[p].server
      /\ procs'[p].claim = procs[p].claim /\ procs'[p].base = procs[p].base
      /\ \/ At(p, "existing") /\ At(p, "lock")' /\ procs'[p].old = {r.claim : r \in RowsOf(t)}
         \/ At(p, "lock") /\ At(p, "read")' /\ procs'[p].old = procs[p].old
         \/ At(p, "read") /\ At(p, "claim")' /\ procs'[p].old = procs[p].old
      /\ UNCHANGED <<rows, servers, claims, history>>
  BY DEF AcquireLock, ReadTaken, ReadExisting, GoTo, At, Shape, TypeOK
<1>2. Fits(procs[p]) /\ procs[p].claim = 0 /\ procs'[p].claim = 0
  BY <1>1 DEF Keeping, OpsSound, Fits, At, Unclaimed
<1>3. OpsSound'
  <2>1. Fits(procs[p])'
    BY <1>1, <1>2 DEF Fits, At, Unclaimed, Allocating
  <2> QED
    BY <1>1, <2>1, OpsStay DEF Keeping
<1>4. ClaimsSound' /\ OldSound'
  <2>1. ClaimsSound'
    BY <1>1 DEF Keeping, ClaimsSound
  <2>2. CASE procs'[p].old = procs[p].old
    <3>1. rows' \subseteq rows
      BY <1>1
    <3> QED
      BY <1>1, <2>2, <3>1, ClaimsAndOldStay DEF Keeping
  <2>3. CASE At(p, "existing") /\ procs'[p].old = {r.claim : r \in RowsOf(t)}
    <3>1. ASSUME NEW r \in RowsOf(t)
          PROVE  /\ r.claim \in 1 .. claims /\ r.claim # 0
                 /\ r.server = t /\ r \in rows /\ t # NoServer
      BY PortsAssumption DEF RowsOf, Shape, TypeOK
    <3>2. ASSUME NEW r \in RowsOf(t), NEW x \in Procs, procs'[x].claim = r.claim
          PROVE  x # p /\ procs'[x].server = procs'[p].server
      <4>1. procs[x].claim = r.claim /\ procs'[x].server = procs[x].server /\ x # p
        BY <1>1, <1>2, <3>1, <3>2
      <4> QED
        BY <1>1, <3>1, <4>1 DEF Keeping, ClaimsSound
    <3>3. ASSUME NEW r \in RowsOf(t), NEW r2 \in rows, r2.claim = r.claim
          PROVE  r2.server = procs'[p].server
      BY <1>1, <3>1, <3>3 DEF Keeping, ClaimsSound
    <3>4. ASSUME NEW q \in Procs \ {p}, NEW c \in procs'[q].old
          PROVE  /\ c \in 1 .. claims'
                 /\ \A x \in Procs : procs'[x].claim = c =>
                      x # q /\ procs'[x].server = procs'[q].server
                 /\ \A r \in RowsIn({c})' : r.server = procs'[q].server
      BY <1>1, <3>4 DEF Keeping, OldSound, RowsIn
    <3>5. ASSUME NEW c \in procs'[p].old
          PROVE  /\ c \in 1 .. claims'
                 /\ \A x \in Procs : procs'[x].claim = c =>
                      x # p /\ procs'[x].server = procs'[p].server
                 /\ \A r \in RowsIn({c})' : r.server = procs'[p].server
      <4>1. PICK r \in RowsOf(t) : c = r.claim
        BY <2>3
      <4>2. c \in 1 .. claims'
        BY <1>1, <3>1, <4>1
      <4>3. \A r2 \in RowsIn({c})' : r2.server = procs'[p].server
        BY <1>1, <3>3, <4>1 DEF RowsIn
      <4> QED
        BY <3>2, <4>1, <4>2, <4>3
    <3> SUFFICES ASSUME NEW q \in Procs, NEW c \in procs'[q].old
                 PROVE  /\ c \in 1 .. claims'
                        /\ \A x \in Procs : procs'[x].claim = c =>
                             x # q /\ procs'[x].server = procs'[q].server
                        /\ \A r \in RowsIn({c})' : r.server = procs'[q].server
      BY <2>1 DEF OldSound
    <3>6. CASE q = p
      BY <3>5, <3>6
    <3>7. CASE q # p
      BY <3>4, <3>7
    <3> QED
      BY <3>6, <3>7
  <2> QED
    BY <1>1, <2>1, <2>2, <2>3
<1>5. HeldOrAbandoned'
  <2>1. procs'[p].pc # "rebase"
    BY <1>1 DEF At
  <2> QED
    BY <1>1, <2>1, StillHeld DEF Keeping
<1>6. ServersSound'
  <2>1. ASSUME t \notin history.disturbed
        PROVE  Progress(t)' /\ Rest(t)'
    <3>1. /\ Creating(p, t) /\ Reallocating(p, t) /\ Deleting(p, t) /\ Rest(t)
          /\ Requesting(t)' = Requesting(t)
      BY <1>1, <2>1, Alone DEF Requesting
    <3>2. RowsOf(t)' = RowsOf(t) /\ servers'[t] = servers[t] /\ PortsOf(t)' = PortsOf(t)
      BY <1>1 DEF RowsOf, PortsOf
    <3>3. Creating(p, t)'
      BY <1>1, <3>1, <3>2 DEF Creating, At
    <3>4. Reallocating(p, t)'
      BY <1>1, <3>1, <3>2 DEF Reallocating, At, Allocating
    <3>5. Deleting(p, t)' /\ Claiming(p, t)'
      BY <1>1, <3>1, <3>2 DEF Deleting, Claiming, At
    <3>6. servers'[t].status \in {"none", "deleted"} => RowsOf(t)' = {}
      BY <3>1, <3>2 DEF Rest
    <3> QED
      BY <2>1, <3>1, <3>3, <3>4, <3>5, <3>6, GoesSound
  <2>2. RowsChange(p)
    BY <1>1 DEF RowsChange
  <2> QED
    BY <1>1, <2>1, <2>2, OwnServerOnly
<1> QED
  BY <1>3, <1>4, <1>5, <1>6 DEF Keeping

\* A committed allocation.
LEMMA ClaimKeeps ==
  ASSUME Shape, Shape', Keeping, NEW p \in Procs, NEW t \in Servers, procs[p].server = t,
         Claim(p)
  PROVE  Keeping'
<1>0. GameOf[t] \in Games
  BY PortsAssumption
<1>1. PICK base \in Eligible(procs[p].read, GameOf[t]) :
        /\ rows' = rows \cup {[claim |-> claims + 1, port |-> port, server |-> NoServer] :
                                port \in Block(base, GameOf[t])}
        /\ procs' = [procs EXCEPT ![p] = [@ EXCEPT
             !.claim = claims + 1,
             !.base = base,
             !.read = {},
             !.pc = AfterClaim(procs[p], base)]]
  BY DEF Claim
<1>2. base \in Nat /\ Block(base, GameOf[t]) \subseteq Nat
  BY <1>0, <1>1, FreeBlockFacts
<1>3. /\ claims' = claims + 1 /\ claims \in Nat /\ UNCHANGED <<servers, history>>
      /\ At(p, "claim")
  BY DEF Claim, Shape, TypeOK
<1>4. Fits(procs[p]) /\ procs[p].claim = 0 /\ procs[p].op \in {"create", "reallocate"}
  BY <1>3 DEF Keeping, OpsSound, Fits, At, Unclaimed, Allocating
<1>5. /\ \A q \in Procs \ {p} : procs'[q] = procs[q]
      /\ procs'[p].op = procs[p].op /\ procs'[p].server = procs[p].server
      /\ procs'[p].claim = claims + 1 /\ procs'[p].base = base
      /\ procs'[p].old = procs[p].old
      /\ procs[p].op = "create" => procs'[p].pc = "insert"
      /\ procs[p].op = "reallocate" => procs'[p].pc \in {"dropNew", "dropOld"}
  <2> DEFINE next == AfterClaim(procs[p], base)
  <2>1. /\ procs[p].op = "create" => next = "insert"
        /\ procs[p].op = "reallocate" => next \in {"dropNew", "dropOld"}
    BY DEF AfterClaim
  <2>2. procs' = [procs EXCEPT ![p] = [@ EXCEPT !.claim = claims + 1, !.base = base,
                                         !.read = {}, !.pc = next]]
    BY <1>1
  <2> HIDE DEF next
  <2> QED
    BY <2>1, <2>2 DEF Shape, TypeOK
<1>6. /\ \A r \in rows : r.claim \in 1 .. claims
      /\ \A r \in rows' : r \in rows \/ (r.claim = claims + 1 /\ r.server = NoServer)
      /\ \A q \in Procs : procs[q].claim \in 0 .. claims
  <2>1. ASSUME NEW q \in Procs PROVE procs[q].claim \in 0 .. claims
    BY <1>3 DEF Keeping, OpsSound, Fits
  <2>0. rows' = rows \cup {[claim |-> claims + 1, port |-> port, server |-> NoServer] :
                             port \in Block(base, GameOf[t])}
    BY <1>1
  <2> DEFINE row(port) == [claim |-> claims + 1, port |-> port, server |-> NoServer]
  <2>a. \A port : row(port).claim = claims + 1 /\ row(port).server = NoServer
    OBVIOUS
  <2>b. rows' = rows \cup {row(port) : port \in Block(base, GameOf[t])}
    BY <2>0
  <2> HIDE DEF row
  <2>2. \A r \in rows' : r \in rows \/ (r.claim = claims + 1 /\ r.server = NoServer)
    BY <2>a, <2>b
  <2>3. \A r \in rows : r.claim \in 1 .. claims
    BY DEF Shape, TypeOK
  <2> QED
    BY <2>1, <2>2, <2>3
<1>7. OpsSound'
  <2>1. Fits(procs[p])'
    BY <1>3, <1>4, <1>5 DEF Fits, Unclaimed, Allocating
  <2> QED
    BY <1>3, <1>5, <2>1, OpsStay DEF Keeping
<1>8. ClaimsSound'
  <2>1. \A x, y \in Procs : procs'[x].claim = procs'[y].claim /\ procs'[x].claim # 0 => x = y
    BY <1>3, <1>5, <1>6 DEF Keeping, ClaimsSound
  <2>2. \A r1, r2 \in rows' : r1.claim = r2.claim => r1.server = r2.server
    BY <1>3, <1>6 DEF Keeping, ClaimsSound
  <2>3. ASSUME NEW r \in rows', NEW x \in Procs, procs'[x].claim = r.claim, r.server # NoServer
        PROVE  r.server = procs'[x].server
    <3>1. r \in rows /\ r.claim \in 1 .. claims
      BY <1>6, <2>3
    <3>2. procs'[x] = procs[x]
      BY <1>3, <1>5, <2>3, <3>1
    <3> QED
      BY <2>3, <3>1, <3>2 DEF Keeping, ClaimsSound
  <2> QED
    BY <2>1, <2>2, <2>3 DEF ClaimsSound
<1>9. OldSound'
  <2> SUFFICES ASSUME NEW q \in Procs, NEW c \in procs'[q].old
               PROVE  /\ c \in 1 .. claims'
                      /\ \A x \in Procs : procs'[x].claim = c =>
                           x # q /\ procs'[x].server = procs'[q].server
                      /\ \A r \in RowsIn({c})' : r.server = procs'[q].server
    BY DEF OldSound
  <2>1. c \in procs[q].old /\ procs'[q].server = procs[q].server
    BY <1>5
  <2>2. c \in 1 .. claims
    BY <2>1 DEF Keeping, OldSound
  <2>3. ASSUME NEW x \in Procs, procs'[x].claim = c
        PROVE  x # q /\ procs'[x].server = procs'[q].server
    <3>1. procs'[x] = procs[x]
      BY <1>3, <1>5, <2>2, <2>3
    <3> QED
      BY <2>1, <2>3, <3>1 DEF Keeping, OldSound
  <2>4. \A r \in RowsIn({c})' : r \in RowsIn({c})
    BY <1>3, <1>6, <2>2 DEF RowsIn
  <2>5. \A r \in RowsIn({c}) : r.server = procs[q].server
    BY <2>1 DEF Keeping, OldSound
  <2>6. c \in 1 .. claims'
    BY <1>3, <2>2
  <2> QED
    BY <2>1, <2>3, <2>4, <2>5, <2>6
<1>10. HeldOrAbandoned'
  <2>1. ASSUME NEW r \in rows', r.server = NoServer
        PROVE  r.claim \in history.abandoned \/ \E q \in Procs : procs'[q].claim = r.claim
    <3>1. CASE r.claim = claims + 1
      BY <1>5, <3>1
    <3>2. CASE r.claim # claims + 1
      <4>1. r \in rows /\ r.claim # 0
        BY <1>6, <3>2
      <4>2. r.claim \in history.abandoned \/ \E q \in Procs : procs[q].claim = r.claim
        BY <2>1, <4>1 DEF Keeping, HeldOrAbandoned
      <4> QED
        BY <1>4, <1>5, <4>1, <4>2
    <3> QED
      BY <3>1, <3>2
  <2>2. ASSUME NEW q \in Procs, At(q, "rebase")', NEW r \in RowsIn({procs[q].claim})'
        PROVE  r.server = procs'[q].server
    <3>1. q # p
      BY <1>4, <1>5, <2>2 DEF At
    <3>2. procs'[q] = procs[q] /\ At(q, "rebase") /\ r \in RowsIn({procs[q].claim})
      BY <1>3, <1>5, <1>6, <2>2, <3>1 DEF At, RowsIn
    <3> QED
      BY <3>2 DEF Keeping, HeldOrAbandoned
  <2> QED
    BY <1>3, <2>1, <2>2 DEF HeldOrAbandoned
<1>11. ServersSound'
  <2>1. ASSUME t \notin history.disturbed
        PROVE  Progress(t)' /\ Rest(t)'
    <3>1. /\ Creating(p, t) /\ Reallocating(p, t) /\ Deleting(p, t) /\ Rest(t)
          /\ Requesting(t)' = Requesting(t)
      BY <1>0, <1>5, <2>1, Alone DEF Requesting
    <3>2. RowsOf(t)' = RowsOf(t) /\ servers'[t] = servers[t] /\ PortsOf(t)' = PortsOf(t)
      <4>1. RowsOf(t)' = RowsOf(t)
        BY <1>0, <1>1, PortsAssumption DEF RowsOf
      <4> QED
        BY <1>3, <4>1 DEF PortsOf
    <3>3. Creating(p, t)'
      BY <1>3, <1>4, <1>5, <3>1, <3>2 DEF Creating, At
    <3>4. Reallocating(p, t)'
      BY <1>3, <1>4, <1>5, <3>1, <3>2 DEF Reallocating, At, Allocating
    <3>5. Deleting(p, t)'
      BY <1>4, <1>5 DEF Deleting, At
    <3>6. Claiming(p, t)'
      <4>1. RowsIn({procs[p].claim})' =
              {[claim |-> claims + 1, port |-> port, server |-> NoServer] :
                 port \in Block(base, GameOf[t])}
        BY <1>1, <1>3, <1>5, <1>6 DEF RowsIn
      <4>2. PortsIn(procs[p].claim)' = Block(base, GameOf[t])
        <5>1. PortsIn(procs[p].claim)' = {r.port : r \in RowsIn({procs[p].claim})'}
          BY DEF PortsIn
        <5> DEFINE row(port) == [claim |-> claims + 1, port |-> port, server |-> NoServer]
        <5>2. \A port : row(port).port = port
          OBVIOUS
        <5>3. RowsIn({procs[p].claim})' = {row(port) : port \in Block(base, GameOf[t])}
          BY <4>1
        <5> HIDE DEF row
        <5>4. \A port \in Block(base, GameOf[t]) : \E r \in RowsIn({procs[p].claim})' : r.port = port
          BY <5>2, <5>3
        <5>5. \A r \in RowsIn({procs[p].claim})' : r.port \in Block(base, GameOf[t])
          BY <5>2, <5>3
        <5> QED
          BY <5>1, <5>4, <5>5
      <4> QED
        BY <1>5, <4>2 DEF Claiming
    <3>7. servers'[t].status \in {"none", "deleted"} => RowsOf(t)' = {}
      BY <3>1, <3>2 DEF Rest
    <3> QED
      BY <1>0, <2>1, <3>1, <3>3, <3>4, <3>5, <3>6, <3>7, GoesSound
  <2>2. RowsChange(p)
    BY <1>1, <1>2 DEF RowsChange
  <2> QED
    BY <1>0, <1>3, <1>5, <2>1, <2>2, OwnServerOnly
<1> QED
  BY <1>7, <1>8, <1>9, <1>10, <1>11 DEF Keeping

\* What a statement that ends a request, or takes it on, leaves of the tables.
StatementOf(p, t) ==
  /\ rows' \subseteq rows \/ (LinkRows(p) /\ procs[p].claim # 0)
  /\ RowsChange(p)
  /\ claims' = claims
  /\ history.disturbed \subseteq history'.disturbed
  /\ history.abandoned \subseteq history'.abandoned
  /\ \A s \in Servers \ {t} : servers'[s] = servers[s]

\* Such a statement keeps claims sound, and adds no row without a server.
LEMMA LinkedOrFewer ==
  ASSUME Shape, Shape', Keeping, NEW p \in Procs, NEW t \in Servers, procs[p].server = t,
         StatementOf(p, t),
         \A q \in Procs :
           \/ /\ procs'[q].claim = procs[q].claim /\ procs'[q].old = procs[q].old
              /\ procs'[q].server = procs[q].server
           \/ procs'[q].claim = 0 /\ procs'[q].old = {}
  PROVE  /\ ClaimsSound' /\ OldSound'
         /\ \A r \in rows' : \/ r \in rows
                             \/ /\ r.claim = procs[p].claim /\ r.server = procs[p].server
                                /\ r.server # NoServer
<1>1. CASE rows' \subseteq rows
  BY <1>1, ClaimsAndOldStay DEF StatementOf, Keeping
<1>2. CASE LinkRows(p) /\ procs[p].claim # 0
  <2>1. ClaimsSound' /\ OldSound'
    BY <1>2, LinkingKeepsClaims DEF StatementOf, Keeping
  <2>2. \A r \in rows' : r \in rows \/ (r.claim = procs[p].claim /\ r.server = procs[p].server)
    BY <1>2, Linked
  <2> QED
    BY <2>1, <2>2, PortsAssumption
<1> QED
  BY <1>1, <1>2 DEF StatementOf

\* A statement that ends its request keeps the invariant if it leaves the server at rest,
\* and the claim, if there is one, linked or abandoned.
LEMMA EndingKeeps ==
  ASSUME Shape, Shape', Keeping, NEW p \in Procs, NEW t \in Servers, procs[p].server = t,
         Finish(p), StatementOf(p, t),
         \/ procs[p].claim = 0
         \/ procs[p].claim \in history'.abandoned
         \/ \A r \in rows' : r.claim = procs[p].claim => r.server # NoServer,
         t \notin history'.disturbed => Rest(t)'
  PROVE  Keeping'
<1>1. /\ \A q \in Procs \ {p} : procs'[q] = procs[q]
      /\ procs'[p] = Idle
  BY Ended
<1>2. Idle.claim = 0 /\ Idle.old = {} /\ Idle.pc = "idle" /\ Idle.server = NoServer
  BY DEF Idle
<1>3. OpsSound'
  <2>1. Fits(procs[p])'
    BY <1>1 DEF Fits, Idle, Unclaimed, Allocating
  <2> QED
    BY <1>1, <2>1, OpsStay DEF StatementOf, Keeping
<1>4. /\ ClaimsSound' /\ OldSound'
      /\ \A r \in rows' : \/ r \in rows
                          \/ /\ r.claim = procs[p].claim /\ r.server = procs[p].server
                             /\ r.server # NoServer
  BY <1>1, <1>2, LinkedOrFewer
<1>5. HeldOrAbandoned'
  <2>1. procs'[p].pc # "rebase"
    BY <1>1, <1>2
  <2> QED
    BY <1>1, <1>4, <2>1, StillHeld DEF StatementOf, Keeping
<1>6. ServersSound'
  <2>1. ASSUME t \notin history'.disturbed PROVE Progress(t)' /\ Rest(t)'
    BY <2>1, EndsSound DEF StatementOf
  <2>2. procs'[p].server \in {t, NoServer}
    BY <1>1, <1>2
  <2> QED
    BY <1>1, <2>1, <2>2, OwnServerOnly DEF StatementOf
<1> QED
  BY <1>3, <1>4, <1>5, <1>6 DEF Keeping

\* A statement that takes its request on keeps the invariant if the server is then as far
\* as the request is.
LEMMA GoingKeeps ==
  ASSUME Shape, Shape', Keeping, NEW p \in Procs, NEW t \in Servers, procs[p].server = t,
         NEW pc \in Pcs, GoTo(p, pc), StatementOf(p, t),
         Fits(procs[p])', pc = "rebase" => LinkRows(p),
         t \notin history'.disturbed =>
           /\ Creating(p, t)' /\ Reallocating(p, t)' /\ Deleting(p, t)' /\ Claiming(p, t)'
           /\ servers'[t].status \in {"none", "deleted"} => RowsOf(t)' = {}
  PROVE  Keeping'
<1>1. /\ \A q \in Procs \ {p} : procs'[q] = procs[q]
      /\ procs'[p].pc = pc
      /\ procs'[p].server = procs[p].server
      /\ procs'[p].claim = procs[p].claim /\ procs'[p].old = procs[p].old
      /\ Requesting(t)' = Requesting(t)
  BY GoingOn
<1>2. OpsSound'
  BY <1>1, OpsStay DEF StatementOf, Keeping
<1>3. /\ ClaimsSound' /\ OldSound'
      /\ \A r \in rows' : \/ r \in rows
                          \/ /\ r.claim = procs[p].claim /\ r.server = procs[p].server
                             /\ r.server # NoServer
  BY <1>1, LinkedOrFewer
<1>4. HeldOrAbandoned'
  <2>1. pc = "rebase" => \A r \in rows' : r.claim = procs[p].claim => r.server = procs[p].server
    BY Linked
  <2> QED
    BY <1>1, <1>3, <2>1, StillHeld DEF StatementOf, Keeping
<1>5. ServersSound'
  <2>1. ASSUME t \notin history'.disturbed PROVE Progress(t)' /\ Rest(t)'
    <3>1. t \notin history.disturbed
      BY <2>1 DEF StatementOf
    <3> QED
      BY <1>1, <2>1, <3>1, GoesSound
  <2> QED
    BY <1>1, <2>1, OwnServerOnly DEF StatementOf
<1> QED
  BY <1>2, <1>3, <1>4, <1>5 DEF Keeping

\* A request that ends before it has given anything up leaves its server as it was.
LEMMA ServerAsBefore ==
  ASSUME Keeping, NEW p \in Procs, NEW t \in Servers, procs[p].server = t,
         procs[p].pc \notin {"relink", "rebase"},
         t \notin history.disturbed, RowsOf(t)' = RowsOf(t), servers'[t] = servers[t],
         procs[p].op \in {"create", "reallocate", "delete"}
  PROVE  Rest(t)'
<1>1. Creating(p, t) /\ Reallocating(p, t) /\ Deleting(p, t) /\ Rest(t)
  BY Alone
<1>2. PortsOf(t)' = PortsOf(t)
  BY DEF PortsOf
<1>3. servers[t].status # "live" \/ PortsOf(t) = Block(servers[t].base, GameOf[t])
  <2>1. CASE procs[p].op = "create"
    BY <1>1, <2>1 DEF Creating
  <2>2. CASE procs[p].op = "reallocate"
    BY <1>1, <2>2 DEF Reallocating
  <2>3. CASE procs[p].op = "delete"
    BY <1>1, <2>3 DEF Deleting
  <2> QED
    BY <2>1, <2>2, <2>3
<1> QED
  BY <1>1, <1>2, <1>3 DEF Rest

\* The statements that end a request: no block, nothing moved, or a failure.
LEMMA FailuresKeep ==
  ASSUME Shape, Shape', Keeping, NEW p \in Procs, NEW t \in Servers, procs[p].server = t,
         ClaimFails(p) \/ ReallocateFails(p)
  PROVE  Keeping'
<1>1. Fits(procs[p]) /\ procs[p].op \in {"create", "reallocate", "delete"}
  BY DEF Keeping, OpsSound, Fits, ClaimFails, ReallocateFails, At, Allocating
<1>2. CASE ClaimFails(p)
  <2>1. /\ UNCHANGED <<rows, servers, claims, history>> /\ Finish(p)
        /\ procs[p].pc = "claim"
    BY <1>2 DEF ClaimFails, At
  <2>2. procs[p].claim = 0
    BY <1>1, <2>1 DEF Fits, Unclaimed
  <2>3. ASSUME t \notin history'.disturbed PROVE Rest(t)'
    BY <1>1, <2>1, <2>3, ServerAsBefore DEF RowsOf
  <2>4. StatementOf(p, t)
    BY <2>1 DEF StatementOf, RowsChange
  <2> QED
    BY <2>1, <2>2, <2>3, <2>4, EndingKeeps
<1>3. CASE ReallocateFails(p)
  <2>1. /\ UNCHANGED <<rows, servers, claims>> /\ Finish(p) /\ Abandon({p})
        /\ procs[p].pc \in {"existing", "dropNew", "dropOld", "relink", "rebase"}
    BY <1>3 DEF ReallocateFails
  <2>2. /\ procs[p].claim \in history'.abandoned
        /\ history.abandoned \subseteq history'.abandoned
        /\ history.disturbed \subseteq history'.disturbed
        /\ procs[p].pc \in {"relink", "rebase"} => t \in history'.disturbed
    BY <2>1 DEF Abandon
  <2>3. ASSUME t \notin history'.disturbed PROVE Rest(t)'
    BY <1>1, <2>1, <2>2, <2>3, ServerAsBefore DEF RowsOf
  <2>4. StatementOf(p, t)
    BY <2>1, <2>2 DEF StatementOf, RowsChange
  <2> QED
    BY <2>1, <2>2, <2>3, <2>4, EndingKeeps
<1> QED
  BY <1>2, <1>3

\* Handing a claimed block back, or ignoring that it could not be.
LEMMA DroppingKeeps ==
  ASSUME Shape, Shape', Keeping, NEW p \in Procs, NEW t \in Servers, procs[p].server = t,
         Undo(p) \/ DropNew(p)
  PROVE  Keeping'
<1>1. /\ Fits(procs[p]) /\ procs[p].claim # 0
      /\ At(p, "undo") => procs[p].op = "create"
      /\ At(p, "dropNew") => procs[p].op = "reallocate"
  BY DEF Keeping, OpsSound, Fits, Undo, DropNew, At, Unclaimed
<1>2. /\ UNCHANGED <<servers, claims>> /\ Finish(p) /\ procs[p].pc \in {"undo", "dropNew"}
      /\ \/ rows' = rows \ RowsIn({procs[p].claim}) /\ UNCHANGED history
         \/ UNCHANGED rows /\ Abandon({p})
  BY DEF Undo, DropNew, At
<1>3. /\ history.abandoned \subseteq history'.abandoned
      /\ history.disturbed \subseteq history'.disturbed
      /\ UNCHANGED rows => procs[p].claim \in history'.abandoned \/ UNCHANGED history
  BY <1>2 DEF Abandon
<1>4. \/ procs[p].claim \in history'.abandoned
      \/ \A r \in rows' : r.claim = procs[p].claim => r.server # NoServer
  BY <1>2 DEF Abandon, RowsIn
<1>5. StatementOf(p, t)
  BY <1>1, <1>2, <1>3 DEF StatementOf, RowsChange
<1>6. ASSUME t \notin history'.disturbed PROVE Rest(t)'
  <2>1. t \notin history.disturbed
    BY <1>3, <1>6
  <2>2. CASE At(p, "dropNew")
    <3>1. \A r \in RowsOf(t) : r.claim \in procs[p].old
      BY <1>1, <2>1, <2>2, Alone DEF Reallocating, At
    <3>2. procs[p].claim \notin procs[p].old
      BY DEF Keeping, OldSound
    <3>3. RowsOf(t)' = RowsOf(t)
      BY <1>2, <3>1, <3>2 DEF RowsOf, RowsIn
    <3> QED
      BY <1>1, <1>2, <2>1, <2>2, <3>3, ServerAsBefore DEF At
  <2>3. CASE At(p, "undo")
    <3>1. servers[t].status \in {"none", "creating"} /\ Rest(t)
      BY <1>1, <2>1, <2>3, Alone DEF Creating, At
    <3>2. RowsOf(t)' \subseteq RowsOf(t)
      BY <1>2 DEF RowsOf
    <3> QED
      BY <1>2, <3>1, <3>2 DEF Rest
  <2> QED
    BY <1>2, <2>2, <2>3 DEF At
<1> QED
  BY <1>2, <1>3, <1>4, <1>5, <1>6, EndingKeeps

\* The server's row is written, or that fails.
LEMMA InsertServerKeeps ==
  ASSUME Shape, Shape', Keeping, NEW p \in Procs, NEW t \in Servers, procs[p].server = t,
         InsertServer(p)
  PROVE  Keeping'
<1>1. /\ procs[p].op = "create" /\ procs[p].claim \in 1 .. claims
      /\ UNCHANGED <<rows, claims, history>> /\ procs[p].pc = "insert"
  BY DEF Keeping, OpsSound, Fits, InsertServer, At, Unclaimed
<1>3. PICK pc \in {"link", "undo"} :
        /\ GoTo(p, pc)
        /\ IF pc = "undo" THEN UNCHANGED servers
           ELSE servers' = [servers EXCEPT ![t] = [status |-> "creating", base |-> procs[p].base]]
  BY DEF InsertServer
<1>2. StatementOf(p, t)
  BY <1>1, <1>3 DEF StatementOf, RowsChange, Shape, TypeOK
<1>4. /\ pc \in Pcs /\ procs'[p].pc = pc /\ procs'[p].op = "create"
      /\ procs'[p].claim = procs[p].claim /\ procs'[p].base = procs[p].base
  BY <1>1, <1>3, GoingOn DEF Pcs
<1>5. Fits(procs[p])'
  BY <1>1, <1>4 DEF Fits, Unclaimed, Allocating
<1>6. ASSUME t \notin history'.disturbed
      PROVE  /\ Creating(p, t)' /\ Reallocating(p, t)' /\ Deleting(p, t)' /\ Claiming(p, t)'
             /\ servers'[t].status \in {"none", "deleted"} => RowsOf(t)' = {}
  <2>1. servers[t].status = "none" /\ Rest(t) /\ Claiming(p, t)
    BY <1>1, <1>6, Alone DEF Creating
  <2>2. RowsOf(t)' = {}
    BY <1>1, <2>1 DEF Rest, RowsOf
  <2>3. /\ servers'[t].status = IF pc = "undo" THEN "none" ELSE "creating"
        /\ pc = "link" => servers'[t].base = procs[p].base
    BY <1>3, <2>1 DEF Shape, TypeOK
  <2>4. Creating(p, t)'
    BY <1>3, <1>4, <2>2, <2>3 DEF Creating, At
  <2>5. Reallocating(p, t)' /\ Deleting(p, t)'
    BY <1>3, <1>4 DEF Reallocating, Deleting, At
  <2>6. Claiming(p, t)'
    BY <1>1, <1>4, <2>1 DEF Claiming, PortsIn, RowsIn
  <2> QED
    BY <2>2, <2>4, <2>5, <2>6
<1>7. pc # "rebase"
  BY <1>3
<1> QED
  BY <1>2, <1>3, <1>4, <1>5, <1>6, <1>7, GoingKeeps

\* Once linked, the server has the block it was linked to, and nothing else of it.
LEMMA LinkedRows ==
  ASSUME Shape, Keeping, NEW p \in Procs, NEW t \in Servers, procs[p].server = t,
         procs[p].claim # 0, LinkRows(p), RowsOf(t) = {}
  PROVE  /\ RowsOf(t)' = RowsWith(procs[p].claim)
         /\ PortsOf(t)' = PortsIn(procs[p].claim)
<1>1. \A r \in rows' : \E q \in rows :
        /\ r.claim = q.claim /\ r.port = q.port
        /\ IF q.claim = procs[p].claim THEN r.server = procs[p].server ELSE r = q
  BY Linked
<1>2. \A q \in rows : \E r \in rows' :
        /\ r.claim = q.claim /\ r.port = q.port
        /\ IF q.claim = procs[p].claim THEN r.server = procs[p].server ELSE r = q
  BY Linked
<1>3. RowsOf(t)' = RowsWith(procs[p].claim)
  <2>1. \A r \in rows' : r.server = t <=> r.claim = procs[p].claim
    BY <1>1 DEF RowsOf
  <2> QED
    BY <2>1 DEF RowsOf, RowsWith
<1>4. ASSUME NEW r \in RowsWith(procs[p].claim) PROVE r.port \in PortsIn(procs[p].claim)
  BY <1>1, <1>4 DEF RowsWith, PortsIn, RowsIn
<1>5. ASSUME NEW q \in RowsIn({procs[p].claim})
      PROVE  \E r \in RowsWith(procs[p].claim) : r.port = q.port
  BY <1>2 DEF RowsWith, RowsIn
<1>6. PortsOf(t)' = PortsIn(procs[p].claim)
  BY <1>3, <1>4, <1>5 DEF PortsOf, PortsIn
<1> QED
  BY <1>3, <1>6

\* createServer links its rows, and the server is provisioned.
LEMMA LinkKeeps ==
  ASSUME Shape, Shape', Keeping, NEW p \in Procs, NEW t \in Servers, procs[p].server = t,
         Link(p)
  PROVE  Keeping'
<1>1. /\ procs[p].op = "create" /\ procs[p].claim \in 1 .. claims /\ procs[p].claim # 0
      /\ UNCHANGED <<claims, history>> /\ procs[p].pc = "link" /\ Finish(p) /\ LinkRows(p)
  BY DEF Keeping, OpsSound, Fits, Link, At, Unclaimed
<1>2. servers' = [servers EXCEPT ![t].status = IF @ = "creating" THEN "live" ELSE @]
  BY DEF Link
<1>3. StatementOf(p, t)
  BY <1>1, <1>2 DEF StatementOf, RowsChange, Shape, TypeOK
<1>4. \A r \in rows' : r.claim = procs[p].claim => r.server # NoServer
  BY <1>1, Linked, PortsAssumption
<1>5. ASSUME t \notin history'.disturbed PROVE Rest(t)'
  <2>1. servers[t].status = "creating" /\ RowsOf(t) = {} /\ Claiming(p, t)
    BY <1>1, <1>5, Alone DEF Creating, At
  <2>2. PortsOf(t)' = PortsIn(procs[p].claim)
    BY <1>1, <2>1, LinkedRows
  <2>3. PortsIn(procs[p].claim) = Block(procs[p].base, GameOf[t])
    BY <1>1, <2>1 DEF Claiming
  <2>4. servers[t].base = procs[p].base
    BY <1>1, <1>5, Alone DEF Creating, At
  <2>5. servers'[t].status = "live" /\ servers'[t].base = servers[t].base
    BY <1>2, <2>1 DEF Shape, TypeOK
  <2> QED
    BY <2>2, <2>3, <2>4, <2>5 DEF Rest
<1> QED
  BY <1>1, <1>3, <1>4, <1>5, EndingKeeps

\* The link fails, before or after the rows are the server's.
LEMMA LinkFailsKeeps ==
  ASSUME Shape, Shape', Keeping, NEW p \in Procs, NEW t \in Servers, procs[p].server = t,
         LinkFails(p)
  PROVE  Keeping'
<1>1. /\ procs[p].op = "create" /\ procs[p].claim \in 1 .. claims /\ procs[p].claim # 0
      /\ UNCHANGED <<servers, claims, history>> /\ procs[p].pc = "link" /\ GoTo(p, "undo")
      /\ LinkRows(p) \/ UNCHANGED rows
  BY DEF Keeping, OpsSound, Fits, LinkFails, At, Unclaimed
<1>2. StatementOf(p, t)
  BY <1>1 DEF StatementOf, RowsChange
<1>3. /\ procs'[p].pc = "undo" /\ procs'[p].op = "create" /\ "undo" \in Pcs
      /\ procs'[p].claim = procs[p].claim /\ procs'[p].base = procs[p].base
  BY <1>1, GoingOn DEF Pcs
<1>4. Fits(procs[p])'
  BY <1>1, <1>3 DEF Fits, Unclaimed, Allocating
<1>5. ASSUME t \notin history'.disturbed
      PROVE  /\ Creating(p, t)' /\ Reallocating(p, t)' /\ Deleting(p, t)' /\ Claiming(p, t)'
             /\ servers'[t].status \in {"none", "deleted"} => RowsOf(t)' = {}
  <2>1. servers[t].status = "creating"
    BY <1>1, <1>5, Alone DEF Creating, At
  <2> QED
    BY <1>1, <1>3, <2>1 DEF Creating, Reallocating, Deleting, Claiming, At
<1> QED
  BY <1>1, <1>2, <1>3, <1>4, <1>5, GoingKeeps

\* The old block is given up: what the reallocation found is all the server had.
LEMMA DropOldKeeps ==
  ASSUME Shape, Shape', Keeping, NEW p \in Procs, NEW t \in Servers, procs[p].server = t,
         DropOld(p)
  PROVE  Keeping'
<1>1. /\ procs[p].op = "reallocate" /\ procs[p].claim \in 1 .. claims
      /\ UNCHANGED <<servers, claims, history>> /\ procs[p].pc = "dropOld" /\ GoTo(p, "relink")
      /\ rows' = rows \ RowsIn(procs[p].old)
  BY DEF Keeping, OpsSound, Fits, DropOld, At, Unclaimed
<1>2. StatementOf(p, t)
  BY <1>1 DEF StatementOf, RowsChange
<1>3. /\ procs'[p].pc = "relink" /\ procs'[p].op = "reallocate" /\ "relink" \in Pcs
      /\ procs'[p].claim = procs[p].claim /\ procs'[p].base = procs[p].base
  BY <1>1, GoingOn DEF Pcs
<1>4. Fits(procs[p])'
  BY <1>1, <1>3 DEF Fits, Unclaimed, Allocating
<1>5. ASSUME t \notin history'.disturbed
      PROVE  /\ Creating(p, t)' /\ Reallocating(p, t)' /\ Deleting(p, t)' /\ Claiming(p, t)'
             /\ servers'[t].status \in {"none", "deleted"} => RowsOf(t)' = {}
  <2>1. /\ servers[t].status = "live" /\ Claiming(p, t)
        /\ \A r \in RowsOf(t) : r.claim \in procs[p].old
    BY <1>1, <1>5, Alone DEF Reallocating, At
  <2>2. RowsOf(t)' = {}
    BY <1>1, <2>1 DEF RowsOf, RowsIn
  <2>3. procs[p].claim \notin procs[p].old
    BY DEF Keeping, OldSound
  <2>4. RowsIn({procs[p].claim})' = RowsIn({procs[p].claim})
    BY <1>1, <1>3, <2>3 DEF RowsIn
  <2>5. Claiming(p, t)'
    BY <1>1, <1>3, <2>1, <2>4 DEF Claiming, PortsIn
  <2> QED
    BY <1>1, <1>3, <2>1, <2>2, <2>5 DEF Creating, Reallocating, Deleting, At, Allocating
<1>6. "relink" # "rebase"
  OBVIOUS
<1> QED
  BY <1>1, <1>2, <1>3, <1>4, <1>5, <1>6, GoingKeeps

\* The new block becomes the server's, which has no other by then.
LEMMA RelinkKeeps ==
  ASSUME Shape, Shape', Keeping, NEW p \in Procs, NEW t \in Servers, procs[p].server = t,
         Relink(p)
  PROVE  Keeping'
<1>1. /\ procs[p].op = "reallocate" /\ procs[p].claim \in 1 .. claims /\ procs[p].claim # 0
      /\ UNCHANGED <<servers, claims, history>> /\ procs[p].pc = "relink" /\ GoTo(p, "rebase")
      /\ LinkRows(p)
  BY DEF Keeping, OpsSound, Fits, Relink, At, Unclaimed
<1>2. StatementOf(p, t)
  BY <1>1 DEF StatementOf, RowsChange
<1>3. /\ procs'[p].pc = "rebase" /\ procs'[p].op = "reallocate" /\ "rebase" \in Pcs
      /\ procs'[p].claim = procs[p].claim /\ procs'[p].base = procs[p].base
  BY <1>1, GoingOn DEF Pcs
<1>4. Fits(procs[p])'
  BY <1>1, <1>3 DEF Fits, Unclaimed, Allocating
<1>5. ASSUME t \notin history'.disturbed
      PROVE  /\ Creating(p, t)' /\ Reallocating(p, t)' /\ Deleting(p, t)' /\ Claiming(p, t)'
             /\ servers'[t].status \in {"none", "deleted"} => RowsOf(t)' = {}
  <2>1. servers[t].status = "live" /\ Claiming(p, t) /\ RowsOf(t) = {}
    BY <1>1, <1>5, Alone DEF Reallocating, At
  <2>2. RowsOf(t)' = RowsWith(procs[p].claim) /\ PortsOf(t)' = PortsIn(procs[p].claim)
    BY <1>1, <2>1, LinkedRows
  <2>3. RowsIn({procs[p].claim})' = RowsWith(procs[p].claim)
    BY <1>3 DEF RowsIn, RowsWith
  <2>4. PortsIn(procs[p].claim)' = PortsOf(t)'
    BY <2>2, <2>3 DEF PortsIn, PortsOf
  <2>5. Claiming(p, t)'
    BY <1>1, <1>3, <2>1, <2>2, <2>4 DEF Claiming
  <2> QED
    BY <1>1, <1>3, <2>1, <2>2, <2>3, <2>5
    DEF Creating, Reallocating, Deleting, At, Allocating
<1> QED
  BY <1>1, <1>2, <1>3, <1>4, <1>5, GoingKeeps

\* The server is given the base port of the block it now has.
LEMMA RebaseKeeps ==
  ASSUME Shape, Shape', Keeping, NEW p \in Procs, NEW t \in Servers, procs[p].server = t,
         Rebase(p)
  PROVE  Keeping'
<1>1. /\ procs[p].op = "reallocate" /\ procs[p].claim \in 1 .. claims
      /\ UNCHANGED <<rows, claims, history>> /\ procs[p].pc = "rebase" /\ Finish(p)
      /\ servers' = [servers EXCEPT ![t].base = procs[p].base]
  BY DEF Keeping, OpsSound, Fits, Rebase, At, Unclaimed
<1>2. StatementOf(p, t)
  BY <1>1 DEF StatementOf, RowsChange, Shape, TypeOK
<1>3. \A r \in rows' : r.claim = procs[p].claim => r.server # NoServer
  BY <1>1, PortsAssumption DEF Keeping, HeldOrAbandoned, RowsIn, At
<1>4. ASSUME t \notin history'.disturbed PROVE Rest(t)'
  <2>1. /\ servers[t].status = "live" /\ Claiming(p, t)
        /\ RowsOf(t) = RowsIn({procs[p].claim})
    BY <1>1, <1>4, Alone DEF Reallocating, At
  <2>2. PortsOf(t) = Block(procs[p].base, GameOf[t])
    BY <1>1, <2>1 DEF Claiming, PortsOf, PortsIn
  <2>3. PortsOf(t)' = PortsOf(t)
    BY <1>1 DEF PortsOf, RowsOf
  <2>4. servers'[t].status = "live" /\ servers'[t].base = procs[p].base
    BY <1>1, <2>1 DEF Shape, TypeOK
  <2> QED
    BY <2>2, <2>3, <2>4 DEF Rest
<1> QED
  BY <1>1, <1>2, <1>3, <1>4, EndingKeeps

\* deleteServer gives the server's rows up, or fails to.
LEMMA ReleasingKeeps ==
  ASSUME Shape, Shape', Keeping, NEW p \in Procs, NEW t \in Servers, procs[p].server = t,
         Release(p) \/ ReleaseFails(p)
  PROVE  Keeping'
<1>1. /\ procs[p].op = "delete" /\ procs[p].claim = 0
      /\ UNCHANGED <<servers, claims>> /\ procs[p].pc = "release" /\ GoTo(p, "hide")
      /\ \/ rows' = rows \ RowsOf(t) /\ UNCHANGED history
         \/ UNCHANGED rows /\ history' = [history EXCEPT !.disturbed = @ \cup {t}]
  BY DEF Keeping, OpsSound, Fits, Release, ReleaseFails, At, Unclaimed
<1>2. StatementOf(p, t) /\ (t \notin history'.disturbed => UNCHANGED history)
  BY <1>1 DEF StatementOf, RowsChange, Shape, TypeOK
<1>3. /\ procs'[p].pc = "hide" /\ procs'[p].op = "delete" /\ "hide" \in Pcs
      /\ procs'[p].claim = procs[p].claim /\ procs'[p].base = procs[p].base
  BY <1>1, GoingOn DEF Pcs
<1>4. Fits(procs[p])'
  BY <1>1, <1>3 DEF Fits, Unclaimed, Allocating
<1>5. ASSUME t \notin history'.disturbed
      PROVE  /\ Creating(p, t)' /\ Reallocating(p, t)' /\ Deleting(p, t)' /\ Claiming(p, t)'
             /\ servers'[t].status \in {"none", "deleted"} => RowsOf(t)' = {}
  <2>1. servers[t].status = "deleting"
    BY <1>1, <1>2, <1>5, Alone DEF Deleting
  <2>2. rows' = rows \ RowsOf(t)
    BY <1>1, <1>5 DEF Shape, TypeOK
  <2>3. RowsOf(t)' = {}
    BY <2>2 DEF RowsOf
  <2> QED
    BY <1>1, <1>3, <2>1, <2>3 DEF Creating, Reallocating, Deleting, Claiming, At
<1>6. "hide" # "rebase"
  OBVIOUS
<1> QED
  BY <1>1, <1>2, <1>3, <1>4, <1>5, <1>6, GoingKeeps

\* The server is marked deleted.
LEMMA HideKeeps ==
  ASSUME Shape, Shape', Keeping, NEW p \in Procs, NEW t \in Servers, procs[p].server = t,
         Hide(p)
  PROVE  Keeping'
<1>1. /\ procs[p].op = "delete" /\ procs[p].claim = 0
      /\ UNCHANGED <<rows, claims, history>> /\ procs[p].pc = "hide" /\ Finish(p)
      /\ servers' = [servers EXCEPT ![t].status = "deleted"]
  BY DEF Keeping, OpsSound, Fits, Hide, At, Unclaimed
<1>2. StatementOf(p, t)
  BY <1>1 DEF StatementOf, RowsChange, Shape, TypeOK
<1>3. ASSUME t \notin history'.disturbed PROVE Rest(t)'
  <2>1. RowsOf(t) = {}
    BY <1>1, <1>3, Alone DEF Deleting, At
  <2>2. RowsOf(t)' = {} /\ servers'[t].status = "deleted"
    BY <1>1, <2>1 DEF RowsOf, Shape, TypeOK
  <2> QED
    BY <2>2 DEF Rest
<1> QED
  BY <1>1, <1>2, <1>3, EndingKeeps

\* A request that arrives, on a server nobody is busy with or that is now disturbed.
LEMMA ArrivalKeeps ==
  ASSUME Shape, Shape', Keeping, NEW p \in Procs, NEW s \in Servers, procs[p].pc = "idle",
         NEW h \in Requests, h.server = s, h.claim = 0, h.old = {}, h.pc # "rebase", Fits(h)',
         procs' = [procs EXCEPT ![p] = h], UNCHANGED <<rows, claims>>,
         history.disturbed \subseteq history'.disturbed,
         history'.abandoned = history.abandoned,
         \A t \in Servers \ {s} : servers'[t] = servers[t],
         s \notin history'.disturbed => Requesting(s) = {},
         s \notin history'.disturbed =>
           /\ Creating(p, s)' /\ Reallocating(p, s)' /\ Deleting(p, s)' /\ Claiming(p, s)'
           /\ servers'[s].status \in {"none", "deleted"} => RowsOf(s)' = {}
  PROVE  Keeping'
<1>1. /\ procs'[p] = h /\ \A q \in Procs \ {p} : procs'[q] = procs[q]
      /\ procs[p] = Idle /\ procs[p].claim = 0 /\ procs[p].server = NoServer
  BY DEF Shape, TypeOK, Keeping, OpsSound, Fits, Idle
<1>2. OpsSound'
  BY <1>1, OpsStay DEF Keeping
<1>3. ClaimsSound' /\ OldSound'
  <2>1. rows' \subseteq rows /\ claims' = claims
    OBVIOUS
  <2> QED
    BY <1>1, <2>1, ClaimsAndOldStay DEF Keeping
<1>4. HeldOrAbandoned'
  BY <1>1, StillHeld DEF Keeping
<1>5. ASSUME NEW t \in Servers, t \notin history'.disturbed
      PROVE  Progress(t)' /\ Rest(t)'
  <2>1. CASE t = s
    <3>1. Requesting(s)' = {p}
      BY <1>1, <1>5, <2>1 DEF Requesting
    <3> QED
      BY <1>5, <2>1, <3>1 DEF Progress, Rest
  <2>2. CASE t # s
    <3>1. Progress(t) /\ Rest(t) /\ servers'[t] = servers[t]
      BY <1>5, <2>2 DEF Keeping, ServersSound
    <3>2. \A q \in Procs : \/ procs'[q] = procs[q]
                           \/ procs[q].server # t /\ procs'[q].server # t
      BY <1>1, <2>2, PortsAssumption
    <3>3. RowsOf(t)' = RowsOf(t) /\ \A c : RowsWith(c) = RowsIn({c})
      BY DEF RowsOf, RowsWith, RowsIn
    <3> QED
      BY <3>1, <3>2, <3>3, ServerUntouched
  <2> QED
    BY <2>1, <2>2
<1> QED
  BY <1>2, <1>3, <1>4, <1>5 DEF Keeping, ServersSound

\* A second request on a server is remembered.
LEMMA Disturbed ==
  ASSUME Shape, NEW s \in Servers, Disturb(s)
  PROVE  /\ history.disturbed \subseteq history'.disturbed
         /\ history'.abandoned = history.abandoned
         /\ s \notin history'.disturbed => Requesting(s) = {} /\ s \notin history.disturbed
<1>1. history'.abandoned = history.abandoned
  BY DEF Disturb, Shape, TypeOK
<1>2. history'.disturbed = IF \E q \in Procs : procs[q].server = s
                             THEN history.disturbed \cup {s} ELSE history.disturbed
  BY DEF Disturb, Shape, TypeOK
<1> QED
  BY <1>1, <1>2 DEF Requesting

\* A create arrives for a server that is not there yet.
LEMMA BeginCreateKeeps ==
  ASSUME Shape, Shape', Keeping, NEW p \in Procs, NEW s \in Servers, BeginCreate(p, s)
  PROVE  Keeping'
<1> DEFINE h == [Idle EXCEPT !.op = "create", !.server = s, !.pc = "lock"]
<1>1. /\ h \in Requests /\ h.server = s /\ h.op = "create" /\ h.pc = "lock"
      /\ h.claim = 0 /\ h.old = {}
  BY DEF Idle, Requests, Pcs
<1>2. procs' = [procs EXCEPT ![p] = h] /\ UNCHANGED <<rows, servers, claims, history>>
  BY DEF BeginCreate
<1> HIDE DEF h
<1>3. /\ procs[p].pc = "idle" /\ servers[s].status = "none" /\ Requesting(s) = {}
  BY DEF BeginCreate, At, Requesting
<1>4. procs'[p] = h
  BY <1>2 DEF Shape, TypeOK
<1>5. Fits(h)'
  BY <1>1, <1>2 DEF Fits, Unclaimed, Allocating
<1>6. ASSUME s \notin history'.disturbed
      PROVE  /\ Creating(p, s)' /\ Reallocating(p, s)' /\ Deleting(p, s)' /\ Claiming(p, s)'
             /\ servers'[s].status \in {"none", "deleted"} => RowsOf(s)' = {}
  <2>1. Rest(s)
    BY <1>2, <1>6 DEF Keeping, ServersSound
  <2> QED
    BY <1>1, <1>2, <1>3, <1>4, <2>1
    DEF Creating, Reallocating, Deleting, Claiming, At, Rest, RowsOf
<1> QED
  BY <1>1, <1>2, <1>3, <1>5, <1>6, ArrivalKeeps

\* A reallocation arrives for a server that is offline.
LEMMA BeginReallocateKeeps ==
  ASSUME Shape, Shape', Keeping, NEW p \in Procs, NEW s \in Servers, BeginReallocate(p, s)
  PROVE  Keeping'
<1> DEFINE h == [Idle EXCEPT !.op = "reallocate", !.server = s, !.base = servers[s].base,
                             !.pc = "existing"]
<1>0. servers[s].base \in Nat
  BY DEF Shape, TypeOK
<1>1. /\ h \in Requests /\ h.server = s /\ h.op = "reallocate" /\ h.pc = "existing"
      /\ h.claim = 0 /\ h.old = {}
  BY <1>0 DEF Idle, Requests, Pcs
<1>2. procs' = [procs EXCEPT ![p] = h] /\ UNCHANGED <<rows, servers, claims>> /\ Disturb(s)
  BY DEF BeginReallocate
<1> HIDE DEF h
<1>3. procs[p].pc = "idle" /\ servers[s].status = "live"
  BY DEF BeginReallocate, At
<1>4. procs'[p] = h
  BY <1>2 DEF Shape, TypeOK
<1>5. ASSUME NEW g, g = h PROVE Fits(g)'
  BY <1>1, <1>2, <1>5 DEF Fits, Unclaimed, Allocating
<1>6. ASSUME s \notin history'.disturbed
      PROVE  /\ Creating(p, s)' /\ Reallocating(p, s)' /\ Deleting(p, s)' /\ Claiming(p, s)'
             /\ servers'[s].status \in {"none", "deleted"} => RowsOf(s)' = {}
  <2>1. Rest(s) /\ Requesting(s) = {}
    BY <1>2, <1>6, Disturbed DEF Keeping, ServersSound
  <2>2. PortsOf(s) = Block(servers[s].base, GameOf[s])
    BY <1>3, <2>1 DEF Rest
  <2>3. RowsOf(s)' = RowsOf(s) /\ PortsOf(s)' = PortsOf(s) /\ servers'[s] = servers[s]
    BY <1>2 DEF RowsOf, PortsOf
  <2>4. procs'[p].op = "reallocate" /\ procs'[p].pc = "existing"
    BY <1>1, <1>4
  <2> QED
    BY <1>3, <2>2, <2>3, <2>4
    DEF Creating, Reallocating, Deleting, Claiming, At, Allocating
<1>7. PICK g \in Requests : g = h
  BY <1>1
<1> QED
  BY <1>1, <1>2, <1>3, <1>5, <1>6, <1>7, Disturbed, ArrivalKeeps

\* A delete arrives, whatever else is under way.
LEMMA BeginDeleteKeeps ==
  ASSUME Shape, Shape', Keeping, NEW p \in Procs, NEW s \in Servers, BeginDelete(p, s)
  PROVE  Keeping'
<1> DEFINE h == [Idle EXCEPT !.op = "delete", !.server = s, !.pc = "release"]
<1>1. /\ h \in Requests /\ h.server = s /\ h.op = "delete" /\ h.pc = "release"
      /\ h.claim = 0 /\ h.old = {}
  BY DEF Idle, Requests, Pcs
<1>2. /\ procs' = [procs EXCEPT ![p] = h] /\ UNCHANGED <<rows, claims>> /\ Disturb(s)
      /\ servers' = [servers EXCEPT ![s].status = "deleting"]
  BY DEF BeginDelete
<1> HIDE DEF h
<1>3. procs[p].pc = "idle" /\ servers'[s].status = "deleting"
      /\ \A t \in Servers \ {s} : servers'[t] = servers[t]
  BY <1>2 DEF BeginDelete, At, Shape, TypeOK
<1>4. procs'[p] = h
  BY <1>2 DEF Shape, TypeOK
<1>5. Fits(h)'
  BY <1>1, <1>2 DEF Fits, Unclaimed, Allocating
<1>6. /\ Creating(p, s)' /\ Reallocating(p, s)' /\ Deleting(p, s)' /\ Claiming(p, s)'
      /\ servers'[s].status \in {"none", "deleted"} => RowsOf(s)' = {}
  BY <1>1, <1>3, <1>4 DEF Creating, Reallocating, Deleting, Claiming, At
<1> QED
  BY <1>1, <1>2, <1>3, <1>5, <1>6, Disturbed, ArrivalKeeps

\* The API dies with whatever it was doing.
LEMMA CrashKeeps ==
  ASSUME Shape, Shape', Keeping, ApiCrash
  PROVE  Keeping'
<1>1. /\ UNCHANGED <<rows, servers, claims>> /\ \A p \in Procs : procs'[p] = Idle
      /\ history.disturbed \subseteq history'.disturbed
      /\ history.abandoned \subseteq history'.abandoned
      /\ \A p \in Procs : procs[p].claim \in history'.abandoned
      /\ \A p \in Procs : procs[p].pc \in {"relink", "rebase"} =>
           procs[p].server \in history'.disturbed
  BY DEF ApiCrash, Abandon
<1>2. Idle.claim = 0 /\ Idle.old = {} /\ Idle.pc = "idle" /\ Idle.server = NoServer
  BY DEF Idle
<1>3. OpsSound'
  BY <1>1, IdleFits DEF OpsSound
<1>4. ClaimsSound' /\ OldSound'
  <2>1. rows' \subseteq rows
    BY <1>1
  <2> QED
    BY <1>1, <1>2, <2>1, ClaimsAndOldStay DEF Keeping
<1>5. HeldOrAbandoned'
  <2>1. \A r \in rows' : r.server = NoServer => r.claim \in history'.abandoned
    BY <1>1 DEF Keeping, HeldOrAbandoned
  <2> QED
    BY <1>1, <1>2, <2>1 DEF HeldOrAbandoned, At
<1>6. ASSUME NEW s \in Servers, s \notin history'.disturbed
      PROVE  Progress(s)' /\ Rest(s)'
  <2>1. Requesting(s)' = {}
    BY <1>1, <1>2, PortsAssumption DEF Requesting
  <2>2. RowsOf(s)' = RowsOf(s) /\ PortsOf(s)' = PortsOf(s) /\ servers'[s] = servers[s]
    BY <1>1 DEF RowsOf, PortsOf
  <2>3. CASE Requesting(s) = {}
    <3>1. Rest(s)
      BY <1>1, <1>6 DEF Keeping, ServersSound
    <3> QED
      BY <2>1, <2>2, <2>3, <3>1 DEF Progress, Rest
  <2>4. CASE Requesting(s) # {}
    <3>1. PICK p \in Procs : procs[p].server = s
      BY <2>4 DEF Requesting
    <3>2. procs[p].pc \notin {"relink", "rebase", "idle"}
      BY <1>1, <1>2, <1>6, <3>1, PortsAssumption DEF Keeping, OpsSound, Fits
    <3>3. procs[p].pc \in Pcs /\ Fits(procs[p])
      BY DEF Keeping, OpsSound, Shape, TypeOK
    <3>4. procs[p].op \in {"create", "reallocate", "delete"}
      BY <3>2, <3>3 DEF Fits, Pcs, Allocating
    <3>5. s \notin history.disturbed
      BY <1>1, <1>6
    <3> QED
      BY <2>1, <2>2, <3>1, <3>2, <3>4, <3>5, ServerAsBefore DEF Progress
  <2> QED
    BY <2>1, <2>3, <2>4 DEF Progress
<1> QED
  BY <1>3, <1>4, <1>5, <1>6 DEF Keeping, ServersSound

\* Every statement of the three handlers.
LEMMA StatementsKeep ==
  ASSUME Shape, Shape', Keeping, NEW p \in Procs, Step(p)
  PROVE  Keeping'
<1>1. procs[p].pc # "idle"
  BY DEF Step, At, AcquireLock, ReadTaken, Claim, ClaimFails, InsertServer, Link, LinkFails,
     Undo, ReadExisting, DropNew, DropOld, Relink, Rebase, ReallocateFails, Release,
     ReleaseFails, Hide
<1>2. PICK t \in Servers : procs[p].server = t
  BY <1>1 DEF Shape, BusyHasServer
<1> QED
  BY <1>2, ReadingKeeps, ClaimKeeps, FailuresKeep, DroppingKeeps, InsertServerKeeps, LinkKeeps,
     LinkFailsKeeps, DropOldKeeps, RelinkKeeps, RebaseKeeps, ReleasingKeeps, HideKeeps
  DEF Step

\* The invariant says what was asked for.
LEMMA KeepingIsEnough ==
  ASSUME Shape, Keeping
  PROVE  BlocksKept
<1>1. OwnBlock
  <2> SUFFICES ASSUME NEW s \in Servers \ history.disturbed, AtRest(s)
               PROVE  {r.port : r \in RowsOf(s)} = Block(servers[s].base, GameOf[s])
    BY DEF OwnBlock
  <2>1. Rest(s) /\ Requesting(s) = {}
    BY DEF AtRest, Keeping, ServersSound, Requesting
  <2> QED
    BY <2>1 DEF AtRest, Rest, PortsOf
<1>2. NoLeak
  <2> SUFFICES ASSUME NEW r \in rows
               PROVE  IF r.server = NoServer
                        THEN r.claim \in history.abandoned \/ \E p \in Procs : procs[p].claim = r.claim
                        ELSE r.server \in history.disturbed \/ servers[r.server].status # "deleted"
    BY DEF NoLeak
  <2>1. CASE r.server = NoServer
    BY <2>1 DEF Keeping, HeldOrAbandoned
  <2>2. CASE r.server # NoServer
    <3>1. r.server \in Servers /\ r \in RowsOf(r.server)
      BY <2>2 DEF Shape, TypeOK, RowsOf
    <3> QED
      BY <2>2, <3>1 DEF Keeping, ServersSound, Rest
  <2> QED
    BY <2>1, <2>2
<1> QED
  BY <1>1, <1>2 DEF BlocksKept

\* A server at rest has its own block, and no block is lost but with a request that ended
\* with nothing undone, whatever fails and wherever the API dies (createServer and its
\* catch, reallocateServerPorts, deleteServer).
THEOREM BlocksAreKept == Spec => []BlocksKept
<1>1. Init => Keeping
  <2> SUFFICES ASSUME Init PROVE Keeping
    OBVIOUS
  <2>1. /\ rows = {} /\ \A p \in Procs : procs[p] = Idle
        /\ \A s \in Servers : servers[s].status = "none"
    BY DEF Init
  <2>2. /\ Idle.claim = 0 /\ Idle.old = {} /\ Idle.pc = "idle" /\ Idle.server = NoServer
    BY DEF Idle
  <2>3. OpsSound
    BY <2>1, IdleFits DEF OpsSound
  <2>4. ClaimsSound /\ OldSound /\ HeldOrAbandoned
    BY <2>1, <2>2 DEF ClaimsSound, OldSound, HeldOrAbandoned, At
  <2>5. \A s \in Servers : Requesting(s) = {} /\ RowsOf(s) = {}
    BY <2>1, <2>2, PortsAssumption DEF Requesting, RowsOf
  <2>6. ServersSound
    BY <2>1, <2>5 DEF ServersSound, Progress, Rest
  <2> QED
    BY <2>3, <2>4, <2>6 DEF Keeping
<1>2. Shape /\ Shape' /\ Keeping /\ [Next]_vars => Keeping'
  <2> SUFFICES ASSUME Shape, Shape', Keeping, [Next]_vars PROVE Keeping'
    OBVIOUS
  <2>1. CASE UNCHANGED vars
    <3>1. OpsSound' /\ ClaimsSound' /\ OldSound' /\ HeldOrAbandoned'
      BY <2>1 DEF vars, Keeping, OpsSound, Fits, ClaimsSound, OldSound, HeldOrAbandoned, At, RowsIn
    <3>2. ASSUME NEW s \in Servers, Progress(s), Rest(s) PROVE Progress(s)' /\ Rest(s)'
      BY <2>1, <3>2, ServerUntouched DEF vars, RowsOf, RowsIn, RowsWith
    <3> QED
      BY <2>1, <3>1, <3>2 DEF vars, Keeping, ServersSound
  <2>2. ASSUME NEW p \in Procs, Step(p) PROVE Keeping'
    BY <2>2, StatementsKeep
  <2>3. ASSUME NEW p \in Procs, NEW s \in Servers,
               BeginCreate(p, s) \/ BeginReallocate(p, s) \/ BeginDelete(p, s)
        PROVE  Keeping'
    BY <2>3, BeginCreateKeeps, BeginReallocateKeeps, BeginDeleteKeeps
  <2> QED
    BY <2>1, <2>2, <2>3, CrashKeeps DEF Next
<1>3. Shape /\ Keeping => BlocksKept
  BY KeepingIsEnough
<1> QED
  BY <1>1, <1>2, <1>3, ShapeCorrect, PTL DEF Spec

=============================================================================
