---------------------------- MODULE PortAllocator ----------------------------
(***************************************************************************)
(* The port blocks of one node: allocatePorts and releasePorts of          *)
(* port-allocator.ts, and the three handlers of server-service.ts that use *)
(* them (createServer, reallocateServerPorts, deleteServer).  Allocation   *)
(* runs in a transaction under an advisory lock; linking the rows to their *)
(* server, and giving old rows up, are separate statements outside it.     *)
(***************************************************************************)
EXTENDS Integers

CONSTANTS
  Procs,               \* slots for concurrent requests
  Servers,             \* the servers that may be created
  NoServer,            \* a row's serverId before it is linked: null
  Games, GameOf,       \* every server's title
  Offsets,             \* game -> the offsets of the ports it binds
  Span,                \* game -> highest offset + 1
  Base, Stride, RangeEnd,    \* game -> its portBlock
  RangeStart, NodeRangeEnd,  \* the node's own range, within the platform's
  Ops, Faults,         \* the requests and the failures of this instance
  MaxClaims, MaxFaults \* bounds on the allocations and on the failures

NoProc == "nobody"

ASSUME PortsAssumption ==
  /\ NoServer \notin Servers /\ NoProc \notin Procs
  /\ GameOf \in [Servers -> Games]
  /\ Offsets \in [Games -> SUBSET Nat]
  /\ Span \in [Games -> Nat \ {0}]
  /\ Base \in [Games -> Nat] /\ RangeEnd \in [Games -> Nat]
  /\ Stride \in [Games -> Nat \ {0}]
  /\ RangeStart \in Nat /\ NodeRangeEnd \in Nat
  /\ MaxClaims \in Nat /\ MaxFaults \in Nat
  /\ Ops \subseteq {"create", "reallocate", "delete"}
  /\ Faults \subseteq {"database", "api"}

\* Span is what allocatePorts computes with Math.max over the game's ports.
ASSUME SpanAssumption == \A g \in Games : \A o \in Offsets[g] : o < Span[g]

VARIABLES
  rows,     \* the PortAllocation rows of the node
  servers,  \* server -> [status, base]
  lock,     \* who holds the advisory lock
  procs,    \* the requests in flight
  claims,   \* how many allocations have committed
  faults,   \* how many failures have happened
  history   \* what the properties remember; the code has no such state

vars == <<rows, servers, lock, procs, claims, faults, history>>

\* "live" is a server that has been provisioned and is offline.
Statuses == {"none", "creating", "live", "deleting", "deleted"}

Min2(a, b) == IF a < b THEN a ELSE b
Max2(a, b) == IF a > b THEN a ELSE b

Ports == {r.port : r \in rows}
RowsOf(s) == {r \in rows : r.server = s}
RowsIn(ids) == {r \in rows : r.claim \in ids}

Pcs == {"idle", "existing", "lock", "read", "claim", "insert", "link",
        "dropNew", "dropOld", "relink", "rebase", "undo", "release", "hide"}

\* claim: this request's own allocation.  old: those it found on the server.
\* read: the ports it has seen taken.  base: of the server, then of the claim.
Idle == [op |-> "none", pc |-> "idle", server |-> NoServer, claim |-> 0,
         old |-> {}, read |-> {}, base |-> 0]

At(p, pc) == procs[p].pc = pc
GoTo(p, pc) == procs' = [procs EXCEPT ![p].pc = pc]
Finish(p) == procs' = [procs EXCEPT ![p] = Idle]

Fault(kind) == kind \in Faults /\ faults < MaxFaults /\ faults' = faults + 1

\* A request on s arrives while another is in flight.
Disturb(s) ==
  history' = [history EXCEPT !.disturbed =
                IF \E q \in Procs : procs[q].server = s THEN @ \cup {s} ELSE @]

\* The requests of a set end with nothing undone: the blocks they hold stay claimed,
\* and a reallocation past dropOld leaves the server between two of them.
Abandon(ps) ==
  history' = [abandoned |-> history.abandoned \cup {procs[p].claim : p \in ps},
              disturbed |-> history.disturbed \cup
                {procs[p].server : p \in {q \in ps : procs[q].pc \in {"relink", "rebase"}}}]

(***************************************************************************)
(* allocatePorts                                                           *)
(***************************************************************************)

BlockSize(g) == Max2(Stride[g], Span[g])

Window(base, g) == base .. base + BlockSize(g) - 1
Block(base, g) == {base + o : o \in Offsets[g]}

\* The windows scan() would accept, of which it returns the first.
FreeBlocks(used, g, from, to) ==
  {c \in from .. to : /\ (c - from) % BlockSize(g) = 0
                      /\ c + BlockSize(g) - 1 <= to
                      /\ Window(c, g) \cap used = {}}

InBand(used, g) == FreeBlocks(used, g, Base[g], Min2(RangeEnd[g], NodeRangeEnd))
InNodeRange(used, g) == FreeBlocks(used, g, RangeStart, NodeRangeEnd)

\* The title's own band first, the node's range when that is full.
Eligible(used, g) == IF InBand(used, g) # {} THEN InBand(used, g) ELSE InNodeRange(used, g)

\* Mutated: a transaction without the advisory lock.
AcquireLockMut(p) ==
  /\ At(p, "lock")
  /\ lock' = p
  /\ GoTo(p, "read")
  /\ UNCHANGED <<rows, servers, claims, faults, history>>

AcquireLock(p) ==
  /\ At(p, "lock")
  /\ lock = NoProc
  /\ lock' = p
  /\ GoTo(p, "read")
  /\ UNCHANGED <<rows, servers, claims, faults, history>>

ReadTaken(p) ==
  /\ At(p, "read")
  /\ procs' = [procs EXCEPT ![p].read = Ports, ![p].pc = "claim"]
  /\ UNCHANGED <<rows, servers, lock, claims, faults, history>>

\* A request that finds its old block again has claimed nothing it needs.
AfterClaim(h, base) ==
  IF h.op = "create" THEN "insert" ELSE IF base = h.base THEN "dropNew" ELSE "dropOld"

\* The rows are inserted and the transaction commits, which releases the lock.
Claim(p) ==
  LET s == procs[p].server
      g == GameOf[s]
      free == Eligible(procs[p].read, g)
  IN /\ At(p, "claim")
     /\ claims < MaxClaims
     /\ \E base \in free :
          /\ \A other \in free : base <= other
          /\ rows' = rows \cup {[claim |-> claims + 1, port |-> port, server |-> NoServer] :
                                  port \in Block(base, g)}
          /\ procs' = [procs EXCEPT ![p] = [@ EXCEPT
               !.claim = claims + 1,
               !.base = base,
               !.read = {},
               !.pc = AfterClaim(procs[p], base)]]
     /\ claims' = claims + 1
     /\ lock' = NoProc
     /\ UNCHANGED <<servers, faults, history>>

\* no_ports_available, or the database fails: the transaction rolls back.
ClaimFails(p) ==
  /\ At(p, "claim")
  /\ \/ Eligible(procs[p].read, GameOf[procs[p].server]) = {} /\ UNCHANGED faults
     \/ Fault("database")
  /\ lock' = NoProc
  /\ Finish(p)
  /\ UNCHANGED <<rows, servers, claims, history>>

(***************************************************************************)
(* createServer                                                            *)
(***************************************************************************)

BeginCreate(p, s) ==
  /\ "create" \in Ops
  /\ At(p, "idle")
  /\ servers[s].status = "none"
  /\ \A q \in Procs : procs[q].server # s
  /\ procs' = [procs EXCEPT ![p] = [Idle EXCEPT !.op = "create", !.server = s, !.pc = "lock"]]
  /\ UNCHANGED <<rows, servers, lock, claims, faults, history>>

\* Mutated: stores the client's spelling of the state.
InsertServerMut(p) ==
  /\ At(p, "insert")
  /\ servers' = [servers EXCEPT ![procs[p].server] =
                   [status |-> "CREATING", base |-> procs[p].base]]
  /\ GoTo(p, "link")
  /\ UNCHANGED <<rows, lock, claims, faults, history>>

InsertServer(p) ==
  /\ At(p, "insert")
  /\ \/ /\ servers' = [servers EXCEPT ![procs[p].server] =
                         [status |-> "creating", base |-> procs[p].base]]
        /\ GoTo(p, "link")
        /\ UNCHANGED faults
     \/ Fault("database") /\ GoTo(p, "undo") /\ UNCHANGED servers
  /\ UNCHANGED <<rows, lock, claims, history>>

\* updateMany ... data: { serverId }
LinkRows(p) ==
  rows' = (rows \ RowsIn({procs[p].claim}))
          \cup {[r EXCEPT !.server = procs[p].server] : r \in RowsIn({procs[p].claim})}

\* The rows are linked and the server goes on to be provisioned.
Link(p) ==
  /\ At(p, "link")
  /\ LinkRows(p)
  /\ servers' = [servers EXCEPT ![procs[p].server].status =
                   IF @ = "creating" THEN "live" ELSE @]
  /\ Finish(p)
  /\ UNCHANGED <<lock, claims, faults, history>>

\* The link fails, or the mkdir after it does.
LinkFails(p) ==
  /\ At(p, "link")
  /\ Fault("database")
  /\ LinkRows(p) \/ UNCHANGED rows
  /\ GoTo(p, "undo")
  /\ UNCHANGED <<servers, lock, claims, history>>

\* Mutated: rows that are still unlinked are taken for somebody else's.
UndoMut(p) ==
  /\ At(p, "undo")
  /\ rows' = rows \ RowsOf(procs[p].server)
  /\ Finish(p)
  /\ UNCHANGED <<servers, lock, claims, faults, history>>

\* The catch of createServer hands the block back, and ignores a failure to; the
\* server's row, if it got that far, stays.
Undo(p) ==
  /\ At(p, "undo")
  /\ \/ rows' = rows \ RowsIn({procs[p].claim}) /\ UNCHANGED <<faults, history>>
     \/ Fault("database") /\ Abandon({p}) /\ UNCHANGED rows
  /\ Finish(p)
  /\ UNCHANGED <<servers, lock, claims>>

(***************************************************************************)
(* reallocateServerPorts, of a server that is offline                      *)
(***************************************************************************)

BeginReallocate(p, s) ==
  /\ "reallocate" \in Ops
  /\ At(p, "idle")
  /\ servers[s].status = "live"
  /\ Disturb(s)
  /\ procs' = [procs EXCEPT ![p] = [Idle EXCEPT !.op = "reallocate", !.server = s,
                                      !.base = servers[s].base, !.pc = "existing"]]
  /\ UNCHANGED <<rows, servers, lock, claims, faults>>

ReadExisting(p) ==
  /\ At(p, "existing")
  /\ procs' = [procs EXCEPT ![p].old = {r.claim : r \in RowsOf(procs[p].server)},
                            ![p].pc = "lock"]
  /\ UNCHANGED <<rows, servers, lock, claims, faults, history>>

\* Nothing moved: the block just claimed is dropped.
DropNew(p) ==
  /\ At(p, "dropNew")
  /\ rows' = rows \ RowsIn({procs[p].claim})
  /\ Finish(p)
  /\ UNCHANGED <<servers, lock, claims, faults, history>>

DropOld(p) ==
  /\ At(p, "dropOld")
  /\ rows' = rows \ RowsIn(procs[p].old)
  /\ GoTo(p, "relink")
  /\ UNCHANGED <<servers, lock, claims, faults, history>>

Relink(p) ==
  /\ At(p, "relink")
  /\ LinkRows(p)
  /\ GoTo(p, "rebase")
  /\ UNCHANGED <<servers, lock, claims, faults, history>>

Rebase(p) ==
  /\ At(p, "rebase")
  /\ servers' = [servers EXCEPT ![procs[p].server].base = procs[p].base]
  /\ Finish(p)
  /\ UNCHANGED <<rows, lock, claims, faults, history>>

\* A statement of the reallocation throws: nothing catches it.
ReallocateFails(p) ==
  /\ procs[p].pc \in {"existing", "dropNew", "dropOld", "relink", "rebase"}
  /\ Fault("database")
  /\ Abandon({p})
  /\ Finish(p)
  /\ UNCHANGED <<rows, servers, lock, claims>>

(***************************************************************************)
(* deleteServer                                                            *)
(***************************************************************************)

BeginDelete(p, s) ==
  /\ "delete" \in Ops
  /\ At(p, "idle")
  /\ servers[s].status \in {"creating", "live", "deleting"}
  /\ Disturb(s)
  /\ servers' = [servers EXCEPT ![s].status = "deleting"]
  /\ procs' = [procs EXCEPT ![p] = [Idle EXCEPT !.op = "delete", !.server = s, !.pc = "release"]]
  /\ UNCHANGED <<rows, lock, claims, faults>>

\* releasePorts; deleteServer swallows what it throws.
Release(p) ==
  /\ At(p, "release")
  /\ rows' = rows \ RowsOf(procs[p].server)
  /\ GoTo(p, "hide")
  /\ UNCHANGED <<servers, lock, claims, faults, history>>

ReleaseFails(p) ==
  /\ At(p, "release")
  /\ Fault("database")
  /\ GoTo(p, "hide")
  /\ history' = [history EXCEPT !.disturbed = @ \cup {procs[p].server}]
  /\ UNCHANGED <<rows, servers, lock, claims>>

Hide(p) ==
  /\ At(p, "hide")
  /\ servers' = [servers EXCEPT ![procs[p].server].status = "deleted"]
  /\ Finish(p)
  /\ UNCHANGED <<rows, lock, claims, faults, history>>

\* The API process dies: its transaction rolls back and its lock goes with the
\* connection; what was committed stays.
ApiCrash ==
  /\ Fault("api")
  /\ procs' = [p \in Procs |-> Idle]
  /\ lock' = NoProc
  /\ Abandon(Procs)
  /\ UNCHANGED <<rows, servers, claims>>

Init ==
  /\ rows = {}
  /\ servers = [s \in Servers |-> [status |-> "none", base |-> 0]]
  /\ lock = NoProc
  /\ procs = [p \in Procs |-> Idle]
  /\ claims = 0
  /\ faults = 0
  /\ history = [abandoned |-> {}, disturbed |-> {}]

Step(p) ==
  \/ AcquireLock(p) \/ ReadTaken(p) \/ Claim(p) \/ ClaimFails(p)
  \/ InsertServer(p) \/ Link(p) \/ LinkFails(p) \/ Undo(p)
  \/ ReadExisting(p) \/ DropNew(p) \/ DropOld(p) \/ Relink(p) \/ Rebase(p)
  \/ ReallocateFails(p) \/ Release(p) \/ ReleaseFails(p) \/ Hide(p)

Next ==
  \/ \E p \in Procs : \/ \E s \in Servers : BeginCreate(p, s) \/ BeginReallocate(p, s)
                                            \/ BeginDelete(p, s)
                      \/ Step(p)
  \/ ApiCrash

Spec == Init /\ [][Next]_vars

(***************************************************************************)
(* Properties                                                              *)
(***************************************************************************)

TypeOK ==
  /\ rows \subseteq [claim : 1 .. claims, port : Nat, server : Servers \cup {NoServer}]
  /\ servers \in [Servers -> [status : Statuses, base : Nat]]
  /\ lock \in Procs \cup {NoProc}
  /\ procs \in [Procs -> [op : {"none", "create", "reallocate", "delete"}, pc : Pcs,
                          server : Servers \cup {NoServer}, claim : Nat,
                          old : SUBSET Nat, read : SUBSET Nat, base : Nat]]
  /\ claims \in Nat /\ faults \in Nat
  /\ history \in [abandoned : SUBSET Nat, disturbed : SUBSET (Servers \cup {NoServer})]

\* No port of the node is handed out twice, whichever titles, protocols and
\* requests are involved (allocatePorts and its advisory lock).
PortsDisjoint == \A r1, r2 \in rows : r1.port = r2.port => r1 = r2

\* A server at rest has exactly the ports of its own base port: those its
\* container publishes and its game binds (createServer, reallocateServerPorts).
\* Requests on one server that overlap, and a reallocation that fails after it has
\* dropped the old block, are the only two ways to lose that.
AtRest(s) == servers[s].status = "live" /\ \A p \in Procs : procs[p].server # s
OwnBlock ==
  \A s \in Servers \ history.disturbed : AtRest(s) =>
    {r.port : r \in RowsOf(s)} = Block(servers[s].base, GameOf[s])

\* A create that fails does not consume a block for good (the catch of
\* createServer): a reserved port belongs to a server that is still there, or to
\* a request that is about to link it or hand it back.  Blocks are lost with
\* requests that end with nothing undone, and only with those.
NoLeak ==
  \A r \in rows :
    IF r.server = NoServer
      THEN r.claim \in history.abandoned \/ \E p \in Procs : procs[p].claim = r.claim
      ELSE r.server \in history.disturbed \/ servers[r.server].status # "deleted"

\* Blocks are kept: each belongs to who should have it, and none is lost.
BlocksKept == OwnBlock /\ NoLeak

(***************************************************************************)
(* What comments say, and the code does not do                             *)
(***************************************************************************)

\* reallocateServerPorts: "a failure part way through leaves the server with the
\* ports it already had rather than none at all".
KeepsPorts ==
  \A s \in Servers : AtRest(s) => RowsOf(s) # {}

\* allocatePorts: "Step by the block size so blocks never interleave, and check
\* the whole window [...] so a title that reserves elbow room actually gets it."
\* No port of one server lies in the window reserved for another.
ElbowRoom ==
  \A s, t \in Servers :
    (s # t /\ AtRest(s) /\ AtRest(t)) =>
      {r.port : r \in RowsOf(s)} \cap Window(servers[t].base, GameOf[t]) = {}
=============================================================================
