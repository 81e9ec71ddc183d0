------------------------------ MODULE AuditLog ------------------------------
(***************************************************************************)
(* The audit log: entries chained by their hashes, appended by any request *)
(* or timer in a transaction of its own, cut off at the front by the       *)
(* scheduler, and verified from the genesis value.                         *)
(*                                                                         *)
(* A hash is a number nothing else has: the digest of the entry before     *)
(* and of the entry's own content.                                         *)
(***************************************************************************)
EXTENDS Integers, FiniteSets

CONSTANTS
  Writers,    \* requests and timers with something to record
  Limit,      \* entries a verification reads
  Retention,  \* days an entry is kept
  MaxEntries, \* bound: entries ever appended
  MaxDays     \* bound: days that pass

ASSUME AuditAssumption ==
  /\ Limit \in Nat \ {0} /\ Retention \in Nat
  /\ MaxEntries \in Nat /\ MaxDays \in Nat
  /\ "nobody" \notin Writers

VARIABLES
  entries, \* the table: id -> [hash, prev, at]
  lock,    \* the writer that holds the advisory lock, or Nobody
  writing, \* per writer, its stage and the hash it has read
  cutoff,  \* the day before which the scheduler is about to delete, or NotPruning
  day,     \* the clock
  drawn    \* hashes computed so far

auditVars == <<entries, lock, writing, cutoff, day, drawn>>

Genesis == 0
Nobody == "nobody"
NotPruning == -1
NotWriting == [stage |-> "idle", prev |-> Genesis]

AuditInit ==
  /\ entries = [id \in {} |-> NotWriting] /\ lock = Nobody /\ writing = [w \in Writers |-> NotWriting]
  /\ cutoff = NotPruning /\ day = 0 /\ drawn = 0

(* The table in the order of its ids *)

Ids == DOMAIN entries
Before(id) == {i \in Ids : i < id}
Newest(ids) == CHOOSE i \in ids : \A j \in ids : j <= i
HashOfLast(ids) == IF ids = {} THEN Genesis ELSE entries[Newest(ids)].hash

(* Appending *)

\* Mutated: nobody is waited for.
TakeLockMut(w) == lock' = w

\* pg_advisory_xact_lock: waits for the transaction that holds it.
TakeLock(w) ==
  /\ lock = Nobody
  /\ lock' = w

Audit(w) ==
  /\ writing[w].stage = "idle" /\ drawn < MaxEntries
  /\ TakeLock(w)
  /\ writing' = [writing EXCEPT ![w].stage = "locked"]
  /\ UNCHANGED <<entries, cutoff, day, drawn>>

ReadPrevious(w) ==
  /\ writing[w].stage = "locked"
  /\ writing' = [writing EXCEPT ![w] = [stage |-> "read", prev |-> HashOfLast(Ids)]]
  /\ UNCHANGED <<entries, lock, cutoff, day, drawn>>

\* The row is committed, and the lock goes with the transaction.
Commit(w) ==
  /\ writing[w].stage = "read"
  /\ drawn' = drawn + 1
  /\ entries' = [id \in Ids \cup {drawn'} |->
                    IF id = drawn' THEN [hash |-> drawn', prev |-> writing[w].prev, at |-> day]
                    ELSE entries[id]]
  /\ writing' = [writing EXCEPT ![w] = NotWriting]
  /\ lock' = Nobody
  /\ UNCHANGED <<cutoff, day>>

\* The database fails or the panel stops: the transaction is rolled back, and
\* the action that was to be recorded goes on without an entry.
RollBack(w) ==
  /\ writing[w].stage # "idle"
  /\ writing' = [writing EXCEPT ![w] = NotWriting]
  /\ lock' = Nobody
  /\ UNCHANGED <<entries, cutoff, day, drawn>>

(* Retention: two steps of the scheduler, without the lock *)

PruneAudit ==
  /\ cutoff = NotPruning /\ day > Retention
  /\ cutoff' = day - Retention
  /\ UNCHANGED <<entries, lock, writing, day, drawn>>

Kept(e) == e.at >= cutoff

DeleteOld ==
  /\ cutoff # NotPruning
  /\ entries' = [id \in {i \in Ids : Kept(entries[i])} |-> entries[id]]
  /\ cutoff' = NotPruning
  /\ UNCHANGED <<lock, writing, day, drawn>>

DayPasses ==
  /\ day < MaxDays /\ day' = day + 1
  /\ UNCHANGED <<entries, lock, writing, cutoff, drawn>>

AuditNext ==
  \/ \E w \in Writers : Audit(w) \/ ReadPrevious(w) \/ Commit(w) \/ RollBack(w)
  \/ PruneAudit \/ DeleteOld \/ DayPasses

AuditSpec == AuditInit /\ [][AuditNext]_auditVars

(* Verification *)

\* The oldest Limit entries; the answer names the first that does not follow.
VerifyAuditChain ==
  LET read == {i \in Ids : Cardinality(Before(i)) < Limit}
      broken == {i \in read : entries[i].prev # HashOfLast(Before(i))}
  IN [valid |-> broken = {}, broken |-> IF broken = {} THEN 0 ELSE CHOOSE i \in broken : \A j \in broken : i <= j]

(***************************************************************************)
(* Properties                                                              *)
(***************************************************************************)

\* However writers, failures and retention overlap, the entries that are kept are
\* one chain: each follows the one before it, and no two follow the same ("two
\* concurrent writers cannot both read the same prevHash and fork the chain",
\* audit.ts:8).  So an answer that the chain is broken can only be about the
\* oldest entry, whose own predecessor retention has deleted.
ChainSound ==
  /\ \A i \in Ids : Before(i) # {} => entries[i].prev = HashOfLast(Before(i))
  /\ \A i, j \in Ids : entries[i].prev = entries[j].prev => i = j
  /\ VerifyAuditChain.broken # 0 => Before(VerifyAuditChain.broken) = {} /\ day > Retention

\* Claimed: the chain is "verifiable forward from the oldest retained entry"
\* (scheduler.ts:125); the verification begins at the genesis value.
VerifiableForward == VerifyAuditChain.valid
=============================================================================
