---------------------------- MODULE RecordsProofs ----------------------------
(***************************************************************************)
(* What holds of what the panel records, for every set of writers, nodes,  *)
(* destinations and pages: the audit log, the destinations of              *)
(* notifications, the settings, the roll-up of usage, and the capacity     *)
(* that is handed out of a node.                                           *)
(***************************************************************************)
EXTENDS AuditLog, Notifications, Settings, Metering, Nodes, FiniteSetTheorems, WellFoundedInduction, TLAPS

(***************************************************************************)
(* The audit log.  Ids are drawn in the order of the hashes, so that the   *)
(* hash of an entry is its id.                                             *)
(***************************************************************************)
AuditTyped ==
  /\ drawn \in Nat /\ day \in Nat /\ cutoff \in Int
  /\ DOMAIN writing = Writers
  /\ \A i \in Ids : i \in 1..drawn /\ entries[i].hash = i /\ entries[i].prev \in 0..(i - 1)
                    /\ entries[i].at \in 0..day

\* Who is between taking the lock and the end of the transaction has the lock.
WriterHasLock ==
  \A w \in Writers : /\ writing[w].stage \in {"idle", "locked", "read"}
                     /\ writing[w].stage # "idle" => lock = w

\* Later entries are not older, so that retention cuts the table at one place.
AgeFollowsId == \A i, j \in Ids : i < j => entries[i].at <= entries[j].at

Chained == \A i \in Ids : Before(i) # {} => entries[i].prev = Newest(Before(i))

\* What a writer has read is the newest entry, unless retention has taken all.
ReadIsNewest ==
  \A w \in Writers : writing[w].stage = "read" =>
    /\ writing[w].prev \in 0..drawn
    /\ \A i \in Ids : i <= writing[w].prev
    /\ Ids # {} => writing[w].prev \in Ids

\* Before the first day on which anything is old enough, nothing was deleted.
NothingPruned ==
  day <= Retention =>
    /\ cutoff = NotPruning
    /\ \A i \in Ids : Before(i) = {} => entries[i].prev = Genesis
    /\ \A w \in Writers : writing[w].stage = "read" /\ Ids = {} => writing[w].prev = Genesis

AInv == AuditTyped /\ WriterHasLock /\ AgeFollowsId /\ Chained /\ ReadIsNewest /\ NothingPruned

\* A set of naturals that is not empty has a least one.
LEMMA LeastNatural ==
  ASSUME NEW S \in SUBSET Nat, S # {}
  PROVE  \E m \in S : \A n \in S : m <= n
<1>1. \E m \in S : \A n \in S : ~(<<n, m>> \in OpToRel(<, Nat))
  BY WFMin, NatLessThanWellFounded
<1>2. \A m, n \in Nat : ~(<<n, m>> \in OpToRel(<, Nat)) => m <= n BY DEF OpToRel
<1> QED BY <1>1, <1>2

\* And one that is bounded has a greatest one.
LEMMA GreatestNatural ==
  ASSUME NEW b \in Nat, NEW S \in SUBSET (0..b), S # {}
  PROVE  \E m \in S : \A n \in S : n <= m
<1> DEFINE T == {i \in 0..b : b - i \in S}
<1>1. PICK s \in S : TRUE OBVIOUS
<1>2. b - s \in T BY <1>1
<1>3. T \in SUBSET Nat /\ T # {}
  <2>1. \A i \in 0..b : i \in Nat OBVIOUS
  <2> QED BY <1>2, <2>1
<1> HIDE DEF T
<1>4. PICK m \in T : \A n \in T : m <= n BY <1>3, LeastNatural
<1>5. m \in 0..b /\ b - m \in S BY DEF T
<1>6. ASSUME NEW n \in S PROVE n <= b - m
  <2>1. n \in 0..b /\ b - (b - n) = n /\ b - n \in 0..b OBVIOUS
  <2>2. b - n \in T BY <2>1 DEF T
  <2>3. m <= b - n BY <1>4, <2>2
  <2> QED BY <1>5, <2>1, <2>3
<1> QED BY <1>5, <1>6

\* The newest of some ids is one of them.
LEMMA NewestFacts ==
  ASSUME NEW b \in Nat, NEW S \in SUBSET (1..b), S # {}
  PROVE  Newest(S) \in S /\ \A i \in S : i <= Newest(S)
<1>1. \E m \in S : \A n \in S : n <= m
  <2>1. S \in SUBSET (0..b) OBVIOUS
  <2> QED BY <2>1, GreatestNatural
<1> QED BY <1>1 DEF Newest

\* An empty log is sound.
LEMMA AuditInitially == AuditInit => AInv
BY AuditAssumption
   DEF AuditInit, AInv, AuditTyped, WriterHasLock, AgeFollowsId, Chained, ReadIsNewest, NothingPruned,
       Ids, Before, NotWriting, Genesis, NotPruning

\* Every statement of a writer and of retention, and every day, keeps it so.
LEMMA AuditStep == AInv /\ [AuditNext]_auditVars => AInv'
<1> SUFFICES ASSUME AInv, [AuditNext]_auditVars PROVE AInv' OBVIOUS
<1> USE AuditAssumption DEF AInv, AuditTyped, WriterHasLock
<1>1. ASSUME NEW w \in Writers, Audit(w) PROVE AInv'
  <2>1. \A v \in Writers : writing[v].stage = "idle" BY <1>1 DEF Audit, TakeLock, Nobody
  <2>2. writing'[w].stage = "locked" /\ \A v \in Writers \ {w} : writing'[v] = writing[v]
    BY <1>1 DEF Audit
  <2> QED BY <1>1, <2>1, <2>2
          DEF Audit, TakeLock, AgeFollowsId, Chained, ReadIsNewest, NothingPruned, Ids, Before
<1>2. ASSUME NEW w \in Writers, ReadPrevious(w) PROVE AInv'
  <2>1. writing'[w] = [stage |-> "read", prev |-> HashOfLast(Ids)]
        /\ \A v \in Writers \ {w} : writing'[v] = writing[v]
    BY <1>2 DEF ReadPrevious
  <2>2. /\ HashOfLast(Ids) \in 0..drawn /\ \A i \in Ids : i <= HashOfLast(Ids)
        /\ Ids # {} => HashOfLast(Ids) \in Ids
        /\ Ids = {} => HashOfLast(Ids) = Genesis
    <3>1. CASE Ids = {} BY <3>1 DEF HashOfLast, Genesis
    <3>2. CASE Ids # {}
      <4>1. Newest(Ids) \in Ids /\ \A i \in Ids : i <= Newest(Ids) BY <3>2, NewestFacts
      <4> QED BY <3>2, <4>1 DEF HashOfLast
    <3> QED BY <3>1, <3>2
  <2>3. UNCHANGED <<entries, lock, cutoff, day, drawn, Ids>> BY <1>2 DEF ReadPrevious, Ids
  <2>4. writing[w].stage = "locked" /\ DOMAIN writing' = Writers BY <1>2 DEF ReadPrevious
  <2>5. (AuditTyped /\ WriterHasLock)' BY <2>1, <2>3, <2>4
  <2>6. (AgeFollowsId /\ Chained)' BY <2>3 DEF AgeFollowsId, Chained, Before
  <2>7. ReadIsNewest' BY <2>1, <2>2, <2>3 DEF ReadIsNewest
  <2>8. NothingPruned' BY <2>1, <2>2, <2>3 DEF NothingPruned, Before
  <2> QED BY <2>5, <2>6, <2>7, <2>8
<1>3. ASSUME NEW w \in Writers, Commit(w) PROVE AInv'
  <2> DEFINE n == drawn + 1  p == writing[w].prev
  <2>1. /\ drawn' = n /\ Ids' = Ids \cup {n} /\ n \notin Ids
        /\ entries'[n] = [hash |-> n, prev |-> p, at |-> day]
        /\ \A i \in Ids : entries'[i] = entries[i] /\ i < n
        /\ day' = day /\ cutoff' = cutoff
    BY <1>3 DEF Commit, Ids
  <2>2. /\ p \in 0..drawn /\ (\A i \in Ids : i <= p) /\ (Ids # {} => p \in Ids)
    BY <1>3 DEF Commit, ReadIsNewest
  <2>3. DOMAIN writing' = Writers /\ \A v \in Writers : writing'[v].stage = "idle"
    BY <1>3 DEF Commit, NotWriting
  <2>4. AuditTyped'
    <3> HIDE DEF p
    <3> QED BY <2>1, <2>2, <2>3
  <2>5. (WriterHasLock /\ ReadIsNewest)' BY <2>3 DEF ReadIsNewest
  <2>6. AgeFollowsId' BY <2>1 DEF AgeFollowsId
  <2>7. {i \in Ids' : i < n} = Ids /\ \A i \in Ids : {j \in Ids' : j < i} = Before(i) BY <2>1 DEF Before
  <2>8. Ids # {} => p = Newest(Ids)
    <3> SUFFICES ASSUME Ids # {} PROVE p = Newest(Ids) OBVIOUS
    <3>1. Newest(Ids) \in Ids /\ \A i \in Ids : i <= Newest(Ids) BY NewestFacts
    <3> QED BY <2>2, <3>1
  <2>9. Chained'
    <3> SUFFICES ASSUME NEW i \in Ids', {j \in Ids' : j < i} # {}
                 PROVE  entries'[i].prev = Newest({j \in Ids' : j < i})
      BY DEF Chained, Before, Newest
    <3>1. CASE i = n
      <4> HIDE DEF p
      <4>1. {j \in Ids' : j < i} = Ids BY <2>7, <3>1
      <4>2. Ids # {} BY <4>1
      <4>3. entries'[i].prev = p BY <2>1, <3>1
      <4>4. p = Newest(Ids) BY <2>8, <4>2
      <4>5. Newest({j \in Ids' : j < i}) = Newest(Ids) BY <4>1
      <4> QED BY <4>3, <4>4, <4>5
    <3>2. CASE i \in Ids BY <2>1, <2>7, <3>2 DEF Chained
    <3> QED BY <2>1, <3>1, <3>2
  <2>10. NothingPruned'
    <3>1. day <= Retention /\ Ids = {} => p = Genesis BY <1>3 DEF NothingPruned, Commit
    <3>2. day <= Retention => cutoff = NotPruning /\ \A i \in Ids : Before(i) = {} => entries[i].prev = Genesis
      BY DEF NothingPruned
    <3>3. \A i \in Ids' : Before(i)' = {j \in Ids' : j < i} BY DEF Before
    <3> QED BY <2>1, <2>3, <2>7, <3>1, <3>2, <3>3 DEF NothingPruned
  <2> QED BY <2>4, <2>5, <2>6, <2>9, <2>10
<1>4. ASSUME NEW w \in Writers, RollBack(w) PROVE AInv'
  BY <1>4 DEF RollBack, NotWriting, AgeFollowsId, Chained, ReadIsNewest, NothingPruned, Ids, Before
<1>5. CASE PruneAudit
  <2>1. UNCHANGED <<entries, lock, writing, day, drawn, Ids>> /\ cutoff' = day - Retention /\ day > Retention
    BY <1>5 DEF PruneAudit, Ids
  <2>2. (AuditTyped /\ WriterHasLock)' BY <2>1
  <2>3. (AgeFollowsId /\ Chained /\ ReadIsNewest)' BY <2>1 DEF AgeFollowsId, Chained, ReadIsNewest, Before
  <2>4. NothingPruned' BY <2>1 DEF NothingPruned
  <2> QED BY <2>2, <2>3, <2>4
<1>6. CASE DeleteOld
  <2>1. /\ Ids' = {i \in Ids : Kept(entries[i])}
        /\ \A i \in Ids' : entries'[i] = entries[i]
        /\ cutoff' = NotPruning /\ UNCHANGED <<lock, writing, day, drawn>>
    BY <1>6 DEF DeleteOld, Ids
  <2>2. day > Retention
    BY <1>6 DEF DeleteOld, NothingPruned
  <2>3. (AuditTyped /\ WriterHasLock)' BY <2>1 DEF NotPruning
  <2>4. AgeFollowsId' BY <2>1 DEF AgeFollowsId
  <2>5. \A i \in Ids', j \in Ids : i < j => j \in Ids'
    BY <2>1 DEF AgeFollowsId, Kept
  <2>6. Chained'
    <3> SUFFICES ASSUME NEW i \in Ids', Before(i)' # {} PROVE entries'[i].prev = Newest(Before(i)')
      BY DEF Chained, Newest
    <3>1. i \in Ids /\ Before(i)' \subseteq Before(i) BY <2>1 DEF Before
    <3>2. entries[i].prev = Newest(Before(i)) BY <3>1 DEF Chained
    <3>3. Newest(Before(i)) \in Before(i) /\ \A k \in Before(i) : k <= Newest(Before(i))
      BY <3>1, NewestFacts DEF Before
    <3>4. Newest(Before(i)') \in Before(i)' /\ \A k \in Before(i)' : k <= Newest(Before(i)')
      <4>1. Before(i)' \subseteq 1..drawn BY <3>1 DEF Before
      <4> QED BY <4>1, NewestFacts
    <3>5. Newest(Before(i)) \in Before(i)'
      <4>1. Newest(Before(i)') <= Newest(Before(i)) BY <3>1, <3>3, <3>4
      <4>2. Newest(Before(i)) \in Ids /\ Newest(Before(i)') \in Ids' BY <3>3, <3>4 DEF Before
      <4>3. Newest(Before(i)) \in Ids'
        <5>1. CASE Newest(Before(i)') = Newest(Before(i)) BY <4>2, <5>1
        <5>2. CASE Newest(Before(i)') < Newest(Before(i)) BY <2>5, <4>2, <5>2
        <5> QED BY <4>1, <4>2, <5>1, <5>2, <2>1
      <4> QED BY <3>3, <4>3 DEF Before
    <3>6. Newest(Before(i)) = Newest(Before(i)')
      <4>1. Newest(Before(i)) <= Newest(Before(i)') BY <3>4, <3>5
      <4>2. Newest(Before(i)') <= Newest(Before(i)) BY <3>1, <3>3, <3>4
      <4>3. Newest(Before(i)) \in Nat /\ Newest(Before(i)') \in Nat BY <2>1, <3>3, <3>4 DEF Before
      <4> QED BY <4>1, <4>2, <4>3
    <3> QED BY <2>1, <3>2, <3>6
  <2>7. ReadIsNewest'
    <3> SUFFICES ASSUME NEW w \in Writers, writing[w].stage = "read"
                 PROVE  /\ writing[w].prev \in 0..drawn
                        /\ \A i \in Ids' : i <= writing[w].prev
                        /\ Ids' # {} => writing[w].prev \in Ids'
      BY <2>1 DEF ReadIsNewest
    <3>1. /\ writing[w].prev \in 0..drawn /\ (\A i \in Ids : i <= writing[w].prev)
          /\ Ids # {} => writing[w].prev \in Ids
      BY DEF ReadIsNewest
    <3> QED BY <2>1, <2>5, <3>1
  <2>8. NothingPruned' BY <2>1, <2>2 DEF NothingPruned
  <2> QED BY <2>3, <2>4, <2>6, <2>7, <2>8
<1>7. CASE DayPasses
  BY <1>7 DEF DayPasses, AgeFollowsId, Chained, ReadIsNewest, NothingPruned, Ids, Before
<1>8. CASE UNCHANGED auditVars
  BY <1>8 DEF auditVars, AgeFollowsId, Chained, ReadIsNewest, NothingPruned, Ids, Before
<1> QED BY <1>1, <1>2, <1>3, <1>4, <1>5, <1>6, <1>7, <1>8 DEF AuditNext

\* The kept entries are one chain, whatever writers, failures and retention do:
\* the lock lets one writer at a time read and commit, and retention removes the
\* oldest entries only.
THEOREM ChainAlwaysSound == AuditSpec => []ChainSound
<1>1. AInv => ChainSound
  <2> SUFFICES ASSUME AInv PROVE ChainSound OBVIOUS
  <2> USE AuditAssumption DEF AInv, AuditTyped
  <2>1. ASSUME NEW i \in Ids, Before(i) # {}
        PROVE  /\ entries[i].prev = Newest(Before(i)) /\ HashOfLast(Before(i)) = Newest(Before(i))
               /\ Newest(Before(i)) \in Before(i) /\ \A k \in Before(i) : k <= Newest(Before(i))
    <3>1. Before(i) \subseteq 1..drawn /\ Before(i) \subseteq Ids BY DEF Before
    <3>2. Newest(Before(i)) \in Before(i) /\ \A k \in Before(i) : k <= Newest(Before(i))
      BY <2>1, <3>1, NewestFacts
    <3> QED BY <2>1, <3>1, <3>2 DEF Chained, HashOfLast
  <2>2. ASSUME NEW i \in Ids, NEW j \in Ids, i < j PROVE entries[i].prev # entries[j].prev
    <3>1. i \in Before(j) BY <2>2 DEF Before
    <3>2. i <= entries[j].prev BY <2>1, <3>1
    <3>3. entries[i].prev < i OBVIOUS
    <3>4. entries[i].prev \in Nat /\ entries[j].prev \in Nat /\ i \in Nat OBVIOUS
    <3> QED BY <3>2, <3>3, <3>4
  <2>3. \A i, j \in Ids : entries[i].prev = entries[j].prev => i = j
    <3>1. \A i, j \in Ids : i < j \/ j < i \/ i = j OBVIOUS
    <3> QED BY <2>2, <3>1
  <2>4. VerifyAuditChain.broken # 0 => Before(VerifyAuditChain.broken) = {} /\ day > Retention
    <3> DEFINE read == {i \in Ids : Cardinality(Before(i)) < Limit}
               broken == {i \in read : entries[i].prev # HashOfLast(Before(i))}
               first == CHOOSE i \in broken : \A j \in broken : i <= j
    <3>1. VerifyAuditChain.broken = IF broken = {} THEN 0 ELSE first BY DEF VerifyAuditChain
    <3>2. ASSUME broken # {} PROVE Before(first) = {} /\ day > Retention
      <4>1. broken \subseteq Nat OBVIOUS
      <4>2. \E i \in broken : \A j \in broken : i <= j BY <3>2, <4>1, LeastNatural
      <4>3. first \in broken BY <4>2
      <4>4. first \in Ids /\ entries[first].prev # HashOfLast(Before(first)) BY <4>3
      <4>5. Before(first) = {} BY <4>4, <2>1
      <4>6. entries[first].prev # Genesis BY <4>4, <4>5 DEF HashOfLast
      <4> QED BY <4>4, <4>5, <4>6 DEF NothingPruned
    <3> QED BY <3>1, <3>2
  <2>5. \A i \in Ids : Before(i) # {} => entries[i].prev = HashOfLast(Before(i)) BY <2>1
  <2> QED BY <2>3, <2>4, <2>5 DEF ChainSound
<1>2. AuditSpec => []AInv BY AuditInitially, AuditStep, PTL DEF AuditSpec
<1> QED BY <1>1, <1>2, PTL

(***************************************************************************)
(* The destinations.                                                       *)
(***************************************************************************)
RowOfDestination == [there : BOOLEAN, enabled : BOOLEAN, events : SUBSET Events, failures : Nat]
DeliveryStages == {"none", "sending", "refused", "disable"}

NotificationsTyped ==
  /\ rows \in [Destinations -> RowOfDestination]
  /\ delivery \in [Dispatches -> [Destinations -> DeliveryStages]]

NInv == NotificationsTyped /\ DeadIsSwitchedOff

\* One delivery moves on; the others, of this dispatch and of others, stay.
LEMMA DeliveryMoves ==
  ASSUME NotificationsTyped, NEW d \in Dispatches, NEW i \in Destinations, NEW stage \in DeliveryStages,
         Becomes(d, i, stage)
  PROVE  /\ delivery' \in [Dispatches -> [Destinations -> DeliveryStages]]
         /\ delivery'[d][i] = stage
         /\ \A e \in Dispatches, j \in Destinations : <<e, j>> # <<d, i>> => delivery'[e][j] = delivery[e][j]
BY DEF NotificationsTyped, Becomes

\* Every edit, delivery and answer keeps a dead destination switched off.
LEMMA NotificationsStep == NInv /\ [NotificationsNext]_notificationsVars => NInv'
<1> SUFFICES ASSUME NInv, [NotificationsNext]_notificationsVars PROVE NInv' OBVIOUS
<1> USE NotificationsAssumption DEF NInv
<1> USE DEF DeliveryStages
<1>1. ASSUME NEW d \in Dispatches, NEW e \in Events, DispatchEvent(d, e) PROVE NInv'
  <2> DEFINE due == {i \in Destinations : rows[i].enabled /\ e \in rows[i].events}
             sent == [i \in Destinations |-> IF i \in due THEN "sending" ELSE "none"]
  <2>1. /\ delivery' = [delivery EXCEPT ![d] = sent] /\ delivery[d] = NoDelivery
        /\ UNCHANGED <<rows, cutOff>>
    BY <1>1 DEF DispatchEvent
  <2>2. sent \in [Destinations -> DeliveryStages] OBVIOUS
  <2>3. NotificationsTyped' BY <2>1, <2>2 DEF NotificationsTyped
  <2>4. \A c \in Dispatches, i \in Destinations : delivery[c][i] = "disable" => delivery'[c][i] = "disable"
    BY <2>1 DEF NotificationsTyped, NoDelivery
  <2> QED BY <2>1, <2>3, <2>4 DEF DeadIsSwitchedOff
<1>2. ASSUME NEW d \in Dispatches, NEW i \in Destinations, Delivered(d, i) PROVE NInv'
  <2>1. /\ rows' = [rows EXCEPT ![i].failures = 0] /\ Becomes(d, i, "none") /\ cutOff' = cutOff \ {i}
        /\ delivery[d][i] = "sending"
    BY <1>2 DEF Delivered
  <2>4. rows' \in [Destinations -> RowOfDestination] BY <2>1 DEF NotificationsTyped, RowOfDestination
  <2>5. delivery' \in [Dispatches -> [Destinations -> DeliveryStages]] BY <2>1, DeliveryMoves
  <2>2. NotificationsTyped' BY <2>4, <2>5 DEF NotificationsTyped
  <2>3. /\ rows'[i].failures = 0
        /\ \A j \in Destinations \ {i} : rows'[j] = rows[j] /\ (j \in cutOff => j \in cutOff')
        /\ \A c \in Dispatches, j \in Destinations : delivery[c][j] = "disable" => delivery'[c][j] = "disable"
    BY <2>1, DeliveryMoves DEF NotificationsTyped, RowOfDestination
  <2> QED BY <2>2, <2>3 DEF DeadIsSwitchedOff
<1>3. ASSUME NEW d \in Dispatches, NEW i \in Destinations, Refused(d, i) PROVE NInv'
  <2>1. Becomes(d, i, "refused") /\ UNCHANGED <<rows, cutOff>> /\ delivery[d][i] = "sending"
    BY <1>3 DEF Refused
  <2>2. NotificationsTyped' BY <2>1, DeliveryMoves DEF NotificationsTyped
  <2>3. \A c \in Dispatches, j \in Destinations : delivery[c][j] = "disable" => delivery'[c][j] = "disable"
    BY <2>1, DeliveryMoves
  <2> QED BY <2>1, <2>2, <2>3 DEF DeadIsSwitchedOff
<1>4. ASSUME NEW d \in Dispatches, NEW i \in Destinations, CountFailure(d, i) PROVE NInv'
  <2> DEFINE stage == IF rows[i].there /\ KeepsFailing(rows[i].failures + 1) THEN "disable" ELSE "none"
  <2>1. /\ rows' = [rows EXCEPT ![i].failures = IF rows[i].there THEN @ + 1 ELSE @]
        /\ Becomes(d, i, stage) /\ delivery[d][i] = "refused" /\ cutOff' = cutOff
    BY <1>4 DEF CountFailure
  <2>2. stage \in DeliveryStages OBVIOUS
  <2>3. /\ delivery' \in [Dispatches -> [Destinations -> DeliveryStages]]
        /\ delivery'[d][i] = stage
        /\ \A c \in Dispatches, j \in Destinations : delivery[c][j] = "disable" => delivery'[c][j] = "disable"
    BY <2>1, <2>2, DeliveryMoves
  <2>4. /\ rows' \in [Destinations -> RowOfDestination]
        /\ \A j \in Destinations \ {i} : rows'[j] = rows[j]
        /\ rows'[i].enabled = rows[i].enabled
        /\ rows'[i].failures = IF rows[i].there THEN rows[i].failures + 1 ELSE rows[i].failures
    BY <2>1 DEF NotificationsTyped, RowOfDestination
  <2>5. NotificationsTyped' BY <2>3, <2>4 DEF NotificationsTyped
  <2>6. rows[i].there /\ rows[i].failures + 1 >= MaxFailures => delivery'[d][i] = "disable"
    BY <2>3 DEF KeepsFailing
  <2> QED BY <2>1, <2>3, <2>4, <2>5, <2>6 DEF DeadIsSwitchedOff
<1>5. ASSUME NEW d \in Dispatches, NEW i \in Destinations, SwitchOff(d, i) PROVE NInv'
  <2>1. /\ rows' = [rows EXCEPT ![i].enabled = FALSE] /\ Becomes(d, i, "none") /\ cutOff' = cutOff \ {i}
    BY <1>5 DEF SwitchOff
  <2>4. rows' \in [Destinations -> RowOfDestination] BY <2>1 DEF NotificationsTyped, RowOfDestination
  <2>5. delivery' \in [Dispatches -> [Destinations -> DeliveryStages]] BY <2>1, DeliveryMoves
  <2>2. NotificationsTyped' BY <2>4, <2>5 DEF NotificationsTyped
  <2>3. /\ ~rows'[i].enabled
        /\ \A j \in Destinations \ {i} : rows'[j] = rows[j] /\ (j \in cutOff => j \in cutOff')
        /\ \A c \in Dispatches, j \in Destinations \ {i} : delivery[c][j] = "disable" => delivery'[c][j] = "disable"
    BY <2>1, DeliveryMoves DEF NotificationsTyped, RowOfDestination
  <2> QED BY <2>2, <2>3 DEF DeadIsSwitchedOff
<1>6. CASE PanelEnds
  BY <1>6 DEF PanelEnds, NotificationsTyped, DeadIsSwitchedOff, NoDelivery
<1>7. ASSUME NEW i \in Destinations, NEW events \in SUBSET Events, PatchEvents(i, events) PROVE NInv'
  <2>1. rows' = [rows EXCEPT ![i] = [rows[i] EXCEPT !.events = events]] /\ UNCHANGED <<delivery, cutOff>>
    BY <1>7 DEF PatchEvents, Change
  <2>2. /\ NotificationsTyped'
        /\ \A j \in Destinations : rows'[j].enabled = rows[j].enabled /\ rows'[j].failures = rows[j].failures
    BY <2>1 DEF NotificationsTyped, RowOfDestination
  <2> QED BY <2>1, <2>2 DEF DeadIsSwitchedOff
<1>8. ASSUME NEW i \in Destinations, NEW events \in SUBSET Events, NEW on \in BOOLEAN,
             AddDestination(i, events, on)
      PROVE  NInv'
  <2>1. /\ rows' = [rows EXCEPT ![i] = [there |-> TRUE, enabled |-> on, events |-> events, failures |-> 0]]
        /\ UNCHANGED <<delivery, cutOff>>
    BY <1>8 DEF AddDestination, Change
  <2> QED BY <2>1 DEF NotificationsTyped, RowOfDestination, DeadIsSwitchedOff
<1>9. ASSUME NEW i \in Destinations, NEW on \in BOOLEAN, PatchDestination(i, on) PROVE NInv'
  <2>1. /\ rows' = [rows EXCEPT ![i] = [rows[i] EXCEPT !.enabled = on, !.failures = IF on THEN 0 ELSE @]]
        /\ cutOff' = (IF on THEN cutOff \ {i} ELSE cutOff) /\ delivery' = delivery
    BY <1>9 DEF PatchDestination, Change
  <2>2. /\ NotificationsTyped'
        /\ rows'[i].enabled = on /\ (on => rows'[i].failures = 0)
        /\ \A j \in Destinations \ {i} : rows'[j] = rows[j]
    BY <2>1 DEF NotificationsTyped, RowOfDestination
  <2> QED BY <2>1, <2>2 DEF DeadIsSwitchedOff
<1>10. ASSUME NEW i \in Destinations, DeleteDestination(i) PROVE NInv'
  BY <1>10 DEF DeleteDestination, Change, NoRow, NotificationsTyped, RowOfDestination, DeadIsSwitchedOff
<1>11. CASE UNCHANGED notificationsVars
  BY <1>11 DEF notificationsVars, NotificationsTyped, DeadIsSwitchedOff
<1> QED BY <1>1, <1>2, <1>3, <1>4, <1>5, <1>6, <1>7, <1>8, <1>9, <1>10, <1>11 DEF NotificationsNext

\* A destination that has failed as often as the limit says is off or about to be,
\* for any number of destinations and of dispatches that overlap.
THEOREM DeadAlwaysSwitchedOff == NotificationsSpec => []DeadIsSwitchedOff
<1>1. NotificationsInit => NInv
  BY NotificationsAssumption
     DEF NotificationsInit, NInv, NotificationsTyped, RowOfDestination, DeliveryStages, NoRow, NoDelivery,
         DeadIsSwitchedOff
<1>2. NInv => DeadIsSwitchedOff BY DEF NInv
<1> QED BY <1>1, <1>2, NotificationsStep, PTL DEF NotificationsSpec

(***************************************************************************)
(* The settings.                                                           *)
(***************************************************************************)
Savers == Pages \cup Assistant

SettingsShaped ==
  /\ DOMAIN page = Pages
  /\ \A p \in Pages : DOMAIN page[p] = {"shown", "mode", "saved"}
  /\ DOMAIN save = Savers
  /\ \A c \in Savers : DOMAIN save[c] = {"pc", "sent", "config"}

\* What has passed validation is valid, however old it is.
ValidatedIsConsistent ==
  /\ ValidConfig(row)
  /\ \A c \in Savers : save[c].pc \in {"write", "file", "fill", "answer"} => ValidConfig(save[c].config)
  /\ starter.pc \in {"file", "fill"} => ValidConfig(starter.config)

\* The one that fills the file alone finds it empty, and when it is done the file is valid.
OneFills ==
  \/ starter.pc = "fill" /\ \A c \in Savers : save[c].pc # "fill"
  \/ starter.pc # "fill" /\ \E c \in Savers : save[c].pc = "fill" /\ \A d \in Savers \ {c} : save[d].pc # "fill"
NoneFills == starter.pc # "fill" /\ \A c \in Savers : save[c].pc # "fill"
FileIsAlones ==
  alone => \/ NoneFills /\ ValidConfig(file)
           \/ OneFills /\ file = Empty

\* The row is what its last writer has: until the answer arrives in the request,
\* and then on the page, while that says so.
RowIsWriters ==
  \A p \in Pages : writer = p =>
    /\ save[p].pc \in {"file", "fill", "answer"} => save[p].config = row
    /\ save[p].pc \notin {"file", "fill", "answer"} /\ page[p].saved => page[p].shown = row

SInv == SettingsShaped /\ ValidatedIsConsistent /\ RowIsWriters /\ FileIsAlones

\* What the first start finds is sound.
LEMMA SettingsInitially == SettingsInit => SInv
<1> SUFFICES ASSUME SettingsInit PROVE SInv OBVIOUS
<1>1. ValidConfig(Defaults) BY DEF ValidConfig, Consistent, Defaults, Keys
<1>2. SettingsShaped BY DEF SettingsInit, SettingsShaped, Savers, Loaded, NoSave
<1>3. ValidatedIsConsistent BY <1>1 DEF SettingsInit, ValidatedIsConsistent, Savers, NoSave
<1>4. RowIsWriters BY DEF SettingsInit, RowIsWriters, Loaded, NoSave
<1>5. NoneFills BY DEF SettingsInit, NoneFills, Savers, NoSave
<1>6. ValidConfig(file) BY <1>1 DEF SettingsInit
<1> QED BY <1>2, <1>3, <1>4, <1>5, <1>6 DEF SInv, FileIsAlones

\* Steps that touch neither the file nor who fills it.
FillersStay ==
  /\ UNCHANGED <<file, alone>> /\ (starter'.pc = "fill" <=> starter.pc = "fill")
  /\ \A c \in Savers : save'[c].pc = "fill" <=> save[c].pc = "fill"

LEMMA FillersKeepFile == ASSUME FileIsAlones, FillersStay PROVE FileIsAlones'
BY DEF FillersStay, FileIsAlones, NoneFills, OneFills

\* What filling leaves when it was done alone.
LEMMA FilledAlone ==
  ASSUME NEW config, ValidConfig(config), FillFile(config), alone', file = Empty \/ ~ alone
  PROVE  ValidConfig(file')
BY DEF FillFile

\* A request moves on; the pages and the other requests stay.
LEMMA SaveMoves ==
  ASSUME SInv, NEW c \in Savers, NEW to, Progress(c, to), DOMAIN to = {"pc", "sent", "config"}
  PROVE  /\ SettingsShaped' /\ page' = page /\ starter' = starter
         /\ save'[c] = to
         /\ \A d \in Savers \ {c} : save'[d] = save[d]
BY DEF SInv, SettingsShaped, Progress

\* Every edit, save and start keeps it so.
LEMMA SettingsStep == SInv /\ [SettingsNext]_settingsVars => SInv'
<1> SUFFICES ASSUME SInv, [SettingsNext]_settingsVars PROVE SInv' OBVIOUS
<1> USE DEF SInv
<1>1. ASSUME NEW p \in Pages, NEW what, Edit(p, what),
             DOMAIN what = {"shown", "mode", "saved"}, what.saved = FALSE
      PROVE  SInv'
  <2>1. page' = [page EXCEPT ![p] = what] /\ UNCHANGED <<row, file, alone, save, starter, writer>>
    BY <1>1 DEF Edit
  <2>2. page'[p] = what /\ DOMAIN page' = Pages /\ \A q \in Pages \ {p} : page'[q] = page[q]
    BY <2>1 DEF SettingsShaped
  <2>3. what.saved = FALSE BY <1>1
  <2>4. SettingsShaped' BY <1>1, <2>1, <2>2, <2>3 DEF SettingsShaped
  <2>5. ValidatedIsConsistent' BY <2>1 DEF ValidatedIsConsistent
  <2>6. RowIsWriters' BY <2>1, <2>2, <2>3 DEF RowIsWriters
  <2>7. FillersStay BY <2>1 DEF FillersStay
  <2> QED BY <2>4, <2>5, <2>6, <2>7, FillersKeepFile
<1>2. ASSUME NEW p \in Pages, Visit(p) PROVE SInv'
  BY <1>1, <1>2 DEF Visit, Loaded
<1>3. ASSUME NEW p \in Pages, SwitchConfigMode(p) PROVE SInv'
  <2>1. /\ page' = [page EXCEPT ![p].mode = IF @ = "form" THEN "json" ELSE "form"]
        /\ UNCHANGED <<row, file, alone, save, starter, writer>>
    BY <1>3 DEF SwitchConfigMode
  <2>2. SettingsShaped' /\ \A q \in Pages : page'[q].shown = page[q].shown /\ page'[q].saved = page[q].saved
    BY <2>1 DEF SettingsShaped
  <2>3. FillersStay BY <2>1 DEF FillersStay
  <2> QED BY <2>1, <2>2, <2>3, FillersKeepFile DEF ValidatedIsConsistent, RowIsWriters
<1>4. ASSUME NEW c \in Savers, NEW sent, Send(c, sent) PROVE SInv'
  <2>1. /\ save' = [save EXCEPT ![c] = [pc |-> "read", sent |-> sent, config |-> <<>>]] /\ save[c].pc = "idle"
        /\ UNCHANGED <<row, file, alone, page, starter, writer>>
    BY <1>4 DEF Send
  <2>2. /\ SettingsShaped' /\ save'[c].pc = "read"
        /\ \A d \in Savers \ {c} : save'[d] = save[d]
    BY <2>1 DEF SettingsShaped
  <2>3. FillersStay BY <2>1, <2>2 DEF FillersStay
  <2> QED BY <2>1, <2>2, <2>3, FillersKeepFile DEF ValidatedIsConsistent, RowIsWriters, Savers
<1>5. ASSUME NEW p \in Pages, SaveConfig(p) PROVE SInv' BY <1>4, <1>5 DEF SaveConfig, Savers
<1>6. ASSUME NEW p \in Pages, NEW k \in FormKeys, SetField(p, k) PROVE SInv'
  <2> DEFINE what == [page[p] EXCEPT !.shown = Turned(@, k), !.saved = FALSE]
  <2>1. Edit(p, what) BY <1>6 DEF SetField
  <2>2. DOMAIN what = {"shown", "mode", "saved"} /\ what.saved = FALSE BY DEF SettingsShaped
  <2> QED BY <1>1, <2>1, <2>2
<1>7. ASSUME NEW p \in Pages, NEW text \in Typed(page[p].shown), TypeText(p, text) PROVE SInv'
  <2> DEFINE what == [page[p] EXCEPT !.shown = text, !.saved = FALSE]
  <2>1. Edit(p, what) BY <1>7 DEF TypeText
  <2>2. DOMAIN what = {"shown", "mode", "saved"} /\ what.saved = FALSE BY DEF SettingsShaped
  <2> QED BY <1>1, <2>1, <2>2
<1>8. ASSUME NEW a \in Assistant, NEW k \in Keys, ChangeConfig(a, k) PROVE SInv'
  BY <1>4, <1>8 DEF ChangeConfig, Savers
<1>9. ASSUME NEW c \in Savers, ValidateConfig(c) PROVE SInv'
  <2> DEFINE merged == Merged(row, save[c].sent)
             passed == [save[c] EXCEPT !.pc = "write", !.config = merged]
  <2>1. save[c].pc = "read" /\ UNCHANGED <<row, file, alone, writer>> BY <1>9 DEF ValidateConfig
  <2>2. CASE Consistent(merged)
    <3>1. Progress(c, passed) BY <1>9, <2>2 DEF ValidateConfig
    <3>2. /\ DOMAIN passed = {"pc", "sent", "config"} /\ passed.pc = "write" /\ passed.config = merged
      BY DEF SettingsShaped
    <3>4. ValidConfig(merged) BY <2>2 DEF ValidConfig, Merged
    <3> HIDE DEF merged, passed
    <3>3. /\ SettingsShaped' /\ page' = page /\ starter' = starter
          /\ save'[c] = passed /\ \A d \in Savers \ {c} : save'[d] = save[d]
      BY <3>1, <3>2, SaveMoves
    <3>5. FillersStay BY <2>1, <3>2, <3>3 DEF FillersStay
    <3> QED BY <2>1, <3>2, <3>3, <3>4, <3>5, FillersKeepFile DEF ValidatedIsConsistent, RowIsWriters, Savers
  <2>3. CASE ~Consistent(merged)
    <3>1. Progress(c, NoSave) BY <1>9, <2>3 DEF ValidateConfig
    <3>2. /\ SettingsShaped' /\ page' = page /\ starter' = starter
          /\ save'[c] = NoSave /\ \A d \in Savers \ {c} : save'[d] = save[d]
      BY <3>1, SaveMoves DEF NoSave
    <3>3. FillersStay BY <2>1, <3>2 DEF FillersStay, NoSave
    <3> QED BY <2>1, <3>2, <3>3, FillersKeepFile DEF ValidatedIsConsistent, RowIsWriters, Savers, NoSave
  <2> QED BY <2>2, <2>3
<1>10. ASSUME NEW c \in Savers, WriteRow(c) PROVE SInv'
  <2> DEFINE to == [save[c] EXCEPT !.pc = "file", !.sent = <<>>]
  <2>1. save[c].pc = "write" /\ row' = save[c].config /\ writer' = c /\ UNCHANGED <<file, alone>> /\ Progress(c, to)
    BY <1>10 DEF WriteRow, Written
  <2>2. DOMAIN to = {"pc", "sent", "config"} /\ to.pc = "file" /\ to.config = save[c].config
    BY DEF SettingsShaped
  <2> HIDE DEF to
  <2>3. /\ SettingsShaped' /\ page' = page /\ starter' = starter
        /\ save'[c] = to /\ \A d \in Savers \ {c} : save'[d] = save[d]
    BY <2>1, <2>2, SaveMoves
  <2>4. FillersStay BY <2>1, <2>2, <2>3 DEF FillersStay
  <2> QED BY <2>1, <2>2, <2>3, <2>4, FillersKeepFile DEF ValidatedIsConsistent, RowIsWriters, Savers
<1>11. ASSUME NEW c \in Savers, WriteConfig(c) PROVE SInv'
  <2>1. PICK pc \in {"fill", "answer"} :
          /\ Progress(c, [save[c] EXCEPT !.pc = pc])
          /\ pc = "fill" => OpenFile
          /\ pc = "answer" => UNCHANGED <<file, alone>>
    <3>1. CASE OpenFile /\ Progress(c, [save[c] EXCEPT !.pc = "fill"]) BY <3>1
    <3>2. CASE UNCHANGED <<file, alone>> /\ Progress(c, [save[c] EXCEPT !.pc = "answer"]) BY <3>2
    <3> QED BY <1>11, <3>1, <3>2 DEF WriteConfig
  <2>2. save[c].pc = "file" /\ UNCHANGED <<row, writer>> BY <1>11 DEF WriteConfig
  <2> DEFINE to == [save[c] EXCEPT !.pc = pc]
  <2>3. DOMAIN to = {"pc", "sent", "config"} /\ to.pc = pc /\ to.config = save[c].config
    BY DEF SettingsShaped
  <2>4. Progress(c, to) BY <2>1
  <2> HIDE DEF to
  <2>5. /\ SettingsShaped' /\ page' = page /\ starter' = starter
        /\ save'[c] = to /\ \A d \in Savers \ {c} : save'[d] = save[d]
    BY <2>3, <2>4, SaveMoves
  <2>6. FileIsAlones'
    <3>1. CASE pc = "answer"
      <4>1. FillersStay BY <2>1, <2>2, <2>3, <2>5, <3>1 DEF FillersStay
      <4> QED BY <4>1, FillersKeepFile
    <3>2. CASE pc = "fill"
      <4>1. file' = Empty /\ (alone' => NoneFills)
        BY <2>1, <3>2 DEF OpenFile, NobodyFills, NoneFills, SettingsShaped
      <4>2. NoneFills => OneFills' BY <2>3, <2>5, <3>2 DEF NoneFills, OneFills
      <4> QED BY <4>1, <4>2 DEF FileIsAlones
    <3> QED BY <3>1, <3>2
  <2> QED BY <2>2, <2>3, <2>5, <2>6 DEF ValidatedIsConsistent, RowIsWriters, Savers
<1>16. ASSUME NEW c \in Savers, FillConfig(c) PROVE SInv'
  <2> DEFINE to == [save[c] EXCEPT !.pc = "answer"]
  <2>1. /\ save[c].pc = "fill" /\ FillFile(save[c].config) /\ UNCHANGED <<row, writer>>
        /\ Progress(c, to)
    BY <1>16 DEF FillConfig
  <2>2. DOMAIN to = {"pc", "sent", "config"} /\ to.pc = "answer" /\ to.config = save[c].config
    BY DEF SettingsShaped
  <2> HIDE DEF to
  <2>3. /\ SettingsShaped' /\ page' = page /\ starter' = starter
        /\ save'[c] = to /\ \A d \in Savers \ {c} : save'[d] = save[d]
    BY <2>1, <2>2, SaveMoves
  <2>4. ASSUME alone' PROVE (NoneFills /\ ValidConfig(file))'
    <3>1. alone BY <2>1, <2>4 DEF FillFile
    <3>2. OneFills /\ file = Empty BY <2>1, <3>1 DEF FileIsAlones, NoneFills
    <3>3. NoneFills' BY <2>1, <2>2, <2>3, <3>2 DEF OneFills, NoneFills
    <3>4. ValidConfig(save[c].config) BY <2>1 DEF ValidatedIsConsistent
    <3>5. ValidConfig(file') BY <2>1, <2>4, <3>2, <3>4, FilledAlone
    <3> QED BY <3>3, <3>5 DEF ValidConfig, Consistent
  <2>5. FileIsAlones' BY <2>4 DEF FileIsAlones
  <2> QED BY <2>1, <2>2, <2>3, <2>5 DEF ValidatedIsConsistent, RowIsWriters, Savers
<1>12. ASSUME NEW c \in Savers, ApplyConfig(c) PROVE SInv'
  <2>1. /\ save[c].pc = "answer" /\ UNCHANGED <<row, file, alone, starter, writer>>
        /\ save' = [save EXCEPT ![c] = NoSave]
        /\ page' = [p \in Pages |-> IF p # c THEN page[p]
                                    ELSE [page[p] EXCEPT !.shown = save[c].config, !.saved = TRUE]]
    BY <1>12 DEF ApplyConfig
  <2>2. /\ DOMAIN save' = Savers /\ save'[c] = NoSave
        /\ \A d \in Savers \ {c} : save'[d] = save[d]
    BY <2>1 DEF SettingsShaped
  <2>3. /\ DOMAIN page' = Pages /\ \A p \in Pages \ {c} : page'[p] = page[p]
        /\ c \in Pages => page'[c].shown = save[c].config
        /\ \A p \in Pages : DOMAIN page'[p] = {"shown", "mode", "saved"}
    BY <2>1 DEF SettingsShaped
  <2>4. SettingsShaped' BY <2>2, <2>3 DEF SettingsShaped, NoSave
  <2>5. ValidatedIsConsistent' BY <2>1, <2>2 DEF ValidatedIsConsistent, NoSave
  <2>6. RowIsWriters'
    <3> SUFFICES ASSUME NEW p \in Pages, writer = p
                 PROVE  /\ save'[p].pc \in {"file", "fill", "answer"} => save'[p].config = row
                        /\ save'[p].pc \notin {"file", "fill", "answer"} /\ page'[p].saved => page'[p].shown = row
      BY <2>1 DEF RowIsWriters
    <3>1. CASE p = c BY <3>1, <2>1, <2>2, <2>3 DEF RowIsWriters, NoSave
    <3>2. CASE p # c BY <3>2, <2>2, <2>3 DEF RowIsWriters, Savers
    <3> QED BY <3>1, <3>2
  <2>7. FillersStay BY <2>1, <2>2 DEF FillersStay, NoSave
  <2> QED BY <2>4, <2>5, <2>6, <2>7, FillersKeepFile
<1>13. CASE StartRead
  <2>1. FillersStay BY <1>13 DEF StartRead, FillersStay
  <2> QED BY <1>13, <2>1, FillersKeepFile DEF StartRead, SettingsShaped, ValidatedIsConsistent, RowIsWriters
<1>14. CASE StartWrite
  <2>1. starter.pc = "file" /\ UNCHANGED <<row, page, save, writer>> BY <1>14 DEF StartWrite
  <2>2. CASE OpenFile /\ starter' = [pc |-> "fill", config |-> starter.config]
    <3>1. file' = Empty /\ (alone' => NoneFills) BY <2>2 DEF OpenFile, NobodyFills, NoneFills, SettingsShaped
    <3>2. NoneFills => OneFills' BY <2>1, <2>2 DEF NoneFills, OneFills
    <3> QED BY <2>1, <2>2, <3>1, <3>2 DEF SettingsShaped, ValidatedIsConsistent, RowIsWriters, FileIsAlones
  <2>3. CASE UNCHANGED <<file, alone>> /\ starter' = [pc |-> "idle", config |-> <<>>]
    <3>1. FillersStay BY <2>1, <2>3 DEF FillersStay
    <3> QED BY <2>1, <2>3, <3>1, FillersKeepFile DEF SettingsShaped, ValidatedIsConsistent, RowIsWriters
  <2> QED BY <1>14, <2>2, <2>3 DEF StartWrite
<1>17. CASE StartFill
  <2>1. /\ starter.pc = "fill" /\ FillFile(starter.config) /\ UNCHANGED <<row, page, save, writer>>
        /\ starter' = [pc |-> "idle", config |-> <<>>]
    BY <1>17 DEF StartFill
  <2>2. ASSUME alone' PROVE (NoneFills /\ ValidConfig(file))'
    <3>1. alone BY <2>1, <2>2 DEF FillFile
    <3>2. OneFills /\ file = Empty BY <2>1, <3>1 DEF FileIsAlones, NoneFills
    <3>3. NoneFills' BY <2>1, <3>2 DEF OneFills, NoneFills
    <3>4. ValidConfig(starter.config) BY <2>1 DEF ValidatedIsConsistent
    <3>5. ValidConfig(file') BY <2>1, <2>2, <3>2, <3>4, FilledAlone
    <3> QED BY <3>3, <3>5 DEF ValidConfig, Consistent
  <2>3. FileIsAlones' BY <2>2 DEF FileIsAlones
  <2> QED BY <2>1, <2>3 DEF SettingsShaped, ValidatedIsConsistent, RowIsWriters
<1>15. CASE UNCHANGED settingsVars
  <2>1. FillersStay BY <1>15 DEF settingsVars, FillersStay
  <2> QED BY <1>15, <2>1, FillersKeepFile DEF settingsVars, SettingsShaped, ValidatedIsConsistent, RowIsWriters
<1> QED BY <1>2, <1>3, <1>5, <1>6, <1>7, <1>8, <1>9, <1>10, <1>11, <1>12, <1>13, <1>14, <1>15, <1>16, <1>17
        DEF SettingsNext, Savers

\* The row stays valid as a whole, and so does the file when each has it alone, and "saved" is
\* true, for any number of pages, proposals and starts.
THEOREM SettingsAlwaysSound == SettingsSpec => []SettingsSound
<1>1. SInv => SettingsSound
  BY DEF SInv, SettingsShaped, ValidatedIsConsistent, RowIsWriters, FileIsAlones, OneFills, NobodyFills,
         SettingsSound, Saving, Savers
<1> QED BY <1>1, SettingsInitially, SettingsStep, PTL DEF SettingsSpec

(***************************************************************************)
(* The roll-up of what was measured.                                       *)
(***************************************************************************)
MeteringTyped ==
  /\ moment \in Minutes /\ raw \subseteq Minutes /\ sampled \subseteq Minutes
  /\ rolled \in [Minutes -> Nat]
  /\ roll \in [stage : {"none", "rolled", "deleted"}, cutoff : Int, old : {0}]

\* What a roll-up that is under way is about to delete is in a bucket, and
\* a sample taken meanwhile is not among it.
CutIsRolled ==
  roll.stage = "rolled" =>
    /\ roll.cutoff <= moment
    /\ \A m \in raw : m < roll.cutoff => rolled[m] > 0

MInv == MeteringTyped /\ CutIsRolled /\ MetersSound

\* Every sample and every statement of the roll-up keeps the invariant.
LEMMA MeteringStep == MInv /\ [MeteringNext]_meteringVars => MInv'
<1> SUFFICES ASSUME MInv, [MeteringNext]_meteringVars PROVE MInv' OBVIOUS
<1> USE MeteringAssumption DEF MInv
<1>0. RolledWindow \in Nat /\ RawWindow \in Nat /\ MaxMinutes \in Nat OBVIOUS
<1>1. ASSUME UNCHANGED <<raw, rolled, roll, sampled>>, moment' = moment PROVE MInv'
  BY <1>1 DEF MeteringTyped, CutIsRolled, MetersSound, Minutes
<1>2. CASE MinutePasses
  <2>1. moment' = moment + 1 /\ moment < MaxMinutes /\ UNCHANGED <<raw, rolled, roll, sampled>>
    BY <1>2 DEF MinutePasses
  <2>2. MeteringTyped' BY <1>0, <2>1 DEF MeteringTyped, Minutes
  <2>3. CutIsRolled' BY <1>0, <2>1 DEF MeteringTyped, CutIsRolled, Minutes
  <2>4. MetersSound' BY <1>0, <2>1 DEF MeteringTyped, MetersSound, Minutes
  <2> QED BY <2>2, <2>3, <2>4
<1>3. CASE RecordSample
  <2>1. /\ raw' = raw \cup {moment} /\ sampled' = sampled \cup {moment}
        /\ UNCHANGED <<moment, rolled, roll>>
    BY <1>3 DEF RecordSample
  <2>2. MeteringTyped' BY <2>1 DEF MeteringTyped
  <2>3. CutIsRolled' BY <1>0, <2>1 DEF MeteringTyped, CutIsRolled, Minutes
  <2>4. MetersSound' BY <2>1 DEF MetersSound
  <2> QED BY <2>2, <2>3, <2>4
<1>4. CASE RollUp
  <2> DEFINE cut == moment - RawWindow
             buckets == [m \in Minutes |->
                          IF m \in raw /\ m < cut /\ rolled[m] < 2 THEN rolled[m] + 1 ELSE rolled[m]]
  <2>1. /\ rolled' = buckets /\ roll' = [stage |-> "rolled", cutoff |-> cut, old |-> 0]
        /\ UNCHANGED <<moment, raw, sampled>>
    BY <1>4 DEF RollUp
  <2>2. cut \in Int /\ cut <= moment BY <1>0 DEF MeteringTyped, Minutes
  <2>3. /\ buckets \in [Minutes -> Nat]
        /\ \A m \in Minutes : rolled[m] > 0 => buckets[m] > 0
        /\ \A m \in raw : m < cut => buckets[m] > 0
    BY DEF MeteringTyped
  <2> HIDE DEF buckets, cut
  <2>4. MeteringTyped' BY <2>1, <2>2, <2>3 DEF MeteringTyped
  <2>5. CutIsRolled' BY <2>1, <2>2, <2>3 DEF CutIsRolled
  <2>6. MetersSound' BY <2>1, <2>3 DEF MeteringTyped, MetersSound
  <2> QED BY <2>4, <2>5, <2>6
<1>5. CASE RollUpDelete
  <2>1. /\ roll.stage = "rolled" /\ raw' = {m \in raw : ~ (m < roll.cutoff)}
        /\ roll' = [roll EXCEPT !.stage = "deleted"]
        /\ UNCHANGED <<moment, rolled, sampled>>
    BY <1>5 DEF RollUpDelete, DeletedRaw
  <2>2. MeteringTyped' /\ roll'.stage = "deleted" BY <2>1 DEF MeteringTyped
  <2>3. MetersSound' BY <2>1 DEF MeteringTyped, CutIsRolled, MetersSound
  <2> QED BY <2>2, <2>3 DEF CutIsRolled
<1>6. CASE RollUpTrim
  <2>1. /\ raw' = {m \in raw : m >= moment - RolledWindow}
        /\ rolled' = [m \in Minutes |-> IF m < moment - RolledWindow THEN 0 ELSE rolled[m]]
        /\ roll' = NotRolling /\ UNCHANGED <<moment, sampled>>
    BY <1>6 DEF RollUpTrim
  <2>2. MeteringTyped' BY <2>1 DEF MeteringTyped, NotRolling
  <2>3. MetersSound' BY <1>0, <2>1 DEF MeteringTyped, MetersSound, Minutes
  <2> QED BY <2>1, <2>2, <2>3 DEF CutIsRolled, NotRolling
<1>7. CASE PanelStops
  <2>1. roll' = NotRolling /\ UNCHANGED <<moment, raw, rolled, sampled>> BY <1>7 DEF PanelStops
  <2> QED BY <2>1 DEF MeteringTyped, CutIsRolled, MetersSound, NotRolling
<1> QED
  BY <1>1, <1>2, <1>3, <1>4, <1>5, <1>6, <1>7
     DEF MeteringNext, ContainerStarts, ContainerStops, Transfers, SampleAll, SampleStats, AccountBandwidth,
         SuspendForQuota, ResetMonthlyBandwidth, ReadUsage, LiftSuspension, meteringVars

\* Nothing that was sampled is lost between the buckets and the cut, however
\* minutes, samples, roll-ups and stops of the panel fall.
THEOREM MetersAlwaysSound == MeteringSpec => []MetersSound
<1>1. MeteringInit => MInv
  BY MeteringAssumption
     DEF MeteringInit, MInv, MeteringTyped, CutIsRolled, MetersSound, Minutes, NotRolling
<1>2. MInv => MetersSound BY DEF MInv
<1> QED BY <1>1, <1>2, MeteringStep, PTL DEF MeteringSpec

(***************************************************************************)
(* What is allocated: the recursion behind the fold.                       *)
(***************************************************************************)
First(s) == CHOOSE t \in s : TRUE
Sums(f, S) == f = [s \in SUBSET S |-> IF s = {} THEN 0 ELSE First(s).size + f[s \ {First(s)}]]
TheSums(S) == CHOOSE f : Sums(f, S)

\* What is allocated is the sum at the whole set.
LEMMA AllocatedIsSum == ASSUME NEW S PROVE Allocated(S) = TheSums(S)[S]
BY DEF Allocated, FoldSet, MapThenFoldSet, TheSums, Sums, First

\* Sums over the subsets of a set are, on those of a smaller one, its sums.
LEMMA SumsRestrict ==
  ASSUME NEW S, NEW T \in SUBSET S, NEW f, Sums(f, S)
  PROVE  Sums([s \in SUBSET T |-> f[s]], T)
<1> DEFINE g == [s \in SUBSET T |-> f[s]]
<1>1. ASSUME NEW s \in SUBSET T PROVE g[s] = IF s = {} THEN 0 ELSE First(s).size + g[s \ {First(s)}]
  <2>1. s \in SUBSET S /\ s \ {First(s)} \in SUBSET T OBVIOUS
  <2>2. f[s] = IF s = {} THEN 0 ELSE First(s).size + f[s \ {First(s)}] BY <2>1 DEF Sums
  <2> QED BY <2>1, <2>2
<1> QED BY <1>1 DEF Sums

\* One step less: what is left of a finite set without its first element.
LEMMA FirstOf ==
  ASSUME NEW s, IsFiniteSet(s), s # {}
  PROVE  /\ First(s) \in s /\ IsFiniteSet(s \ {First(s)})
         /\ Cardinality(s) \in Nat /\ Cardinality(s \ {First(s)}) = Cardinality(s) - 1
<1>1. First(s) \in s BY DEF First
<1> QED BY <1>1, FS_RemoveElement, FS_CardinalityType

\* There is one such function, as far as its value at the whole set goes.
LEMMA SumsUnique ==
  ASSUME NEW T, IsFiniteSet(T), NEW f, NEW g, Sums(f, T), Sums(g, T)
  PROVE  f[T] = g[T]
<1> DEFINE Bad == {n \in Nat : \E s \in SUBSET T : IsFiniteSet(s) /\ Cardinality(s) = n /\ f[s] # g[s]}
<1>1. CASE Bad = {} BY <1>1, FS_CardinalityType
<1>2. CASE Bad # {}
  <2>1. PICK n \in Bad : \A m \in Bad : n <= m
    <3> HIDE DEF Bad
    <3>1. Bad \in SUBSET Nat BY DEF Bad
    <3> QED BY <1>2, <3>1, LeastNatural
  <2>2. PICK s \in SUBSET T : IsFiniteSet(s) /\ Cardinality(s) = n /\ f[s] # g[s] BY <2>1
  <2>3. /\ f[s] = IF s = {} THEN 0 ELSE First(s).size + f[s \ {First(s)}]
        /\ g[s] = IF s = {} THEN 0 ELSE First(s).size + g[s \ {First(s)}]
    BY DEF Sums
  <2>4. s # {} BY <2>2, <2>3
  <2> DEFINE u == s \ {First(s)}
  <2>5. u \in SUBSET T /\ IsFiniteSet(u) /\ Cardinality(u) = n - 1 /\ n - 1 \in Nat
    BY <2>2, <2>4, FirstOf, FS_CardinalityType
  <2>6. n - 1 \notin Bad BY <2>1
  <2>7. f[u] = g[u] BY <2>5, <2>6
  <2> QED BY <2>2, <2>3, <2>4, <2>7
<1> QED BY <1>1, <1>2

\* Every finite set has sums: one of least size without them would have them
\* from those of the set without its first element.
LEMMA SumsExist ==
  ASSUME NEW S, IsFiniteSet(S)
  PROVE  Sums(TheSums(S), S)
<1> DEFINE Bad == {n \in Nat : \E T : IsFiniteSet(T) /\ Cardinality(T) = n /\ ~ Sums(TheSums(T), T)}
<1>1. CASE Bad = {} BY <1>1, FS_CardinalityType
<1>2. CASE Bad # {}
  <2>1. PICK n \in Bad : \A m \in Bad : n <= m
    <3> HIDE DEF Bad
    <3>1. Bad \in SUBSET Nat BY DEF Bad
    <3> QED BY <1>2, <3>1, LeastNatural
  <2>2. PICK T : IsFiniteSet(T) /\ Cardinality(T) = n /\ ~ Sums(TheSums(T), T) BY <2>1
  <2>3. ASSUME NEW u, IsFiniteSet(u), Cardinality(u) < n PROVE Sums(TheSums(u), u)
    <3>1. Cardinality(u) \in Nat /\ n \in Nat BY <2>1, <2>3, FS_CardinalityType
    <3>2. Cardinality(u) \notin Bad BY <2>1, <2>3, <3>1
    <3> QED BY <2>3, <3>1, <3>2
  <2> HIDE DEF Bad
  <2> DEFINE rest(s) == s \ {First(s)}
             f == [s \in SUBSET T |-> IF s = {} THEN 0 ELSE First(s).size + TheSums(rest(s))[rest(s)]]
  <2>4. ASSUME NEW s \in SUBSET T, s # {} PROVE IsFiniteSet(rest(s)) /\ Cardinality(rest(s)) < n /\ rest(s) \in SUBSET T
    <3>1. IsFiniteSet(s) /\ Cardinality(s) <= Cardinality(T) BY <2>2, FS_Subset
    <3>2. /\ IsFiniteSet(rest(s)) /\ Cardinality(rest(s)) = Cardinality(s) - 1
          /\ Cardinality(s) \in Nat /\ Cardinality(T) \in Nat
      BY <2>2, <2>4, <3>1, FirstOf, FS_CardinalityType
    <3> QED BY <2>2, <3>1, <3>2
  <2>5. ASSUME NEW s \in SUBSET T, s # {} PROVE f[rest(s)] = TheSums(rest(s))[rest(s)]
    <3> DEFINE u == rest(s)
    <3>1. u \in SUBSET T /\ IsFiniteSet(u) /\ Sums(TheSums(u), u) BY <2>3, <2>4, <2>5
    <3>2. TheSums(u)[u] = IF u = {} THEN 0 ELSE First(u).size + TheSums(u)[rest(u)] BY <3>1 DEF Sums
    <3>3. f[u] = IF u = {} THEN 0 ELSE First(u).size + TheSums(rest(u))[rest(u)] BY <3>1
    <3>4. ASSUME u # {} PROVE TheSums(u)[rest(u)] = TheSums(rest(u))[rest(u)]
      <4>1. IsFiniteSet(rest(u)) /\ Sums(TheSums(rest(u)), rest(u)) BY <2>3, <2>4, <3>1, <3>4
      <4>2. rest(u) \in SUBSET u OBVIOUS
      <4> DEFINE g == [t \in SUBSET rest(u) |-> TheSums(u)[t]]
      <4>3. Sums(g, rest(u)) BY <3>1, <4>2, SumsRestrict
      <4>4. g[rest(u)] = TheSums(u)[rest(u)] OBVIOUS
      <4> HIDE DEF g, rest, u
      <4> QED BY <4>1, <4>3, <4>4, SumsUnique
    <3> QED BY <3>2, <3>3, <3>4
  <2>6. Sums(f, T)
    <3>1. \A s \in SUBSET T : f[s] = IF s = {} THEN 0 ELSE First(s).size + f[rest(s)] BY <2>5
    <3> QED BY <3>1 DEF Sums
  <2> HIDE DEF f
  <2> QED BY <2>2, <2>6 DEF TheSums
<1> QED BY <1>1, <1>2

\* Nothing is allocated by nothing, and a set allocates what its first element
\* does and the rest.
LEMMA AllocatedEmpty == Allocated({}) = 0
BY AllocatedIsSum, SumsExist, FS_EmptySet DEF Sums

\* A sum is that of the rest and of the first.
LEMMA AllocatedFirst ==
  ASSUME NEW S, IsFiniteSet(S), S # {}
  PROVE  Allocated(S) = First(S).size + Allocated(S \ {First(S)})
<1> DEFINE u == S \ {First(S)}
           g == [s \in SUBSET u |-> TheSums(S)[s]]
<1>1. IsFiniteSet(u) /\ u \in SUBSET S BY FirstOf
<1>2. Sums(TheSums(S), S) /\ Sums(TheSums(u), u) BY <1>1, SumsExist
<1>3. Sums(g, u) BY <1>1, <1>2, SumsRestrict
<1>4. TheSums(S)[S] = First(S).size + TheSums(S)[u] BY <1>2 DEF Sums
<1>5. g[u] = TheSums(S)[u] OBVIOUS
<1> HIDE DEF g, u
<1>6. TheSums(S)[u] = TheSums(u)[u] BY <1>1, <1>2, <1>3, <1>5, SumsUnique
<1> QED BY <1>4, <1>6, AllocatedIsSum DEF u

\* ... and therefore what any of its elements does and the rest.
LEMMA AllocatedRemove ==
  ASSUME NEW S, IsFiniteSet(S), \A t \in S : t.size \in Nat
  PROVE  /\ Allocated(S) \in Nat
         /\ \A t \in S : Allocated(S) = t.size + Allocated(S \ {t})
<1> DEFINE Sized(T) == IsFiniteSet(T) /\ \A t \in T : t.size \in Nat
           Adds(T) == Allocated(T) \in Nat /\ \A t \in T : Allocated(T) = t.size + Allocated(T \ {t})
           Bad == {n \in Nat : \E T : Sized(T) /\ Cardinality(T) = n /\ ~ Adds(T)}
<1>1. CASE Bad = {}
  <2>1. Cardinality(S) \in Nat BY FS_CardinalityType
  <2>2. Sized(S) OBVIOUS
  <2> HIDE DEF Sized, Adds
  <2>3. Adds(S) BY <1>1, <2>1, <2>2
  <2> QED BY <2>3 DEF Adds
<1>2. CASE Bad # {}
  <2>1. PICK n \in Bad : \A m \in Bad : n <= m
    <3> HIDE DEF Bad
    <3>1. Bad \in SUBSET Nat BY DEF Bad
    <3> QED BY <1>2, <3>1, LeastNatural
  <2>2. PICK T : Sized(T) /\ Cardinality(T) = n /\ ~ Adds(T)
    <3> HIDE DEF Sized, Adds
    <3> QED BY <2>1
  <2>3. ASSUME NEW u, Sized(u), Cardinality(u) < n PROVE Adds(u)
    <3>1. Cardinality(u) \in Nat /\ n \in Nat BY <2>1, <2>3, FS_CardinalityType
    <3> HIDE DEF Sized, Adds
    <3>2. Cardinality(u) \notin Bad BY <2>1, <2>3, <3>1
    <3> QED BY <2>3, <3>1, <3>2
  <2> HIDE DEF Bad
  <2>4. T # {} BY <2>2, AllocatedEmpty
  <2> DEFINE x == First(T)
  <2>5. x \in T /\ IsFiniteSet(T) BY <2>2, <2>4, FirstOf
  <2>6. ASSUME NEW t \in T PROVE Adds(T \ {t})
    <3>1. Sized(T \ {t}) /\ Cardinality(T \ {t}) = n - 1 /\ n \in Nat
      BY <2>2, <2>6, FS_RemoveElement, FS_CardinalityType
    <3>2. Cardinality(T \ {t}) < n BY <3>1
    <3> HIDE DEF Sized, Adds
    <3> QED BY <2>3, <3>1, <3>2
  <2>7. Allocated(T) = x.size + Allocated(T \ {x}) BY <2>2, <2>4, AllocatedFirst
  <2>8. Allocated(T) \in Nat BY <2>2, <2>5, <2>6, <2>7
  <2>9. ASSUME NEW t \in T PROVE Allocated(T) = t.size + Allocated(T \ {t})
    <3>1. CASE t = x BY <2>7, <3>1
    <3>2. CASE t # x
      <4>1. Allocated(T \ {x}) = t.size + Allocated((T \ {x}) \ {t}) BY <2>5, <2>6, <3>2
      <4>2. Allocated(T \ {t}) = x.size + Allocated((T \ {t}) \ {x}) BY <2>5, <2>6, <3>2
      <4>3. (T \ {x}) \ {t} = (T \ {t}) \ {x} OBVIOUS
      <4>4. /\ t.size \in Nat /\ x.size \in Nat /\ Allocated(T \ {x}) \in Nat /\ Allocated(T \ {t}) \in Nat
        BY <2>2, <2>5, <2>6
      <4>5. Allocated((T \ {x}) \ {t}) \in Nat
        <5>1. /\ IsFiniteSet(T \ {x}) /\ Cardinality(T \ {x}) = n - 1 /\ n \in Nat
          BY <2>2, <2>5, FS_RemoveElement, FS_CardinalityType
        <5>2. IsFiniteSet((T \ {x}) \ {t}) /\ Cardinality((T \ {x}) \ {t}) = n - 2
          <6> DEFINE u == T \ {x}
          <6>1. t \in u BY <3>2
          <6> HIDE DEF u, x
          <6>2. IsFiniteSet(u \ {t}) /\ Cardinality(u \ {t}) = Cardinality(u) - 1
            BY <5>1, <6>1, FS_RemoveElement DEF u
          <6> QED BY <5>1, <6>2 DEF u
        <5>3. Sized((T \ {x}) \ {t}) /\ Cardinality((T \ {x}) \ {t}) < n BY <2>2, <5>1, <5>2
        <5>4. Adds((T \ {x}) \ {t})
          <6> HIDE DEF Sized, Adds
          <6> QED BY <2>3, <5>3
        <5> QED BY <5>4
      <4> HIDE DEF x
      <4> QED BY <2>7, <4>1, <4>2, <4>3, <4>4, <4>5
    <3> QED BY <3>1, <3>2
  <2> QED BY <2>2, <2>8, <2>9
<1> QED BY <1>1, <1>2

(***************************************************************************)
(* The machine and its capacity.                                           *)
(***************************************************************************)
Throughputs == {"yes", "no", "unknown"}
TenantRows == [id : Nat \ {0}, size : Nat, deleted : BOOLEAN]
NodeRows == [exists : BOOLEAN, id : Nat, status : {"ONLINE", "MAINTENANCE", "DEGRADED"}, pass : BOOLEAN,
             total : Nat]
DeskRows ==
  [kind : {"none", "register", "recheck", "refresh", "create", "resize", "ONLINE", "MAINTENANCE"},
   stage : {"none", "test", "judge", "host", "patch", "insert", "resize"}, test : {FALSE}, total : Nat,
   large : BOOLEAN, fast : Throughputs, pass : BOOLEAN, node : Nat, tenant : Nat, size : Nat]

NodesTyped ==
  /\ machine \in Machines
  /\ settings \in [pass : BOOLEAN, checked : Int, tested : Int, fast : Throughputs]
  /\ hour \in Nat
  /\ nodeRow \in NodeRows
  /\ tenants \subseteq TenantRows /\ IsFiniteSet(tenants)
  /\ desk \in [Requests -> DeskRows]

\* A row of a server has an id of its own, none is without the node, and a request
\* knows no node but this one or an earlier one.
RowsSound ==
  /\ \A t \in tenants : t.id <= Cardinality(tenants)
  /\ \A t, u \in tenants : t.id = u.id => t = u
  /\ ~ nodeRow.exists => tenants = {}
  /\ \A r \in Requests : desk[r].node <= nodeRow.id
  /\ \A r \in Requests : Stage(r, "patch") => desk[r].kind \in {"ONLINE", "MAINTENANCE"}

\* Unless requests have met: the node that is in service, or is about to be, has passed;
FloorHeld ==
  /\ nodeRow.exists /\ nodeRow.status = "ONLINE" => nodeRow.pass
  /\ \A r \in Requests : Stage(r, "patch") /\ desk[r].kind = "ONLINE" /\ Same(r) => nodeRow.pass

\* and one request at a time takes of the node, which has room for what it takes.
RoomHeld ==
  /\ Allocated(Living) <= nodeRow.total
  /\ \A r \in Requests : Stage(r, "insert") /\ Same(r) =>
       desk[r].size + Allocated(Living) <= nodeRow.total
  /\ \A r \in Requests : Stage(r, "resize") =>
       \A t \in Living : t.id = desk[r].tenant => desk[r].size + Allocated(Living \ {t}) <= nodeRow.total

OneTakes == \A q, r \in Requests : Taking(q) /\ Taking(r) => q = r

CapacityInv ==
  /\ NodesTyped /\ RowsSound
  /\ ~ overlapped => FloorHeld /\ OneTakes
  /\ ~ overlapped /\ nodeRow.exists /\ ~ shrunk => RoomHeld

\* A handler that is free.
LEMMA FreeDesk ==
  /\ NoRequest \in DeskRows /\ NoRequest.stage = "none" /\ NoRequest.node = 0
BY DEF NoRequest, DeskRows, Throughputs

\* What rows with sizes add up to, with one of them taken out, and two.
LEMMA RowSums ==
  ASSUME NEW some, IsFiniteSet(some), \A t \in some : t.size \in Nat
  PROVE  /\ Allocated(some) \in Nat
         /\ \A t \in some : /\ Allocated(some) = t.size + Allocated(some \ {t})
                            /\ Allocated(some \ {t}) \in Nat
                            /\ \A u \in some \ {t} : Allocated((some \ {t}) \ {u}) <= Allocated(some \ {u})
<1>1. ASSUME NEW T \in SUBSET some PROVE IsFiniteSet(T) /\ Allocated(T) \in Nat
  BY FS_Subset, AllocatedRemove
<1>2. ASSUME NEW T \in SUBSET some, NEW t \in T PROVE Allocated(T) = t.size + Allocated(T \ {t})
  BY <1>1, AllocatedRemove
<1>3. ASSUME NEW t \in some, NEW u \in some \ {t}
      PROVE  Allocated((some \ {t}) \ {u}) <= Allocated(some \ {u})
  <2>1. Allocated(some \ {u}) = t.size + Allocated((some \ {u}) \ {t}) BY <1>2
  <2>2. (some \ {u}) \ {t} = (some \ {t}) \ {u} OBVIOUS
  <2>3. Allocated((some \ {t}) \ {u}) \in Nat /\ t.size \in Nat BY <1>1
  <2> QED BY <2>1, <2>2, <2>3
<1> QED BY <1>1, <1>2, <1>3

\* What lives is finite and has sizes.
LEMMA LivingSums ==
  ASSUME NodesTyped
  PROVE  /\ IsFiniteSet(Living) /\ \A t \in Living : t.size \in Nat
         /\ Allocated(Living) \in Nat
         /\ \A t \in Living : /\ Allocated(Living) = t.size + Allocated(Living \ {t})
                              /\ Allocated(Living \ {t}) \in Nat
                              /\ \A u \in Living \ {t} : Allocated((Living \ {t}) \ {u}) <= Allocated(Living \ {u})
<1>1. IsFiniteSet(Living) /\ \A t \in Living : t.size \in Nat
  BY FS_Subset DEF NodesTyped, Living, TenantRows
<1> HIDE DEF Living
<1> QED BY <1>1, RowSums

\* A request that takes nothing moves on.
LEMMA DeskMoves ==
  ASSUME CapacityInv, NEW r \in Requests, NEW rec \in DeskRows, desk' = [desk EXCEPT ![r] = rec],
         rec.node <= nodeRow.id, rec.stage \notin {"patch", "insert", "resize"},
         NodesTyped', UNCHANGED <<nodeRow, tenants, overlapped, shrunk>>
  PROVE  CapacityInv'
<1>1. desk'[r] = rec /\ \A q \in Requests \ {r} : desk'[q] = desk[q] BY DEF CapacityInv, NodesTyped
<1>2. RowsSound' BY <1>1 DEF CapacityInv, RowsSound, Stage
<1>3. FloorHeld => FloorHeld' BY <1>1 DEF FloorHeld, Stage, Same
<1>4. OneTakes => OneTakes' BY <1>1 DEF OneTakes, Taking, Stage
<1>5. RoomHeld => RoomHeld'
  BY <1>1 DEF RoomHeld, Stage, Same, Living
<1> QED BY <1>2, <1>3, <1>4, <1>5 DEF CapacityInv

\* A request that ends, or is turned away.
LEMMA RequestEnds ==
  ASSUME CapacityInv, NEW r \in Requests, Finish(r), NodesTyped', UNCHANGED <<nodeRow, tenants, overlapped, shrunk>>
  PROVE  CapacityInv'
<1>1. NoRequest \in DeskRows /\ NoRequest.node <= nodeRow.id
  BY FreeDesk DEF CapacityInv, NodesTyped, NodeRows
<1>2. NoRequest.stage \notin {"patch", "insert", "resize"} BY FreeDesk
<1>3. desk' = [desk EXCEPT ![r] = NoRequest] BY DEF Finish
<1> QED BY <1>1, <1>2, <1>3, DeskMoves

\* The same of the next state.
LEMMA LivingSumsNext ==
  ASSUME NodesTyped'
  PROVE  /\ Allocated(Living') \in Nat
         /\ \A t \in Living' : /\ Allocated(Living') = t.size + Allocated(Living' \ {t})
                               /\ Allocated(Living' \ {t}) \in Nat
<1>1. IsFiniteSet(Living') /\ \A t \in Living' : t.size \in Nat
  BY FS_Subset DEF NodesTyped, Living, TenantRows
<1> HIDE DEF Living
<1> QED BY <1>1, RowSums

\* A row takes the place of one with its id, and all else stays.
LEMMA RowReplaced ==
  ASSUME CapacityInv, NEW t \in tenants, NEW new \in TenantRows, new.id = t.id,
         tenants' = (tenants \ {t}) \cup {new}
  PROVE  /\ tenants' \subseteq TenantRows /\ IsFiniteSet(tenants')
         /\ Cardinality(tenants') = Cardinality(tenants)
         /\ \A u \in tenants' : u.id <= Cardinality(tenants')
         /\ \A u, v \in tenants' : u.id = v.id => u = v
         /\ new \notin tenants \ {t}
<1> USE DEF CapacityInv, NodesTyped, RowsSound
<1>1. new \notin tenants \ {t} OBVIOUS
<1>2. IsFiniteSet(tenants \ {t}) /\ Cardinality(tenants \ {t}) = Cardinality(tenants) - 1
  BY FS_RemoveElement
<1>3. IsFiniteSet(tenants') /\ Cardinality(tenants') = Cardinality(tenants \ {t}) + 1
  BY <1>1, <1>2, FS_AddElement
<1>4. Cardinality(tenants) \in Nat BY FS_CardinalityType
<1>5. new \in TenantRows /\ tenants' = (tenants \ {t}) \cup {new} /\ new.id = t.id OBVIOUS
<1>6. tenants' \subseteq TenantRows BY <1>5
<1>7. Cardinality(tenants') = Cardinality(tenants) BY <1>2, <1>3, <1>4
<1>8. \A u \in tenants' : u.id <= Cardinality(tenants') BY <1>5, <1>7
<1>9. \A u, v \in tenants' : u.id = v.id => u = v BY <1>5
<1> QED BY <1>1, <1>3, <1>6, <1>7, <1>8, <1>9

\* Every step keeps the invariant.
LEMMA NodesStep == CapacityInv /\ [NodesNext]_nodesVars => CapacityInv'
<1> SUFFICES ASSUME CapacityInv, [NodesNext]_nodesVars PROVE CapacityInv' OBVIOUS
<1>0. NodesTyped /\ RowsSound BY DEF CapacityInv
<1> USE NodesAssumption
<1>1. ASSUME NEW r \in Requests, Evaluate(r) PROVE CapacityInv'
  <2>1. UNCHANGED <<machine, hour, settings, nodeRow, tenants, overlapped, shrunk>> BY <1>1 DEF Evaluate
  <2>2. ASSUME NEW kind \in {"register", "recheck", "refresh", "create"}, NEW test \in BOOLEAN
        PROVE  /\ Evaluating(kind, test) \in DeskRows /\ Evaluating(kind, test).stage \in {"test", "judge"}
               /\ Evaluating(kind, test).node = 0
    <3> DEFINE stage == IF test \/ ~ Resolved(settings) THEN "test" ELSE "judge"
    <3>1. machine.total \in Nat /\ machine.large \in BOOLEAN /\ settings.fast \in Throughputs
      BY <1>0 DEF NodesTyped
    <3>2. stage \in {"test", "judge"} OBVIOUS
    <3> HIDE DEF stage
    <3>3. Evaluating(kind, test) = [NoRequest EXCEPT !.kind = kind, !.stage = stage, !.total = machine.total,
                                                     !.large = machine.large, !.fast = settings.fast]
      BY DEF Evaluating, stage
    <3> QED BY <3>1, <3>2, <3>3, FreeDesk DEF DeskRows
  <2>0. nodeRow.id \in Nat BY <1>0 DEF NodesTyped, NodeRows
  <2>3. ASSUME NEW rec \in DeskRows, desk' = [desk EXCEPT ![r] = rec], rec.node \in {0, nodeRow.id},
               rec.stage \in {"test", "judge", "host"}
        PROVE  CapacityInv'
    <3>1. NodesTyped' BY <1>0, <2>1, <2>3 DEF NodesTyped
    <3>2. rec.node <= nodeRow.id BY <2>0, <2>3
    <3> QED BY <2>1, <2>3, <3>1, <3>2, DeskMoves
  <2>4. CapacityInv'
    <3>1. CASE desk' = [desk EXCEPT ![r] = Evaluating("register", TRUE)] BY <2>2, <2>3, <3>1
    <3>2. CASE desk' = [desk EXCEPT ![r] = [Evaluating("recheck", TRUE) EXCEPT !.node = nodeRow.id]]
      <4> DEFINE e == Evaluating("recheck", TRUE)
                 rec == [e EXCEPT !.node = nodeRow.id]
      <4>1. e \in DeskRows /\ e.stage \in {"test", "judge"} BY <2>2
      <4> HIDE DEF e
      <4>2. rec \in DeskRows /\ rec.stage \in {"test", "judge"} /\ rec.node = nodeRow.id
        BY <2>0, <4>1 DEF DeskRows
      <4>3. desk' = [desk EXCEPT ![r] = rec] BY <3>2 DEF e
      <4> HIDE DEF rec
      <4> QED BY <2>3, <4>2, <4>3
    <3>3. CASE \E test \in BOOLEAN : desk' = [desk EXCEPT ![r] = Evaluating("refresh", test)]
      BY <2>2, <2>3, <3>3
    <3>4. CASE \E size \in Sizes : desk' = [desk EXCEPT ![r] =
                 [(IF settings.checked = Never \/ hour - settings.checked > SpeedTestTtl
                   THEN Evaluating("create", FALSE)
                   ELSE [NoRequest EXCEPT !.kind = "create", !.stage = "host", !.pass = settings.pass])
                  EXCEPT !.size = size]]
      <4> DEFINE fresh == [NoRequest EXCEPT !.kind = "create", !.stage = "host", !.pass = settings.pass]
                 e == IF settings.checked = Never \/ hour - settings.checked > SpeedTestTtl
                      THEN Evaluating("create", FALSE) ELSE fresh
      <4>1. PICK size \in Sizes : desk' = [desk EXCEPT ![r] = [e EXCEPT !.size = size]] BY <3>4
      <4>2. fresh \in DeskRows /\ fresh.stage = "host" /\ fresh.node = 0
        BY <1>0, FreeDesk DEF DeskRows, NodesTyped
      <4> HIDE DEF fresh
      <4>3. e \in DeskRows /\ e.stage \in {"test", "judge", "host"} /\ e.node = 0 BY <2>2, <4>2
      <4> HIDE DEF e
      <4> DEFINE rec == [e EXCEPT !.size = size]
      <4>4. rec \in DeskRows /\ rec.stage \in {"test", "judge", "host"} /\ rec.node = 0
        BY <4>3 DEF DeskRows
      <4>5. desk' = [desk EXCEPT ![r] = rec] BY <4>1
      <4> HIDE DEF rec
      <4> QED BY <2>3, <4>4, <4>5
    <3> QED BY <1>1, <3>1, <3>2, <3>3, <3>4 DEF Evaluate
  <2> QED BY <2>4
<1>2. ASSUME NEW r \in Requests, MeasureThroughput(r) PROVE CapacityInv'
  <2>1. UNCHANGED <<machine, hour, nodeRow, tenants, overlapped, shrunk>> BY <1>2 DEF MeasureThroughput
  <2>2. PICK fast \in Throughputs : desk' = [desk EXCEPT ![r].stage = "judge", ![r].fast = fast]
    BY <1>2 DEF MeasureThroughput, Throughputs
  <2>3. settings' \in {settings, [settings EXCEPT !.tested = hour]} BY <1>2 DEF MeasureThroughput
  <2> DEFINE rec == [desk[r] EXCEPT !.stage = "judge", !.fast = fast]
  <2>4. desk[r] \in DeskRows /\ desk[r].node <= nodeRow.id BY <1>0 DEF NodesTyped, RowsSound
  <2>5. rec \in DeskRows /\ rec.stage = "judge" /\ rec.node = desk[r].node BY <2>4 DEF DeskRows
  <2>6. desk' = [desk EXCEPT ![r] = rec] BY <2>2
  <2> HIDE DEF rec
  <2>7. NodesTyped'
    <3>1. settings' \in [pass : BOOLEAN, checked : Int, tested : Int, fast : Throughputs]
      BY <1>0, <2>3 DEF NodesTyped
    <3> QED BY <1>0, <2>1, <2>5, <2>6, <3>1 DEF NodesTyped
  <2> QED BY <2>1, <2>4, <2>5, <2>6, <2>7, DeskMoves
<1>3. ASSUME NEW r \in Requests, KeepVerdict(r) PROVE CapacityInv'
  <2>1. UNCHANGED <<machine, hour, nodeRow, tenants, overlapped, shrunk>> BY <1>3 DEF KeepVerdict
  <2>2. desk[r] \in DeskRows /\ desk[r].node <= nodeRow.id BY <1>0 DEF NodesTyped, RowsSound
  <2>3. Passes(desk[r]) \in BOOLEAN BY <2>2 DEF Passes, DeskRows
  <2>4. settings' = [settings EXCEPT !.pass = Passes(desk[r]), !.checked = hour, !.fast = desk[r].fast]
    BY <1>3 DEF KeepVerdict
  <2>5. settings' \in [pass : BOOLEAN, checked : Int, tested : Int, fast : Throughputs]
    <3>1. /\ settings \in [pass : BOOLEAN, checked : Int, tested : Int, fast : Throughputs]
          /\ hour \in Int /\ desk[r].fast \in Throughputs
      BY <1>0, <2>2 DEF NodesTyped, DeskRows
    <3> QED BY <2>3, <2>4, <3>1
  <2>6. nodeRow.id \in Nat BY <1>0 DEF NodesTyped, NodeRows
  <2>7. ASSUME NEW rec \in DeskRows, desk' = [desk EXCEPT ![r] = rec], rec.node <= nodeRow.id,
               rec.stage \in {"host", "none"}
        PROVE  CapacityInv'
    <3>1. NodesTyped' BY <1>0, <2>1, <2>5, <2>7 DEF NodesTyped
    <3> QED BY <2>1, <2>7, <3>1, DeskMoves
  <2>8. CapacityInv'
    <3>1. CASE desk' = [desk EXCEPT ![r].stage = "host", ![r].pass = Passes(desk[r])]
      <4> DEFINE rec == [desk[r] EXCEPT !.stage = "host", !.pass = Passes(desk[r])]
      <4>1. rec \in DeskRows /\ rec.stage = "host" /\ rec.node = desk[r].node BY <2>2, <2>3 DEF DeskRows
      <4>2. desk' = [desk EXCEPT ![r] = rec] BY <3>1
      <4> HIDE DEF rec
      <4> QED BY <2>2, <2>7, <4>1, <4>2
    <3>2. CASE Finish(r)
      <4>1. NoRequest.node <= nodeRow.id BY <2>6, FreeDesk
      <4>2. desk' = [desk EXCEPT ![r] = NoRequest] BY <3>2 DEF Finish
      <4> QED BY <2>7, <4>1, <4>2, FreeDesk
    <3> QED BY <1>3, <3>1, <3>2 DEF KeepVerdict
  <2> QED BY <2>8
<1>4. ASSUME NEW r \in Requests, RegisterNode(r) PROVE CapacityInv'
  <2>1. Finish(r) /\ UNCHANGED <<machine, hour, settings, tenants, overlapped, shrunk>> BY <1>4 DEF RegisterNode
  <2>2. /\ desk'[r] = NoRequest /\ \A q \in Requests \ {r} : desk'[q] = desk[q]
        /\ desk' \in [Requests -> DeskRows] /\ desk[r] \in DeskRows
    BY <1>0, <2>1, FreeDesk DEF NodesTyped, Finish
  <2>3. CASE nodeRow' = nodeRow
    <3>1. NodesTyped' BY <1>0, <2>1, <2>2, <2>3 DEF NodesTyped
    <3> QED BY <2>1, <2>3, <3>1, RequestEnds
  <2>4. CASE /\ Passes(desk[r]) /\ ~ nodeRow.exists
             /\ nodeRow' = [exists |-> TRUE, id |-> nodeRow.id + 1, status |-> "ONLINE", pass |-> Passes(desk[r]),
                            total |-> desk[r].total]
    <3>1. tenants = {} /\ nodeRow.id \in Nat /\ desk[r].total \in Nat
      BY <1>0, <2>2, <2>4 DEF NodesTyped, RowsSound, NodeRows, DeskRows
    <3>2. nodeRow' \in NodeRows BY <2>4, <3>1 DEF NodeRows
    <3>3. NodesTyped' BY <1>0, <2>1, <2>2, <3>2 DEF NodesTyped
    <3>4. \A q \in Requests : desk[q].node \in Nat /\ desk[q].node <= nodeRow.id
      BY <1>0 DEF NodesTyped, RowsSound, DeskRows
    <3>5. \A q \in Requests : desk'[q].node <= nodeRow.id BY <2>2, <3>1, <3>4, FreeDesk
    <3>6. RowsSound'
      <4>1. \A q \in Requests : desk'[q].node \in Nat BY <2>2, <3>4, FreeDesk
      <4>2. \A q \in Requests : desk'[q].node <= nodeRow'.id BY <2>4, <3>1, <3>5, <4>1
      <4>3. \A q \in Requests : Stage(q, "patch")' => desk'[q].kind \in {"ONLINE", "MAINTENANCE"}
        BY <1>0, <2>2, FreeDesk DEF RowsSound, Stage
      <4> QED BY <2>1, <2>4, <3>1, <4>2, <4>3 DEF RowsSound
    <3>7. \A q \in Requests : ~ Same(q)'
      <4>1. \A q \in Requests : desk'[q].node \in Nat BY <2>2, <3>4, FreeDesk
      <4>2. \A q \in Requests : desk'[q].node # nodeRow'.id BY <2>4, <3>1, <3>5, <4>1
      <4> QED BY <4>2 DEF Same
    <3>8. FloorHeld' BY <2>4, <3>7 DEF FloorHeld
    <3>9. OneTakes => OneTakes' BY <2>2, FreeDesk DEF OneTakes, Taking, Stage
    <3>10. RoomHeld'
      <4>1. Living' = {} BY <2>1, <3>1 DEF Living
      <4>2. Allocated(Living') = 0 BY <4>1, AllocatedEmpty
      <4> QED BY <2>4, <3>1, <3>7, <4>1, <4>2 DEF RoomHeld
    <3> QED BY <2>1, <3>3, <3>6, <3>8, <3>9, <3>10 DEF CapacityInv
  <2> QED BY <1>4, <2>3, <2>4 DEF RegisterNode, Registered
<1>5. ASSUME NEW r \in Requests, RecheckNode(r) PROVE CapacityInv'
  <2>1. /\ Stage(r, "judge") /\ Finish(r) /\ UNCHANGED <<machine, hour, settings, tenants>>
        /\ shrunk' = (shrunk \/ (Same(r) /\ desk[r].total < nodeRow.total))
        /\ overlapped' = (overlapped \/
             \E q \in Requests : Stage(q, "patch") \/ Stage(q, "insert") \/ Stage(q, "resize"))
        /\ nodeRow' = IF Same(r)
                      THEN [nodeRow EXCEPT !.pass = Passes(desk[r]), !.total = desk[r].total,
                                           !.status = Degraded(@, Passes(desk[r]))]
                      ELSE nodeRow
    BY <1>5 DEF RecheckNode
  <2>2. /\ desk'[r] = NoRequest /\ \A q \in Requests \ {r} : desk'[q] = desk[q]
        /\ desk' \in [Requests -> DeskRows] /\ desk[r] \in DeskRows /\ nodeRow \in NodeRows
    BY <1>0, <2>1, FreeDesk DEF NodesTyped, Finish
  <2>3. /\ Passes(desk[r]) \in BOOLEAN /\ desk[r].total \in Nat
        /\ Degraded(nodeRow.status, Passes(desk[r])) \in {"ONLINE", "MAINTENANCE", "DEGRADED"}
        /\ Degraded(nodeRow.status, Passes(desk[r])) = "ONLINE" => Passes(desk[r])
    BY <2>2 DEF Passes, DeskRows, NodeRows, Degraded
  <2>4. /\ nodeRow' \in NodeRows /\ nodeRow'.exists = nodeRow.exists /\ nodeRow'.id = nodeRow.id
        /\ Same(r) => /\ nodeRow'.pass = Passes(desk[r]) /\ nodeRow'.total = desk[r].total
                      /\ nodeRow'.status = Degraded(nodeRow.status, Passes(desk[r]))
    BY <2>1, <2>2, <2>3 DEF NodeRows
  <2>5. NodesTyped' BY <1>0, <2>1, <2>2, <2>4 DEF NodesTyped
  <2>6. RowsSound'
    <3>1. \A q \in Requests : desk'[q].node <= nodeRow.id
      BY <1>0, <2>2, FreeDesk DEF RowsSound, NodesTyped, NodeRows
    <3>2. \A q \in Requests : Stage(q, "patch")' => desk'[q].kind \in {"ONLINE", "MAINTENANCE"}
      BY <1>0, <2>2, FreeDesk DEF RowsSound, Stage
    <3> QED BY <1>0, <2>1, <2>4, <3>1, <3>2 DEF RowsSound
  <2>7. ASSUME ~ overlapped' 
        PROVE  FloorHeld' /\ OneTakes' /\ \A q \in Requests : ~ Stage(q, "insert")' /\ ~ Stage(q, "resize")'
    <3>1. \A q \in Requests : ~ Stage(q, "patch")' /\ ~ Stage(q, "insert")' /\ ~ Stage(q, "resize")'
      BY <2>1, <2>2, <2>7, FreeDesk DEF Stage
    <3>2. FloorHeld BY <2>1, <2>7 DEF CapacityInv
    <3>3. nodeRow'.exists /\ nodeRow'.status = "ONLINE" => nodeRow'.pass
      BY <2>1, <2>3, <2>4, <3>2 DEF FloorHeld
    <3> QED BY <3>1, <3>3 DEF FloorHeld, OneTakes, Taking
  <2>8. ASSUME ~ overlapped', nodeRow'.exists, ~ shrunk' PROVE RoomHeld'
    <3>1. Allocated(Living) <= nodeRow.total BY <2>1, <2>4, <2>8 DEF CapacityInv, RoomHeld
    <3>2. nodeRow.total <= nodeRow'.total BY <2>1, <2>2, <2>3, <2>4, <2>8 DEF NodeRows
    <3>3. Allocated(Living) \in Nat BY <1>0, LivingSums
    <3>4. nodeRow.total \in Nat /\ nodeRow'.total \in Nat BY <2>2, <2>4 DEF NodeRows
    <3>5. Living' = Living BY <2>1 DEF Living
    <3> HIDE DEF Living
    <3>6. Allocated(Living') <= nodeRow'.total BY <3>1, <3>2, <3>3, <3>4, <3>5
    <3> QED BY <2>7, <2>8, <3>6 DEF RoomHeld
  <2> QED BY <2>5, <2>6, <2>7, <2>8 DEF CapacityInv
<1>6. ASSUME NEW r \in Requests, PatchNode(r) PROVE CapacityInv'
  <2>1. /\ desk[r] = NoRequest /\ nodeRow.exists
        /\ UNCHANGED <<machine, hour, settings, nodeRow, tenants, overlapped, shrunk>>
    BY <1>6 DEF PatchNode
  <2>2. PICK status \in {"ONLINE", "MAINTENANCE"} :
          /\ status = "ONLINE" => nodeRow.pass
          /\ desk' = [desk EXCEPT ![r] = [NoRequest EXCEPT !.kind = status, !.stage = "patch", !.node = nodeRow.id]]
    BY <1>6 DEF PatchNode
  <2> DEFINE rec == [NoRequest EXCEPT !.kind = status, !.stage = "patch", !.node = nodeRow.id]
  <2>3. nodeRow.id \in Nat BY <1>0 DEF NodesTyped, NodeRows
  <2>4. rec \in DeskRows /\ rec.kind = status /\ rec.stage = "patch" /\ rec.node = nodeRow.id
    BY <2>3, FreeDesk DEF DeskRows
  <2>5. desk' = [desk EXCEPT ![r] = rec] BY <2>2
  <2> HIDE DEF rec
  <2>6. desk'[r] = rec /\ \A q \in Requests \ {r} : desk'[q] = desk[q] BY <1>0, <2>5 DEF NodesTyped
  <2>7. NodesTyped' BY <1>0, <2>1, <2>4, <2>5 DEF NodesTyped
  <2>8. RowsSound' BY <1>0, <2>1, <2>3, <2>4, <2>6 DEF RowsSound, Stage
  <2>9. FloorHeld => FloorHeld' BY <2>1, <2>2, <2>4, <2>6 DEF FloorHeld, Stage, Same
  <2>10. OneTakes => OneTakes' BY <2>4, <2>6 DEF OneTakes, Taking, Stage
  <2>11. RoomHeld => RoomHeld' BY <2>1, <2>4, <2>6 DEF RoomHeld, Stage, Same, Living
  <2> QED BY <2>1, <2>7, <2>8, <2>9, <2>10, <2>11 DEF CapacityInv
<1>7. ASSUME NEW r \in Requests, PatchWritten(r) PROVE CapacityInv'
  <2>1. /\ Stage(r, "patch") /\ Finish(r) /\ UNCHANGED <<machine, hour, settings, tenants, overlapped, shrunk>>
        /\ nodeRow' = IF Same(r) THEN [nodeRow EXCEPT !.status = desk[r].kind] ELSE nodeRow
    BY <1>7 DEF PatchWritten
  <2>2. /\ desk'[r] = NoRequest /\ \A q \in Requests \ {r} : desk'[q] = desk[q]
        /\ desk' \in [Requests -> DeskRows] /\ nodeRow \in NodeRows
    BY <1>0, <2>1, FreeDesk DEF NodesTyped, Finish
  <2>3. CASE nodeRow' = nodeRow
    <3>1. NodesTyped' BY <1>0, <2>1, <2>2, <2>3 DEF NodesTyped
    <3> QED BY <2>1, <2>3, <3>1, RequestEnds
  <2>4. CASE Same(r) /\ nodeRow' = [nodeRow EXCEPT !.status = desk[r].kind]
    <3>1. PICK status \in {"ONLINE", "MAINTENANCE"} : desk[r].kind = status
      BY <1>0, <2>1 DEF RowsSound
    <3>2. /\ nodeRow' \in NodeRows /\ nodeRow'.status = status /\ nodeRow'.exists = nodeRow.exists
          /\ nodeRow'.id = nodeRow.id /\ nodeRow'.pass = nodeRow.pass /\ nodeRow'.total = nodeRow.total
      BY <2>2, <2>4, <3>1 DEF NodeRows
    <3>3. NodesTyped' BY <1>0, <2>1, <2>2, <3>2 DEF NodesTyped
    <3>4. RowsSound'
      <4>1. \A q \in Requests : desk'[q].node <= nodeRow.id
        BY <1>0, <2>2, FreeDesk DEF RowsSound, NodesTyped, NodeRows
      <4>2. \A q \in Requests : Stage(q, "patch")' => desk'[q].kind \in {"ONLINE", "MAINTENANCE"}
        BY <1>0, <2>2, FreeDesk DEF RowsSound, Stage
      <4> QED BY <1>0, <2>1, <3>2, <4>1, <4>2 DEF RowsSound
    <3>5. FloorHeld => FloorHeld' BY <2>1, <2>2, <2>4, <3>1, <3>2, FreeDesk DEF FloorHeld, Stage, Same
    <3>6. OneTakes => OneTakes' BY <2>2, FreeDesk DEF OneTakes, Taking, Stage
    <3>7. RoomHeld => RoomHeld' BY <2>1, <2>2, <3>2, FreeDesk DEF RoomHeld, Stage, Same, Living
    <3> QED BY <2>1, <3>2, <3>3, <3>4, <3>5, <3>6, <3>7 DEF CapacityInv
  <2> QED BY <2>1, <2>3, <2>4
<1>8. ASSUME NEW r \in Requests, AssertCapacity(r) PROVE CapacityInv'
  <2>1. Stage(r, "host") /\ UNCHANGED <<machine, hour, settings, nodeRow, tenants, shrunk>>
    BY <1>8 DEF AssertCapacity
  <2>2. desk[r] \in DeskRows /\ nodeRow \in NodeRows /\ nodeRow.id \in Nat
    BY <1>0 DEF NodesTyped, NodeRows
  <2>3. CASE Finish(r) /\ UNCHANGED overlapped
    <3>1. NodesTyped' BY <1>0, <2>1, <2>3, FreeDesk DEF NodesTyped, Finish
    <3> QED BY <2>1, <2>3, <3>1, RequestEnds
  <2>4. CASE /\ nodeRow.exists /\ Fits(desk[r].size, 0)
             /\ desk' = [desk EXCEPT ![r].stage = "insert", ![r].node = nodeRow.id]
             /\ overlapped' = (overlapped \/ \E q \in Requests \ {r} : Taking(q))
    <3> DEFINE rec == [desk[r] EXCEPT !.stage = "insert", !.node = nodeRow.id]
    <3>1. rec \in DeskRows /\ rec.stage = "insert" /\ rec.node = nodeRow.id /\ rec.size = desk[r].size
      BY <2>2 DEF DeskRows
    <3>2. desk' = [desk EXCEPT ![r] = rec] BY <2>4
    <3> HIDE DEF rec
    <3>3. /\ desk'[r] = rec /\ \A q \in Requests \ {r} : desk'[q] = desk[q]
          /\ desk' \in [Requests -> DeskRows]
      BY <1>0, <3>1, <3>2 DEF NodesTyped
    <3>4. NodesTyped' BY <1>0, <2>1, <3>3 DEF NodesTyped
    <3>5. RowsSound' BY <1>0, <2>1, <2>2, <3>1, <3>3 DEF RowsSound, Stage
    <3>6. FloorHeld => FloorHeld' BY <2>1, <3>1, <3>3 DEF FloorHeld, Stage, Same
    <3>7. ~ overlapped' => OneTakes' BY <2>4, <3>1, <3>3 DEF OneTakes, Taking, Stage
    <3>8. ASSUME RoomHeld PROVE RoomHeld'
      <4>1. Allocated(Living) \in Nat BY <1>0, LivingSums
      <4>2. /\ nodeRow.total \in Nat /\ desk[r].size \in Nat /\ Allocated(Living) <= nodeRow.total
        BY <2>2, <3>8 DEF NodeRows, DeskRows, RoomHeld
      <4>3. Available = nodeRow.total - Allocated(Living)
        <5> HIDE DEF Living
        <5> QED BY <4>1, <4>2 DEF Available
      <4>4. desk[r].size + Allocated(Living) <= nodeRow.total BY <2>4, <4>1, <4>2, <4>3 DEF Fits
      <4>5. Living' = Living BY <2>1 DEF Living
      <4> HIDE DEF Living
      <4> QED BY <2>1, <3>1, <3>3, <3>8, <4>4, <4>5 DEF RoomHeld, Stage, Same
    <3> QED BY <2>1, <2>4, <3>4, <3>5, <3>6, <3>7, <3>8 DEF CapacityInv
  <2> QED BY <1>8, <2>3, <2>4 DEF AssertCapacity
<1>9. ASSUME NEW r \in Requests, CreateTenant(r) PROVE CapacityInv'
  <2>1. /\ Stage(r, "insert") /\ Finish(r) /\ UNCHANGED <<machine, hour, settings, nodeRow, overlapped, shrunk>>
        /\ tenants' = IF Same(r)
                      THEN tenants \cup {[id |-> Cardinality(tenants) + 1, size |-> desk[r].size, deleted |-> FALSE]}
                      ELSE tenants
    BY <1>9 DEF CreateTenant
  <2>2. /\ desk'[r] = NoRequest /\ \A q \in Requests \ {r} : desk'[q] = desk[q]
        /\ desk' \in [Requests -> DeskRows] /\ desk[r] \in DeskRows /\ nodeRow \in NodeRows
    BY <1>0, <2>1, FreeDesk DEF NodesTyped, Finish
  <2>3. CASE ~ Same(r)
    <3>1. tenants' = tenants BY <2>1, <2>3
    <3>2. NodesTyped' BY <1>0, <2>1, <2>2, <3>1 DEF NodesTyped
    <3> QED BY <2>1, <3>1, <3>2, RequestEnds
  <2>4. CASE Same(r)
    <3>1. Cardinality(tenants) \in Nat /\ IsFiniteSet(tenants) /\ desk[r].size \in Nat
      BY <1>0, <2>2, FS_CardinalityType DEF NodesTyped, DeskRows
    <3> DEFINE new == [id |-> Cardinality(tenants) + 1, size |-> desk[r].size, deleted |-> FALSE]
    <3>2. /\ new \in TenantRows /\ new.id = Cardinality(tenants) + 1 /\ new.size = desk[r].size /\ ~ new.deleted
          /\ tenants' = tenants \cup {new}
      BY <2>1, <2>4, <3>1 DEF TenantRows
    <3> HIDE DEF new
    <3>3. \A t \in tenants : t.id \in Nat /\ t.id <= Cardinality(tenants)
      BY <1>0 DEF NodesTyped, RowsSound, TenantRows
    <3>4. new \notin tenants BY <3>1, <3>2, <3>3
    <3>5. IsFiniteSet(tenants') /\ Cardinality(tenants') = Cardinality(tenants) + 1
      BY <3>1, <3>2, <3>4, FS_AddElement
    <3>6. NodesTyped'
      <4>1. tenants' \subseteq TenantRows BY <1>0, <3>2 DEF NodesTyped
      <4> QED BY <1>0, <2>1, <2>2, <3>5, <4>1 DEF NodesTyped
    <3>7. RowsSound'
      <4>1. \A t \in tenants' : t.id <= Cardinality(tenants') BY <3>1, <3>2, <3>3, <3>5
      <4>2. \A t, u \in tenants' : t.id = u.id => t = u BY <1>0, <3>1, <3>2, <3>3 DEF RowsSound
      <4>3. \A q \in Requests : desk'[q].node <= nodeRow'.id
        BY <1>0, <2>1, <2>2, FreeDesk DEF RowsSound, NodesTyped, NodeRows
      <4>4. nodeRow'.exists BY <2>1, <2>4 DEF Same
      <4>5. \A q \in Requests : Stage(q, "patch")' => desk'[q].kind \in {"ONLINE", "MAINTENANCE"}
        BY <1>0, <2>2, FreeDesk DEF RowsSound, Stage
      <4> QED BY <4>1, <4>2, <4>3, <4>4, <4>5 DEF RowsSound
    <3>8. FloorHeld => FloorHeld' BY <2>1, <2>2, FreeDesk DEF FloorHeld, Stage, Same
    <3>9. OneTakes => OneTakes' BY <2>2, FreeDesk DEF OneTakes, Taking, Stage
    <3>10. ASSUME OneTakes, RoomHeld PROVE RoomHeld'
      <4>1. Living' = Living \cup {new} BY <3>2 DEF Living
      <4>2. new \in Living' /\ Living' \ {new} = Living BY <3>2, <3>4, <4>1 DEF Living
      <4>3. Allocated(Living') = new.size + Allocated(Living)
        <5>1. Allocated(Living') = new.size + Allocated(Living' \ {new}) BY <3>6, <4>2, LivingSumsNext
        <5> QED BY <4>2, <5>1
      <4>4. new.size + Allocated(Living) <= nodeRow.total BY <2>1, <2>4, <3>2, <3>10 DEF RoomHeld
      <4>5. \A q \in Requests : ~ Stage(q, "insert")' /\ ~ Stage(q, "resize")'
        BY <2>1, <2>2, <3>10, FreeDesk DEF OneTakes, Taking, Stage
      <4>6. Allocated(Living') <= nodeRow'.total BY <2>1, <4>3, <4>4
      <4> QED BY <4>5, <4>6 DEF RoomHeld
    <3> QED BY <2>1, <3>6, <3>7, <3>8, <3>9, <3>10 DEF CapacityInv
  <2> QED BY <2>3, <2>4
<1>10. ASSUME NEW r \in Requests, UpdateResources(r) PROVE CapacityInv'
  <2>1. /\ desk[r] = NoRequest /\ UNCHANGED <<machine, hour, settings, nodeRow, tenants, shrunk>>
        /\ overlapped' = (overlapped \/ \E q \in Requests : Taking(q))
    BY <1>10 DEF UpdateResources
  <2>2. PICK t \in Living, size \in Sizes :
          /\ Fits(size, t.size)
          /\ desk' = [desk EXCEPT ![r] = [NoRequest EXCEPT !.kind = "resize", !.stage = "resize",
                                                           !.tenant = t.id, !.size = size]]
    BY <1>10 DEF UpdateResources
  <2>3. t \in tenants /\ t.id \in Nat /\ size \in Nat BY <1>0, NodesAssumption DEF Living, NodesTyped, TenantRows
  <2> DEFINE rec == [NoRequest EXCEPT !.kind = "resize", !.stage = "resize", !.tenant = t.id, !.size = size]
  <2>4. rec \in DeskRows /\ rec.stage = "resize" /\ rec.node = 0 /\ rec.tenant = t.id /\ rec.size = size
    BY <2>3, FreeDesk DEF DeskRows
  <2>5. desk' = [desk EXCEPT ![r] = rec] BY <2>2
  <2> HIDE DEF rec
  <2>6. /\ desk'[r] = rec /\ \A q \in Requests \ {r} : desk'[q] = desk[q]
        /\ desk' \in [Requests -> DeskRows] /\ nodeRow \in NodeRows
    BY <1>0, <2>4, <2>5 DEF NodesTyped
  <2>7. NodesTyped' BY <1>0, <2>1, <2>6 DEF NodesTyped
  <2>8. RowsSound' BY <1>0, <2>1, <2>4, <2>6 DEF RowsSound, Stage, NodeRows
  <2>9. FloorHeld => FloorHeld' BY <2>1, <2>4, <2>6 DEF FloorHeld, Stage, Same
  <2>10. ~ overlapped' => OneTakes' BY <2>1, <2>4, <2>6 DEF OneTakes, Taking, Stage
  <2>11. ASSUME RoomHeld PROVE RoomHeld'
    <3>1. /\ Allocated(Living) \in Nat /\ t.size \in Nat /\ Allocated(Living \ {t}) \in Nat
          /\ Allocated(Living) = t.size + Allocated(Living \ {t})
      BY <1>0, LivingSums
    <3>2. nodeRow.total \in Nat /\ Allocated(Living) <= nodeRow.total BY <2>6, <2>11 DEF NodeRows, RoomHeld
    <3>3. \A u \in Living : u.id = t.id => u = t BY <1>0, <2>3 DEF RowsSound, Living
    <3>4. Living' = Living BY <2>1 DEF Living
    <3> HIDE DEF Living
    <3>5. Available = nodeRow.total - Allocated(Living) BY <3>1, <3>2 DEF Available
    <3>6. size + Allocated(Living \ {t}) <= nodeRow.total BY <2>2, <2>3, <3>1, <3>2, <3>5 DEF Fits
    <3>7. ASSUME NEW q \in Requests, Stage(q, "insert")', Same(q)'
          PROVE  desk'[q].size + Allocated(Living') <= nodeRow'.total
      <4>1. q # r BY <2>4, <2>6, <3>7 DEF Stage
      <4>2. Stage(q, "insert") /\ Same(q) /\ desk'[q] = desk[q] BY <2>1, <2>6, <3>7, <4>1 DEF Stage, Same
      <4> QED BY <2>1, <2>11, <3>4, <4>2 DEF RoomHeld
    <3>8. ASSUME NEW q \in Requests, Stage(q, "resize")', NEW u \in Living', u.id = desk'[q].tenant
          PROVE  desk'[q].size + Allocated(Living' \ {u}) <= nodeRow'.total
      <4>1. CASE q = r BY <2>1, <2>4, <2>6, <3>3, <3>4, <3>6, <3>8, <4>1
      <4>2. CASE q # r
        <5>1. Stage(q, "resize") /\ desk'[q] = desk[q] BY <2>6, <3>8, <4>2 DEF Stage
        <5> QED BY <2>1, <2>11, <3>4, <3>8, <5>1 DEF RoomHeld
      <4> QED BY <4>1, <4>2
    <3> QED BY <2>1, <3>2, <3>4, <3>7, <3>8 DEF RoomHeld
  <2> QED BY <2>1, <2>7, <2>8, <2>9, <2>10, <2>11 DEF CapacityInv
<1>11. ASSUME NEW r \in Requests, WriteResources(r) PROVE CapacityInv'
  <2>1. /\ Stage(r, "resize") /\ Finish(r) /\ UNCHANGED <<machine, hour, settings, nodeRow, overlapped, shrunk>>
        /\ tenants' = {IF t.id = desk[r].tenant THEN [t EXCEPT !.size = desk[r].size] ELSE t : t \in tenants}
    BY <1>11 DEF WriteResources
  <2>2. /\ desk'[r] = NoRequest /\ \A q \in Requests \ {r} : desk'[q] = desk[q]
        /\ desk' \in [Requests -> DeskRows] /\ desk[r] \in DeskRows /\ nodeRow \in NodeRows
    BY <1>0, <2>1, FreeDesk DEF NodesTyped, Finish
  <2>3. CASE \A t \in tenants : t.id # desk[r].tenant
    <3>1. tenants' = tenants BY <2>1, <2>3
    <3>2. NodesTyped' BY <1>0, <2>1, <2>2, <3>1 DEF NodesTyped
    <3> QED BY <2>1, <3>1, <3>2, RequestEnds
  <2>4. ASSUME NEW t \in tenants, t.id = desk[r].tenant PROVE CapacityInv'
    <3> DEFINE new == [t EXCEPT !.size = desk[r].size]
    <3>1. t \in TenantRows BY <1>0 DEF NodesTyped
    <3>2. new \in TenantRows /\ new.id = t.id /\ new.deleted = t.deleted /\ new.size = desk[r].size
      BY <2>2, <3>1 DEF TenantRows, DeskRows
    <3>3. tenants' = (tenants \ {t}) \cup {new} BY <1>0, <2>1, <2>4 DEF RowsSound
    <3> HIDE DEF new
    <3>4. /\ tenants' \subseteq TenantRows /\ IsFiniteSet(tenants')
          /\ \A u \in tenants' : u.id <= Cardinality(tenants')
          /\ \A u, v \in tenants' : u.id = v.id => u = v
          /\ new \notin tenants \ {t}
      BY <3>2, <3>3, RowReplaced
    <3>5. NodesTyped' BY <1>0, <2>1, <2>2, <3>4 DEF NodesTyped
    <3>6. RowsSound'
      <4>1. nodeRow'.exists BY <1>0, <2>1, <2>4 DEF RowsSound
      <4>2. \A q \in Requests : desk'[q].node <= nodeRow'.id
        BY <1>0, <2>1, <2>2, FreeDesk DEF RowsSound, NodesTyped, NodeRows
      <4>3. \A q \in Requests : Stage(q, "patch")' => desk'[q].kind \in {"ONLINE", "MAINTENANCE"}
        BY <1>0, <2>2, FreeDesk DEF RowsSound, Stage
      <4> QED BY <3>4, <4>1, <4>2, <4>3 DEF RowsSound
    <3>7. FloorHeld => FloorHeld' BY <2>1, <2>2, FreeDesk DEF FloorHeld, Stage, Same
    <3>8. OneTakes => OneTakes' BY <2>2, FreeDesk DEF OneTakes, Taking, Stage
    <3>9. ASSUME OneTakes, RoomHeld PROVE RoomHeld'
      <4>1. \A q \in Requests : ~ Stage(q, "insert")' /\ ~ Stage(q, "resize")'
        BY <2>1, <2>2, <3>9, FreeDesk DEF OneTakes, Taking, Stage
      <4>2. Allocated(Living') <= nodeRow'.total
        <5>1. CASE t.deleted
          <6>1. Living' = Living BY <3>2, <3>3, <5>1 DEF Living
          <6> QED BY <2>1, <3>9, <6>1 DEF RoomHeld
        <5>2. CASE ~ t.deleted
          <6>1. t \in Living BY <5>2 DEF Living
          <6>2. desk[r].size + Allocated(Living \ {t}) <= nodeRow.total BY <2>1, <2>4, <3>9, <6>1 DEF RoomHeld
          <6>3. new \in Living' /\ Living' \ {new} = Living \ {t} BY <3>2, <3>3, <3>4, <5>2 DEF Living
          <6>4. Allocated(Living') = new.size + Allocated(Living' \ {new}) BY <3>5, <6>3, LivingSumsNext
          <6>5. Allocated(Living') = desk[r].size + Allocated(Living \ {t}) BY <3>2, <6>3, <6>4
          <6> QED BY <2>1, <6>2, <6>5
        <5>3. t.deleted \in BOOLEAN BY <3>1 DEF TenantRows
        <5> QED BY <5>1, <5>2, <5>3
      <4> QED BY <4>1, <4>2 DEF RoomHeld
    <3> QED BY <2>1, <3>5, <3>6, <3>7, <3>8, <3>9 DEF CapacityInv
  <2> QED BY <2>3, <2>4
<1>12. ASSUME DeleteNode PROVE CapacityInv'
  <2>1. /\ tenants = {} /\ UNCHANGED <<machine, hour, settings, tenants, desk, overlapped, shrunk>>
        /\ nodeRow' = [nodeRow EXCEPT !.exists = FALSE]
    BY <1>12 DEF DeleteNode
  <2>2. nodeRow' \in NodeRows /\ ~ nodeRow'.exists /\ nodeRow'.id = nodeRow.id
    BY <1>0, <2>1 DEF NodesTyped, NodeRows
  <2>3. NodesTyped' BY <1>0, <2>1, <2>2 DEF NodesTyped
  <2>4. RowsSound' BY <1>0, <2>1, <2>2 DEF RowsSound, Stage
  <2>5. FloorHeld' BY <2>2 DEF FloorHeld, Same
  <2>6. OneTakes => OneTakes' BY <2>1 DEF OneTakes, Taking, Stage
  <2> QED BY <2>1, <2>2, <2>3, <2>4, <2>5, <2>6 DEF CapacityInv
<1>13. ASSUME DeleteTenant PROVE CapacityInv'
  <2>1. UNCHANGED <<machine, hour, settings, nodeRow, desk, overlapped, shrunk>> BY <1>13 DEF DeleteTenant
  <2>2. PICK t \in Living : tenants' = (tenants \ {t}) \cup {[t EXCEPT !.deleted = TRUE]} BY <1>13 DEF DeleteTenant
  <2> DEFINE new == [t EXCEPT !.deleted = TRUE]
  <2>3. t \in tenants /\ t \in TenantRows BY <1>0 DEF NodesTyped, Living
  <2>4. new \in TenantRows /\ new.id = t.id /\ new.deleted BY <2>3 DEF TenantRows
  <2>5. tenants' = (tenants \ {t}) \cup {new} BY <2>2
  <2> HIDE DEF new
  <2>6. /\ tenants' \subseteq TenantRows /\ IsFiniteSet(tenants')
        /\ \A u \in tenants' : u.id <= Cardinality(tenants')
        /\ \A u, v \in tenants' : u.id = v.id => u = v
    BY <2>3, <2>4, <2>5, RowReplaced
  <2>7. NodesTyped' BY <1>0, <2>1, <2>6 DEF NodesTyped
  <2>8. RowsSound' BY <1>0, <2>1, <2>3, <2>6 DEF RowsSound, Stage
  <2>9. FloorHeld => FloorHeld' BY <2>1 DEF FloorHeld, Stage, Same
  <2>10. OneTakes => OneTakes' BY <2>1 DEF OneTakes, Taking, Stage
  <2>11. ASSUME RoomHeld PROVE RoomHeld'
    <3>1. Living' = Living \ {t} BY <2>4, <2>5 DEF Living
    <3>2. /\ Allocated(Living) \in Nat /\ t.size \in Nat /\ Allocated(Living \ {t}) \in Nat
          /\ Allocated(Living) = t.size + Allocated(Living \ {t})
          /\ \A u \in Living \ {t} : Allocated((Living \ {t}) \ {u}) <= Allocated(Living \ {u})
      BY <1>0, LivingSums
    <3>3. nodeRow.total \in Nat /\ \A q \in Requests : desk[q].size \in Nat
      BY <1>0 DEF NodesTyped, NodeRows, DeskRows
    <3>4. \A u \in Living \ {t} : /\ Allocated(Living \ {u}) \in Nat /\ Allocated((Living \ {t}) \ {u}) \in Nat
      <4>1. \A u \in Living : Allocated(Living \ {u}) \in Nat BY <1>0, LivingSums
      <4>2. \A u \in Living' : Allocated(Living' \ {u}) \in Nat BY <2>7, LivingSumsNext
      <4> QED BY <3>1, <4>1, <4>2
    <3> HIDE DEF Living
    <3>5. Allocated(Living') <= nodeRow'.total BY <2>1, <2>11, <3>1, <3>2, <3>3 DEF RoomHeld
    <3>6. ASSUME NEW q \in Requests, Stage(q, "insert")', Same(q)'
          PROVE  desk'[q].size + Allocated(Living') <= nodeRow'.total
      <4>1. desk[q].size + Allocated(Living) <= nodeRow.total BY <2>1, <2>11, <3>6 DEF RoomHeld, Stage, Same
      <4> QED BY <2>1, <3>1, <3>2, <3>3, <4>1
    <3>7. ASSUME NEW q \in Requests, Stage(q, "resize")', NEW u \in Living', u.id = desk'[q].tenant
          PROVE  desk'[q].size + Allocated(Living' \ {u}) <= nodeRow'.total
      <4>1. u \in Living \ {t} /\ u.id = desk[q].tenant BY <2>1, <3>1, <3>7
      <4>2. desk[q].size + Allocated(Living \ {u}) <= nodeRow.total BY <2>1, <2>11, <3>7, <4>1 DEF RoomHeld, Stage
      <4>3. Allocated((Living \ {t}) \ {u}) <= Allocated(Living \ {u}) BY <3>2, <4>1
      <4>4. desk[q].size + Allocated((Living \ {t}) \ {u}) <= nodeRow.total BY <3>3, <3>4, <4>1, <4>2, <4>3
      <4> QED BY <2>1, <3>1, <4>4
    <3> QED BY <3>5, <3>6, <3>7 DEF RoomHeld
  <2> QED BY <2>1, <2>7, <2>8, <2>9, <2>10, <2>11 DEF CapacityInv
<1>14. ASSUME HoursPass PROVE CapacityInv'
  <2>1. UNCHANGED <<settings, nodeRow, tenants, desk, overlapped, shrunk>> /\ hour' = hour + 1 /\ machine' \in Machines
    BY <1>14 DEF HoursPass
  <2>2. NodesTyped' BY <1>0, <2>1 DEF NodesTyped
  <2> QED BY <2>1, <2>2 DEF CapacityInv, RowsSound, FloorHeld, OneTakes, RoomHeld, Stage, Same, Taking, Living
<1>15. ASSUME UNCHANGED nodesVars PROVE CapacityInv'
  BY <1>15 DEF nodesVars, CapacityInv, NodesTyped, RowsSound, FloorHeld, OneTakes, RoomHeld, Stage, Same, Taking, Living
<1> QED BY <1>1, <1>2, <1>3, <1>4, <1>5, <1>6, <1>7, <1>8, <1>9, <1>10, <1>11, <1>12, <1>13, <1>14, <1>15 DEF NodesNext

\* A panel with no node is sound.
LEMMA NodesInitially == NodesInit => CapacityInv
<1> SUFFICES ASSUME NodesInit PROVE CapacityInv OBVIOUS
<1>1. tenants = {} /\ IsFiniteSet(tenants) BY FS_EmptySet DEF NodesInit
<1>2. \A r \in Requests : desk[r] = NoRequest BY DEF NodesInit
<1>3. settings = [pass |-> FALSE, checked |-> Never, tested |-> Never, fast |-> "unknown"] /\ Never \in Int
  BY DEF NodesInit, Never
<1>4. NodesTyped BY <1>1, <1>3, FreeDesk DEF NodesInit, NodesTyped, NodeRows, Throughputs
<1>5. RowsSound BY <1>1, <1>2, FreeDesk DEF RowsSound, NodesInit, Stage
<1>6. FloorHeld /\ OneTakes BY <1>2, FreeDesk DEF FloorHeld, OneTakes, Taking, Stage, NodesInit
<1>7. ~ nodeRow.exists BY DEF NodesInit
<1> QED BY <1>4, <1>5, <1>6, <1>7 DEF CapacityInv

\* NodesSound, for every set of machines and sizes and every number of requests.
THEOREM NodesAlwaysSound == NodesSpec => []NodesSound
<1>1. CapacityInv => NodesSound BY DEF CapacityInv, FloorHeld, RoomHeld, NodesSound
<1> QED BY <1>1, NodesInitially, NodesStep, PTL DEF NodesSpec
=============================================================================
