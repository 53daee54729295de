-------------------------- MODULE Scheduler_proofs --------------------------
(***************************************************************************)
(* Theorems about Delivery and Scheduler, for any sets of notifications,   *)
(* asks, broadcasts, schedules and sockets, any limits of the queue and    *)
(* any number of crashes: the durable queue implements the mailbox, no     *)
(* operation of an ACP ask is closed behind its asker's back, a one-shot   *)
(* fires once but for crashes and deletions of its row that failed.        *)
(***************************************************************************)
EXTENDS Scheduler, FiniteSetTheorems, WellFoundedInduction, TLAPS

USE AcpAssumption, DeliveryAssumption, SchedulerAssumption

-----------------------------------------------------------------------------
(* Sets of rows. *)

\* A set of numbers has a least one, and Min returns it.
LEMMA MinOf ==
  ASSUME NEW S \in SUBSET Nat, S # {}
  PROVE  Min(S) \in S /\ \A y \in S : Min(S) <= y
<1>1. IsWellFoundedOn(OpToRel(<, Nat), Nat)
  BY NatLessThanWellFounded
<1>2. PICK x \in S : \A y \in S : ~(<<y, x>> \in OpToRel(<, Nat))
  BY <1>1, WFMin, ZenonT(60)
<1>3. \A y \in S : ~(y < x)
  BY <1>2 DEF OpToRel
<1>4. \E z \in S : \A y \in S : z <= y
  BY <1>3
<1> QED BY <1>4 DEF Min

\* Rows are numbered in the order of their stamps, so an older one expires first.
Ordered(R) ==
  /\ IsFiniteSet(R)
  /\ \A r \in R : r.id \in Nat /\ r.at \in Nat
  /\ \A q, r \in R : q.id = r.id => q = r
  /\ \A q, r \in R : q.id < r.id => q.at <= r.at

\* K keeps the newer rows of R.
Keeps(K, R) == K \subseteq R /\ \A k \in K, q \in R : k.id < q.id => q \in K

\* What a queue of the rows R owes.
OwedOf(R) == {[id |-> r.id, end |-> r.end] : r \in R}

\* Taking rows away keeps the order of the others.
LEMMA OrderedSubset == ASSUME NEW R, Ordered(R), NEW S \in SUBSET R PROVE Ordered(S)
BY FS_Subset DEF Ordered

\* What is kept twice is kept.
LEMMA KeepsTwice ==
  ASSUME NEW R, NEW S, NEW T, Keeps(S, R), Keeps(T, S)
  PROVE  Keeps(T, R)
BY DEF Keeps

\* The mailbox of a queue is what its rows say, and one more row is one more delivery.
LEMMA OwedRows ==
  /\ Owed = OwedOf(rows)
  /\ \A R, r : OwedOf(R \cup {r}) = OwedOf(R) \cup {[id |-> r.id, end |-> r.end]}
BY DEF Owed, OwedOf

\* A delivery that is owed has a row.
LEMMA OwedHas ==
  ASSUME NEW R, NEW p \in OwedOf(R)
  PROVE  \E r \in R : p.id = r.id /\ p.end = r.end /\ p = [id |-> r.id, end |-> r.end]
BY DEF OwedOf

\* There are no more deliveries than rows.
LEMMA OwedCount ==
  ASSUME NEW R, IsFiniteSet(R)
  PROVE  IsFiniteSet(OwedOf(R)) /\ Cardinality(OwedOf(R)) <= Cardinality(R)
<1> DEFINE f == [r \in R |-> [id |-> r.id, end |-> r.end]]
<1>1. f \in Surjection(R, OwedOf(R))
  BY DEF Surjection, OwedOf
<1> HIDE DEF f
<1> QED BY <1>1, FS_Surjection

\* Rows have different ids, so taking rows away takes exactly their deliveries.
LEMMA OwedMinus ==
  ASSUME NEW R, Ordered(R), NEW S \in SUBSET R
  PROVE  OwedOf(R \ S) = OwedOf(R) \ OwedOf(S)
<1>1. \A r \in R, s \in S : [id |-> r.id, end |-> r.end] = [id |-> s.id, end |-> s.end] => r = s
  <2> TAKE r \in R, s \in S
  <2> HAVE [id |-> r.id, end |-> r.end] = [id |-> s.id, end |-> s.end]
  <2>1. r.id = s.id
    OBVIOUS
  <2> QED BY <2>1 DEF Ordered
<1> QED BY <1>1 DEF OwedOf

\* What keeps the newer rows drops the oldest of the mailbox.
LEMMA KeepsOldest ==
  ASSUME NEW R, Ordered(R), NEW K, Keeps(K, R)
  PROVE  /\ Box!Oldest(OwedOf(R) \ OwedOf(K), OwedOf(R))
         /\ OwedOf(K) = OwedOf(R) \ (OwedOf(R) \ OwedOf(K))
<1>1. OwedOf(K) \subseteq OwedOf(R)
  BY DEF Keeps, OwedOf
<1>2. ASSUME NEW p \in OwedOf(R) \ OwedOf(K), NEW o \in OwedOf(K) PROVE p.id < o.id
  <2>1. PICK q \in R : p.id = q.id /\ p = [id |-> q.id, end |-> q.end]
    BY OwedHas
  <2>2. PICK k \in K : o.id = k.id /\ o = [id |-> k.id, end |-> k.end]
    BY OwedHas
  <2>3. q \notin K
    BY <1>2, <2>1 DEF OwedOf
  <2>4. q.id # k.id
    BY <2>3 DEF Keeps, Ordered
  <2> QED BY <2>1, <2>2, <2>3, <2>4 DEF Keeps, Ordered
<1> QED BY <1>1, <1>2 DEF Box!Oldest

\* deleteExpiredTx evicts the oldest, whatever its cutoff.
LEMMA UnexpiredKeeps ==
  ASSUME NEW R, Ordered(R), NEW c \in Nat
  PROVE  Keeps(Unexpired(R, c), R)
BY DEF Keeps, Unexpired, Expired, Ordered

\* enforceCapTx keeps the newest, at most as many as it is asked to.
LEMMA NewestKeeps ==
  ASSUME NEW R, Ordered(R), NEW n \in Nat
  PROVE  Keeps(Newest(R, n), R) /\ Cardinality(Newest(R, n)) <= n
<1> DEFINE newer(r) == {q \in R : q.id > r.id}
           K == Newest(R, n)
<1>1. \A r \in R : IsFiniteSet(newer(r)) /\ Cardinality(newer(r)) \in Nat
  BY FS_Subset, FS_CardinalityType DEF Ordered
<1>2. ASSUME NEW k \in K, NEW q \in R, k.id < q.id PROVE q \in K
  <2>1. newer(q) \subseteq newer(k)
    BY <1>2 DEF Ordered, Newest
  <2>2. Cardinality(newer(q)) <= Cardinality(newer(k))
    BY <1>1, <2>1, FS_Subset DEF Newest
  <2>3. \A r \in R : r \in K <=> Cardinality(newer(r)) < n
    BY DEF Newest
  <2>4. k \in R
    BY DEF Newest
  <2> HIDE DEF K, newer
  <2> QED BY <1>1, <1>2, <2>2, <2>3, <2>4
<1>3. K \subseteq R /\ IsFiniteSet(K)
  BY FS_Subset DEF Newest, Ordered
<1>4. Cardinality(K) <= n
  <2>1. CASE K = {}
    BY <2>1, FS_EmptySet
  <2>2. CASE K # {}
    <3>1. Ids(K) \in SUBSET Nat /\ Ids(K) # {}
      BY <1>3, <2>2 DEF Ids, Ordered
    <3>0. Min(Ids(K)) \in Ids(K) /\ \A i \in Ids(K) : Min(Ids(K)) <= i
      BY <3>1, MinOf
    <3>l. PICK m \in K : m.id = Min(Ids(K))
      BY <3>0 DEF Ids
    <3>2. \A k \in K : m.id <= k.id
      <4> HIDE DEF K
      <4>1. \A k \in K : k.id \in Ids(K)
        BY DEF Ids
      <4> QED BY <3>0, <3>l, <4>1
    <3>3. K \ {m} \subseteq newer(m)
      BY <1>3, <3>2 DEF Ordered
    <3>4. Cardinality(K \ {m}) <= Cardinality(newer(m))
      BY <1>1, <1>3, <3>2, <3>3, FS_Subset
    <3>5. Cardinality(K \ {m}) = Cardinality(K) - 1 /\ Cardinality(K) \in Nat
      BY <1>3, <3>2, FS_RemoveElement, FS_CardinalityType
    <3>6. Cardinality(newer(m)) < n
      BY <3>2 DEF Newest
    <3> QED BY <1>1, <1>3, <3>2, <3>4, <3>5, <3>6
  <2> QED BY <2>1, <2>2
<1> QED BY <1>2, <1>3, <1>4 DEF Keeps

\* selectForPeerTx takes the oldest: the rest keeps the newer.
LEMMA OldestLeaves ==
  ASSUME NEW R, Ordered(R), NEW n \in Nat
  PROVE  Keeps(R \ OldestOf(R, n), R)
<1> DEFINE older(r) == {q \in R : q.id < r.id}
<1>1. \A r \in R : IsFiniteSet(older(r)) /\ Cardinality(older(r)) \in Nat
  BY FS_Subset, FS_CardinalityType DEF Ordered
<1>2. ASSUME NEW k \in R \ OldestOf(R, n), NEW q \in R, k.id < q.id
      PROVE  q \in R \ OldestOf(R, n)
  <2>1. older(k) \subseteq older(q)
    BY <1>2 DEF Ordered
  <2>2. Cardinality(older(k)) <= Cardinality(older(q))
    BY <1>1, <2>1, FS_Subset
  <2>3. \A r \in R : r \in OldestOf(R, n) <=> Cardinality(older(r)) < n
    BY DEF OldestOf
  <2> HIDE DEF older
  <2> QED BY <1>1, <1>2, <2>2, <2>3
<1> QED BY <1>2 DEF Keeps

-----------------------------------------------------------------------------
(* The queue implements the mailbox. *)

WorldInv == load \in Loads /\ now \in 0..MaxTime /\ crashes \in 0..MaxCrash

SockInv ==
  /\ conn \in Sockets \cup {NoSock}
  /\ sock \in [Sockets -> {"new", "open", "closed"}]
  /\ flush \in [Sockets -> {"no", "list", "write", "delete", "over", "skipped", "gone"}]

\* Of the rows that were committed before a row a replay still has to write was stamped,
\* the ones still queued were handed over, or are still to be written; the row a replay
\* is about to delete was handed over.
Replay ==
  \A s \in Sockets :
    /\ \A i \in todo[s], q \in rows : q.end < i /\ q.id \notin todo[s] => q.id \in handed
    /\ flush[s] = "delete" => todo[s] # {} /\ Min(todo[s]) \in handed

\* The stamps under way are different, not used yet, and in the order of their time.
Slips ==
  \A m \in Msgs : slip[m] # NoSlip =>
    /\ TTL # 0 /\ slip[m].id \in (1..last) \ posted
    /\ \A n \in Msgs : slip[n].id = slip[m].id => n = m
    /\ \A n \in Msgs : slip[m].id < slip[n].id => slip[m].at <= slip[n].at
    /\ \A q \in rows : /\ q.id < slip[m].id => q.at <= slip[m].at
                       /\ slip[m].id < q.id => slip[m].at <= q.at

QueueTyped ==
  /\ last \in Nat
  /\ posted \subseteq 1..last /\ handed \subseteq posted
  /\ rows \subseteq [id : posted, at : 0..now, end : 1..last]
  /\ \A q \in rows : q.id <= q.end
  /\ todo \in [Sockets -> SUBSET posted]
  /\ slip \in [Msgs -> [id : 0..last, at : 0..now]]

QueueInv == QueueTyped /\ Ordered(rows) /\ Replay /\ Slips

BoxStep == [Box!Next]_<<last, posted, Owed, handed>>

\* A row is in the queue with a number that was handed out.
LEMMA RowNumbers ==
  ASSUME QueueTyped, WorldInv
  PROVE  /\ \A q \in rows : /\ q.id \in posted /\ q.id \in Nat /\ q.end \in 1..last
                            /\ q.at \in Nat /\ q.id <= q.end
         /\ \A m \in Msgs : slip[m].id \in Nat /\ slip[m].at \in 0..now
         /\ posted \in SUBSET Nat /\ now \in Nat
<1>1. last \in Nat /\ now \in Nat /\ posted \subseteq 1..last
  BY DEF QueueTyped, WorldInv
<1>2. \A q \in rows : q.id \in posted /\ q.at \in 0..now /\ q.end \in 1..last /\ q.id <= q.end
  BY DEF QueueTyped
<1>3. \A m \in Msgs : slip[m].id \in 0..last /\ slip[m].at \in 0..now
  BY DEF QueueTyped
<1>4. \A q \in rows : q.id \in Nat /\ q.at \in Nat
  <2> TAKE q \in rows
  <2>1. q.id \in 1..last /\ q.at \in 0..now
    BY <1>1, <1>2
  <2> QED BY <1>1, <2>1
<1>5. \A m \in Msgs : slip[m].id \in Nat
  <2> TAKE m \in Msgs
  <2>1. slip[m].id \in 0..last
    BY <1>3
  <2> QED BY <1>1, <2>1
<1>6. posted \in SUBSET Nat
  BY <1>1
<1> QED BY <1>1, <1>2, <1>3, <1>4, <1>5, <1>6

\* A step that leaves the queue alone: time passes, a replay or an enqueue is given up,
\* or none is put before a deletion.
LEMMA QueueStays ==
  ASSUME WorldInv, QueueInv, UNCHANGED <<rows, last, posted, handed>>, now' \in {now, now + 1},
         slip' \in [Msgs -> [id : 0..last, at : 0..now]],
         \A m \in Msgs : slip'[m] \in {slip[m], NoSlip},
         todo' \in [Sockets -> SUBSET posted],
         \A s \in Sockets :
           /\ todo'[s] \in {todo[s], {}}
           /\ flush'[s] = "delete" => flush[s] = "delete" /\ todo'[s] = todo[s]
  PROVE  QueueInv' /\ BoxStep
<1>2. now \in Nat /\ 0..now \subseteq 0..now'
  BY DEF WorldInv
<1>3. QueueTyped'
  BY <1>2 DEF QueueInv, QueueTyped
<1>4. Replay'
  BY DEF QueueInv, Replay
<1>5. Slips'
  <2>1. NoSlip' = NoSlip /\ NoSlip.id = 0
    BY DEF NoSlip
  <2> SUFFICES ASSUME NEW m \in Msgs, slip'[m] # NoSlip
               PROVE  /\ TTL # 0 /\ slip'[m].id \in (1..last) \ posted
                      /\ \A n \in Msgs : slip'[n].id = slip'[m].id => n = m
                      /\ \A n \in Msgs : slip'[m].id < slip'[n].id => slip'[m].at <= slip'[n].at
                      /\ \A q \in rows : /\ q.id < slip'[m].id => q.at <= slip'[m].at
                                         /\ slip'[m].id < q.id => slip'[m].at <= q.at
    BY <2>1 DEF Slips
  <2>2. slip'[m] = slip[m]
    OBVIOUS
  <2>3. slip[m].id \in (1..last) \ posted /\ last \in Nat
    BY <2>2 DEF QueueInv, QueueTyped, Slips
  <2>4. slip[m].id > 0 /\ slip[m].id \in Nat
    BY <2>3
  <2>5. \A n \in Msgs : slip'[n] = slip[n] \/ slip'[n].id = 0
    BY <2>1
  <2> QED BY <2>2, <2>4, <2>5 DEF QueueInv, Slips
<1>6. Owed' = Owed
  BY DEF Owed
<1> QED BY <1>3, <1>4, <1>5, <1>6 DEF QueueInv, BoxStep

\* An enqueue is stamped: a delivery is begun, later than all the others.
LEMMA StampBegins ==
  ASSUME WorldInv, QueueInv, NEW m \in Msgs, Stamp(m), UNCHANGED <<todo, flush, now>>
  PROVE  QueueInv' /\ BoxStep
<1>1. /\ last' = last + 1 /\ slip' = [slip EXCEPT ![m] = [id |-> last + 1, at |-> now]]
      /\ UNCHANGED <<rows, posted, handed>> /\ slip[m] = NoSlip
  BY DEF Stamp
<1>2. TTL # 0
  BY DEF Stamp, Disabled
<1>3. last \in Nat /\ now \in Nat /\ slip \in [Msgs -> [id : 0..last, at : 0..now]]
  BY DEF WorldInv, QueueInv, QueueTyped
<1>4. QueueTyped'
  <2>1. 1..last \subseteq 1..last' /\ 0..last \subseteq 0..last' /\ last + 1 \in 0..last' /\ now \in 0..now
    BY <1>1, <1>3
  <2>2. slip' \in [Msgs -> [id : 0..last', at : 0..now]]
    BY <1>1, <1>3, <2>1
  <2> QED BY <1>1, <1>3, <2>1, <2>2 DEF QueueInv, QueueTyped
<1>5. Replay'
  BY <1>1 DEF QueueInv, Replay
<1>6. Slips'
  <2>1. /\ \A n \in Msgs \ {m} : slip'[n] = slip[n]
        /\ slip'[m].id = last + 1 /\ slip'[m].at = now
    BY <1>1, <1>3
  <2>2. \A n \in Msgs : slip[n].id \in 0..last /\ slip[n].at \in 0..now
    BY <1>3
  <2>3. \A q \in rows : q.id \in 1..last /\ q.at \in 0..now
    BY DEF QueueInv, QueueTyped
  <2>4. posted \subseteq 1..last
    BY DEF QueueInv, QueueTyped
  <2>5. ASSUME NEW n \in Msgs, slip'[n] # NoSlip
        PROVE  /\ TTL # 0 /\ slip'[n].id \in (1..last') \ posted
               /\ \A k \in Msgs : slip'[k].id = slip'[n].id => k = n
               /\ \A k \in Msgs : slip'[n].id < slip'[k].id => slip'[n].at <= slip'[k].at
               /\ \A q \in rows : /\ q.id < slip'[n].id => q.at <= slip'[n].at
                                  /\ slip'[n].id < q.id => slip'[n].at <= q.at
    <3>1. CASE n = m
      BY <1>1, <1>2, <1>3, <2>1, <2>2, <2>3, <2>4, <3>1
    <3>2. CASE n # m
      <4>1. slip'[n] = slip[n] /\ slip[n] # NoSlip
        BY <2>1, <2>5, <3>2
      <4>2. /\ slip[n].id \in (1..last) \ posted
            /\ \A k \in Msgs : slip[k].id = slip[n].id => k = n
            /\ \A k \in Msgs : slip[n].id < slip[k].id => slip[n].at <= slip[k].at
            /\ \A q \in rows : /\ q.id < slip[n].id => q.at <= slip[n].at
                               /\ slip[n].id < q.id => slip[n].at <= q.at
        BY <4>1 DEF QueueInv, Slips
      <4>3. slip[n].id \in 1..last' /\ slip[n].id # last + 1
        BY <1>1, <1>3, <4>2
      <4>4. \A k \in Msgs : slip'[k].id = slip'[n].id => k = n
        BY <2>1, <4>1, <4>2, <4>3
      <4>5. \A k \in Msgs : slip'[n].id < slip'[k].id => slip'[n].at <= slip'[k].at
        BY <1>3, <2>1, <2>2, <4>1, <4>2
      <4> QED BY <1>2, <4>1, <4>2, <4>3, <4>4, <4>5
    <3> QED BY <3>1, <3>2
  <2>6. NoSlip' = NoSlip /\ rows' = rows /\ posted' = posted
    BY <1>1 DEF NoSlip
  <2> QED BY <2>5, <2>6 DEF Slips
<1>7. Box!Begin
  BY <1>1 DEF Box!Begin, Owed
<1> QED BY <1>1, <1>4, <1>5, <1>6, <1>7 DEF QueueInv, BoxStep, Box!Next

\* EnqueueDelivery accepts the delivery it was stamped for and makes room for it at the
\* old end, itself included.
LEMMA EnqueueAccepts ==
  ASSUME WorldInv, QueueInv, NEW m \in Msgs, EnqueueDelivery(m), UNCHANGED <<todo, flush, now>>
  PROVE  QueueInv' /\ BoxStep
<1> DEFINE i == slip[m].id
           c == slip[m].at
           new == [id |-> i, at |-> c, end |-> last]
           R == rows \cup {new}
           U == Unexpired(rows, c) \cup {new}
           K == Newest(U, Cap)
<1>1. /\ last \in Nat /\ now \in Nat /\ posted \subseteq 1..last /\ handed \subseteq posted
      /\ rows \subseteq [id : posted, at : 0..now, end : 1..last]
      /\ slip \in [Msgs -> [id : 0..last, at : 0..now]]
  BY DEF WorldInv, QueueInv, QueueTyped
<1>0. slip[m] # NoSlip
  BY DEF EnqueueDelivery
<1>s. /\ TTL # 0 /\ i \in 1..last /\ i \notin posted /\ c \in 0..now
      /\ \A q \in rows : (q.id < i => q.at <= c) /\ (i < q.id => c <= q.at)
  BY <1>0, <1>1 DEF QueueInv, Slips
<1>e. /\ rows' = K /\ posted' = posted \cup {i} /\ UNCHANGED <<last, handed>>
      /\ slip' = [slip EXCEPT ![m] = NoSlip]
  BY DEF EnqueueDelivery
<1>n. new.id = i /\ new.at = c /\ new.end = last
  OBVIOUS
<1>r. /\ \A r \in rows : r.id \in posted /\ r.id \in 1..last /\ r.at \in 0..now /\ r.end \in 1..last
      /\ \A r \in rows : r.id # i
  BY <1>1, <1>s
<1>d. new \in [id : {i}, at : 0..now, end : 1..last]
  BY <1>1, <1>s
<1> HIDE DEF new, i, c
<1>2. Ordered(R)
  <2>1. IsFiniteSet(R)
    BY FS_AddElement DEF Ordered, QueueInv
  <2>2. \A r \in R : r.id \in Nat /\ r.at \in Nat
    BY <1>n, <1>r, <1>s, <1>1
  <2>3. \A q, r \in R : q.id = r.id => q = r
    BY <1>n, <1>r DEF Ordered, QueueInv
  <2>4. \A q, r \in R : q.id < r.id => q.at <= r.at
    BY <1>1, <1>n, <1>r, <1>s DEF Ordered, QueueInv
  <2> QED BY <2>1, <2>2, <2>3, <2>4 DEF Ordered
<1>3. Keeps(U, R)
  <2>1. Keeps(Unexpired(rows, c), rows)
    BY <1>1, <1>s, UnexpiredKeeps DEF QueueInv
  <2>2. \A q \in rows : i < q.id => q \in Unexpired(rows, c)
    BY <1>1, <1>r, <1>s DEF Unexpired, Expired
  <2> QED BY <1>n, <2>1, <2>2 DEF Keeps
<1>4. Ordered(U)
  BY <1>2, <1>3, OrderedSubset DEF Keeps
<1>5. Keeps(K, U) /\ Cardinality(K) <= Cap
  BY <1>4, NewestKeeps
<1>6. Keeps(K, R)
  BY <1>3, <1>5, KeepsTwice
<1>8. K \subseteq R /\ Ordered(K)
  BY <1>2, <1>6, OrderedSubset DEF Keeps
<1>9. /\ OwedOf(R) = Owed \cup {[id |-> i, end |-> last]}
      /\ Box!Oldest(OwedOf(R) \ OwedOf(K), OwedOf(R))
      /\ OwedOf(K) = OwedOf(R) \ (OwedOf(R) \ OwedOf(K))
  <2>1. OwedOf(R) = Owed \cup {[id |-> i, end |-> last]}
    BY <1>n, OwedRows
  <2> HIDE DEF R, K
  <2> QED BY <1>2, <1>6, <2>1, KeepsOldest
<1>10. Cardinality(OwedOf(K)) <= Cap
  <2>1. IsFiniteSet(K) /\ Cardinality(K) \in Nat
    BY <1>8, FS_CardinalityType DEF Ordered
  <2> HIDE DEF K
  <2>2. IsFiniteSet(OwedOf(K)) /\ Cardinality(OwedOf(K)) <= Cardinality(K)
    BY <2>1, OwedCount
  <2> QED BY <1>5, <2>1, <2>2, FS_CardinalityType
<1> HIDE DEF U
<1>11. QueueTyped'
  <2>1. posted' \subseteq 1..last' /\ handed' \subseteq posted' /\ posted \subseteq posted' /\ last' = last
    BY <1>1, <1>e, <1>s
  <2>2. rows' \subseteq [id : posted', at : 0..now', end : 1..last']
    <3>1. rows \subseteq [id : posted', at : 0..now, end : 1..last]
      BY <1>1, <2>1
    <3>2. new \in [id : posted', at : 0..now, end : 1..last]
      BY <1>d, <1>e
    <3> HIDE DEF K
    <3> QED BY <1>e, <1>8, <2>1, <3>1, <3>2
  <2>3. \A q \in rows' : q.id <= q.end
    <3>1. \A q \in rows : q.id <= q.end
      BY DEF QueueInv, QueueTyped
    <3> HIDE DEF K
    <3> QED BY <1>1, <1>8, <1>e, <1>n, <1>s, <3>1
  <2>4. slip' \in [Msgs -> [id : 0..last', at : 0..now']]
    <3>1. NoSlip \in [id : 0..last, at : 0..now]
      BY <1>1 DEF NoSlip
    <3> QED BY <1>1, <1>e, <2>1, <3>1
  <2>5. todo' \in [Sockets -> SUBSET posted']
    BY <2>1 DEF QueueInv, QueueTyped
  <2> QED BY <1>1, <2>1, <2>2, <2>3, <2>4, <2>5 DEF QueueTyped
<1>12. Replay'
  <2>1. \A q \in K : q \in rows \/ q.end = last
    BY <1>8, <1>n
  <2>2. \A s \in Sockets : todo[s] \subseteq 1..last
    BY <1>1 DEF QueueInv, QueueTyped
  <2> HIDE DEF K
  <2> QED BY <1>1, <1>e, <2>1, <2>2 DEF QueueInv, Replay
<1>13. Slips'
  <2>1. NoSlip' = NoSlip /\ NoSlip.id = 0
    BY DEF NoSlip
  <2>2. slip'[m] = NoSlip /\ \A n \in Msgs \ {m} : slip'[n] = slip[n]
    BY <1>1, <1>e
  <2>3. ASSUME NEW n \in Msgs, slip'[n] # NoSlip
        PROVE  /\ TTL # 0 /\ slip'[n].id \in (1..last') \ posted'
               /\ \A k \in Msgs : slip'[k].id = slip'[n].id => k = n
               /\ \A k \in Msgs : slip'[n].id < slip'[k].id => slip'[n].at <= slip'[k].at
               /\ \A q \in rows' : /\ q.id < slip'[n].id => q.at <= slip'[n].at
                                   /\ slip'[n].id < q.id => slip'[n].at <= q.at
    <3>1. n # m /\ slip'[n] = slip[n] /\ slip[n] # NoSlip
      BY <2>2, <2>3
    <3>2. /\ slip[n].id \in (1..last) \ posted
          /\ \A k \in Msgs : slip[k].id = slip[n].id => k = n
          /\ \A k \in Msgs : slip[n].id < slip[k].id => slip[n].at <= slip[k].at
          /\ \A q \in rows : /\ q.id < slip[n].id => q.at <= slip[n].at
                             /\ slip[n].id < q.id => slip[n].at <= q.at
      BY <3>1 DEF QueueInv, Slips
    <3>3. slip[n].id # i /\ slip[n].id > 0 /\ slip[n].id \in Nat
      BY <1>1, <3>1, <3>2 DEF i
    <3>4. \A k \in Msgs : slip'[k] = slip[k] \/ slip'[k].id = 0
      BY <2>1, <2>2
    <3>5. (slip[n].id < i => slip[n].at <= c) /\ (i < slip[n].id => c <= slip[n].at)
      BY <1>0, <3>1, <3>2 DEF QueueInv, Slips, i, c
    <3>6. \A q \in rows' : /\ q.id < slip[n].id => q.at <= slip[n].at
                           /\ slip[n].id < q.id => slip[n].at <= q.at
      <4> HIDE DEF K
      <4> QED BY <1>8, <1>e, <1>n, <3>2, <3>5
    <3> QED BY <1>e, <1>s, <3>1, <3>2, <3>3, <3>4, <3>6
  <2> QED BY <2>1, <2>3 DEF Slips
<1> HIDE DEF R, K
<1>14. Box!Accept
  <2> DEFINE S == OwedOf(R) \ OwedOf(K)
             owes == Owed \cup {[id |-> i, end |-> last]}
  <2>1. S \in SUBSET owes /\ Owed' = OwedOf(K)
    <3>1. Owed' = OwedOf(rows')
      BY DEF Owed, OwedOf
    <3> QED BY <1>9, <1>e, <3>1
  <2>2. Box!Oldest(S, owes) /\ Owed' = owes \ S
    BY <1>9, <2>1
  <2>3. Box!Cardinality(Owed') <= Cap
    BY <1>10, <2>1 DEF Box!Cardinality, Cardinality
  <2>4. i \in (1..last) \ posted
    BY <1>s
  <2> HIDE DEF S
  <2> QED BY <1>e, <2>1, <2>2, <2>3, <2>4 DEF Box!Accept
<1> QED BY <1>8, <1>e, <1>11, <1>12, <1>13, <1>14 DEF QueueInv, BoxStep, Box!Next

\* A step that only removes rows from the queue keeps the replays and the stamps sound.
LEMMA QueueShrinks ==
  ASSUME QueueTyped, Replay, Slips, NEW R \in SUBSET rows, rows' = R, handed \subseteq handed',
         handed' \subseteq posted, UNCHANGED <<last, posted, slip, now>>,
         todo' \in [Sockets -> SUBSET posted]
  PROVE  /\ QueueTyped' /\ Slips'
         /\ UNCHANGED <<todo, flush>> => Replay'
<1>1. NoSlip' = NoSlip
  BY DEF NoSlip
<1>2. Slips'
  BY <1>1 DEF Slips
<1>3. QueueTyped'
  BY DEF QueueTyped
<1>4. UNCHANGED <<todo, flush>> => Replay'
  BY DEF Replay
<1> QED BY <1>2, <1>3, <1>4

\* DrainDeliveries drops what has expired, hands the oldest over and settles it.
LEMMA DrainTakes ==
  ASSUME WorldInv, QueueInv, DrainDeliveries, UNCHANGED <<todo, flush, now>>
  PROVE  QueueInv' /\ BoxStep
<1>1. now \in Nat /\ Ordered(rows)
  BY DEF WorldInv, QueueInv
<1>c. PICK cut \in 0..now :
        /\ rows' = Unexpired(rows, cut) \ OldestOf(Unexpired(rows, cut), DrainMax)
        /\ handed' = handed \cup Ids(OldestOf(Unexpired(rows, cut), DrainMax))
        /\ UNCHANGED <<last, slip, posted>>
  BY DEF DrainDeliveries
<1> DEFINE U == Unexpired(rows, cut)
           out == OldestOf(U, DrainMax)
<1>2. Keeps(U, rows) /\ Ordered(U)
  BY <1>1, UnexpiredKeeps, OrderedSubset DEF Keeps
<1>3. rows' = U \ out /\ handed' = handed \cup Ids(out) /\ UNCHANGED <<last, slip, posted>>
  BY <1>c
<1> HIDE DEF U
<1>4. out \subseteq U /\ Keeps(U \ out, U)
  BY <1>2, OldestLeaves DEF OldestOf
<1> HIDE DEF out
<1>5. U \ out \subseteq rows /\ out \subseteq rows /\ Ordered(U \ out)
  BY <1>2, <1>4, OrderedSubset DEF Keeps
<1>6. Ids(out) \subseteq posted /\ handed' \subseteq posted
  <2>1. \A q \in out : q.id \in posted
    BY <1>5, RowNumbers DEF QueueInv
  <2> QED BY <1>3, <2>1 DEF QueueInv, QueueTyped, Ids
<1>7. QueueInv'
  BY <1>3, <1>5, <1>6, QueueShrinks DEF QueueInv, QueueTyped
<1>8. Box!Take
  <2> DEFINE S == OwedOf(rows) \ OwedOf(U)
             T == OwedOf(out)
  <2>1. Box!Oldest(S, OwedOf(rows)) /\ OwedOf(U) = OwedOf(rows) \ S
    BY <1>1, <1>2, KeepsOldest
  <2>2. /\ Box!Oldest(OwedOf(U) \ OwedOf(U \ out), OwedOf(U))
        /\ OwedOf(U \ out) = OwedOf(U) \ T
    BY <1>2, <1>4, KeepsOldest, OwedMinus
  <2>3. T \subseteq OwedOf(U)
    BY <1>4 DEF OwedOf
  <2>4. OwedOf(U) \ OwedOf(U \ out) = T
    BY <2>2, <2>3
  <2>5. Owed' = OwedOf(U \ out) /\ Owed = OwedOf(rows)
    BY <1>3 DEF Owed, OwedOf
  <2>6. Owed' = Owed \ (S \cup T)
    BY <2>1, <2>2, <2>5
  <2>7. S \in SUBSET Owed /\ T \in SUBSET Owed
    BY <2>1, <2>3, <2>5
  <2>8. Box!Oldest(S, Owed) /\ Box!Oldest(T, Owed \ S)
    BY <2>1, <2>2, <2>4, <2>5
  <2>9. handed' = handed \cup {q.id : q \in T}
    <3>1. \A q \in T : \E o \in out : q.id = o.id
      BY OwedHas
    <3>2. \A o \in out : [id |-> o.id, end |-> o.end] \in T
      BY DEF OwedOf
    <3>3. \A o \in out : \E q \in T : q.id = o.id
      BY <3>2
    <3> HIDE DEF T
    <3>4. {q.id : q \in T} = Ids(out)
      BY <3>1, <3>3 DEF Ids
    <3> QED BY <1>3, <3>4
  <2> HIDE DEF S, T
  <2> QED BY <1>3, <2>6, <2>7, <2>8, <2>9 DEF Box!Take
<1> QED BY <1>7, <1>8 DEF BoxStep, Box!Next

\* A replay lists the oldest rows that have not expired; the expired ones are dropped.
LEMMA ListDrops ==
  ASSUME WorldInv, SockInv, QueueInv, NEW s \in Sockets, FlushList(s)
  PROVE  QueueInv' /\ BoxStep
<1>0. /\ UNCHANGED <<last, slip, posted, handed, now>> /\ now \in Nat /\ Ordered(rows)
      /\ flush \in [Sockets -> {"no", "list", "write", "delete", "over", "skipped", "gone"}]
      /\ todo \in [Sockets -> SUBSET posted]
  BY DEF FlushList, WorldInv, SockInv, QueueInv, QueueTyped, world
<1>1. ASSUME UNCHANGED <<rows, todo>>, NEW f \in {"over", "skipped"}, flush' = [flush EXCEPT ![s] = f]
      PROVE  QueueInv' /\ BoxStep
  BY <1>0, <1>1, QueueStays DEF QueueInv, QueueTyped
<1>2. ASSUME NEW cut \in 0..now, rows' = Unexpired(rows, cut),
             todo' = [todo EXCEPT ![s] = Ids(OldestOf(Unexpired(rows, cut), FlushMax))],
             flush' = [flush EXCEPT ![s] = "write"]
      PROVE  QueueInv' /\ BoxStep
  <2> DEFINE U == Unexpired(rows, cut)
             out == OldestOf(U, FlushMax)
  <2>1. rows' = U /\ todo' = [todo EXCEPT ![s] = Ids(out)] /\ flush' = [flush EXCEPT ![s] = "write"]
    BY <1>2
  <2>2. Keeps(U, rows) /\ Ordered(U) /\ U \subseteq rows
    BY <1>0, UnexpiredKeeps, OrderedSubset DEF Keeps
  <2> HIDE DEF U
  <2>3. out \subseteq U /\ Keeps(U \ out, U)
    BY <2>2, OldestLeaves DEF OldestOf
  <2> HIDE DEF out
  <2>4. Ids(out) \subseteq posted /\ todo' \in [Sockets -> SUBSET posted]
    BY <1>0, <2>1, <2>2, <2>3 DEF QueueInv, QueueTyped, Ids
  <2>5. QueueTyped' /\ Slips'
    BY <1>0, <2>1, <2>2, <2>4, QueueShrinks DEF QueueInv, QueueTyped
  <2>6. Replay'
    <3>1. \A u \in Sockets \ {s} : todo'[u] = todo[u] /\ flush'[u] = flush[u]
      BY <1>0, <2>1
    <3>2. todo'[s] = Ids(out) /\ flush'[s] = "write"
      BY <1>0, <2>1
    <3>3. ASSUME NEW i \in Ids(out), NEW q \in U, q.end < i PROVE q.id \in Ids(out)
      <4>1. PICK o \in out : o.id = i
        BY DEF Ids
      <4>2. q \in rows /\ o \in rows
        BY <2>2, <2>3, <4>1
      <4>3. q.id \in Nat /\ o.id \in Nat /\ q.end \in Nat /\ q.id <= q.end
        BY <4>2, RowNumbers DEF QueueInv
      <4>4. q.id < o.id
        BY <3>3, <4>1, <4>3
      <4>5. q \in out
        BY <2>3, <4>1, <4>4 DEF Keeps
      <4> QED BY <4>5 DEF Ids
    <3>4. \A u \in Sockets \ {s} :
            /\ \A i \in todo'[u], q \in rows' : q.end < i /\ q.id \notin todo'[u] => q.id \in handed'
            /\ flush'[u] = "delete" => todo'[u] # {} /\ Min(todo'[u]) \in handed'
      BY <1>0, <2>1, <2>2, <3>1 DEF QueueInv, Replay
    <3>5. /\ \A i \in todo'[s], q \in rows' : q.end < i /\ q.id \notin todo'[s] => q.id \in handed'
          /\ flush'[s] = "delete" => todo'[s] # {} /\ Min(todo'[s]) \in handed'
      BY <2>1, <3>2, <3>3
    <3> QED BY <3>4, <3>5 DEF Replay
  <2>7. Box!Drop
    <3> DEFINE S == OwedOf(rows) \ OwedOf(U)
    <3>1. Box!Oldest(S, OwedOf(rows)) /\ OwedOf(U) = OwedOf(rows) \ S
      BY <1>0, <2>2, KeepsOldest
    <3>2. Owed' = OwedOf(U) /\ Owed = OwedOf(rows)
      BY <2>1 DEF Owed, OwedOf
    <3>3. S \in SUBSET Owed /\ Owed' = Owed \ S
      BY <3>1, <3>2
    <3> HIDE DEF S
    <3> QED BY <1>0, <3>1, <3>2, <3>3 DEF Box!Drop
  <2> QED BY <2>1, <2>2, <2>5, <2>6, <2>7 DEF QueueInv, BoxStep, Box!Next
<1> QED BY <1>1, <1>2 DEF FlushList

\* A replay writes the oldest row it has listed: every row that was committed before
\* that one was stamped and is still queued was handed over before.
LEMMA WriteHands ==
  ASSUME WorldInv, SockInv, QueueInv, NEW s \in Sockets, FlushWrite(s)
  PROVE  QueueInv' /\ BoxStep
<1> DEFINE m == Min(todo[s])
<1>0. /\ UNCHANGED <<rows, last, slip, posted, now>> /\ todo[s] # {} /\ todo[s] \in SUBSET posted
      /\ posted \in SUBSET Nat
  BY RowNumbers DEF FlushWrite, world, QueueInv, QueueTyped
<1>m. m \in todo[s] /\ m \in Nat /\ \A i \in todo[s] : m <= i
  BY <1>0, MinOf
<1>1. CASE sock[s] # "open"
  <2>1. /\ UNCHANGED handed /\ todo' = [todo EXCEPT ![s] = {}]
        /\ flush' = [flush EXCEPT ![s] = "over"]
    BY <1>1 DEF FlushWrite
  <2> QED BY <1>0, <2>1, QueueStays DEF SockInv, QueueInv, QueueTyped
<1>2. CASE sock[s] = "open"
  <2>1. /\ handed' = handed \cup {m} /\ UNCHANGED todo
        /\ flush' = [flush EXCEPT ![s] = "delete"]
    BY <1>2 DEF FlushWrite
  <2> HIDE DEF m
  <2>2. QueueTyped' /\ Slips'
    BY <1>0, <1>m, <2>1, QueueShrinks DEF QueueInv, QueueTyped
  <2>3. Replay'
    BY <1>0, <1>m, <2>1 DEF QueueInv, Replay, SockInv, m
  <2>4. \A p \in Owed : p.end < m => p.id \in handed
    <3>1. ASSUME NEW q \in rows, q.end < m PROVE q.id \in handed
      <4>1. q.id \in Nat /\ q.end \in Nat /\ q.id <= q.end
        BY RowNumbers DEF QueueInv
      <4>2. q.id \notin todo[s]
        BY <1>m, <3>1, <4>1
      <4> QED BY <1>m, <3>1, <4>2 DEF QueueInv, Replay
    <3> QED BY <3>1, OwedHas, OwedRows
  <2>5. Box!Hand
    BY <1>0, <1>m, <2>1, <2>4 DEF Box!Hand, Owed
  <2> QED BY <1>0, <2>2, <2>3, <2>5 DEF QueueInv, BoxStep, Box!Next, Ordered
<1> QED BY <1>1, <1>2

\* It deletes the row it has just written: a delivery handed over is settled.
LEMMA DeleteSettles ==
  ASSUME WorldInv, SockInv, QueueInv, NEW s \in Sockets, FlushDelete(s)
  PROVE  QueueInv' /\ BoxStep
<1> DEFINE m == Min(todo[s])
           R == {r \in rows : r.id # m}
<1>0. UNCHANGED <<last, slip, posted, handed, now>> /\ m \in handed
  BY DEF FlushDelete, world, QueueInv, Replay
<1>1. /\ flush' = [flush EXCEPT ![s] = "write"] /\ todo' = [todo EXCEPT ![s] = @ \ {m}]
      /\ rows' \in {rows, R}
  BY DEF FlushDelete
<1> HIDE DEF m
<1>2. rows' \subseteq rows /\ Ordered(rows')
  <2>1. rows' \subseteq rows
    BY <1>1
  <2> QED BY <2>1, OrderedSubset DEF QueueInv
<1>3. QueueTyped' /\ Slips'
  <2>1. todo' \in [Sockets -> SUBSET posted]
    BY <1>1 DEF QueueInv, QueueTyped
  <2> QED BY <1>0, <1>2, <2>1, QueueShrinks DEF QueueInv, QueueTyped
<1>4. Replay'
  <2>1. \A u \in Sockets \ {s} : todo'[u] = todo[u] /\ flush'[u] = flush[u]
    BY <1>1 DEF QueueInv, QueueTyped, SockInv
  <2>2. todo'[s] = todo[s] \ {m} /\ flush'[s] = "write"
    BY <1>1 DEF QueueInv, QueueTyped, SockInv
  <2> QED BY <1>0, <1>2, <2>1, <2>2 DEF QueueInv, Replay
<1>6. CASE UNCHANGED rows
  BY <1>0, <1>2, <1>3, <1>4, <1>6 DEF QueueInv, BoxStep, Owed
<1>7. ASSUME rows' = R, NEW q \in rows, q.id = m PROVE Box!Settle
  <2>1. R = rows \ {q}
    BY <1>7 DEF QueueInv, Ordered
  <2>2. OwedOf(R) = OwedOf(rows) \ OwedOf({q})
    BY <2>1, OwedMinus DEF QueueInv
  <2>3. OwedOf({q}) = {[id |-> q.id, end |-> q.end]} /\ [id |-> q.id, end |-> q.end] \in OwedOf(rows)
    BY DEF OwedOf
  <2>4. Owed' = OwedOf(R) /\ Owed = OwedOf(rows)
    BY <1>7 DEF Owed, OwedOf
  <2> QED BY <1>0, <1>7, <2>2, <2>3, <2>4 DEF Box!Settle
<1>8. CASE rows' = R /\ \A q \in rows : q.id # m
  BY <1>6, <1>8
<1>9. CASE rows' = R /\ \E q \in rows : q.id = m
  BY <1>2, <1>3, <1>4, <1>7, <1>9 DEF QueueInv, BoxStep, Box!Next
<1> QED BY <1>1, <1>6, <1>8, <1>9

-----------------------------------------------------------------------------
(* Which steps touch what.  The loop and the routes only make calls. *)

LoopSide ==
  \/ \E x \in Scheds : CreateSchedule(x) \/ DeleteSchedule(x) \/ Wake(x)
  \/ LoopStep \/ LoopFault

\* The scheduler's loop touches neither the queue nor the sockets.
LEMMA LoopLeaves == ASSUME LoopSide PROVE UNCHANGED <<world, queue, socks, via, acp>>
<1> USE DEF LoopSide, LoopStep
<1>1. CASE LoopFire \/ LoopReturned
  BY <1>1 DEF LoopFire, LoopReturned
<1>2. CASE ~LoopFire /\ ~LoopReturned
  <2>1. UNCHANGED dvars
    BY <1>2 DEF CreateSchedule, DeleteSchedule, Wake, LoopFault, LoopDrain, LoopNext,
                LoopWoken, LoopTimer, LoopCheck, LoopAdvance
  <2> QED BY <2>1 DEF dvars, world, queue, socks, acp, tasks, broker
<1> QED BY <1>1, <1>2

\* The steps of Delivery that change a socket or a replay, ...
SocketSide == \E s \in Sockets : Connect(s) \/ Lose(s) \/ FlushStep(s)

\* ... the ones of an enqueue, ...
EnqueueSide ==
  \E m \in Msgs :
    \/ QueueStamp(m) \/ QueueNotify(m)
    \/ m \in Asks /\ (ReconcileStamp(m) \/ ReconcileQueue(m) \/ ReconcileSkip(m))

\* ... and the ones that do neither.
OtherSide == DeliveryStep /\ ~SocketSide /\ ~EnqueueSide /\ ~Drain

\* Every step of the delivery service is one of four kinds.
LEMMA DeliverySides ==
  ASSUME DeliveryStep
  PROVE  UNCHANGED world /\ (SocketSide \/ EnqueueSide \/ Drain \/ OtherSide)
<1>1. DeliveryStep => SocketSide \/ EnqueueSide \/ Drain \/ OtherSide
  BY DEF OtherSide
<1>2. UNCHANGED world
  BY DEF DeliveryStep, Drain, Connect, Lose, FlushStep, FlushList, FlushWrite, FlushDelete,
         FlushDone, Teardown, HandleNotify, CallStep, Lookup, Write, AckWait, QueueStamp,
         QueueNotify, SeedSettled, RecordACPAsk, AcpStep, StartACPAsk, PromptACPAsk, PromptEnds,
         CallbackEnds, SettleACPAsk, ReconStep, ReconcileStamp, ReconcileQueue, ReconcileFail,
         ReconcileSkip, HandleBroadcast, BrokerMoves, CloseACPPeer
<1> QED BY <1>1, <1>2

\* The steps of the last kind leave the queue and the sockets alone.
LEMMA OtherLeaves == ASSUME OtherSide PROVE UNCHANGED <<queue, socks>>
BY DEF OtherSide, SocketSide, EnqueueSide, DeliveryStep, HandleNotify, CallStep, Lookup,
       Write, AckWait, SeedSettled, RecordACPAsk, AcpStep, StartACPAsk, PromptACPAsk,
       PromptEnds, CallbackEnds, SettleACPAsk, ReconStep, ReconcileFail,
       HandleBroadcast, BrokerMoves, CloseACPPeer, Msgs

\* An enqueue stamps its row, commits it, or fails.
LEMMA EnqueueWrites ==
  ASSUME EnqueueSide
  PROVE  /\ \E m \in Msgs : Stamp(m) \/ EnqueueDelivery(m) \/ EnqueueFails(m)
         /\ UNCHANGED socks
BY DEF EnqueueSide, QueueStamp, QueueNotify, ReconcileStamp, ReconcileQueue, ReconcileSkip

-----------------------------------------------------------------------------

\* Every step keeps the surroundings typed.
LEMMA WorldStep == ASSUME WorldInv, [Next]_vars PROVE WorldInv'
<1>1. CASE DeliveryStep
  BY <1>1, DeliverySides DEF world, WorldInv
<1>2. CASE LoopSide
  BY <1>2, LoopLeaves DEF world, WorldInv
<1>3. CASE Tick \/ Crash
  BY <1>3 DEF Tick, DeliveryTick, Horizon, Crash, DeliveryCrash, WorldInv
<1>4. CASE UNCHANGED vars
  BY <1>4 DEF vars, dvars, WorldInv
<1> QED BY <1>1, <1>2, <1>3, <1>4 DEF Next, LoopSide

\* Every step keeps the sockets sound.
LEMMA SockStep == ASSUME SockInv, [Next]_vars PROVE SockInv'
<1>1. CASE UNCHANGED socks
  BY <1>1 DEF socks, SockInv
<1>2. CASE SocketSide
  BY <1>2 DEF SocketSide, Connect, Lose, FlushStep, FlushList, FlushWrite, FlushDelete,
              FlushDone, Teardown, SockInv
<1>3. CASE DeliveryStep
  BY <1>1, <1>2, <1>3, DeliverySides, OtherLeaves, EnqueueWrites DEF Drain
<1>4. CASE LoopSide
  BY <1>1, <1>4, LoopLeaves
<1>5. CASE Crash
  BY <1>5 DEF Crash, DeliveryCrash, SockInv
<1>6. CASE Tick \/ UNCHANGED vars
  BY <1>1, <1>6 DEF Tick, DeliveryTick, vars, dvars, socks
<1> QED BY <1>3, <1>4, <1>5, <1>6 DEF Next, LoopSide

\* Every step keeps the queue sound and is a step of the mailbox, or none.
LEMMA QueueStep ==
  ASSUME WorldInv, SockInv, QueueInv, [Next]_vars
  PROVE  QueueInv' /\ BoxStep
<1>t. todo \in [Sockets -> SUBSET posted]
  BY DEF QueueInv, QueueTyped
<1>s. slip \in [Msgs -> [id : 0..last, at : 0..now]] /\ NoSlip \in [id : 0..last, at : 0..now]
  BY DEF QueueInv, QueueTyped, WorldInv, NoSlip
<1>1. CASE UNCHANGED <<queue, socks, now>>
  BY <1>1, <1>s, <1>t, QueueStays DEF queue, socks
<1>2. CASE SocketSide
  <2>1. PICK s \in Sockets : Connect(s) \/ Lose(s) \/ FlushStep(s)
    BY <1>2 DEF SocketSide
  <2>2. CASE Connect(s) \/ Lose(s) \/ FlushDone(s) \/ Teardown(s)
    <3>1. UNCHANGED <<queue, todo, now>>
      BY <2>2 DEF Connect, Lose, FlushDone, Teardown, world
    <3>2. \A u \in Sockets : flush'[u] = "delete" => flush[u] = "delete"
      BY <2>2 DEF Connect, Lose, FlushDone, Teardown, SockInv
    <3> QED BY <1>s, <1>t, <3>1, <3>2, QueueStays DEF queue
  <2>3. CASE FlushList(s) \/ FlushWrite(s) \/ FlushDelete(s)
    BY <2>3, ListDrops, WriteHands, DeleteSettles
  <2> QED BY <2>1, <2>2, <2>3 DEF FlushStep
<1>3. CASE EnqueueSide /\ UNCHANGED now
  <2>1. PICK m \in Msgs : Stamp(m) \/ EnqueueDelivery(m) \/ EnqueueFails(m)
    BY <1>3, EnqueueWrites
  <2>2. UNCHANGED <<todo, flush, now>>
    BY <1>3, EnqueueWrites DEF socks
  <2>3. CASE EnqueueFails(m)
    BY <1>s, <1>t, <2>2, <2>3, QueueStays DEF EnqueueFails
  <2> QED BY <2>1, <2>2, <2>3, StampBegins, EnqueueAccepts
<1>4. CASE Drain
  BY <1>4, DrainTakes DEF Drain, socks, world
<1>5. CASE DeliveryStep
  BY <1>1, <1>2, <1>3, <1>4, <1>5, DeliverySides, OtherLeaves DEF world
<1>6. CASE LoopSide \/ UNCHANGED vars
  BY <1>1, <1>6, LoopLeaves DEF world, vars, dvars, queue, socks
<1>7. CASE Tick
  <2>1. UNCHANGED <<queue, socks>> /\ now' = now + 1
    BY <1>7 DEF Tick, DeliveryTick
  <2>2. now \in Nat /\ 0..now \subseteq 0..now'
    BY <2>1 DEF WorldInv
  <2> QED BY <1>s, <1>t, <2>1, <2>2, QueueStays DEF queue, socks
<1>8. CASE Crash
  <2>1. /\ UNCHANGED <<rows, last, posted, handed, now>> /\ todo' = [s \in Sockets |-> {}]
        /\ flush' = [s \in Sockets |-> IF flush[s] = "no" THEN "no" ELSE "gone"]
        /\ slip' = [m \in Msgs |-> NoSlip]
    BY <1>8 DEF Crash, DeliveryCrash
  <2> QED BY <1>s, <1>t, <2>1, QueueStays
<1> QED BY <1>5, <1>6, <1>7, <1>8 DEF Next, LoopSide

\* The queue is sound in every reachable state.
LEMMA QueueHolds == Spec => [](WorldInv /\ SockInv /\ QueueInv)
<1>1. Init => WorldInv /\ SockInv /\ QueueInv
  BY FS_EmptySet DEF Init, DeliveryInit, WorldInv, SockInv, QueueInv, QueueTyped, Ordered,
                     Replay, Slips, NoSlip
<1> QED BY <1>1, WorldStep, SockStep, QueueStep, PTL DEF Spec

\* The durable queue implements the mailbox, with the stamps of its rows for what is
\* begun and accepted: whatever sockets, replays, drains, recoveries and crashes do, and
\* in whatever order enqueues that were stamped commit, expire or fail, a delivery leaves
\* the queue only once handed over or from its old end, one that was committed before
\* another was stamped is handed over first, and no more are owed than the cap.
THEOREM QueueImplementsMailbox == Spec => BoxSpec
<1>1. Init => Box!Init
  BY DEF Init, DeliveryInit, Box!Init, Owed
<1>2. WorldInv /\ SockInv /\ QueueInv /\ [Next]_vars => [Box!Next]_Box!boxVars
  BY QueueStep DEF BoxStep, Box!boxVars
<1> QED BY <1>1, <1>2, QueueHolds, PTL DEF Spec, BoxSpec, Box!Spec

-----------------------------------------------------------------------------
(* Operations of ACP asks. *)

TaskTyped ==
  /\ op \in [Asks -> {"none", "queued", "running", "failed", "completed"}]
  /\ task \in [Asks -> {"idle", "start", "prompt", "turn", "callback", "settle", "end", "lost"}]
  /\ told \subseteq Asks
  /\ recon \in [Asks -> {"no", "queue", "fail", "skip"}]

\* Whoever is about to close an operation has told its asker.
Told ==
  \A a \in Asks :
    op[a] \in {"failed", "completed"} \/ task[a] = "settle" \/ recon[a] = "fail" => a \in told

TaskInv == TaskTyped /\ Told

\* The steps that move a task or an operation.
TaskSide(a) == RecordACPAsk(a) \/ AcpStep(a) \/ ReconStep(a)

\* Only a task's own steps move it.
LEMMA TasksLeft ==
  ASSUME DeliveryStep, ~\E a \in Asks : TaskSide(a)
  PROVE  UNCHANGED tasks
<1>1. (UNCHANGED acp) => UNCHANGED tasks
  BY DEF acp
<1> QED BY <1>1
    DEF DeliveryStep, TaskSide, Drain, Connect, Lose, FlushStep, FlushList, FlushWrite,
         FlushDelete, FlushDone, Teardown, HandleNotify, CallStep, Lookup, Write, AckWait,
         QueueStamp, QueueNotify, SeedSettled, HandleBroadcast, BrokerMoves, CloseACPPeer

\* A task's own steps tell the asker before they end.
LEMMA TaskMoves ==
  ASSUME TaskInv, NEW a \in Asks, TaskSide(a)
  PROVE  TaskInv'
<1> USE DEF TaskInv, TaskTyped, Told
<1>1. CASE RecordACPAsk(a)
  BY <1>1 DEF RecordACPAsk, CreateOperation
<1>2. CASE StartACPAsk(a)
  BY <1>2 DEF StartACPAsk, StartAttempt, FailOperation, UpdateOperation
<1>3. CASE PromptACPAsk(a) \/ PromptEnds(a) \/ CallbackEnds(a)
  BY <1>3 DEF PromptACPAsk, PromptEnds, CallbackEnds
<1>4. CASE SettleACPAsk(a)
  BY <1>4 DEF SettleACPAsk, CompleteOperation, FailOperation, UpdateOperation
<1>5. CASE ReconcileStamp(a) \/ ReconcileQueue(a) \/ ReconcileSkip(a)
  BY <1>5 DEF ReconcileStamp, ReconcileQueue, ReconcileSkip, tasks
<1>6. CASE ReconcileFail(a)
  BY <1>6 DEF ReconcileFail, FailOperation, UpdateOperation
<1> QED BY <1>1, <1>2, <1>3, <1>4, <1>5, <1>6 DEF TaskSide, AcpStep, ReconStep

\* Every step keeps the tasks sound.
LEMMA TaskStep == ASSUME TaskInv, [Next]_vars PROVE TaskInv'
<1>1. CASE UNCHANGED tasks
  BY <1>1 DEF tasks, TaskInv, TaskTyped, Told
<1>2. CASE DeliveryStep
  BY <1>1, <1>2, TasksLeft, TaskMoves
<1>3. CASE LoopSide
  BY <1>1, <1>3, LoopLeaves DEF acp
<1>4. CASE Tick \/ UNCHANGED vars
  BY <1>1, <1>4 DEF Tick, DeliveryTick, acp, vars, dvars, tasks
<1>5. CASE Crash
  BY <1>5 DEF Crash, DeliveryCrash, TaskInv, TaskTyped, Told
<1> QED BY <1>2, <1>3, <1>4, <1>5 DEF Next, LoopSide

\* The tasks are sound in every reachable state.
LEMMA TaskHolds == Spec => []TaskInv
<1>1. Init => TaskInv
  BY DEF Init, DeliveryInit, TaskInv, TaskTyped, Told
<1> QED BY <1>1, TaskStep, PTL DEF Spec

\* No operation of an ACP ask is closed before its asker was told: settleACPAsk runs
\* after the callback and ReconcileACPInflight queues the closure first, so a crash
\* between any two of these steps leaves the operation open for the next start.
THEOREM AskerToldFirst == Spec => []AcpAskerTold
<1>1. TaskInv => AcpAskerTold
  BY DEF TaskInv, Told, AcpAskerTold
<1> QED BY <1>1, TaskHolds, PTL

-----------------------------------------------------------------------------
(* The loop. *)

\* A schedule whose fire is under way and whose row has not moved on yet.
InCall(x) == cur = x /\ loop \in {"call", "advance"}

\* A schedule that may fire without time going on.
Due(x) ==
  \/ x \in Rows /\ fireAt[x] <= now /\ ~InCall(x)
  \/ cur = x /\ loop \in {"check", "fire"}
  \/ cur = x /\ loop = "sleep" /\ until <= now

\* A one-shot that may still fire.
Pending(x) == (x \in Rows /\ ~InCall(x)) \/ (cur = x /\ loop = "fire")

LoopTyped ==
  /\ fireAt \in [Scheds -> 0..NoRow]
  /\ cron \subseteq made /\ made \subseteq Scheds /\ waking \subseteq Scheds
  /\ wake \in BOOLEAN
  /\ loop \in {"drain", "next", "wait", "sleep", "backoff", "check", "fire", "call", "advance"}
  /\ cur \in Scheds \cup {NoSched} /\ until \in 0..(MaxTime + SleepCap)
  /\ fired \in [Scheds -> Nat]
  /\ faults \in 0..MaxFault /\ kept \in [Scheds -> 0..faults]

\* The loop has a schedule in hand, and only created ones have rows and fires.
LoopKnows ==
  /\ loop \in {"sleep", "check", "fire", "call", "advance"} => cur \in made
  /\ Rows \subseteq made
  /\ \A x \in Scheds \ made : fired[x] = 0

\* A fire costs a tick of the clock, a crash or a row that stayed; one of a one-shot
\* costs a crash or a row that stayed.
FiresPaid ==
  /\ \A x \in Scheds : /\ fired[x] <= now + crashes + kept[x] + 1
                       /\ Due(x) => fired[x] <= now + crashes + kept[x]
  /\ \A x \in Scheds \ cron : /\ fired[x] <= 1 + crashes + kept[x]
                              /\ Pending(x) => fired[x] <= crashes + kept[x]

LoopInv == LoopTyped /\ LoopKnows /\ FiresPaid

\* A step that adds no fire and makes no schedule due or pending.
LEMMA FiresKept ==
  ASSUME WorldInv, LoopTyped, FiresPaid, WorldInv', UNCHANGED fired,
         cron \subseteq cron', now <= now', crashes <= crashes',
         \A x \in Scheds : kept'[x] \in Nat /\ kept[x] <= kept'[x],
         \A x \in Scheds : Due(x)' => \/ Due(x) \/ fired[x] = 0 \/ kept[x] < kept'[x]
                                      \/ now < now' \/ crashes < crashes',
         \A x \in Scheds \ cron' : Pending(x)' => \/ Pending(x) \/ fired[x] = 0
                                                  \/ kept[x] < kept'[x] \/ crashes < crashes'
  PROVE  FiresPaid'
<1>1. \A x \in Scheds : fired[x] \in Nat /\ kept[x] \in Nat
  BY DEF LoopTyped
<1>2. now \in Nat /\ crashes \in Nat /\ now' \in Nat /\ crashes' \in Nat
  BY DEF WorldInv
<1> QED BY <1>1, <1>2 DEF FiresPaid

\* Zero is in the ranges of the loop's numbers.
LEMMA ZeroSleep == 0 \in 0..(MaxTime + SleepCap) /\ 0 \in 0..MaxFault /\ NoRow \in 0..NoRow
BY DEF NoRow

\* The two numbers of a sleep.
LEMMA SleepBound ==
  ASSUME NEW f \in Nat, NEW n \in Nat
  PROVE  Min({f, n}) \in {f, n} /\ Min({f, n}) <= f /\ Min({f, n}) <= n
BY MinOf

\* The routes change the table behind the loop's back.
LEMMA RoutesKeep ==
  ASSUME WorldInv, WorldInv', LoopInv, NEW x \in Scheds,
         CreateSchedule(x) \/ DeleteSchedule(x) \/ Wake(x)
  PROVE  LoopInv'
<1>w. UNCHANGED <<now, crashes, loop, cur, until, fired, kept, faults>> /\ now \in 0..MaxTime
  BY DEF CreateSchedule, DeleteSchedule, Wake, dvars, counts, table, WorldInv
<1>n. /\ now \in Nat /\ crashes \in Nat /\ NoRow \in Nat /\ NoRow = MaxTime + 2
      /\ \A y \in Scheds : kept[y] \in Nat
  BY DEF WorldInv, NoRow, LoopInv, LoopTyped
<1>1. CASE CreateSchedule(x)
  <2>1. PICK t \in 0..(MaxTime + 1) : fireAt' = [fireAt EXCEPT ![x] = t]
    BY <1>1, <1>w DEF CreateSchedule, InsertRow, NextFires
  <2>2. /\ made' = made \cup {x} /\ x \notin made /\ cron' \in {cron, cron \cup {x}}
        /\ waking' = waking \cup {x} /\ wake' = wake
    BY <1>1 DEF CreateSchedule
  <2>3. LoopTyped'
    BY <1>w, <1>n, <2>1, <2>2 DEF LoopInv, LoopTyped
  <2>4. fired[x] = 0
    BY <2>2 DEF LoopInv, LoopKnows
  <2>5. \A y \in Scheds \ {x} : fireAt'[y] = fireAt[y]
    BY <2>1 DEF LoopInv, LoopTyped
  <2>6. LoopKnows'
    BY <1>w, <2>2, <2>5 DEF LoopInv, LoopKnows, Rows
  <2>7. FiresPaid'
    BY <1>w, <1>n, <2>2, <2>4, <2>5, FiresKept DEF LoopInv, Due, Pending, InCall, Rows
  <2> QED BY <2>3, <2>6, <2>7 DEF LoopInv
<1>2. CASE DeleteSchedule(x)
  <2>1. /\ fireAt' = [fireAt EXCEPT ![x] = NoRow] /\ UNCHANGED <<cron, made, wake>>
        /\ waking' = waking \cup {x}
    BY <1>2 DEF DeleteSchedule, DeleteRow
  <2>2. LoopTyped'
    BY <1>w, <1>n, <2>1 DEF LoopInv, LoopTyped
  <2>3. \A y \in Scheds : fireAt'[y] \in {fireAt[y], NoRow}
    BY <2>1 DEF LoopInv, LoopTyped
  <2>4. LoopKnows'
    BY <1>w, <2>1, <2>3 DEF LoopInv, LoopKnows, Rows
  <2>5. FiresPaid'
    BY <1>w, <1>n, <2>1, <2>3, FiresKept DEF LoopInv, Due, Pending, InCall, Rows, NoRow
  <2> QED BY <2>2, <2>4, <2>5 DEF LoopInv
<1>3. CASE Wake(x)
  <2>1. UNCHANGED table /\ waking' = waking \ {x} /\ wake' = TRUE
    BY <1>3 DEF Wake
  <2>2. LoopTyped' /\ LoopKnows'
    BY <1>w, <2>1 DEF LoopInv, LoopTyped, LoopKnows, Rows, table, NoRow
  <2>3. FiresPaid'
    BY <1>w, <1>n, <2>1, FiresKept DEF LoopInv, Due, Pending, InCall, Rows, table, NoRow
  <2> QED BY <2>2, <2>3 DEF LoopInv
<1> QED BY <1>1, <1>2, <1>3

\* So do its own steps up to a fire, ...
LEMMA LoopKeeps ==
  ASSUME WorldInv, WorldInv', LoopInv,
         LoopDrain \/ LoopNext \/ LoopWoken \/ LoopTimer \/ LoopCheck \/ LoopFault
  PROVE  LoopInv'
<1> USE DEF LoopInv
<1>n. /\ now \in Nat /\ now \in 0..MaxTime /\ crashes \in Nat /\ NoRow \in Nat /\ NoRow = MaxTime + 2
      /\ \A x \in Scheds : kept[x] \in Nat
  BY DEF WorldInv, NoRow, LoopTyped
<1>w. UNCHANGED <<now, crashes, fireAt, cron, made, waking, fired, kept>>
  BY DEF LoopDrain, LoopNext, LoopWoken, LoopTimer, LoopCheck, LoopFault, dvars, table, signal, counts
<1>k. ASSUME loop' \in {"sleep", "check", "fire", "call", "advance"} => cur' \in made
      PROVE  LoopKnows'
  BY <1>w, <1>k DEF LoopKnows, Rows, NoRow
<1>f. ASSUME \A x \in Scheds : Due(x)' => Due(x), \A x \in Scheds : Pending(x)' => Pending(x)
      PROVE  FiresPaid'
  BY <1>n, <1>w, <1>f, FiresKept
<1>1. CASE LoopDrain
  <2>1. loop = "drain" /\ loop' = "next" /\ wake' = FALSE /\ UNCHANGED <<cur, until, faults>>
    BY <1>1 DEF LoopDrain, counts
  <2>2. LoopTyped' /\ LoopKnows'
    BY <1>k, <1>w, <2>1 DEF LoopTyped, NoRow
  <2>3. FiresPaid'
    BY <1>f, <1>w, <2>1 DEF Due, Pending, InCall, Rows, NoRow
  <2> QED BY <2>2, <2>3
<1>2. CASE LoopNext
  <2>0. loop = "next" /\ UNCHANGED <<wake, faults>>
    BY <1>2 DEF LoopNext, signal, counts
  <2>1. CASE loop' = "wait" /\ UNCHANGED <<cur, until>>
    <3>1. LoopTyped' /\ LoopKnows'
      BY <1>k, <1>w, <2>0, <2>1 DEF LoopTyped, NoRow
    <3>2. FiresPaid'
      BY <1>f, <1>w, <2>0, <2>1 DEF Due, Pending, InCall, Rows, NoRow
    <3> QED BY <3>1, <3>2
  <2>2. ASSUME NEW x \in Rows, cur' = x, fireAt[x] > now,
               until' = Min({fireAt[x], now + SleepCap}), loop' = "sleep"
        PROVE  LoopInv'
    <3>1. x \in Scheds /\ x \in made /\ fireAt[x] \in Nat /\ now + SleepCap \in Nat
      BY <1>n DEF Rows, LoopTyped, LoopKnows
    <3>2. until' \in {fireAt[x], now + SleepCap} /\ until' <= now + SleepCap
      BY <2>2, <3>1, SleepBound
    <3>3. until' \in 0..(MaxTime + SleepCap) /\ until' > now
      BY <1>n, <2>2, <3>1, <3>2
    <3>4. LoopTyped' /\ LoopKnows'
      BY <1>k, <1>w, <2>0, <2>2, <3>1, <3>3 DEF LoopTyped, NoRow
    <3>5. FiresPaid'
      BY <1>f, <1>n, <1>w, <2>0, <2>2, <3>3 DEF Due, Pending, InCall, Rows, NoRow, LoopTyped
    <3> QED BY <3>4, <3>5
  <2>3. ASSUME NEW x \in Rows, cur' = x, fireAt[x] <= now, loop' = "check", UNCHANGED until
        PROVE  LoopInv'
    <3>1. x \in Scheds /\ x \in made
      BY DEF Rows, LoopKnows
    <3>2. LoopTyped' /\ LoopKnows'
      BY <1>k, <1>w, <2>0, <2>3, <3>1 DEF LoopTyped, NoRow
    <3>3. FiresPaid'
      BY <1>f, <1>w, <2>0, <2>3 DEF Due, Pending, InCall, Rows, NoRow
    <3> QED BY <3>2, <3>3
  <2>4. \A x \in Rows : fireAt[x] \in Nat
    BY <1>n DEF Rows, LoopTyped
  <2>5. CASE Rows # {}
    <3>1. PICK x \in Rows :
            /\ cur' = x
            /\ IF fireAt[x] > now
               THEN until' = Min({fireAt[x], now + SleepCap}) /\ loop' = "sleep"
               ELSE loop' = "check" /\ UNCHANGED until
      BY <1>2, <2>5 DEF LoopNext
    <3> QED BY <1>n, <2>2, <2>3, <2>4, <3>1
  <2> QED BY <1>2, <2>1, <2>5 DEF LoopNext
<1>3. CASE LoopFault
  <2>1. /\ loop = "next" /\ loop' = "backoff" /\ faults' = faults + 1 /\ faults < MaxFault
        /\ until' = now + SleepCap /\ UNCHANGED <<cur, wake>>
    BY <1>3 DEF LoopFault, Fault, signal
  <2>2. LoopTyped' /\ LoopKnows'
    BY <1>k, <1>n, <1>w, <2>1 DEF LoopTyped, NoRow
  <2>3. FiresPaid'
    BY <1>f, <1>w, <2>1 DEF Due, Pending, InCall, Rows, NoRow
  <2> QED BY <2>2, <2>3
<1>4. ASSUME loop \in {"wait", "sleep", "backoff", "check"}, Restart, wake' \in BOOLEAN,
             faults' = faults \/ (faults' = faults + 1 /\ faults < MaxFault)
      PROVE  LoopInv'
  <2>1. LoopTyped' /\ LoopKnows'
    BY <1>k, <1>n, <1>w, <1>4 DEF LoopTyped, Restart, NoRow
  <2>2. FiresPaid'
    BY <1>f, <1>w, <1>4 DEF Restart, Due, Pending, InCall, Rows, NoRow
  <2> QED BY <2>1, <2>2
<1>5. CASE LoopWoken
  BY <1>4, <1>5 DEF LoopWoken, counts
<1>6. CASE LoopTimer
  <2>1. CASE loop = "sleep"
    <3>1. loop' = "check" /\ until' = 0 /\ until <= now /\ UNCHANGED <<cur, wake, faults>>
      BY <1>6, <1>n, <2>1 DEF LoopTimer, LoopTyped, signal, counts
    <3>2. LoopTyped' /\ LoopKnows'
      BY <1>k, <1>n, <1>w, <2>1, <3>1 DEF LoopTyped, LoopKnows, NoRow
    <3>3. FiresPaid'
      BY <1>f, <1>w, <2>1, <3>1 DEF Due, Pending, InCall, Rows, NoRow
    <3> QED BY <3>2, <3>3
  <2> QED BY <1>4, <1>6, <2>1 DEF LoopTimer, signal, counts, LoopTyped
<1>7. CASE LoopCheck
  <2>1. CASE cur \in Rows /\ loop' = "fire" /\ UNCHANGED <<cur, until, faults>>
    <3>1. loop = "check" /\ loop' = "fire" /\ UNCHANGED <<cur, until, wake, faults>>
      BY <1>7, <2>1 DEF LoopCheck, signal
    <3>2. LoopTyped' /\ LoopKnows'
      BY <1>k, <1>n, <1>w, <3>1 DEF LoopTyped, LoopKnows, NoRow
    <3>3. FiresPaid'
      BY <1>f, <1>w, <2>1, <3>1 DEF Due, Pending, InCall, Rows, NoRow
    <3> QED BY <3>2, <3>3
  <2>2. CASE Fault /\ Restart
    BY <1>4, <1>7, <2>2 DEF LoopCheck, Fault, signal, LoopTyped
  <2> QED BY <1>4, <1>7, <2>1, <2>2 DEF LoopCheck, signal, LoopTyped
<1> QED BY <1>1, <1>2, <1>3, <1>5, <1>6, <1>7

\* ... the fire itself and the row's move after it.
LEMMA FireKeeps ==
  ASSUME WorldInv, WorldInv', LoopInv, LoopFire \/ LoopReturned \/ LoopAdvance
  PROVE  LoopInv'
<1> USE DEF LoopInv
<1>n. now \in Nat /\ now \in 0..MaxTime /\ crashes \in Nat /\ NoRow \in Nat /\ NoRow = MaxTime + 2
  BY DEF WorldInv, NoRow
<1>w. UNCHANGED <<now, crashes, cron, made, waking, wake>>
  BY DEF LoopFire, LoopReturned, LoopAdvance, dvars, world, table, signal, counts
<1>c. cur \in Scheds /\ \A x \in Scheds : fired[x] \in Nat /\ kept[x] \in Nat
  BY DEF LoopKnows, LoopTyped, LoopFire, LoopReturned, LoopAdvance
<1>1. CASE LoopFire
  <2>1. /\ loop = "fire" /\ loop' \in {"advance", "call"}
        /\ UNCHANGED <<cur, until, fireAt, kept, faults>>
        /\ fired' = [fired EXCEPT ![cur] = @ + 1]
    BY <1>1 DEF LoopFire, table
  <2>2. LoopTyped' /\ LoopKnows'
    <3>1. cur \in made
      BY <1>c, <2>1 DEF LoopTyped, LoopKnows
    <3> QED BY <1>c, <1>n, <1>w, <2>1, <3>1 DEF LoopTyped, LoopKnows, Rows, NoRow
  <2>3. FiresPaid'
    BY <1>c, <1>n, <1>w, <2>1 DEF FiresPaid, Due, Pending, InCall, Rows, NoRow, LoopTyped
  <2> QED BY <2>2, <2>3
<1>2. CASE LoopReturned
  <2>1. /\ loop = "call" /\ loop' = "advance" /\ UNCHANGED <<cur, until, fireAt, fired, kept, faults>>
    BY <1>2 DEF LoopReturned, table, counts
  <2>2. LoopTyped' /\ LoopKnows'
    BY <1>c, <1>n, <1>w, <2>1 DEF LoopTyped, LoopKnows, Rows, NoRow
  <2>3. FiresPaid'
    BY <1>c, <1>n, <1>w, <2>1, FiresKept DEF Due, Pending, InCall, Rows, NoRow
  <2> QED BY <2>2, <2>3
<1>f. ASSUME loop = "advance", Restart, UNCHANGED fired, faults' \in {faults, faults + 1},
             faults' <= MaxFault, kept' \in [Scheds -> 0..faults'],
             \A x \in Scheds : kept[x] <= kept'[x], fireAt' \in [Scheds -> 0..NoRow],
             \A x \in Scheds \ {cur} : fireAt'[x] = fireAt[x],
             \/ fireAt'[cur] > now /\ (cur \notin cron \/ cur \notin Rows => fireAt'[cur] = NoRow)
             \/ fireAt'[cur] = fireAt[cur] /\ kept[cur] < kept'[cur]
      PROVE  LoopInv'
  <2>1. loop' = "drain" /\ cur' = NoSched /\ until' = 0 /\ NoRow' = NoRow
    BY <1>f DEF Restart, NoRow
  <2>2. LoopTyped'
    BY <1>f, <1>w, <2>1, ZeroSleep DEF LoopTyped
  <2>3. \A x \in Scheds : x \in Rows' => x \in Rows
    BY <1>f, <2>1 DEF Rows
  <2>4. LoopKnows'
    BY <1>f, <1>w, <2>1, <2>3 DEF LoopKnows, Rows
  <2>5. \A x \in Scheds : Due(x)' => Due(x) \/ kept[x] < kept'[x]
    BY <1>c, <1>f, <1>n, <1>w, <2>1 DEF Due, InCall, Rows, LoopTyped
  <2>6. \A x \in Scheds \ cron : Pending(x)' => Pending(x) \/ kept[x] < kept'[x]
    BY <1>c, <1>f, <1>n, <1>w, <2>1 DEF Pending, InCall, Rows, LoopTyped
  <2>7. \A x \in Scheds : kept'[x] \in Nat
    BY <1>f DEF LoopTyped
  <2>8. FiresPaid'
    BY <1>f, <1>n, <1>w, <2>5, <2>6, <2>7, FiresKept
  <2> QED BY <2>2, <2>4, <2>8
<1>3. CASE LoopAdvance
  <2>1. loop = "advance" /\ Restart /\ UNCHANGED fired /\ MaxFault \in Nat /\ faults \in 0..MaxFault
    BY <1>3 DEF LoopAdvance, LoopTyped
  <2>2. \A f \in 0..MaxFault : faults <= f => kept \in [Scheds -> 0..f]
    BY <2>1 DEF LoopTyped
  <2>3. ASSUME UNCHANGED kept, faults' \in {faults, faults + 1}, faults' <= MaxFault, NEW t \in 0..NoRow,
               t > now, cur \notin cron \/ cur \notin Rows => t = NoRow,
               fireAt' = [fireAt EXCEPT ![cur] = t]
        PROVE  LoopInv'
    <3>1. /\ fireAt' \in [Scheds -> 0..NoRow] /\ fireAt'[cur] = t
          /\ \A x \in Scheds \ {cur} : fireAt'[x] = fireAt[x]
      BY <1>c, <2>3 DEF LoopTyped
    <3>2. kept' \in [Scheds -> 0..faults'] /\ \A x \in Scheds : kept[x] <= kept'[x]
      BY <1>c, <2>1, <2>2, <2>3
    <3> QED BY <1>f, <2>1, <2>3, <3>1, <3>2
  <2>4. CASE Fault /\ kept' = [kept EXCEPT ![cur] = @ + 1] /\ UNCHANGED fireAt
    <3>1. faults' = faults + 1 /\ faults' <= MaxFault
      BY <2>1, <2>4 DEF Fault
    <3>2. kept' \in [Scheds -> 0..faults'] /\ kept'[cur] = kept[cur] + 1
          /\ \A x \in Scheds : kept[x] <= kept'[x]
      BY <1>c, <2>1, <2>4, <3>1 DEF LoopTyped
    <3>3. fireAt' \in [Scheds -> 0..NoRow] /\ fireAt' = fireAt
      BY <2>4 DEF LoopTyped
    <3> QED BY <1>c, <1>f, <2>1, <3>1, <3>2, <3>3
  <2>5. CASE UNCHANGED <<kept, faults>> /\ cur \in cron /\ \E t \in NextFires : RescheduleNext(cur, t)
    <3>1. PICK t \in NextFires : RescheduleNext(cur, t)
      BY <2>5
    <3>2. t \in 0..NoRow /\ t > now
      BY <1>n DEF NextFires
    <3>3. CASE cur \in Rows
      <4>1. fireAt' = [fireAt EXCEPT ![cur] = t]
        BY <3>1, <3>3 DEF RescheduleNext
      <4>2. faults' \in {faults, faults + 1} /\ faults' <= MaxFault /\ UNCHANGED kept
        BY <2>1, <2>5
      <4>3. cur \notin cron \/ cur \notin Rows => t = NoRow
        BY <2>5, <3>3
      <4> QED BY <2>3, <3>2, <4>1, <4>2, <4>3
    <3>4. CASE cur \notin Rows
      <4>1. fireAt' = fireAt /\ fireAt[cur] = NoRow
        BY <1>c, <3>1, <3>4 DEF RescheduleNext, Rows
      <4>2. fireAt' = [fireAt EXCEPT ![cur] = NoRow]
        BY <1>c, <4>1 DEF LoopTyped
      <4>3. NoRow \in 0..NoRow /\ NoRow > now
        BY <1>n
      <4>4. faults' \in {faults, faults + 1} /\ faults' <= MaxFault /\ UNCHANGED kept
        BY <2>1, <2>5
      <4> QED BY <2>3, <4>2, <4>3, <4>4
    <3> QED BY <3>3, <3>4
  <2>6. CASE UNCHANGED kept /\ (Fault \/ UNCHANGED faults) /\ DeleteRow(cur)
    <3>1. NoRow \in 0..NoRow /\ NoRow > now /\ fireAt' = [fireAt EXCEPT ![cur] = NoRow]
      BY <1>n, <2>6 DEF DeleteRow
    <3>2. faults' \in {faults, faults + 1} /\ faults' <= MaxFault
      BY <2>1, <2>6 DEF Fault
    <3> QED BY <2>3, <2>6, <3>1, <3>2
  <2> QED BY <1>3, <2>4, <2>5, <2>6 DEF LoopAdvance
<1> QED BY <1>1, <1>2, <1>3

\* Every step keeps the loop sound.
LEMMA LoopInvStep == ASSUME WorldInv, LoopInv, [Next]_vars PROVE LoopInv'
<1>w. WorldInv'
  BY WorldStep
<1>n. now \in Nat /\ crashes \in Nat /\ now' \in Nat /\ crashes' \in Nat
  BY <1>w DEF WorldInv
<1>1. ASSUME UNCHANGED svars, now <= now', crashes' = crashes, now' # now \/ UNCHANGED now
      PROVE  LoopInv'
  <2>1. LoopTyped' /\ LoopKnows'
    BY <1>1 DEF svars, LoopInv, LoopTyped, LoopKnows, Rows, NoRow
  <2>2. \A x \in Scheds : Due(x)' => Due(x) \/ now < now'
    BY <1>1, <1>n DEF svars, Due, InCall, Rows, NoRow
  <2>3. \A x \in Scheds : Pending(x)' => Pending(x)
    BY <1>1 DEF svars, Pending, InCall, Rows, NoRow
  <2>k. UNCHANGED kept /\ \A x \in Scheds : kept[x] \in Nat
    BY <1>1 DEF svars, LoopInv, LoopTyped
  <2>4. FiresPaid'
    BY <1>1, <1>n, <1>w, <2>2, <2>3, <2>k, FiresKept DEF svars, LoopInv
  <2> QED BY <2>1, <2>4 DEF LoopInv
<1>2. CASE DeliveryStep /\ UNCHANGED svars
  BY <1>1, <1>2, <1>n, DeliverySides DEF world
<1>3. CASE Tick \/ UNCHANGED vars
  BY <1>1, <1>3, <1>n DEF Tick, DeliveryTick, vars, dvars
<1>4. CASE LoopSide
  BY <1>4, <1>w, RoutesKeep, LoopKeeps, FireKeeps DEF LoopSide, LoopStep
<1>5. CASE Crash
  <2>1. /\ loop' = "drain" /\ cur' = NoSched /\ until' = 0 /\ waking' = {} /\ wake' = FALSE
        /\ UNCHANGED <<fireAt, cron, made, fired, kept, faults, now>> /\ crashes' = crashes + 1
    BY <1>5 DEF Crash, DeliveryCrash, Restart, table, counts
  <2>2. LoopTyped' /\ LoopKnows'
    BY <2>1, ZeroSleep DEF LoopInv, LoopTyped, LoopKnows, Rows, NoRow
  <2>3. FiresPaid'
    <3>1. crashes < crashes' /\ crashes <= crashes' /\ now <= now' /\ cron \subseteq cron' /\ fired' = fired
      BY <1>n, <2>1
    <3>2. \A x \in Scheds : kept'[x] \in Nat /\ kept[x] <= kept'[x]
      BY <2>1 DEF LoopInv, LoopTyped
    <3> QED BY <1>w, <3>1, <3>2, FiresKept DEF LoopInv
  <2> QED BY <2>2, <2>3 DEF LoopInv
<1> QED BY <1>2, <1>3, <1>4, <1>5 DEF Next, LoopSide

\* The loop is sound in every reachable state.
LEMMA LoopHolds == Spec => [](WorldInv /\ LoopInv)
<1>1. Init => WorldInv
  BY DEF Init, DeliveryInit, WorldInv
<1>2. Init => LoopTyped
  <2>1. Init => /\ fireAt \in [Scheds -> 0..NoRow] /\ fired \in [Scheds -> Nat]
                /\ kept \in [Scheds -> 0..faults]
    BY ZeroSleep DEF Init
  <2>2. Init => /\ cron = {} /\ made = {} /\ waking = {} /\ wake = FALSE /\ loop = "drain"
                /\ cur = NoSched /\ until = 0 /\ faults = 0
    BY DEF Init
  <2> QED BY <2>1, <2>2, ZeroSleep DEF LoopTyped
<1>3. Init => LoopKnows
  BY DEF Init, LoopKnows, Rows
<1>4. Init => FiresPaid
  <2>1. Init => now = 0 /\ crashes = 0 /\ \A x \in Scheds : fired[x] = 0 /\ kept[x] = 0
    BY DEF Init, DeliveryInit
  <2> QED BY <2>1 DEF FiresPaid
<1> QED BY <1>1, <1>2, <1>3, <1>4, WorldStep, LoopInvStep, PTL DEF Spec, LoopInv

\* A one-shot fires once, and once more for each crash and for each time its own row could
\* not be deleted after its fire: neither a delete that races the sleep, a signal, a
\* failing read nor a capped sleep fires it again.
THEOREM OneShotsFireOnce == Spec => []OneShotOnce
<1>1. LoopInv => OneShotOnce
  BY DEF LoopInv, FiresPaid, OneShotOnce
<1> QED BY <1>1, LoopHolds, PTL

\* A step that adds no row, takes no signal and leaves the loop where it sleeps.
LEMMA SleepStays ==
  ASSUME NoneSleptThrough, UNCHANGED <<fireAt, wake, waking, loop, until>>
  PROVE  NoneSleptThrough'
BY DEF NoneSleptThrough, Rows, NoRow

\* A route announces every row it writes until its signal is pending.
LEMMA RoutesSignal ==
  ASSUME LoopTyped, NoneSleptThrough, NEW x \in Scheds,
         CreateSchedule(x) \/ DeleteSchedule(x) \/ Wake(x)
  PROVE  NoneSleptThrough'
<1>1. CASE Wake(x)
  BY <1>1 DEF Wake, NoneSleptThrough
<1>2. CASE CreateSchedule(x) \/ DeleteSchedule(x)
  <2>1. waking' = waking \cup {x} /\ UNCHANGED <<wake, loop, until>>
    BY <1>2 DEF CreateSchedule, DeleteSchedule
  <2>2. \A y \in Scheds \ {x} : fireAt'[y] = fireAt[y]
    BY <1>2 DEF CreateSchedule, DeleteSchedule, InsertRow, DeleteRow, LoopTyped
  <2> QED BY <2>1, <2>2 DEF NoneSleptThrough, Rows, NoRow
<1> QED BY <1>1, <1>2

\* The loop looks at the whole table before it sleeps, no longer than to its first row.
LEMMA NextCovers ==
  ASSUME WorldInv, LoopTyped, LoopNext
  PROVE  NoneSleptThrough'
<1>1. UNCHANGED <<fireAt, wake, waking>>
  BY DEF LoopNext, table, signal
<1>2. CASE Rows = {}
  BY <1>1, <1>2 DEF LoopNext, NoneSleptThrough, Rows, NoRow
<1>3. CASE Rows # {}
  <2>1. PICK x \in Rows :
          /\ NextDue(x)
          /\ IF fireAt[x] > now
             THEN until' = Min({fireAt[x], now + SleepCap}) /\ loop' = "sleep"
             ELSE loop' = "check"
    BY <1>3 DEF LoopNext
  <2>2. \A y \in Rows : fireAt[y] \in Nat
    BY DEF Rows, LoopTyped, NoRow
  <2>3. now + SleepCap \in Nat
    BY DEF WorldInv
  <2>4. loop' = "sleep" => until' \in Nat /\ until' <= fireAt[x]
    BY <2>1, <2>2, <2>3, SleepBound
  <2>5. \A y \in Rows : fireAt[x] <= fireAt[y]
    BY <2>1 DEF NextDue
  <2>6. \A y \in Rows : loop' = "sleep" => until' <= fireAt[y]
    BY <2>1, <2>2, <2>4, <2>5
  <2>7. loop' \in {"sleep", "check"} /\ Rows' = Rows
    BY <1>1, <2>1 DEF Rows, NoRow
  <2> QED BY <1>1, <2>6, <2>7 DEF NoneSleptThrough
<1> QED BY <1>2, <1>3

\* Every step keeps what the loop sleeps on ahead of the table.
LEMMA SleepStep ==
  ASSUME WorldInv, LoopTyped, NoneSleptThrough, [Next]_vars
  PROVE  NoneSleptThrough'
<1>1. CASE DeliveryStep /\ UNCHANGED svars
  BY <1>1, SleepStays DEF svars
<1>2. CASE \E x \in Scheds : CreateSchedule(x) \/ DeleteSchedule(x) \/ Wake(x)
  BY <1>2, RoutesSignal
<1>3. CASE LoopNext
  BY <1>3, NextCovers
<1>4. CASE LoopStep \/ LoopFault \/ Crash
  <2>1. loop' \notin {"wait", "sleep"} \/ LoopNext
    BY <1>4 DEF LoopStep, LoopDrain, LoopWoken, LoopTimer, LoopCheck, LoopFire, LoopReturned,
                LoopAdvance, LoopFault, Crash, Restart
  <2> QED BY <1>3, <2>1 DEF NoneSleptThrough
<1>5. CASE Tick \/ UNCHANGED vars
  BY <1>5, SleepStays DEF Tick, vars, svars
<1> QED BY <1>1, <1>2, <1>4, <1>5 DEF Next

\* The loop does not sleep through a schedule: it drains its channel before it reads the
\* table, and a route signals after its write, so between the two no order leaves a row
\* that falls due during the sleep without a signal that is pending or on its way.
THEOREM NoneSlept == Spec => []NoneSleptThrough
<1>1. Init => NoneSleptThrough
  BY DEF Init, NoneSleptThrough
<1>2. WorldInv /\ LoopInv /\ NoneSleptThrough /\ [Next]_vars => NoneSleptThrough'
  BY SleepStep DEF LoopInv
<1> QED BY <1>1, <1>2, LoopHolds, PTL DEF Spec

-----------------------------------------------------------------------------
(* The broker and the calls. *)

\* A mutex is held by a prompt that is starting or in its turn with that client.
BrokerInv ==
  /\ BrokerTypeOK
  /\ \A p \in Prompts : at[p] \notin {"idle", "failed"} => client[p] \in Prompts
  /\ \A c \in Prompts : mu[c] # NoPrompt => at[mu[c]] \in {"start", "turn"}

\* Nothing has been prompted for an ask or a broadcast that is yet to come.
Unprompted ==
  /\ \A a \in Asks : task[a] \in {"idle", "start", "prompt"} => at[a] = "idle"
  /\ \A b \in Casts : pc[b] = "idle" => at[b] = "idle"

CallTyped ==
  /\ pc \in [Msgs -> {"idle", "seed", "send", "write", "ack", "queue", "done"}]
  /\ via \in [Msgs -> Sockets \cup {NoSock}]

\* A prompt that starts keeps the broker's type.
LEMMA BrokerPrompts ==
  ASSUME BrokerInv, NEW p \in Prompts, at[p] = "idle", Prompt(p)
  PROVE  BrokerInv'
BY DEF BrokerInv, BrokerTypeOK, Prompt, Goes

\* So do the prompt's further steps and a dropped client.
LEMMA BrokerKeeps ==
  ASSUME BrokerInv, NEW p \in Prompts, PromptStep(p) \/ DropClose(p) \/ Drop
  PROVE  BrokerInv'
<1> USE DEF BrokerInv, BrokerTypeOK, Goes, Unlock, Free, CloseLocked
<1>1. CASE Lock(p)
  BY <1>1 DEF Lock
<1>2. CASE EnsureStarted(p)
  BY <1>2 DEF EnsureStarted
<1>3. CASE CallAnswered(p)
  BY <1>3 DEF CallAnswered
<1>4. CASE CallFails(p)
  BY <1>4 DEF CallFails
<1>5. CASE DropExpected(p) \/ DropCloses(p)
  BY <1>5 DEF DropExpected, DropCloses
<1>6. CASE Drop \/ DropClose(p)
  BY <1>6 DEF Drop, DropClose
<1> QED BY <1>1, <1>2, <1>3, <1>4, <1>5, <1>6 DEF PromptStep

\* No call of a broadcast becomes idle again.
CastsStay == \A b \in Casts : pc'[b] = "idle" => pc[b] = "idle"

\* A call that moves on stays typed, and none becomes idle again.
LEMMA PcMoves ==
  ASSUME CallTyped, NEW m \in Msgs,
         NEW p \in {"seed", "send", "write", "ack", "queue", "done"}, pc' = [pc EXCEPT ![m] = p],
         via' \in [Msgs -> Sockets \cup {NoSock}]
  PROVE  CallTyped' /\ CastsStay
BY DEF CallTyped, CastsStay, Msgs

\* So does a routed call.
LEMMA RouteMoves ==
  ASSUME CallTyped, NEW m \in Msgs, Route(m), UNCHANGED via
  PROVE  CallTyped' /\ CastsStay
<1>1. PICK p \in {"done", "queue", "send"} : pc' = [pc EXCEPT ![m] = p]
  BY DEF Route
<1> QED BY <1>1, PcMoves DEF CallTyped

\* The steps of Delivery on calls.
LEMMA CallsMove ==
  ASSUME CallTyped, SockInv, DeliveryStep
  PROVE  CallTyped' /\ CastsStay
<1>1. CASE UNCHANGED <<pc, via>>
  BY <1>1 DEF CallTyped, CastsStay
<1>2. ASSUME NEW m \in Notifies, HandleNotify(m) PROVE CallTyped' /\ CastsStay
  BY <1>2, RouteMoves DEF HandleNotify, Msgs
<1>s. ASSUME NEW m \in Msgs, QueueStamp(m) PROVE UNCHANGED <<pc, via>>
  BY <1>s DEF QueueStamp, calls
<1>3. ASSUME NEW m \in Msgs, CallStep(m), ~QueueStamp(m) PROVE CallTyped' /\ CastsStay
  <2>0. ~QueueStamp(m)
    BY <1>3
  <2>1. via' \in [Msgs -> Sockets \cup {NoSock}]
    BY <1>3, <2>0 DEF CallStep, Lookup, Write, AckWait, QueueNotify, SeedSettled, CallTyped, SockInv
  <2>2. \E p \in {"seed", "send", "write", "ack", "queue", "done"} : pc' = [pc EXCEPT ![m] = p]
    BY <1>3, <2>0 DEF CallStep, Lookup, Write, AckWait, QueueNotify, SeedSettled, Fallback
  <2> QED BY <2>1, <2>2, PcMoves
<1>4. ASSUME NEW b \in Casts, HandleBroadcast(b) PROVE CallTyped' /\ CastsStay
  <2>1. PICK p \in {"seed", "done", "send"} : pc' = [pc EXCEPT ![b] = p]
    BY <1>4 DEF HandleBroadcast, Broadcast, DeferBroadcast, FanOut
  <2> QED BY <1>4, <2>1, PcMoves DEF HandleBroadcast, Msgs, CallTyped
<1>5. ASSUME NEW a \in Asks, PromptEnds(a) PROVE CallTyped' /\ CastsStay
  BY <1>5, RouteMoves DEF PromptEnds, Msgs
<1>6. ASSUME NEW a \in Asks, TaskSide(a), ~PromptEnds(a) PROVE UNCHANGED <<pc, via>>
  BY <1>6 DEF TaskSide, RecordACPAsk, AcpStep, StartACPAsk, PromptACPAsk, CallbackEnds,
              SettleACPAsk, ReconStep, ReconcileStamp, ReconcileQueue, ReconcileFail,
              ReconcileSkip, calls
<1>7. Drain \/ SocketSide \/ CloseACPPeer \/ (\E p \in Prompts : BrokerMoves(p)) => UNCHANGED <<pc, via>>
  BY DEF Drain, SocketSide, Connect, Lose, FlushStep, FlushList, FlushWrite, FlushDelete,
         FlushDone, Teardown, CloseACPPeer, BrokerMoves, calls
<1> QED BY <1>s, <1>1, <1>2, <1>3, <1>4, <1>5, <1>6, <1>7 DEF DeliveryStep, SocketSide, TaskSide

\* A prompt is idle until it is prompted.
LEMMA AtMoves ==
  ASSUME BrokerInv, NEW p \in Prompts, PromptStep(p) \/ DropClose(p) \/ Drop
  PROVE  \A q \in Prompts : at[q] = "idle" => at'[q] = "idle"
BY DEF BrokerInv, BrokerTypeOK, PromptStep, Lock, EnsureStarted, CallAnswered, CallFails,
       DropExpected, DropCloses, DropClose, Drop, Goes

BrokerAll == BrokerInv /\ Unprompted

\* Every step of the delivery service keeps the broker typed.
LEMMA BrokerMovesOn ==
  ASSUME BrokerAll, TaskTyped, CallTyped, CastsStay, DeliveryStep
  PROVE  BrokerAll'
<1>p. \A q \in Asks \cup Casts : q \in Prompts
  BY DEF Prompts
<1>t. ASSUME NEW a \in Asks, task'[a] \in {"idle", "start", "prompt"}
      PROVE  task[a] \in {"idle", "start", "prompt"}
  <2>1. ASSUME NEW c \in Asks, TaskSide(c)
        PROVE  task'[a] = task[a] \/ task[a] \in {"idle", "start", "prompt"}
               \/ task'[a] \notin {"idle", "start", "prompt"}
    BY <2>1 DEF TaskSide, RecordACPAsk, AcpStep, StartACPAsk, PromptACPAsk, PromptEnds,
           CallbackEnds, SettleACPAsk, ReconStep, ReconcileStamp, ReconcileQueue,
           ReconcileFail, ReconcileSkip, tasks, TaskTyped
  <2> QED BY <1>t, <2>1, TasksLeft DEF tasks
<1>1. CASE UNCHANGED broker
  <2>1. UNCHANGED <<current, client, mu, up, dropping, at>>
    BY <1>1 DEF broker
  <2> QED BY <1>t, <2>1 DEF BrokerAll, BrokerInv, BrokerTypeOK, Unprompted, CastsStay
<1>2. ASSUME NEW a \in Asks, PromptACPAsk(a) PROVE BrokerAll'
  <2>1. at[a] = "idle" /\ Prompt(a) /\ a \in Prompts
    BY <1>2, <1>p DEF PromptACPAsk, BrokerAll, Unprompted
  <2>2. task'[a] = "turn" /\ a \notin Casts
    BY <1>2 DEF PromptACPAsk, TaskTyped
  <2>3. \A q \in Prompts \ {a} : at'[q] = at[q]
    BY <2>1 DEF Prompt, Goes, BrokerAll, BrokerInv, BrokerTypeOK
  <2> QED BY <1>p, <1>t, <2>1, <2>2, <2>3, BrokerPrompts DEF BrokerAll, Unprompted, CastsStay
<1>3. ASSUME NEW b \in Casts, HandleBroadcast(b) PROVE BrokerAll'
  <2>1. CASE Prompt(b)
    <3>1. at[b] = "idle" /\ b \in Prompts /\ b \notin Asks
      BY <1>3, <1>p DEF HandleBroadcast, BrokerAll, Unprompted
    <3>2. pc'[b] # "idle"
      BY <1>3 DEF HandleBroadcast, Broadcast, DeferBroadcast, FanOut, CallTyped, Msgs
    <3>3. \A q \in Prompts \ {b} : at'[q] = at[q]
      BY <2>1, <3>1 DEF Prompt, Goes, BrokerAll, BrokerInv, BrokerTypeOK
    <3> QED BY <1>p, <1>t, <2>1, <3>1, <3>2, <3>3, BrokerPrompts DEF BrokerAll, Unprompted, CastsStay
  <2> QED BY <1>1, <1>3, <2>1 DEF HandleBroadcast, Broadcast
<1>4. ASSUME NEW p \in Prompts, BrokerMoves(p) \/ CloseACPPeer PROVE BrokerAll'
  <2>1. PromptStep(p) \/ DropClose(p) \/ Drop
    BY <1>4 DEF BrokerMoves, BrokerStep, CloseACPPeer
  <2> QED BY <1>p, <1>t, <2>1, BrokerKeeps, AtMoves DEF BrokerAll, Unprompted, CastsStay
<1>5. ASSUME NEW a \in Asks, TaskSide(a), ~PromptACPAsk(a) PROVE UNCHANGED broker
  BY <1>5 DEF TaskSide, RecordACPAsk, AcpStep, StartACPAsk, PromptEnds, CallbackEnds,
              SettleACPAsk, ReconStep, ReconcileStamp, ReconcileQueue, ReconcileFail,
              ReconcileSkip
<1>6. CASE CloseACPPeer
  <2>1. current \in Prompts
    BY <1>6 DEF CloseACPPeer, Drop, BrokerAll, BrokerInv, BrokerTypeOK
  <2> QED BY <1>4, <1>6, <2>1
<1>7. ASSUME \/ Drain \/ SocketSide \/ \E m \in Notifies : HandleNotify(m)
             \/ \E m \in Msgs : CallStep(m)
      PROVE  UNCHANGED broker
  BY <1>7 DEF Drain, SocketSide, Connect, Lose, FlushStep, FlushList, FlushWrite, FlushDelete,
         FlushDone, Teardown, HandleNotify, CallStep, Lookup, Write, AckWait, QueueStamp,
         QueueNotify, SeedSettled, acp
<1> QED BY <1>1, <1>2, <1>3, <1>4, <1>5, <1>6, <1>7 DEF DeliveryStep, SocketSide, TaskSide

TypedInv ==
  /\ WorldInv /\ SockInv /\ QueueInv /\ TaskInv /\ LoopInv
  /\ CallTyped /\ BrokerAll

\* Every step keeps the calls and the broker typed.
LEMMA CallBrokerStep ==
  ASSUME TypedInv, [Next]_vars
  PROVE  CallTyped' /\ BrokerAll'
<1> USE DEF TypedInv
<1>1. CASE DeliveryStep
  <2>1. CallTyped' /\ CastsStay
    BY <1>1, CallsMove
  <2> QED BY <1>1, <2>1, BrokerMovesOn DEF TaskInv
<1>2. ASSUME UNCHANGED <<broker, task>>, CastsStay PROVE BrokerAll'
  <2>1. UNCHANGED <<current, client, mu, up, dropping, at>>
    BY <1>2 DEF broker
  <2> QED BY <1>2, <2>1 DEF BrokerAll, BrokerInv, BrokerTypeOK, Unprompted, CastsStay
<1>3. CASE LoopSide
  <2>1. UNCHANGED <<via, broker, task>>
    BY <1>3, LoopLeaves DEF acp, tasks
  <2>2. CASE UNCHANGED pc
    <3>1. CallTyped' /\ CastsStay
      BY <2>1, <2>2 DEF CallTyped, CastsStay
    <3> QED BY <1>2, <2>1, <3>1
  <2>3. CASE LoopFire
    <3>1. cur \in Scheds
      BY <2>3 DEF LoopFire, LoopInv, LoopKnows, LoopTyped
    <3>2. CASE Route(cur)
      BY <1>2, <2>1, <3>1, <3>2, RouteMoves DEF Msgs
    <3> QED BY <2>2, <2>3, <3>2 DEF LoopFire
  <2>4. CASE LoopReturned
    <3>1. cur \in Scheds /\ pc' = [pc EXCEPT ![cur] = "idle"]
      BY <2>4 DEF LoopReturned, LoopInv, LoopKnows, LoopTyped
    <3>2. CallTyped' /\ CastsStay
      BY <2>1, <3>1 DEF CallTyped, CastsStay, Msgs
    <3> QED BY <1>2, <2>1, <3>2
  <2>5. CASE ~LoopFire /\ ~LoopReturned
    <3>1. UNCHANGED pc
      BY <1>3, <2>5 DEF LoopSide, LoopStep, CreateSchedule, DeleteSchedule, Wake, LoopFault,
           LoopDrain, LoopNext, LoopWoken, LoopTimer, LoopCheck, LoopAdvance, dvars
    <3> QED BY <2>2, <3>1
  <2> QED BY <2>3, <2>4, <2>5
<1>4. CASE Tick \/ UNCHANGED vars
  <2>1. UNCHANGED <<pc, via, broker, task>>
    BY <1>4 DEF Tick, DeliveryTick, acp, tasks, calls, vars, dvars, broker
  <2>2. CallTyped' /\ CastsStay
    BY <2>1 DEF CallTyped, CastsStay
  <2> QED BY <1>2, <2>1, <2>2
<1>5. CASE Crash
  <2>1. /\ pc' = [m \in Msgs |-> IF pc[m] = "idle" THEN "idle" ELSE "done"]
        /\ via' = [m \in Msgs |-> NoSock]
        /\ task' = [a \in Asks |-> IF task[a] = "idle" THEN "idle" ELSE "end"]
        /\ BrokerCrash
    BY <1>5 DEF Crash, DeliveryCrash
  <2>2. CallTyped'
    BY <2>1 DEF CallTyped
  <2>3. BrokerInv'
    BY <2>1 DEF BrokerCrash, BrokerAll, BrokerInv, BrokerTypeOK
  <2>4. Unprompted'
    BY <2>1 DEF BrokerCrash, BrokerAll, Unprompted, Msgs, Prompts
  <2> QED BY <2>2, <2>3, <2>4 DEF BrokerAll
<1> QED BY <1>1, <1>3, <1>4, <1>5 DEF Next, LoopSide

\* Every reachable state is well typed; the clock, the fires and the rows stay within
\* their bounds, and a client's mutex is only held by a prompt that was given it.
THEOREM TypeCorrect == Spec => []TypeOK
<1>1. Init => CallTyped /\ BrokerAll
  <2>1. Init => CallTyped
    BY DEF Init, DeliveryInit, CallTyped
  <2>2. Init => BrokerAll
    BY DEF Init, DeliveryInit, BrokerInit, BrokerAll, BrokerInv, BrokerTypeOK, Unprompted, Prompts
  <2> QED BY <2>1, <2>2
<1>2. TypedInv /\ [Next]_vars => CallTyped' /\ BrokerAll'
  BY CallBrokerStep
<1>3. Spec => []TypedInv
  BY <1>1, <1>2, QueueHolds, TaskHolds, LoopHolds, PTL DEF Spec, TypedInv
<1>4. TypedInv => TypeOK
  <2> SUFFICES ASSUME TypedInv PROVE TypeOK
    OBVIOUS
  <2>1. DeliveryTypeOK
    BY DEF TypedInv, WorldInv, SockInv, QueueInv, QueueTyped, TaskInv, TaskTyped, CallTyped,
           BrokerAll, BrokerInv, DeliveryTypeOK
  <2>2. \A x \in Scheds : fired[x] \in 0..(MaxTime + MaxCrash + MaxFault + 1)
    <3>1. \A x \in Scheds : kept[x] \in Nat /\ kept[x] <= MaxFault /\ fired[x] \in Nat
      BY DEF TypedInv, LoopInv, LoopTyped
    <3> QED BY <3>1 DEF TypedInv, WorldInv, LoopInv, FiresPaid
  <2> QED BY <2>1, <2>2 DEF TypedInv, LoopInv, LoopTyped, TypeOK
<1> QED BY <1>3, <1>4, PTL
=============================================================================
