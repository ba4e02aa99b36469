------------------------- MODULE LeasedQueueProofs -------------------------
(***************************************************************************)
(* What the statements of LeasedQueue do to a table, for every table,      *)
(* time and batch: which rows they keep, and which columns they leave      *)
(* alone.  The proofs about the components cite these facts only.          *)
(***************************************************************************)
EXTENDS LeasedQueue, TLAPS

(* A table over a set of keys is a function from its ids to rows. *)
IsTable(q, Key) == q \in [DOMAIN q -> Row(Key)]

(***************************************************************************)
(* A claim keeps every row, its key and its attempts; a row whose lease it *)
(* changes was claimable and now carries the new lease.                    *)
(***************************************************************************)
LEMMA ClaimKeepsRows ==
  ASSUME NEW Key, NEW q, IsTable(q, Key), NEW batch \in Nat, NEW now \in Nat,
         NEW c, c = Claim(q, batch, now)
  PROVE  /\ IsTable(c, Key)
         /\ DOMAIN c = DOMAIN q
         /\ \A id \in DOMAIN q :
              /\ c[id].key = q[id].key
              /\ c[id].attempts = q[id].attempts
              /\ \/ c[id].claimedUntil = q[id].claimedUntil
                 \/ /\ id \in Claimed(q, batch, now)
                    /\ c[id].claimedUntil = now + LeaseTime
         /\ \A id \in Claimed(q, batch, now) :
              c[id].claimedUntil = now + LeaseTime
  <1>1. Claimed(q, batch, now) \subseteq DOMAIN q
    BY DEF Claimed, Lowest, Claimable
  <1>2. DOMAIN c = DOMAIN q
    BY DEF Claim
  <1>3. ASSUME NEW id \in DOMAIN q
        PROVE  /\ c[id] \in Row(Key)
               /\ c[id].key = q[id].key
               /\ c[id].attempts = q[id].attempts
               /\ c[id].claimedUntil =
                    IF id \in Claimed(q, batch, now)
                    THEN now + LeaseTime ELSE q[id].claimedUntil
    BY <1>3, LeaseTimeAssumption DEF Claim, IsTable, Row
  <1>4. IsTable(c, Key)
    BY <1>2, <1>3 DEF IsTable, Claim
  <1> QED
    BY <1>1, <1>2, <1>3, <1>4

(* A claim keeps every row and its key. *)
LEMMA ClaimKeepsKeys ==
  ASSUME NEW Key, NEW q, IsTable(q, Key), NEW batch, NEW now,
         NEW c, c = Claim(q, batch, now)
  PROVE  /\ DOMAIN c = DOMAIN q
         /\ \A id \in DOMAIN q : c[id].key = q[id].key
  BY DEF Claim, IsTable, Row

(* A row that is not claimed is left as it is. *)
LEMMA ClaimLeavesOthers ==
  ASSUME NEW q, NEW batch, NEW now, NEW c, c = Claim(q, batch, now)
  PROVE  /\ DOMAIN c = DOMAIN q
         /\ \A id \in DOMAIN q \ Claimed(q, batch, now) : c[id] = q[id]
  BY DEF Claim

(* A row that is claimed carries the new lease. *)
LEMMA ClaimWritesLease ==
  ASSUME NEW Key, NEW q, IsTable(q, Key), NEW batch \in Nat, NEW now \in Nat,
         NEW c, c = Claim(q, batch, now), NEW id \in Claimed(q, batch, now)
  PROVE  c[id].claimedUntil = now + LeaseTime
  BY ClaimKeepsRows

(* What is claimed exists, and its lease, if it had one, was over. *)
LEMMA ClaimedWasFree ==
  ASSUME NEW q, NEW batch, NEW now
  PROVE  \A id \in Claimed(q, batch, now) :
           id \in DOMAIN q /\ q[id].claimedUntil < now
  BY DEF Claimed, Lowest, Claimable

(* Counting an attempt changes no key, no lease and no other row. *)
LEMMA IncrementKeepsRows ==
  ASSUME NEW Key, NEW q, IsTable(q, Key), NEW id,
         NEW c, c = IncrementAttempts(q, id)
  PROVE  /\ IsTable(c, Key)
         /\ DOMAIN c = DOMAIN q
         /\ \A x \in DOMAIN q :
              /\ c[x].key = q[x].key
              /\ c[x].claimedUntil = q[x].claimedUntil
  <1>1. DOMAIN c = DOMAIN q
    BY DEF IncrementAttempts
  <1>2. ASSUME NEW x \in DOMAIN q
        PROVE  /\ c[x] \in Row(Key)
               /\ c[x].key = q[x].key
               /\ c[x].claimedUntil = q[x].claimedUntil
    BY <1>2 DEF IncrementAttempts, IsTable, Row
  <1>3. IsTable(c, Key)
    BY <1>1, <1>2 DEF IsTable, IncrementAttempts
  <1> QED
    BY <1>1, <1>2, <1>3

(* The requeueing half of a sweep only ends leases that were over. *)
LEMMA RequeueKeepsRows ==
  ASSUME NEW Key, NEW q, IsTable(q, Key), NEW max, NEW now \in Nat,
         NEW c, c = SweepRequeue(q, max, now)
  PROVE  /\ IsTable(c, Key)
         /\ DOMAIN c = DOMAIN q
         /\ \A id \in DOMAIN q :
              /\ c[id].key = q[id].key
              /\ \/ c[id].claimedUntil = q[id].claimedUntil
                 \/ q[id].claimedUntil < now
  <1>1. DOMAIN c = DOMAIN q
    BY DEF SweepRequeue
  <1>2. ASSUME NEW id \in DOMAIN q
        PROVE  /\ c[id] \in Row(Key)
               /\ c[id].key = q[id].key
               /\ \/ c[id].claimedUntil = q[id].claimedUntil
                  \/ q[id].claimedUntil < now
    BY <1>2 DEF SweepRequeue, IsTable, Row, Expired, Null
  <1>3. IsTable(c, Key)
    BY <1>1, <1>2 DEF IsTable, SweepRequeue
  <1> QED
    BY <1>1, <1>2, <1>3

(* Removing rows leaves the others as they are. *)
LEMMA RemoveKeepsRows ==
  ASSUME NEW Key, NEW q, IsTable(q, Key), NEW ids,
         NEW c, c = Remove(q, ids)
  PROVE  /\ IsTable(c, Key)
         /\ DOMAIN c = DOMAIN q \ ids
         /\ \A x \in DOMAIN q \ ids : c[x] = q[x]
  BY DEF Remove, Restrict, IsTable

(* The deleting half of a sweep deletes rows whose lease was over. *)
LEMMA SweptWasExpired ==
  ASSUME NEW q, NEW max, NEW now
  PROVE  \A id \in Swept(q, max, now) :
           id \in DOMAIN q /\ q[id].claimedUntil < now
  BY DEF Swept, Expired

(* An insert adds at most the new row, unclaimed, and changes no other. *)
LEMMA InsertKeepsRows ==
  ASSUME NEW Key, NEW q, IsTable(q, Key), NEW id, id \notin DOMAIN q,
         NEW key \in Key, NEW c, c = Insert(q, id, key)
  PROVE  /\ IsTable(c, Key)
         /\ \A x \in DOMAIN q : c[x] = q[x]
         /\ key \in Keys(q) => c = q
         /\ key \notin Keys(q) => /\ DOMAIN c = DOMAIN q \cup {id}
                                  /\ c[id] = NewRow(key)
  <1>1. NewRow(key) \in Row(Key)
    BY DEF NewRow, Row, Null
  <1>2. CASE key \in Keys(q)
    BY <1>2 DEF Insert
  <1>3. CASE key \notin Keys(q)
    <2>1. c = Put(q, id, NewRow(key))
      BY <1>3 DEF Insert
    <2>2. DOMAIN c = DOMAIN q \cup {id} /\ c[id] = NewRow(key)
      BY <2>1 DEF Put, Overlay
    <2>3. \A x \in DOMAIN q : c[x] = q[x]
      BY <2>1 DEF Put, Overlay
    <2>4. IsTable(c, Key)
      <3>1. \A x \in DOMAIN c : c[x] \in Row(Key)
        BY <1>1, <2>2, <2>3 DEF IsTable
      <3> QED
        BY <2>1, <3>1 DEF IsTable, Put, Overlay
    <2> QED
      BY <1>3, <2>2, <2>3, <2>4
  <1> QED
    BY <1>2, <1>3

=============================================================================
