----------------------------- MODULE LeasedQueue -----------------------------
(***************************************************************************)
(* The leased Postgres queues of src/queue.rs, as operators on the value   *)
(* of one queue table.                                                     *)
(*                                                                         *)
(* A table is a function from row ids to rows.  A row holds the table's    *)
(* UNIQUE key (an ip; an ip, port and transport; a service and a kind),    *)
(* the attempts counter and claimed_until.  Ids come from an identity      *)
(* column, so they only grow and ORDER BY id is the order of insertion.    *)
(* Every operator is one SQL statement: Postgres makes it atomic, and the  *)
(* components that use a queue are free to interleave between two of them. *)
(***************************************************************************)
EXTENDS Integers, FiniteSets, Tables

CONSTANT LeaseTime    \* seconds a claim lasts: 300 in the code

ASSUME LeaseTimeAssumption == LeaseTime \in Nat \ {0}

(***************************************************************************)
(* claimed_until IS NULL.  A claim writes now + LeaseTime > 0, so 0 is     *)
(* free to stand for NULL, as it does in COALESCE(claimed_until, 0).       *)
(***************************************************************************)
Null == 0

Row(Key) == [key: Key, attempts: Nat, claimedUntil: Nat]

Keys(q) == {q[id].key : id \in DOMAIN q}

(* WHERE COALESCE(claimed_until, 0) < now: never claimed, or expired. *)
ClaimableAtExpiry(q, now) == {id \in DOMAIN q : q[id].claimedUntil <= now}

ClaimableOnce(q, now) == {id \in DOMAIN q : q[id].claimedUntil = Null}

Claimable(q, now) == {id \in DOMAIN q : q[id].claimedUntil < now}

(* ORDER BY id LIMIT batch *)
Lowest(ids, batch) == {id \in ids : Cardinality({x \in ids : x < id}) < batch}

Claimed(q, batch, now) == Lowest(Claimable(q, now), batch)

(* claim_*: lease the chosen rows; attempts is neither read nor written. *)
Claim(q, batch, now) ==
  [id \in DOMAIN q |->
     IF id \in Claimed(q, batch, now)
     THEN [q[id] EXCEPT !.claimedUntil = now + LeaseTime]
     ELSE q[id]]

(* DELETE ... WHERE id = $1: no matter who holds the lease, or if nobody. *)
CompleteReleases(q, id) ==
  [x \in DOMAIN q |->
     IF x = id THEN [q[x] EXCEPT !.claimedUntil = Null] ELSE q[x]]

Complete(q, id) == Remove(q, {id})

IncrementAttempts(q, id) ==
  [x \in DOMAIN q |->
     IF x = id THEN [q[x] EXCEPT !.attempts = @ + 1] ELSE q[x]]

(* claimed_until IS NOT NULL AND claimed_until < now *)
Expired(q, now) ==
  {id \in DOMAIN q : q[id].claimedUntil # Null /\ q[id].claimedUntil < now}

(* sweep is two statements: first requeue, ... *)
SweepRequeue(q, maxAttempts, now) ==
  [id \in DOMAIN q |->
     IF id \in Expired(q, now) /\ q[id].attempts < maxAttempts
     THEN [q[id] EXCEPT !.claimedUntil = Null]
     ELSE q[id]]

(* ... then delete what has used up its attempts. *)
SweptLeased(q, maxAttempts, now) ==
  {id \in DOMAIN q : q[id].attempts >= maxAttempts}

Swept(q, maxAttempts, now) ==
  {id \in Expired(q, now) : q[id].attempts >= maxAttempts}

SweepDelete(q, maxAttempts, now) == Remove(q, Swept(q, maxAttempts, now))

NewRow(key) == [key |-> key, attempts |-> 0, claimedUntil |-> Null]

(* INSERT ... ON CONFLICT (key) DO NOTHING, with the next identity value. *)
Insert(q, id, key) ==
  IF key \in Keys(q) THEN q ELSE Put(q, id, NewRow(key))

=============================================================================
