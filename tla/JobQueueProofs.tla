---------------------------- MODULE JobQueueProofs ----------------------------
(***************************************************************************)
(* What the abstract queue promises its neighbours, for any keys, results  *)
(* and decoys.  The stages implement it, so they promise the same: see     *)
(* DeepScanProofs and ProbeStageProofs.                                    *)
(***************************************************************************)
EXTENDS JobQueue, TLAPS

(* A key was submitted when a job of some id is about it. *)
LEMMA SubmittedIs ==
  ASSUME NEW key
  PROVE  key \in Submitted <=>
           \/ \E id \in DOMAIN pending : pending[id] = key
           \/ \E id \in DOMAIN dropped : dropped[id] = key
           \/ \E id \in DOMAIN closed : closed[id].key = key
BY DEF Submitted, Range

(* What Accounted says of a job only grows truer with handed and refused. *)
LEMMA AccountedStays ==
  ASSUME NEW key, NEW found, Accounted(key, found),
         handed \subseteq handed', refused \subseteq refused'
  PROVE  Accounted(key, found)'
BY DEF Accounted

-----------------------------------------------------------------------------
(* No step takes anything back. *)
LEMMA StepFinal ==
  ASSUME OneFate, [JQNext]_abstractVars
  PROVE  Final
<1>1. ASSUME NEW id \in Id, NEW key \in Key, Submit(id, key) PROVE Final
  <2>1. /\ pending' = Put(pending, id, key) /\ id \notin Used
        /\ UNCHANGED <<closed, dropped, handed, refused>>
    BY <1>1 DEF Submit
  <2>2. /\ DOMAIN pending' = DOMAIN pending \cup {id}
        /\ \A x \in DOMAIN pending : pending'[x] = pending[x]
    BY <2>1 DEF Used, Put, Overlay
  <2>3. Used' = Used \cup {id}
    BY <2>1, <2>2 DEF Used
  <2>4. \A x \in Used : x \in DOMAIN pending' => x \in DOMAIN pending
    BY <2>1, <2>2
  <2> QED BY <2>1, <2>2, <2>3, <2>4 DEF Final
<1>2. ASSUME NEW key, NEW res, Hand(key, res) PROVE Final
  BY <1>2 DEF Hand, Final, Used
<1>3. ASSUME NEW key, NEW results, Refuse(key, results) PROVE Final
  BY <1>3 DEF Refuse, Final, Used
<1>4. ASSUME NEW id \in DOMAIN pending, NEW found, Close(id, found) PROVE Final
  <2> DEFINE row == [key |-> pending[id], found |-> found]
  <2>1. /\ closed' = Put(closed, id, row) /\ pending' = Remove(pending, {id})
        /\ UNCHANGED <<dropped, handed, refused>>
    BY <1>4 DEF Close
  <2>2. id \notin DOMAIN closed
    BY DEF OneFate
  <2> HIDE DEF row
  <2>3. /\ DOMAIN closed' = DOMAIN closed \cup {id}
        /\ \A x \in DOMAIN closed : closed'[x] = closed[x]
    <3>1. /\ DOMAIN Put(closed, id, row) = DOMAIN closed \cup {id}
          /\ \A x \in DOMAIN closed \ {id} : Put(closed, id, row)[x] = closed[x]
      BY DEF Put, Overlay
    <3> QED BY <2>1, <2>2, <3>1
  <2>4. /\ DOMAIN pending' = DOMAIN pending \ {id}
        /\ \A x \in DOMAIN pending' : pending'[x] = pending[x]
    BY <2>1 DEF Remove, Restrict
  <2> QED BY <2>1, <2>3, <2>4 DEF Final, Used
<1>5. ASSUME NEW ids \in SUBSET DOMAIN pending, Drop(ids) PROVE Final
  <2>1. DOMAIN Restrict(pending, ids) = ids
    BY DEF Restrict
  <2>2. /\ DOMAIN dropped' = DOMAIN dropped \cup ids
        /\ \A x \in DOMAIN dropped : dropped'[x] = dropped[x]
    BY <1>5, <2>1 DEF Drop, OneFate, Overlay
  <2>3. /\ DOMAIN pending' = DOMAIN pending \ ids
        /\ \A x \in DOMAIN pending' : pending'[x] = pending[x]
    BY <1>5 DEF Drop, Remove, Restrict
  <2> QED BY <1>5, <2>2, <2>3 DEF Drop, Final, Used
<1>6. CASE UNCHANGED abstractVars
  BY <1>6 DEF abstractVars, Final, Used
<1> QED BY <1>1, <1>2, <1>3, <1>4, <1>5, <1>6 DEF JQNext

(* What was submitted stays submitted: its job waits, is done or was given  *)
(* up.                                                                      *)
LEMMA SubmittedStays ==
  ASSUME OneFate, [JQNext]_abstractVars, NEW key \in Submitted
  PROVE  key \in Submitted'
<1> USE DEF Submitted, Range
<1>1. ASSUME NEW id \in Id, NEW k \in Key, Submit(id, k) PROVE key \in Submitted'
  <2>1. /\ DOMAIN pending' = DOMAIN pending \cup {id}
        /\ \A x \in DOMAIN pending : pending'[x] = pending[x]
    BY <1>1 DEF Submit, Used, Put, Overlay
  <2> QED BY <1>1, <2>1 DEF Submit
<1>2. ASSUME NEW k, NEW res, Hand(k, res) PROVE key \in Submitted'
  BY <1>2 DEF Hand
<1>3. ASSUME NEW k, NEW results, Refuse(k, results) PROVE key \in Submitted'
  BY <1>3 DEF Refuse
<1>4. ASSUME NEW id \in DOMAIN pending, NEW found, Close(id, found)
      PROVE  key \in Submitted'
  <2>1. /\ DOMAIN closed' = DOMAIN closed \cup {id}
        /\ closed'[id].key = pending[id]
        /\ \A x \in DOMAIN closed : closed'[x] = closed[x]
    BY <1>4 DEF Close, OneFate, Put, Overlay
  <2>2. /\ DOMAIN pending' = DOMAIN pending \ {id}
        /\ \A x \in DOMAIN pending' : pending'[x] = pending[x]
    BY <1>4 DEF Close, Remove, Restrict
  <2>3. ASSUME NEW x \in DOMAIN pending, pending[x] = key PROVE key \in Submitted'
    BY <2>1, <2>2, <2>3
  <2>4. ASSUME NEW x \in DOMAIN closed, closed[x].key = key PROVE key \in Submitted'
    BY <2>1, <2>4
  <2> QED BY <1>4, <2>3, <2>4 DEF Close
<1>5. ASSUME NEW ids \in SUBSET DOMAIN pending, Drop(ids) PROVE key \in Submitted'
  <2>1. /\ DOMAIN dropped' = DOMAIN dropped \cup ids
        /\ \A x \in ids : dropped'[x] = pending[x]
        /\ \A x \in DOMAIN dropped : dropped'[x] = dropped[x]
    BY <1>5 DEF Drop, OneFate, Overlay, Restrict
  <2>2. /\ DOMAIN pending' = DOMAIN pending \ ids
        /\ \A x \in DOMAIN pending' : pending'[x] = pending[x]
    BY <1>5 DEF Drop, Remove, Restrict
  <2>3. ASSUME NEW x \in DOMAIN pending, pending[x] = key PROVE key \in Submitted'
    BY <2>1, <2>2, <2>3
  <2>4. ASSUME NEW x \in DOMAIN dropped, dropped[x] = key PROVE key \in Submitted'
    BY <2>1, <2>4
  <2> QED BY <1>5, <2>3, <2>4 DEF Drop
<1>6. CASE UNCHANGED abstractVars
  BY <1>6 DEF abstractVars
<1> QED BY <1>1, <1>2, <1>3, <1>4, <1>5, <1>6 DEF JQNext

(* One fate per id, one pending job per key. *)
LEMMA StepFate ==
  ASSUME OneFate, [JQNext]_abstractVars
  PROVE  OneFate'
<1>1. ASSUME NEW id \in Id, NEW key \in Key, Submit(id, key) PROVE OneFate'
  <2>1. /\ DOMAIN pending' = DOMAIN pending \cup {id} /\ pending'[id] = key
        /\ \A x \in DOMAIN pending : pending'[x] = pending[x]
    BY <1>1 DEF Submit, Used, Put, Overlay
  <2>2. \A x \in DOMAIN pending : pending[x] # key
    BY <1>1 DEF Submit, Range
  <2> QED BY <1>1, <2>1, <2>2 DEF Submit, Used, OneFate
<1>2. ASSUME NEW key, NEW res, Hand(key, res) PROVE OneFate'
  BY <1>2 DEF Hand, OneFate
<1>3. ASSUME NEW key, NEW results, Refuse(key, results) PROVE OneFate'
  BY <1>3 DEF Refuse, OneFate
<1>4. ASSUME NEW id \in DOMAIN pending, NEW found, Close(id, found) PROVE OneFate'
  <2>1. DOMAIN closed' = DOMAIN closed \cup {id}
    BY <1>4 DEF Close, Put, Overlay
  <2>2. /\ DOMAIN pending' = DOMAIN pending \ {id}
        /\ \A x \in DOMAIN pending' : pending'[x] = pending[x]
    BY <1>4 DEF Close, Remove, Restrict
  <2> QED BY <1>4, <2>1, <2>2 DEF Close, OneFate
<1>5. ASSUME NEW ids \in SUBSET DOMAIN pending, Drop(ids) PROVE OneFate'
  <2>1. DOMAIN dropped' = DOMAIN dropped \cup ids
    BY <1>5 DEF Drop, Overlay, Restrict
  <2>2. /\ DOMAIN pending' = DOMAIN pending \ ids
        /\ \A x \in DOMAIN pending' : pending'[x] = pending[x]
    BY <1>5 DEF Drop, Remove, Restrict
  <2> QED BY <1>5, <2>1, <2>2 DEF Drop, OneFate
<1>6. CASE UNCHANGED abstractVars
  BY <1>6 DEF abstractVars, OneFate
<1> QED BY <1>1, <1>2, <1>3, <1>4, <1>5, <1>6 DEF JQNext

(* What a closed job found stays accounted for, and a job is closed only when
   what it found is. *)
LEMMA StepAtLeastOnce ==
  ASSUME OneFate, AtLeastOnce, [JQNext]_abstractVars
  PROVE  AtLeastOnce'
<1> SUFFICES ASSUME NEW id \in DOMAIN closed'
             PROVE  Accounted(closed[id].key, closed[id].found)'
  BY DEF AtLeastOnce
<1>1. /\ handed \subseteq handed' /\ refused \subseteq refused'
      /\ \A x \in DOMAIN closed : closed'[x] = closed[x]
  BY StepFinal DEF Final
<1>2. CASE id \in DOMAIN closed
  <2>1. Accounted(closed[id].key, closed[id].found) /\ closed'[id] = closed[id]
    BY <1>1, <1>2 DEF AtLeastOnce
  <2> QED BY <1>1, <2>1 DEF Accounted
<1>3. CASE id \notin DOMAIN closed
  <2>1. PICK x \in DOMAIN pending, found \in SUBSET Result : Close(x, found)
    BY <1>3 DEF JQNext, abstractVars, Submit, Hand, Refuse, Drop
  <2>2. id = x /\ closed'[id] = [key |-> pending[x], found |-> found]
    BY <1>3, <2>1 DEF Close, Put, Overlay
  <2>3. Accounted(pending[x], found) /\ UNCHANGED <<handed, refused>>
    BY <2>1 DEF Close
  <2> QED BY <2>2, <2>3 DEF Accounted
<1> QED BY <1>2, <1>3

(* What is handed over or refused is of a key submitted by then. *)
LEMMA StepNothingInvented ==
  ASSUME OneFate, NothingInvented, [JQNext]_abstractVars
  PROVE  NothingInvented'
<1> SUFFICES ASSUME NEW pair \in handed' \cup refused'
             PROVE  pair[1] \in Submitted'
  BY DEF NothingInvented
<1>1. pair[1] \in Submitted
  <2>1. CASE pair \in handed \cup refused
    BY <2>1 DEF NothingInvented
  <2>2. CASE pair \notin handed \cup refused
    <3>1. ASSUME NEW key \in Submitted, NEW res, Hand(key, res)
          PROVE  pair[1] \in Submitted
      BY <2>2, <3>1 DEF Hand
    <3>2. ASSUME NEW key \in Submitted, NEW results, Refuse(key, results)
          PROVE  pair[1] \in Submitted
      BY <2>2, <3>2 DEF Refuse
    <3> QED BY <2>2, <3>1, <3>2 DEF JQNext, abstractVars, Submit, Close, Drop
  <2> QED BY <2>1, <2>2
<1> QED BY <1>1, SubmittedStays

-----------------------------------------------------------------------------
(* Every id has one fate, what a closed job found was handed over or kept   *)
(* back by an error ("at-least-once", PLAN.md), and nothing was made up.    *)
THEOREM Kept == JQSpec => []Promises
<1>1. JQInit => Promises
  BY DEF JQInit, Promises, OneFate, AtLeastOnce, NothingInvented, NoEntries
<1>2. Promises /\ [JQNext]_abstractVars => Promises'
  BY StepFate, StepAtLeastOnce, StepNothingInvented DEF Promises
<1> QED BY <1>1, <1>2, PTL DEF JQSpec

(* No step takes back a result, a completion or a drop, nor submits an id   *)
(* again: what a neighbour has seen stays true.                             *)
THEOREM FateIsFinal == JQSpec => FatesFinal
<1>1. JQInit => OneFate
  BY DEF JQInit, OneFate, NoEntries
<1>2. OneFate /\ [JQNext]_abstractVars => OneFate'
  BY StepFate
<1>3. OneFate /\ [JQNext]_abstractVars => [Final]_abstractVars
  BY StepFinal
<1> QED BY <1>1, <1>2, <1>3, PTL DEF JQSpec, FatesFinal

=============================================================================
