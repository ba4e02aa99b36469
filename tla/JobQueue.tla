------------------------------ MODULE JobQueue ------------------------------
(***************************************************************************)
(* What a stage of the pipeline promises its neighbours (PLAN.md: "Stages  *)
(* communicate only through leased Postgres queues.  Crash-safe at-least-  *)
(* once."), with no leases, workers, crashes or clocks in sight.           *)
(*                                                                         *)
(* A job is submitted under a fresh id and for a key that no pending job   *)
(* has.  Working on it yields a set of results; results reach the next     *)
(* stage in any order, more than once, and even for a job that is already  *)
(* over, but never for a key that was not submitted.  A job leaves the     *)
(* queue once and for all: closed, when every result of some run of it was *)
(* handed over or refused, or dropped.                                     *)
(***************************************************************************)
EXTENDS Tables

CONSTANTS Id,             \* names of jobs
          Key,            \* what jobs are about
          Result,         \* what a run of a job may find
          Decoys          \* sets of results that are not worth reporting

VARIABLES pending,        \* job id -> key, for the jobs in the queue
          closed,         \* job id -> [key, found by the run that closed it]
          dropped,        \* job id -> key, for the jobs given up
          handed,         \* <<key, result>> pairs the next stage was given
          refused         \* <<key, result>> pairs it did not take

abstractVars == <<pending, closed, dropped, handed, refused>>

Used == DOMAIN pending \cup DOMAIN closed \cup DOMAIN dropped

Submitted == Range(pending) \cup Range(dropped)
               \cup {closed[id].key : id \in DOMAIN closed}

JQInit ==
  /\ pending = NoEntries
  /\ closed = NoEntries
  /\ dropped = NoEntries
  /\ handed = {}
  /\ refused = {}

Submit(id, key) ==
  /\ id \notin Used
  /\ key \notin Range(pending)
  /\ pending' = Put(pending, id, key)
  /\ UNCHANGED <<closed, dropped, handed, refused>>

Hand(key, res) ==
  /\ key \in Submitted
  /\ handed' = handed \cup {<<key, res>>}
  /\ UNCHANGED <<pending, closed, dropped, refused>>

(* One error may keep several results back. *)
Refuse(key, results) ==
  /\ key \in Submitted
  /\ refused' = refused \cup {key} \X results
  /\ UNCHANGED <<pending, closed, dropped, handed>>

(* A run that found a decoy is closed with nothing reported. *)
Accounted(key, found) ==
  \/ found \in Decoys
  \/ \A res \in found : <<key, res>> \in handed \cup refused

Close(id, found) ==
  /\ id \in DOMAIN pending
  /\ Accounted(pending[id], found)
  /\ closed' = Put(closed, id, [key |-> pending[id], found |-> found])
  /\ pending' = Remove(pending, {id})
  /\ UNCHANGED <<dropped, handed, refused>>

(* Several jobs may be given up at once. *)
Drop(ids) ==
  /\ ids \subseteq DOMAIN pending
  /\ dropped' = Overlay(dropped, Restrict(pending, ids))
  /\ pending' = Remove(pending, ids)
  /\ UNCHANGED <<closed, handed, refused>>

JQNext ==
  \/ \E id \in Id, key \in Key : Submit(id, key)
  \/ \E key \in Submitted, res \in Result : Hand(key, res)
  \/ \E key \in Submitted, results \in SUBSET Result : Refuse(key, results)
  \/ \E id \in DOMAIN pending, found \in SUBSET Result : Close(id, found)
  \/ \E ids \in SUBSET DOMAIN pending : Drop(ids)

JQSpec == JQInit /\ [][JQNext]_abstractVars

-----------------------------------------------------------------------------
(* What the neighbours may rely on.                                         *)

(* A job is waiting, done or given up, and no two wait for the same key
   (UNIQUE and ON CONFLICT DO NOTHING of the queue tables). *)
OneFate ==
  /\ DOMAIN pending \cap DOMAIN closed = {}
  /\ DOMAIN pending \cap DOMAIN dropped = {}
  /\ DOMAIN closed \cap DOMAIN dropped = {}
  /\ \A x, y \in DOMAIN pending : pending[x] = pending[y] => x = y

(* "at-least-once" (PLAN.md): what the run that closed a job found has been
   handed over, now and ever after, but for what an error kept back. *)
AtLeastOnce ==
  \A id \in DOMAIN closed : Accounted(closed[id].key, closed[id].found)

(* Nothing is handed over, nor lost to an error, for a key that nobody
   submitted. *)
NothingInvented ==
  \A pair \in handed \cup refused : pair[1] \in Submitted

Promises == OneFate /\ AtLeastOnce /\ NothingInvented

(* A job keeps its key while it waits, an id is never used again, and neither
   a job that is over nor a result that was handed over is taken back. *)
Final ==
  /\ handed \subseteq handed' /\ refused \subseteq refused'
  /\ \A id \in DOMAIN closed : id \in DOMAIN closed' /\ closed'[id] = closed[id]
  /\ \A id \in DOMAIN dropped : id \in DOMAIN dropped' /\ dropped'[id] = dropped[id]
  /\ \A id \in Used :
       id \in Used' /\ (id \in DOMAIN pending' =>
                          id \in DOMAIN pending /\ pending'[id] = pending[id])

FatesFinal == [][Final]_abstractVars

=============================================================================
