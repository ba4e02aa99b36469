------------------------------ MODULE DeepScan ------------------------------
(***************************************************************************)
(* Stage 2, run_deepscan of src/main.rs: any number of replicas drain the  *)
(* queue of hosts (queue_host_scans), run masscan on each host and insert  *)
(* one row per open port into queue_service_probes.                        *)
(*                                                                         *)
(* A replica is one claim loop and the tasks it spawned.  The loop reads   *)
(* the clock, claims one row, counts the attempt, waits for a permit and   *)
(* hands the row to a task; after SweepEvery rows it also runs the two     *)
(* statements of LeasedQueue::sweep, with the time it read at the top of   *)
(* the iteration.  A row in the hands of the loop or of a task is a job.   *)
(* Every SQL statement is an action of its own, so that anything may       *)
(* happen between two of them: other replicas, the clock, a crash of the   *)
(* replica (an OOM kill of its container), a statement that fails.         *)
(***************************************************************************)
EXTENDS LeasedQueue

CONSTANTS
  Ip,              \* hosts
  Port,            \* ports a deep scan may find open
  Replica,         \* deepscan processes
  JobId,           \* names for the jobs in flight
  MaxConcurrent,   \* permits of a replica's semaphore: 2
  MaxAttempts,     \* 3
  SweepEvery,      \* 50
  Threshold,       \* scanner.honeypot_port_threshold
  MaxClock,        \* bound: the clock stops here
  MaxRows,         \* bound: rows ever inserted in queue_host_scans
  MaxFaults        \* bound: crashes and failed statements

ASSUME DeepScanAssumption ==
  /\ IsFiniteSet(JobId)
  /\ MaxConcurrent \in Nat \ {0}
  /\ MaxAttempts \in Nat \ {0}
  /\ SweepEvery \in Nat \ {0}
  /\ Threshold \in Nat
  /\ MaxClock \in Nat
  /\ MaxRows \in Nat
  /\ MaxFaults \in Nat

VARIABLES
  clock,           \* SystemTime::now() in seconds, the same for all replicas
  queue,           \* queue_host_scans
  nextId,          \* its identity sequence
  pc,              \* where each claim loop is
  t,               \* the time each loop read at the top of its iteration
  tick,            \* sweep_tick modulo SweepEvery
  permits,         \* free permits of each replica's semaphore
  jobs,            \* rows in the hands of loops and tasks
  faults,          \* crashes and failed statements so far
  (* history, read by no action: *)
  handed,          \* <<ip, port>> ever inserted in queue_service_probes
  refused,         \* <<ip, port>> whose insertion failed
  closed,          \* row id -> [key, found] of the rows a task completed
  dropped          \* row id -> key of the rows the sweep deleted

loopVars == <<pc, t, tick>>
history == <<handed, refused, closed, dropped>>
vars == <<clock, queue, nextId, loopVars, permits, jobs, faults, history>>

(***************************************************************************)
(* Some definitions below are preceded by a faulty version of themselves   *)
(* (ClaimableAtExpiry, AcquireNothing, ...).  No action uses those: they   *)
(* show which property breaks when the code has that fault.                *)
(***************************************************************************)

(***************************************************************************)
(* A job's lease is what the claim wrote in claimed_until.  The worker     *)
(* does not keep it: it is here for the properties only.                   *)
(***************************************************************************)
Job == [replica: Replica, id: Nat, ip: Ip, lease: Nat,
        state: {"claimed", "counted", "scan", "insert", "complete"},
        found: SUBSET Port,      \* open ports masscan reported
        todo: SUBSET Port]       \* those not yet inserted

InLoop(j) == jobs[j].state \in {"claimed", "counted"}

(* The tasks of r that hold a permit. *)
Tasks(r) == {j \in DOMAIN jobs : jobs[j].replica = r /\ ~InLoop(j)}

Init ==
  /\ clock = 1
  /\ queue = NoEntries
  /\ nextId = 1
  /\ pc = [r \in Replica |-> "read"]
  /\ t = [r \in Replica |-> 0]
  /\ tick = [r \in Replica |-> 0]
  /\ permits = [r \in Replica |-> MaxConcurrent]
  /\ jobs = NoEntries
  /\ faults = 0
  /\ handed = {}
  /\ refused = {}
  /\ closed = NoEntries
  /\ dropped = NoEntries

(***************************************************************************)
(* A fault is a crash or a failed statement.  None is taken so late that   *)
(* the lease it leaves behind could not run out before MaxClock.           *)
(***************************************************************************)
Fault ==
  /\ faults < MaxFaults
  /\ clock + LeaseTime < MaxClock
  /\ faults' = faults + 1

Goto(r, label) == pc' = [pc EXCEPT ![r] = label]

-----------------------------------------------------------------------------
(* run_sweep, the stage before: a host answered the discovery scan. *)
InsertHostScan(ip) ==
  /\ nextId <= MaxRows
  /\ queue' = Insert(queue, nextId, ip)
  /\ nextId' = IF ip \in Keys(queue) THEN nextId ELSE nextId + 1
  /\ UNCHANGED <<clock, loopVars, permits, jobs, faults, history>>

Tick ==
  /\ clock < MaxClock
  /\ clock' = clock + 1
  /\ UNCHANGED <<queue, nextId, loopVars, permits, jobs, faults, history>>

-----------------------------------------------------------------------------
(* The claim loop. *)

ReadClock(r) ==
  /\ pc[r] = "read"
  /\ t' = [t EXCEPT ![r] = clock]
  /\ Goto(r, "claim")
  /\ UNCHANGED <<clock, queue, nextId, tick, permits, jobs, faults, history>>

NewJob(r, id) ==
  [replica |-> r, id |-> id, ip |-> queue[id].key, lease |-> t[r] + LeaseTime,
   state |-> "claimed", found |-> {}, todo |-> {}]

ClaimHostScan(r) ==
  /\ pc[r] = "claim"
  /\ \E id \in Claimed(queue, 1, t[r]), j \in JobId \ DOMAIN jobs :
       jobs' = Put(jobs, j, NewJob(r, id))
  /\ queue' = Claim(queue, 1, t[r])
  /\ Goto(r, "body")
  /\ UNCHANGED <<clock, nextId, t, tick, permits, faults, history>>

(* Nothing to claim: sleep 100ms and start over. *)
ClaimNothing(r) ==
  /\ pc[r] = "claim"
  /\ Claimed(queue, 1, t[r]) = {}
  /\ Goto(r, "read")
  /\ UNCHANGED <<clock, queue, nextId, t, tick, permits, jobs, faults, history>>

(***************************************************************************)
(* unwrap_or_default takes an error for an empty answer, also when the     *)
(* statement was committed and only its answer was lost.                   *)
(***************************************************************************)
ClaimFails(r) ==
  /\ pc[r] = "claim"
  /\ Fault
  /\ queue' \in {queue, Claim(queue, 1, t[r])}
  /\ Goto(r, "read")
  /\ UNCHANGED <<clock, nextId, t, tick, permits, jobs, history>>

SetState(j, state) == jobs' = [jobs EXCEPT ![j].state = state]

CountAttempt(j) ==
  /\ jobs[j].state = "claimed"
  /\ \/ /\ queue' = IncrementAttempts(queue, jobs[j].id)
        /\ UNCHANGED faults
     \/ Fault /\ UNCHANGED queue
  /\ SetState(j, "counted")
  /\ UNCHANGED <<clock, nextId, loopVars, permits, history>>

(* The semaphore: acquire_owned before a task is spawned, the permit's drop *)
(* when it ends.                                                            *)
AcquireNothing(r) == UNCHANGED permits

Acquire(r) ==
  /\ permits[r] > 0
  /\ permits' = [permits EXCEPT ![r] = @ - 1]

ReleaseNothing(r) == UNCHANGED permits

Release(r) == permits' = [permits EXCEPT ![r] = @ + 1]

(* acquire_owned, tokio::spawn and the sweep tick: nothing awaits between. *)
SpawnTask(j) ==
  LET r == jobs[j].replica
      next == (tick[r] + 1) % SweepEvery
  IN /\ jobs[j].state = "counted"
     /\ Acquire(r)
     /\ SetState(j, "scan")
     /\ tick' = [tick EXCEPT ![r] = next]
     /\ Goto(r, IF next = 0 THEN "requeue" ELSE "read")
     /\ UNCHANGED <<clock, queue, nextId, t, faults, history>>

SweepFirst(r) ==
  /\ pc[r] = "requeue"
  /\ queue' = SweepRequeue(queue, MaxAttempts, t[r])
  /\ Goto(r, "drop")
  /\ UNCHANGED <<clock, nextId, t, tick, permits, jobs, faults, history>>

SweepSecond(r) ==
  /\ pc[r] = "drop"
  /\ queue' = SweepDelete(queue, MaxAttempts, t[r])
  /\ dropped' = Overlay(dropped, [id \in Swept(queue, MaxAttempts, t[r]) |->
                                    queue[id].key])
  /\ Goto(r, "read")
  /\ UNCHANGED <<clock, nextId, t, tick, permits, jobs, faults,
                 handed, refused, closed>>

(* The first statement's error returns before the second; both are ignored. *)
SweepFails(r) ==
  /\ pc[r] \in {"requeue", "drop"}
  /\ Fault
  /\ Goto(r, "read")
  /\ UNCHANGED <<clock, queue, nextId, t, tick, permits, jobs, history>>

-----------------------------------------------------------------------------
(* A spawned task. *)

Honeypot(found) == Cardinality(found) > Threshold

(***************************************************************************)
(* masscan ends.  A masscan that failed or was killed is a scan that found *)
(* nothing (unwrap_or_default).  More than Threshold open ports is a       *)
(* honeypot: no port is inserted.  Its UPDATE of hosts touches no state    *)
(* modelled here and its result is ignored.                                *)
(***************************************************************************)
ScanEnds(j) ==
  /\ jobs[j].state = "scan"
  /\ \E found \in SUBSET Port :
       jobs' = [jobs EXCEPT ![j].state = "insert",
                            ![j].found = found,
                            ![j].todo = IF Honeypot(found) THEN {} ELSE found]
  /\ UNCHANGED <<clock, queue, nextId, loopVars, permits, faults, history>>

(* One insert per result, in masscan's order; a failure is logged, no more.
   The address inserted is the one in masscan's output, taken here to be that
   of the host it was run on; Sweep has the files that make it another's. *)
InsertServiceProbe(j) ==
  /\ jobs[j].state = "insert"
  /\ \E port \in jobs[j].todo :
       /\ jobs' = [jobs EXCEPT ![j].todo = @ \ {port}]
       /\ \/ /\ handed' = handed \cup {<<jobs[j].ip, port>>}
             /\ UNCHANGED <<refused, faults>>
          \/ /\ Fault
             /\ refused' = refused \cup {<<jobs[j].ip, port>>}
             /\ UNCHANGED handed
  /\ UNCHANGED <<clock, queue, nextId, loopVars, permits, closed, dropped>>

InsertsSkipped(j) ==
  /\ jobs[j].state = "insert"
  /\ SetState(j, "complete")
  /\ UNCHANGED <<clock, queue, nextId, loopVars, permits, faults, history>>

InsertsDone(j) ==
  /\ jobs[j].state = "insert"
  /\ jobs[j].todo = {}
  /\ SetState(j, "complete")
  /\ UNCHANGED <<clock, queue, nextId, loopVars, permits, faults, history>>

(* The task ends and its permit goes back to the semaphore. *)
EndTask(j) ==
  /\ jobs' = Remove(jobs, {j})
  /\ Release(jobs[j].replica)

CompleteJob(j) ==
  /\ jobs[j].state = "complete"
  /\ queue' = Complete(queue, jobs[j].id)
  /\ closed' = IF jobs[j].id \in DOMAIN queue
               THEN Put(closed, jobs[j].id, [key |-> jobs[j].ip,
                                             found |-> jobs[j].found])
               ELSE closed
  /\ EndTask(j)
  /\ UNCHANGED <<clock, nextId, loopVars, faults, handed, refused, dropped>>

(* The DELETE fails and nobody looks: the row stays until its lease ends. *)
CompleteFails(j) ==
  /\ jobs[j].state = "complete"
  /\ Fault
  /\ EndTask(j)
  /\ UNCHANGED <<clock, queue, nextId, loopVars, history>>

-----------------------------------------------------------------------------
(* The process dies with its loop, its tasks and its semaphore ... *)
Crash(r) ==
  /\ pc[r] # "down"
  /\ Fault
  /\ Goto(r, "down")
  /\ jobs' = Remove(jobs, {j \in DOMAIN jobs : jobs[j].replica = r})
  /\ UNCHANGED <<clock, queue, nextId, t, tick, permits, history>>

(* ... and its container is started again (restart: unless-stopped). *)
Restart(r) ==
  /\ pc[r] = "down"
  /\ Goto(r, "read")
  /\ t' = [t EXCEPT ![r] = 0]
  /\ tick' = [tick EXCEPT ![r] = 0]
  /\ permits' = [permits EXCEPT ![r] = MaxConcurrent]
  /\ UNCHANGED <<clock, queue, nextId, jobs, faults, history>>

-----------------------------------------------------------------------------
LoopStep(r) ==
  \/ ReadClock(r)
  \/ ClaimHostScan(r)
  \/ ClaimNothing(r)
  \/ SweepFirst(r)
  \/ SweepSecond(r)

JobStep(j) ==
  \/ CountAttempt(j)
  \/ SpawnTask(j)
  \/ ScanEnds(j)
  \/ InsertServiceProbe(j)
  \/ InsertsDone(j)
  \/ CompleteJob(j)

Next ==
  \/ \E ip \in Ip : InsertHostScan(ip)
  \/ Tick
  \/ \E r \in Replica :
       LoopStep(r) \/ ClaimFails(r) \/ SweepFails(r) \/ Crash(r) \/ Restart(r)
  \/ \E j \in DOMAIN jobs : JobStep(j) \/ CompleteFails(j)

Spec == Init /\ [][Next]_vars

(***************************************************************************)
(* The scheduler runs every loop and every task, masscan ends, the clock   *)
(* advances and a dead container is restarted.  Nothing is asked of the    *)
(* stage before, and nothing forces a fault.                               *)
(***************************************************************************)
Fairness ==
  /\ WF_vars(Tick)
  /\ \A r \in Replica : WF_vars(LoopStep(r)) /\ WF_vars(Restart(r))
  /\ \A j \in JobId : WF_vars(j \in DOMAIN jobs /\ JobStep(j))

FairSpec == Spec /\ Fairness

-----------------------------------------------------------------------------
(* Correctness properties. *)

TypeOK ==
  /\ clock \in Nat \ {0}
  /\ nextId \in Nat \ {0}
  /\ queue \in [DOMAIN queue -> Row(Ip)]
  /\ pc \in [Replica -> {"read", "claim", "body", "requeue", "drop", "down"}]
  /\ t \in [Replica -> Nat]
  /\ tick \in [Replica -> 0 .. SweepEvery - 1]
  /\ permits \in [Replica -> Nat]
  /\ DOMAIN jobs \subseteq JobId
  /\ jobs \in [DOMAIN jobs -> Job]
  /\ faults \in Nat
  /\ handed \subseteq Ip \X Port
  /\ refused \subseteq Ip \X Port
  /\ closed \in [DOMAIN closed -> [key: Ip, found: SUBSET Port]]
  /\ dropped \in [DOMAIN dropped -> Ip]
  \* one identity sequence numbers the rows, so each id has one fate
  /\ DOMAIN queue \cup DOMAIN closed \cup DOMAIN dropped = 1 .. nextId - 1
  /\ DOMAIN queue \cap DOMAIN closed = {}
  /\ DOMAIN queue \cap DOMAIN dropped = {}
  /\ DOMAIN closed \cap DOMAIN dropped = {}

(***************************************************************************)
(* "so we never launch more than max_concurrent masscan at once per        *)
(* replica" (main.rs): whatever happens between acquiring a permit and     *)
(* giving it back, including crashes, lost leases and failed completions,  *)
(* a replica never has more than MaxConcurrent tasks, and no permit leaks: *)
(* the free ones and those of the tasks are all there are.                 *)
(***************************************************************************)
PermitBound ==
  \A r \in Replica :
    /\ Cardinality(Tasks(r)) <= MaxConcurrent
    /\ pc[r] # "down" => permits[r] + Cardinality(Tasks(r)) = MaxConcurrent

Live(j) == clock <= jobs[j].lease

(***************************************************************************)
(* The mutual exclusion a lease gives: of two workers that hold the same   *)
(* row, at least one has outlived the lease it claimed the row with.       *)
(***************************************************************************)
LiveLeaseExclusive ==
  \A i, j \in DOMAIN jobs :
    i # j /\ jobs[i].id = jobs[j].id => ~Live(i) \/ ~Live(j)

(***************************************************************************)
(* While a worker's lease runs, nobody takes the row from it: its row is   *)
(* never dropped by a sweep, however old the time the sweep compares with, *)
(* and while it is in the queue it carries the worker's lease.             *)
(***************************************************************************)
LeaseProtects ==
  \A j \in DOMAIN jobs :
    Live(j) => /\ jobs[j].id \notin DOMAIN dropped
               /\ jobs[j].id \in DOMAIN queue =>
                    queue[jobs[j].id].claimedUntil = jobs[j].lease

(***************************************************************************)
(* A lease that still runs is taken, shortened or lifted by nobody, also   *)
(* when its claimer crashed or never got the answer: claims and sweeps     *)
(* compare with a time that may be old, but never with one to come.  Only  *)
(* complete, which asks for no lease, deletes such a row, and a worker     *)
(* that has it at hand.                                                    *)
(***************************************************************************)
LeaseKept ==
  \A id \in DOMAIN queue :
    clock <= queue[id].claimedUntil =>
      \/ /\ id \in DOMAIN queue'
         /\ queue'[id].claimedUntil = queue[id].claimedUntil
      \/ \E j \in DOMAIN jobs : jobs[j].id = id /\ CompleteJob(j)

LeaseUndisturbed == [][LeaseKept]_vars

(***************************************************************************)
(* What makes the safety properties inductive.  A job is about a row that  *)
(* was inserted once, and wherever that row is now it is about the job's   *)
(* host; a loop's time is never ahead of the clock; past the scan, every   *)
(* port that is no longer to do was handed over or refused.                *)
(***************************************************************************)
JobKeys ==
  \A j \in DOMAIN jobs :
    /\ jobs[j].id \in 1 .. nextId - 1
    /\ jobs[j].id \in DOMAIN queue => queue[jobs[j].id].key = jobs[j].ip
    /\ jobs[j].id \in DOMAIN closed => closed[jobs[j].id].key = jobs[j].ip
    /\ jobs[j].id \in DOMAIN dropped => dropped[jobs[j].id] = jobs[j].ip

TimesPast == \A r \in Replica : t[r] <= clock

PermitsKept ==
  \A r \in Replica :
    IF pc[r] = "down"
    THEN \A j \in DOMAIN jobs : jobs[j].replica # r
    ELSE permits[r] + Cardinality(Tasks(r)) = MaxConcurrent

Accounted(j) ==
  \/ Honeypot(jobs[j].found)
  \/ \A port \in jobs[j].found \ jobs[j].todo :
       <<jobs[j].ip, port>> \in handed \cup refused

Reported ==
  \A j \in DOMAIN jobs :
    /\ jobs[j].state \in {"insert", "complete"} => Accounted(j)
    /\ jobs[j].state = "complete" => jobs[j].todo = {}

IInv ==
  /\ TypeOK
  /\ JobKeys
  /\ TimesPast
  /\ PermitsKept
  /\ LeaseProtects
  /\ LiveLeaseExclusive
  /\ Reported

(***************************************************************************)
(* The stage is an at-least-once queue: hosts are submitted under fresh    *)
(* ids, only hosts that were submitted are reported on, and a host leaves  *)
(* the queue either dropped or with every port of a finished scan handed   *)
(* to the next stage or refused by it, whatever crashes, expires or is     *)
(* done twice.                                                             *)
(***************************************************************************)
JQ == INSTANCE JobQueue WITH
        Id <- 1 .. MaxRows,
        Key <- Ip,
        Result <- Port,
        Decoys <- {found \in SUBSET Port : Honeypot(found)},
        pending <- [id \in DOMAIN queue |-> queue[id].key]

ImplementsJobQueue == JQ!JQSpec

(***************************************************************************)
(* "Leases prevent duplicate work across parallel workers or crashed       *)
(* nodes." (PLAN.md): a row is in the hands of one worker at a time.       *)
(***************************************************************************)
NoDuplicateWork ==
  \A i, j \in DOMAIN jobs : jobs[i].id = jobs[j].id => i = j

(***************************************************************************)
(* "Count the attempt so poison hosts are dropped after max_attempts"      *)
(* (main.rs): no row is attempted more often than that.                    *)
(***************************************************************************)
DroppedAfterMaxAttempts ==
  \A id \in DOMAIN queue : queue[id].attempts <= MaxAttempts

(***************************************************************************)
(* Nothing is stuck: a row that is in the queue is completed or dropped in *)
(* the end, whichever worker dies with it or fails to delete it.           *)
(***************************************************************************)
EveryRowLeaves ==
  \A id \in 1 .. MaxRows : id \in DOMAIN queue ~> id \notin DOMAIN queue

(***************************************************************************)
(* The claim loop, which holds a row while it waits for a permit, is never *)
(* blocked for good: tasks give their permits back on every path.          *)
(***************************************************************************)
LoopGoesOn == \A r \in Replica : pc[r] = "body" ~> pc[r] # "body"

=============================================================================
