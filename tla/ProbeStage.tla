----------------------------- MODULE ProbeStage -----------------------------
(***************************************************************************)
(* Stage 3, run_probe of src/main.rs with src/probe/dispatch.rs: replicas  *)
(* drain queue_service_probes, ask each endpoint what runs there, store    *)
(* the answer in hosts and services and queue the enrichments it calls     *)
(* for in queue_enrichments.                                               *)
(*                                                                         *)
(* A replica is one claim loop and its tasks.  Unlike the deep scan it     *)
(* claims Batch rows at once, spawns a task for each of them at once,      *)
(* counts no attempts and sweeps nothing: a row whose worker died waits    *)
(* for its lease to end.  As there, every SQL statement is an action.      *)
(***************************************************************************)
EXTENDS LeasedQueue

CONSTANTS
  Ip,              \* hosts
  Port,            \* an endpoint is a host and a port; transport is "tcp"
  Replica,         \* probe processes
  Answers,         \* what probes find
  Batch,           \* rows a claim takes: 10
  HoneypotServices,\* more services than this make a host a honeypot: 50
  MaxClock,        \* bound: the clock stops here
  MaxRows,         \* bound: rows ever inserted in queue_service_probes
  MaxFaults        \* bound: crashes and failed statements

Endpoint == Ip \X Port

Kind == {"favicon", "rtsp_frame", "camera_frame"}

(* The order in which maybe_enqueue_enrichments looks at the kinds. *)
Rank == [favicon |-> 1, rtsp_frame |-> 2, camera_frame |-> 3]

(***************************************************************************)
(* What a probe may find.  A firewalled endpoint is not stored.  Any other *)
(* answer is, and calls for enrichments: it has an http part or an rtsp    *)
(* part or neither, and the rtsp probe always tags its answer "camera".    *)
(***************************************************************************)
Firewalled == {"firewalled"}

Wanted ==
  {kinds \in SUBSET Kind :
     /\ ~({"favicon", "rtsp_frame"} \subseteq kinds)
     /\ "rtsp_frame" \in kinds => "camera_frame" \in kinds}

Answer == {Firewalled} \cup {{"service"} \cup kinds : kinds \in Wanted}

Result == {"firewalled", "service"} \cup Kind

ASSUME ProbeStageAssumption ==
  /\ Answers \subseteq Answer
  /\ Batch \in Nat \ {0}
  /\ HoneypotServices \in Nat
  /\ MaxClock \in Nat
  /\ MaxRows \in Nat
  /\ MaxFaults \in Nat

VARIABLES
  clock,           \* SystemTime::now() in seconds, the same for all replicas
  queue,           \* queue_service_probes
  nextId,          \* its identity sequence
  pc,              \* where each claim loop is
  t,               \* the time each loop read at the top of its iteration
  tasks,           \* the spawned tasks
  hosts,           \* ips with a row in hosts
  honeypots,       \* those of them with is_honeypot
  services,        \* endpoint -> enrichments the stored answer calls for
  faults,          \* crashes and failed statements so far
  (* history, read by no action: *)
  handed,          \* <<endpoint, result>>: stored, or queued for enrichment
  refused,         \* <<endpoint, result>> that an error kept back
  closed           \* row id -> [key, found] of the rows a task completed

store == <<hosts, honeypots, services>>
history == <<handed, refused, closed>>
vars == <<clock, queue, nextId, pc, t, tasks, store, faults, history>>

(***************************************************************************)
(* A task is named after the row and the lease it was claimed with: a row  *)
(* is claimed again only when its lease is over, and then for longer.      *)
(***************************************************************************)
Task == [replica: Replica, key: Endpoint,
         state: {"probe", "host", "upsert", "flag", "enqueue", "complete"},
         found: SUBSET Result,    \* what the probe found
         todo: SUBSET Kind]       \* enrichments not yet queued

RowId(j) == j[1]
Lease(j) == j[2]

Init ==
  /\ clock = 1
  /\ queue = NoEntries
  /\ nextId = 1
  /\ pc = [r \in Replica |-> "read"]
  /\ t = [r \in Replica |-> 0]
  /\ tasks = NoEntries
  /\ hosts = {}
  /\ honeypots = {}
  /\ services = NoEntries
  /\ faults = 0
  /\ handed = {}
  /\ refused = {}
  /\ closed = NoEntries

(* As in the deep scan, no fault comes too late for its lease to run out. *)
Fault ==
  /\ faults < MaxFaults
  /\ clock + LeaseTime < MaxClock
  /\ faults' = faults + 1

Goto(r, label) == pc' = [pc EXCEPT ![r] = label]

-----------------------------------------------------------------------------
(* The stage before found a port open. *)
InsertServiceProbe(key) ==
  /\ nextId <= MaxRows
  /\ queue' = Insert(queue, nextId, key)
  /\ nextId' = IF key \in Keys(queue) THEN nextId ELSE nextId + 1
  /\ UNCHANGED <<clock, pc, t, tasks, store, faults, history>>

Tick ==
  /\ clock < MaxClock
  /\ clock' = clock + 1
  /\ UNCHANGED <<queue, nextId, pc, t, tasks, store, faults, history>>

-----------------------------------------------------------------------------
(* The claim loop. *)

ReadClock(r) ==
  /\ pc[r] = "read"
  /\ t' = [t EXCEPT ![r] = clock]
  /\ Goto(r, "claim")
  /\ UNCHANGED <<clock, queue, nextId, tasks, store, faults, history>>

NewTask(r, id) ==
  [replica |-> r, key |-> queue[id].key, state |-> "probe",
   found |-> {}, todo |-> {}]

(* Claim and spawn: nothing awaits between the answer and the last spawn. *)
ClaimServiceProbes(r) ==
  LET ids == Claimed(queue, Batch, t[r])
      new == {<<id, t[r] + LeaseTime>> : id \in ids}
  IN /\ pc[r] = "claim"
     /\ ids # {}
     /\ tasks' = Overlay(tasks, [j \in new |-> NewTask(r, RowId(j))])
     /\ queue' = Claim(queue, Batch, t[r])
     /\ Goto(r, "read")
     /\ UNCHANGED <<clock, nextId, t, store, faults, history>>

(* Nothing to claim: sleep 100ms and start over. *)
ClaimNothing(r) ==
  /\ pc[r] = "claim"
  /\ Claimed(queue, Batch, t[r]) = {}
  /\ Goto(r, "read")
  /\ UNCHANGED <<clock, queue, nextId, t, tasks, store, faults, history>>

(* unwrap_or_default: an error is an empty answer, committed or not. *)
ClaimFails(r) ==
  /\ pc[r] = "claim"
  /\ Fault
  /\ queue' \in {queue, Claim(queue, Batch, t[r])}
  /\ Goto(r, "read")
  /\ UNCHANGED <<clock, nextId, t, tasks, store, history>>

-----------------------------------------------------------------------------
(* A spawned task: first probe::dispatch::probe, under a timeout. *)

SetState(j, state) == tasks' = [tasks EXCEPT ![j].state = state]

ProbeAnswers(j) ==
  /\ tasks[j].state = "probe"
  /\ \E found \in Answers :
       tasks' = [tasks EXCEPT ![j].state = "host", ![j].found = found]
  /\ UNCHANGED <<clock, queue, nextId, pc, t, store, faults, history>>

(* Whatever was found is forgotten, and the row is completed all the same. *)
GivenUp(j) ==
  tasks' = [tasks EXCEPT ![j].state = "complete", ![j].found = {}]

(* The probe fails, or the timeout strikes before the host is stored. *)
ProbeGivenUp(j) ==
  /\ tasks[j].state \in {"probe", "host"}
  /\ GivenUp(j)
  /\ UNCHANGED <<clock, queue, nextId, pc, t, store, faults, history>>

(***************************************************************************)
(* The host is stored also for a firewalled answer.  What follows before   *)
(* probe returns (reverse DNS, two GeoIP updates of the same row) touches  *)
(* nothing modelled, but may still fail or run into the timeout.           *)
(***************************************************************************)
EnsureHost(j) ==
  /\ tasks[j].state = "host"
  /\ hosts' = hosts \cup {tasks[j].key[1]}
  /\ SetState(j, "upsert") \/ GivenUp(j)
  /\ UNCHANGED <<clock, queue, nextId, pc, t, honeypots, services, faults,
                 history>>

-----------------------------------------------------------------------------
(* Then upsert_service ... *)

SkipFirewalled(j) ==
  /\ tasks[j].state = "upsert"
  /\ tasks[j].found = Firewalled
  /\ SetState(j, "complete")
  /\ UNCHANGED <<clock, queue, nextId, pc, t, store, faults, history>>

(* An answer replaces the one that was stored, whichever is older. *)
StoreAnswer(j) ==
  services' = Put(services, tasks[j].key, tasks[j].found \cap Kind)

Refuse(j, results) == refused' = refused \cup {tasks[j].key} \X results

ServicesOf(ip) == {key \in DOMAIN services : key[1] = ip}

(* The subselect counts the services stored so far, this one included. *)
IsHoneypot(ip) == Cardinality(ServicesOf(ip)) > HoneypotServices

WithFlag(ip) == IF IsHoneypot(ip) THEN honeypots \cup {ip} ELSE honeypots

UpsertFlagsFirst(j) ==
  /\ tasks[j].state = "upsert"
  /\ tasks[j].found # Firewalled
  /\ StoreAnswer(j)
  /\ honeypots' = WithFlag(tasks[j].key[1])
  /\ handed' = handed \cup {<<tasks[j].key, "service">>}
  /\ tasks' = [tasks EXCEPT ![j].state = "enqueue",
                            ![j].todo = tasks[j].found \cap Kind]
  /\ UNCHANGED <<clock, queue, nextId, pc, t, hosts, faults, refused, closed>>

UpsertService(j) ==
  /\ tasks[j].state = "upsert"
  /\ tasks[j].found # Firewalled
  /\ StoreAnswer(j)
  /\ handed' = handed \cup {<<tasks[j].key, "service">>}
  /\ tasks' = [tasks EXCEPT ![j].state = "flag",
                            ![j].todo = tasks[j].found \cap Kind]
  /\ UNCHANGED <<clock, queue, nextId, pc, t, hosts, honeypots, faults,
                 refused, closed>>

(* An error, committed or not, is logged and ends the matter. *)
UpsertFails(j) ==
  /\ tasks[j].state = "upsert"
  /\ tasks[j].found # Firewalled
  /\ Fault
  /\ StoreAnswer(j) \/ UNCHANGED services
  /\ Refuse(j, tasks[j].found)
  /\ SetState(j, "complete")
  /\ UNCHANGED <<clock, queue, nextId, pc, t, hosts, honeypots,
                 handed, closed>>

FlagHoneypot(j) ==
  /\ tasks[j].state = "flag"
  /\ honeypots' = WithFlag(tasks[j].key[1])
  /\ SetState(j, "enqueue")
  /\ UNCHANGED <<clock, queue, nextId, pc, t, hosts, services, faults,
                 history>>

(* upsert_service fails as a whole, so no enrichment is queued. *)
FlagFails(j) ==
  /\ tasks[j].state = "flag"
  /\ Fault
  /\ honeypots' \in {honeypots, WithFlag(tasks[j].key[1])}
  /\ Refuse(j, tasks[j].todo)
  /\ tasks' = [tasks EXCEPT ![j].state = "complete", ![j].todo = {}]
  /\ UNCHANGED <<clock, queue, nextId, pc, t, hosts, services,
                 handed, closed>>

-----------------------------------------------------------------------------
(* ... then maybe_enqueue_enrichments ... *)

First(kinds) == {kind \in kinds : \A other \in kinds : Rank[kind] <= Rank[other]}

EnqueueOnlyFirst(j) ==
  /\ tasks[j].state = "enqueue"
  /\ \E kind \in First(tasks[j].todo) :
       handed' = handed \cup {<<tasks[j].key, kind>>}
  /\ tasks' = [tasks EXCEPT ![j].todo = {}]
  /\ UNCHANGED <<clock, queue, nextId, pc, t, store, faults, refused, closed>>

EnqueueEnrichment(j) ==
  /\ tasks[j].state = "enqueue"
  /\ \E kind \in First(tasks[j].todo) :
       /\ handed' = handed \cup {<<tasks[j].key, kind>>}
       /\ tasks' = [tasks EXCEPT ![j].todo = @ \ {kind}]
  /\ UNCHANGED <<clock, queue, nextId, pc, t, store, faults, refused, closed>>

(* The first error returns, and the result is ignored. *)
EnqueueFails(j) ==
  /\ tasks[j].state = "enqueue"
  /\ tasks[j].todo # {}
  /\ Fault
  /\ Refuse(j, tasks[j].todo)
  /\ tasks' = [tasks EXCEPT ![j].state = "complete", ![j].todo = {}]
  /\ UNCHANGED <<clock, queue, nextId, pc, t, store, handed, closed>>

EnqueueDone(j) ==
  /\ tasks[j].state = "enqueue"
  /\ tasks[j].todo = {}
  /\ SetState(j, "complete")
  /\ UNCHANGED <<clock, queue, nextId, pc, t, store, faults, history>>

-----------------------------------------------------------------------------
(* ... and complete, on every path. *)

EndTask(j) == tasks' = Remove(tasks, {j})

CompleteTask(j) ==
  /\ tasks[j].state = "complete"
  /\ queue' = Complete(queue, RowId(j))
  /\ closed' = IF RowId(j) \in DOMAIN queue
               THEN Put(closed, RowId(j), [key |-> tasks[j].key,
                                         found |-> tasks[j].found])
               ELSE closed
  /\ EndTask(j)
  /\ UNCHANGED <<clock, nextId, pc, t, store, faults, handed, refused>>

CompleteFails(j) ==
  /\ tasks[j].state = "complete"
  /\ Fault
  /\ EndTask(j)
  /\ UNCHANGED <<clock, queue, nextId, pc, t, store, history>>

-----------------------------------------------------------------------------
Crash(r) ==
  /\ pc[r] # "down"
  /\ Fault
  /\ Goto(r, "down")
  /\ tasks' = Remove(tasks, {j \in DOMAIN tasks : tasks[j].replica = r})
  /\ UNCHANGED <<clock, queue, nextId, t, store, history>>

Restart(r) ==
  /\ pc[r] = "down"
  /\ Goto(r, "read")
  /\ t' = [t EXCEPT ![r] = 0]
  /\ UNCHANGED <<clock, queue, nextId, tasks, store, faults, history>>

-----------------------------------------------------------------------------
LoopStep(r) ==
  \/ ReadClock(r)
  \/ ClaimServiceProbes(r)
  \/ ClaimNothing(r)

TaskStep(j) ==
  \/ ProbeAnswers(j)
  \/ ProbeGivenUp(j)
  \/ EnsureHost(j)
  \/ SkipFirewalled(j)
  \/ UpsertService(j)
  \/ FlagHoneypot(j)
  \/ EnqueueEnrichment(j)
  \/ EnqueueDone(j)
  \/ CompleteTask(j)

TaskFails(j) ==
  \/ UpsertFails(j)
  \/ FlagFails(j)
  \/ EnqueueFails(j)
  \/ CompleteFails(j)

Next ==
  \/ \E key \in Endpoint : InsertServiceProbe(key)
  \/ Tick
  \/ \E r \in Replica :
       LoopStep(r) \/ ClaimFails(r) \/ Crash(r) \/ Restart(r)
  \/ \E j \in DOMAIN tasks : TaskStep(j) \/ TaskFails(j)

Spec == Init /\ [][Next]_vars

(***************************************************************************)
(* The scheduler runs every loop and every task, a probe is over after its *)
(* timeout at the latest, the clock advances and a dead container is       *)
(* restarted.                                                              *)
(***************************************************************************)
TaskName == (1 .. MaxRows) \X (1 .. MaxClock + LeaseTime)

Fairness ==
  /\ WF_vars(Tick)
  /\ \A r \in Replica : WF_vars(LoopStep(r)) /\ WF_vars(Restart(r))
  /\ \A j \in TaskName : WF_vars(j \in DOMAIN tasks /\ TaskStep(j))

FairSpec == Spec /\ Fairness

-----------------------------------------------------------------------------
(* Correctness properties. *)

TypeOK ==
  /\ clock \in Nat \ {0}
  /\ nextId \in Nat \ {0}
  /\ queue \in [DOMAIN queue -> Row(Endpoint)]
  /\ pc \in [Replica -> {"read", "claim", "down"}]
  /\ t \in [Replica -> Nat]
  /\ DOMAIN tasks \subseteq (Nat \ {0}) \X Nat
  /\ tasks \in [DOMAIN tasks -> Task]
  /\ hosts \subseteq Ip
  \* the foreign keys of services and of the honeypot flag
  /\ honeypots \subseteq hosts
  /\ services \in [DOMAIN services -> SUBSET Kind]
  /\ DOMAIN services \subseteq hosts \X Port
  /\ faults \in Nat
  /\ handed \subseteq Endpoint \X Result
  /\ refused \subseteq Endpoint \X Result
  /\ closed \in [DOMAIN closed -> [key: Endpoint, found: SUBSET Result]]
  \* one identity sequence numbers the rows, so each id has one fate
  /\ DOMAIN queue \cup DOMAIN closed = 1 .. nextId - 1
  /\ DOMAIN queue \cap DOMAIN closed = {}

Live(j) == clock <= Lease(j)

(***************************************************************************)
(* The mutual exclusion a lease gives, with rows claimed in batches and    *)
(* tasks started without bound: of two tasks on one row, at least one has  *)
(* outlived its lease.                                                     *)
(***************************************************************************)
LiveLeaseExclusive ==
  \A i, j \in DOMAIN tasks :
    i # j /\ RowId(i) = RowId(j) => ~Live(i) \/ ~Live(j)

(***************************************************************************)
(* A lease that still runs is taken or shortened by nobody, also when its  *)
(* claimer crashed or never got the answer: a claim compares with a time   *)
(* that may be old, but never with one to come.  Only complete, which asks *)
(* for no lease, deletes such a row, and a task on that row.               *)
(***************************************************************************)
LeaseKept ==
  \A id \in DOMAIN queue :
    clock <= queue[id].claimedUntil =>
      \/ /\ id \in DOMAIN queue'
         /\ queue'[id].claimedUntil = queue[id].claimedUntil
      \/ \E j \in DOMAIN tasks : RowId(j) = id /\ CompleteTask(j)

LeaseUndisturbed == [][LeaseKept]_vars

(***************************************************************************)
(* "Honeypot check - guarded by is_honeypot=false, runs once per honeypot" *)
(* (dispatch.rs): the upsert of a service and the count of the services of *)
(* its host are two statements, and tasks of several replicas interleave   *)
(* them.  Still, when no statement failed and no process died, no host is  *)
(* past the limit and unmarked with nobody left to mark it.                *)
(***************************************************************************)
HoneypotFlagged ==
  faults = 0 =>
    \A ip \in hosts :
      IsHoneypot(ip) =>
        \/ ip \in honeypots
        \/ \E j \in DOMAIN tasks :
              tasks[j].state = "flag" /\ tasks[j].key[1] = ip

(***************************************************************************)
(* What makes the safety properties inductive.  A task is about its row's  *)
(* endpoint wherever the row is; a loop's time is never ahead of the       *)
(* clock; a row carries the lease of its latest task, in particular of one *)
(* whose lease runs; a task that stores an answer has stored its host; and *)
(* what a task has found is still to do, or was handed over or refused.    *)
(***************************************************************************)
JobKeys ==
  \A j \in DOMAIN tasks :
    /\ RowId(j) \in 1 .. nextId - 1
    /\ RowId(j) \in DOMAIN queue => queue[RowId(j)].key = tasks[j].key
    /\ RowId(j) \in DOMAIN closed => closed[RowId(j)].key = tasks[j].key

TimesPast == \A r \in Replica : t[r] <= clock

LeasesCurrent ==
  \A j \in DOMAIN tasks :
    RowId(j) \in DOMAIN queue =>
      /\ Lease(j) <= queue[RowId(j)].claimedUntil
      /\ Live(j) => queue[RowId(j)].claimedUntil = Lease(j)

HostsStored ==
  \A j \in DOMAIN tasks :
    tasks[j].state \in {"upsert", "flag"} => tasks[j].key[1] \in hosts

Reported ==
  \A j \in DOMAIN tasks :
    LET Done(results) ==
          \A res \in results : <<tasks[j].key, res>> \in handed \cup refused
    IN /\ tasks[j].state \in {"host", "upsert", "flag", "enqueue"} =>
            tasks[j].found \in Answer
       /\ tasks[j].state \in {"flag", "enqueue"} =>
            tasks[j].found # Firewalled /\ Done(tasks[j].found \ tasks[j].todo)
       /\ tasks[j].state = "complete" =>
            tasks[j].found = Firewalled \/ Done(tasks[j].found)

IInv ==
  /\ TypeOK
  /\ JobKeys /\ TimesPast /\ HostsStored
  /\ LeasesCurrent /\ LiveLeaseExclusive
  /\ HoneypotFlagged
  /\ Reported

(***************************************************************************)
(* The stage is an at-least-once queue: an endpoint leaves it only after a *)
(* probe of it was given up or found it firewalled, or the answer and each *)
(* enrichment it calls for was stored and queued, or kept back by an       *)
(* error; nothing is ever stored or queued for an endpoint nobody asked    *)
(* about.  Nothing is dropped.                                             *)
(***************************************************************************)
JQ == INSTANCE JobQueue WITH
        Id <- 1 .. MaxRows,
        Key <- Endpoint,
        Result <- Result,
        Decoys <- {Firewalled},
        pending <- [id \in DOMAIN queue |-> queue[id].key],
        dropped <- NoEntries

ImplementsJobQueue == JQ!JQSpec

(***************************************************************************)
(* Nothing is stuck: every row leaves the queue in the end, although this  *)
(* stage never sweeps, whatever dies or fails while it is leased.          *)
(***************************************************************************)
EveryProbeLeaves ==
  \A id \in 1 .. MaxRows : id \in DOMAIN queue ~> id \notin DOMAIN queue

=============================================================================
