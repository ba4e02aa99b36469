--------------------------- MODULE DeepScanProofs ---------------------------
(***************************************************************************)
(* Proofs about DeepScan, for any number of hosts, ports, replicas, jobs,  *)
(* rows and faults, any lease, clock and sweep interval.                   *)
(***************************************************************************)
EXTENDS DeepScan, LeasedQueueProofs, FiniteSetTheorems

-----------------------------------------------------------------------------
(* Types. *)

LEMMA TypeInit == Init => TypeOK
  BY LeaseTimeAssumption, DeepScanAssumption
  DEF Init, TypeOK, NoEntries, Row

LEMMA TypeStep == TypeOK /\ [Next]_vars => TypeOK'
  <1> SUFFICES ASSUME TypeOK, [Next]_vars PROVE TypeOK'
    OBVIOUS
  <1> USE LeaseTimeAssumption, DeepScanAssumption
  <1>tab. IsTable(queue, Ip)
    BY DEF TypeOK, IsTable
  <1>1. ASSUME NEW ip \in Ip, InsertHostScan(ip) PROVE TypeOK'
    <2>1. nextId \notin DOMAIN queue
      BY DEF TypeOK
    <2>2. IsTable(queue', Ip) /\ 
          DOMAIN queue' = IF ip \in Keys(queue) THEN DOMAIN queue
                          ELSE DOMAIN queue \cup {nextId}
      BY <1>1, <1>tab, <2>1, InsertKeepsRows DEF InsertHostScan
    <2>3. /\ nextId' = IF ip \in Keys(queue) THEN nextId ELSE nextId + 1
          /\ UNCHANGED <<clock, pc, t, tick, permits, jobs, faults, handed,
                         refused, closed, dropped>>
      BY <1>1 DEF InsertHostScan, loopVars, history
    <2>4. /\ nextId' \in Nat \ {0}
          /\ DOMAIN queue' \cup DOMAIN closed \cup DOMAIN dropped
               = 1 .. nextId' - 1
          /\ DOMAIN queue' \cap DOMAIN closed = {}
          /\ DOMAIN queue' \cap DOMAIN dropped = {}
      <3>1. CASE ip \in Keys(queue)
        BY <2>2, <2>3, <3>1 DEF TypeOK
      <3>2. CASE ip \notin Keys(queue)
        <4>1. DOMAIN queue' = DOMAIN queue \cup {nextId} /\ nextId' = nextId + 1
          BY <2>2, <2>3, <3>2
        <4>2. /\ nextId \in Nat \ {0}
              /\ DOMAIN queue \cup DOMAIN closed \cup DOMAIN dropped
                   = 1 .. nextId - 1
              /\ DOMAIN queue \cap DOMAIN closed = {}
              /\ DOMAIN queue \cap DOMAIN dropped = {}
          BY DEF TypeOK
        <4>3. 1 .. nextId = (1 .. nextId - 1) \cup {nextId}
              /\ nextId \notin 1 .. nextId - 1 /\ nextId + 1 - 1 = nextId
          BY <4>2
        <4>4. DOMAIN queue' \cup DOMAIN closed' \cup DOMAIN dropped'
                = (1 .. nextId - 1) \cup {nextId}
          BY <2>3, <4>1, <4>2
        <4>5. DOMAIN queue' \cap DOMAIN closed' = {}
              /\ DOMAIN queue' \cap DOMAIN dropped' = {}
          BY <2>3, <4>1, <4>2, <4>3
        <4> QED
          BY <2>3, <4>1, <4>2, <4>3, <4>4, <4>5
      <3> QED
        BY <3>1, <3>2
    <2>5. queue' \in [DOMAIN queue' -> Row(Ip)]
      BY <2>2 DEF IsTable
    <2> QED
      BY <2>3, <2>4, <2>5 DEF TypeOK
  <1>2. CASE Tick
    BY <1>2 DEF Tick, TypeOK, loopVars, history
  <1>3. ASSUME NEW r \in Replica, ReadClock(r) PROVE TypeOK'
    BY <1>3 DEF ReadClock, Goto, TypeOK, history
  <1>4. ASSUME NEW r \in Replica, ClaimHostScan(r) PROVE TypeOK'
    <2>1. t[r] \in Nat
      BY DEF TypeOK
    <2>2. IsTable(queue', Ip) /\ DOMAIN queue' = DOMAIN queue
      <3>1. queue' = Claim(queue, 1, t[r])
        BY <1>4 DEF ClaimHostScan
      <3> QED
        BY <1>tab, <2>1, <3>1, ClaimKeepsRows
    <2>3. PICK id \in Claimed(queue, 1, t[r]), j \in JobId \ DOMAIN jobs :
            jobs' = Put(jobs, j, NewJob(r, id))
      BY <1>4 DEF ClaimHostScan
    <2>4. id \in DOMAIN queue /\ id \in Nat /\ queue[id].key \in Ip
      BY <2>3, ClaimedWasFree DEF TypeOK, Row
    <2>5. NewJob(r, id) \in Job
      BY <2>1, <2>4 DEF NewJob, Job
    <2>6. DOMAIN jobs' \subseteq JobId /\ jobs' \in [DOMAIN jobs' -> Job]
      BY <2>3, <2>5 DEF Put, Overlay, TypeOK
    <2> QED
      BY <1>4, <2>2, <2>6 DEF ClaimHostScan, Goto, TypeOK, IsTable, history
  <1>5. ASSUME NEW r \in Replica, ClaimNothing(r) PROVE TypeOK'
    BY <1>5 DEF ClaimNothing, Goto, TypeOK, history
  <1>6. ASSUME NEW r \in Replica, SweepFirst(r) PROVE TypeOK'
    <2>1. t[r] \in Nat
      BY DEF TypeOK
    <2>2. IsTable(queue', Ip) /\ DOMAIN queue' = DOMAIN queue
      BY <1>6, <1>tab, <2>1, RequeueKeepsRows DEF SweepFirst
    <2> QED
      BY <1>6, <2>2 DEF SweepFirst, Goto, TypeOK, IsTable, history
  <1>7. ASSUME NEW r \in Replica, SweepSecond(r) PROVE TypeOK'
    <2> DEFINE S == Swept(queue, MaxAttempts, t[r])
    <2>1. S \subseteq DOMAIN queue
      BY DEF Swept, Expired
    <2>2. queue' = Remove(queue, S)
      BY <1>7 DEF SweepSecond, SweepDelete
    <2>3. IsTable(queue', Ip) /\ DOMAIN queue' = DOMAIN queue \ S
      BY <1>tab, <2>2, RemoveKeepsRows
    <2>4. /\ DOMAIN dropped' = DOMAIN dropped \cup S
          /\ dropped' \in [DOMAIN dropped' -> Ip]
      BY <1>7, <2>1 DEF SweepSecond, Overlay, TypeOK, Row
    <2> QED
      BY <1>7, <2>1, <2>3, <2>4 DEF SweepSecond, Goto, TypeOK, IsTable
  <1>8. ASSUME NEW r \in Replica, ClaimFails(r) PROVE TypeOK'
    <2>1. t[r] \in Nat
      BY DEF TypeOK
    <2>2. IsTable(queue', Ip) /\ DOMAIN queue' = DOMAIN queue
      <3>1. CASE queue' = queue
        BY <1>tab, <3>1
      <3>2. CASE queue' = Claim(queue, 1, t[r])
        BY <1>tab, <2>1, <3>2, ClaimKeepsRows
      <3> QED
        BY <1>8, <3>1, <3>2 DEF ClaimFails
    <2> QED
      BY <1>8, <2>2 DEF ClaimFails, Fault, Goto, TypeOK, IsTable, history
  <1>9. ASSUME NEW r \in Replica, SweepFails(r) PROVE TypeOK'
    BY <1>9 DEF SweepFails, Fault, Goto, TypeOK, history
  <1>10. ASSUME NEW r \in Replica, Crash(r) PROVE TypeOK'
    <2>1. DOMAIN jobs' \subseteq JobId /\ jobs' \in [DOMAIN jobs' -> Job]
      BY <1>10 DEF Crash, Remove, Restrict, TypeOK
    <2> QED
      BY <1>10, <2>1 DEF Crash, Fault, Goto, TypeOK, history
  <1>11. ASSUME NEW r \in Replica, Restart(r) PROVE TypeOK'
    BY <1>11 DEF Restart, Goto, TypeOK, history
  <1>12. ASSUME NEW j \in DOMAIN jobs, JobStep(j) \/ CompleteFails(j)
         PROVE TypeOK'
    <2>job. jobs[j] \in Job /\ jobs[j].replica \in Replica
      BY DEF TypeOK, Job
    <2>set. ASSUME NEW s \in {"counted", "scan", "complete"}, SetState(j, s)
            PROVE  DOMAIN jobs' = DOMAIN jobs /\ jobs' \in [DOMAIN jobs' -> Job]
      BY <2>set, <2>job DEF SetState, TypeOK, Job
    <2>end. ASSUME EndTask(j)
            PROVE  /\ DOMAIN jobs' \subseteq JobId
                   /\ jobs' \in [DOMAIN jobs' -> Job]
                   /\ permits' \in [Replica -> Nat]
      BY <2>end, <2>job DEF EndTask, Release, Remove, Restrict, TypeOK
    <2>1. CASE CountAttempt(j)
      <3>1. IsTable(queue', Ip) /\ DOMAIN queue' = DOMAIN queue
        BY <2>1, <1>tab, IncrementKeepsRows DEF CountAttempt
      <3> QED
        BY <2>1, <2>set, <3>1
        DEF CountAttempt, Fault, TypeOK, IsTable, loopVars, history
    <2>2. CASE SpawnTask(j)
      <3> DEFINE r == jobs[j].replica
                 next == (tick[r] + 1) % SweepEvery
      <3>1. next \in 0 .. SweepEvery - 1
        BY <2>job DEF TypeOK
      <3>2. permits' \in [Replica -> Nat]
        BY <2>2, <2>job DEF SpawnTask, Acquire, TypeOK
      <3>3. tick' \in [Replica -> 0 .. SweepEvery - 1]
        BY <2>2, <2>job, <3>1 DEF SpawnTask, Acquire, TypeOK
      <3>4. pc' \in [Replica ->
                       {"read", "claim", "body", "requeue", "drop", "down"}]
        BY <2>2, <2>job DEF SpawnTask, Goto, TypeOK
      <3> QED
        <4>1. UNCHANGED <<clock, queue, nextId, t, faults, history>>
          BY <2>2 DEF SpawnTask
        <4>2. SetState(j, "scan")
          BY <2>2 DEF SpawnTask
        <4>3. DOMAIN jobs' = DOMAIN jobs /\ jobs' \in [DOMAIN jobs' -> Job]
          BY <2>set, <4>2
        <4> HIDE DEF next, r
        <4> QED
          BY <3>2, <3>3, <3>4, <4>1, <4>3 DEF TypeOK, history
    <2>3. CASE ScanEnds(j)
      <3>1. DOMAIN jobs' = DOMAIN jobs /\ jobs' \in [DOMAIN jobs' -> Job]
        <4>1. PICK found \in SUBSET Port :
                jobs' = [jobs EXCEPT
                           ![j].state = "insert", ![j].found = found,
                           ![j].todo = IF Honeypot(found) THEN {} ELSE found]
          BY <2>3 DEF ScanEnds
        <4>2. (IF Honeypot(found) THEN {} ELSE found) \in SUBSET Port
          OBVIOUS
        <4> DEFINE todo == IF Honeypot(found) THEN {} ELSE found
        <4>3. [jobs[j] EXCEPT !.state = "insert", !.found = found, !.todo = todo]
                \in Job
          BY <2>job, <4>2 DEF Job
        <4> HIDE DEF todo
        <4>4. jobs' = [jobs EXCEPT ![j] = [jobs[j] EXCEPT
                         !.state = "insert", !.found = found, !.todo = todo]]
          BY <2>job, <4>1 DEF todo, TypeOK
        <4> QED
          BY <4>3, <4>4 DEF TypeOK
      <3> QED
        <4>1. UNCHANGED <<clock, queue, nextId, pc, t, tick, permits, faults,
                          history>>
          BY <2>3 DEF ScanEnds, loopVars
        <4> QED
          BY <3>1, <4>1 DEF TypeOK, history
    <2>4. CASE InsertServiceProbe(j)
      <3>1. PICK port \in jobs[j].todo :
              /\ jobs' = [jobs EXCEPT ![j].todo = @ \ {port}]
              /\ \/ /\ handed' = handed \cup {<<jobs[j].ip, port>>}
                    /\ UNCHANGED <<refused, faults>>
                 \/ /\ Fault
                    /\ refused' = refused \cup {<<jobs[j].ip, port>>}
                    /\ UNCHANGED handed
        BY <2>4 DEF InsertServiceProbe
      <3>2. DOMAIN jobs' = DOMAIN jobs /\ jobs' \in [DOMAIN jobs' -> Job]
        BY <2>job, <3>1 DEF TypeOK, Job
      <3>3. <<jobs[j].ip, port>> \in Ip \X Port
        BY <2>job, <3>1 DEF Job
      <3>4. /\ handed' \subseteq Ip \X Port
            /\ refused' \subseteq Ip \X Port
            /\ faults' \in Nat
        BY <3>1, <3>3 DEF Fault, TypeOK
      <3> QED
        BY <2>4, <3>2, <3>4 DEF InsertServiceProbe, TypeOK, loopVars
    <2>5. CASE InsertsDone(j)
      BY <2>5, <2>set DEF InsertsDone, TypeOK, loopVars, history
    <2>6. CASE CompleteJob(j)
      <3> DEFINE id == jobs[j].id
      <3>1. /\ IsTable(queue', Ip)
            /\ DOMAIN queue' = DOMAIN queue \ {id}
        <4>1. queue' = Remove(queue, {id})
          BY <2>6 DEF CompleteJob, Complete
        <4> QED
          BY <1>tab, <4>1 DEF Remove, Restrict, IsTable
      <3>2. /\ DOMAIN closed' = IF id \in DOMAIN queue
                                THEN DOMAIN closed \cup {id}
                                ELSE DOMAIN closed
            /\ closed' \in [DOMAIN closed' -> [key: Ip, found: SUBSET Port]]
        BY <2>6, <2>job DEF CompleteJob, Put, Overlay, TypeOK, Job
      <3> QED
        BY <2>6, <2>end, <3>1, <3>2 DEF CompleteJob, TypeOK, IsTable, loopVars
    <2>7. CASE CompleteFails(j)
      BY <2>7, <2>end DEF CompleteFails, Fault, TypeOK, loopVars, history
    <2> QED
      BY <1>12, <2>1, <2>2, <2>3, <2>4, <2>5, <2>6, <2>7 DEF JobStep
  <1>13. CASE UNCHANGED vars
    BY <1>13 DEF vars, loopVars, history, TypeOK
  <1> QED
    BY <1>1, <1>2, <1>3, <1>4, <1>5, <1>6, <1>7, <1>8, <1>9, <1>10, <1>11,
       <1>12, <1>13 DEF Next, LoopStep

(* Every state of the stage is well typed, and each row id has a fate. *)
THEOREM Typing == Spec => []TypeOK
  BY TypeInit, TypeStep, PTL DEF Spec

-----------------------------------------------------------------------------
(* Jobs, rows and times. *)

(* A step of a task changes no other job, and of its own only the progress. *)
LEMMA JobsKeep ==
  ASSUME TypeOK, NEW j \in DOMAIN jobs, JobStep(j) \/ CompleteFails(j)
  PROVE  /\ DOMAIN jobs' \subseteq DOMAIN jobs
         /\ \A i \in DOMAIN jobs' :
              /\ jobs'[i].replica = jobs[i].replica
              /\ jobs'[i].id = jobs[i].id
              /\ jobs'[i].ip = jobs[i].ip
              /\ jobs'[i].lease = jobs[i].lease
              /\ i # j => jobs'[i] = jobs[i]
  <1>job. jobs[j] \in Job
    BY DEF TypeOK
  <1>1. CASE CountAttempt(j)
    BY <1>1, <1>job DEF CountAttempt, SetState, Job
  <1>2. CASE SpawnTask(j)
    BY <1>2, <1>job DEF SpawnTask, Acquire, SetState, Job
  <1>3. CASE ScanEnds(j)
    BY <1>3, <1>job DEF ScanEnds, Job
  <1>4. CASE InsertServiceProbe(j)
    BY <1>4, <1>job DEF InsertServiceProbe, Job
  <1>5. CASE InsertsDone(j)
    BY <1>5, <1>job DEF InsertsDone, SetState, Job
  <1>6. CASE CompleteJob(j) \/ CompleteFails(j)
    BY <1>6 DEF CompleteJob, CompleteFails, EndTask, Remove, Restrict
  <1> QED
    BY <1>1, <1>2, <1>3, <1>4, <1>5, <1>6 DEF JobStep

LEMMA TimesStep == TypeOK /\ TimesPast /\ [Next]_vars => TimesPast'
  <1> SUFFICES ASSUME TypeOK, TimesPast, [Next]_vars PROVE TimesPast'
    OBVIOUS
  <1> USE DEF TypeOK, TimesPast
  <1>1. ASSUME NEW ip \in Ip, InsertHostScan(ip) PROVE TimesPast'
    BY <1>1 DEF InsertHostScan, loopVars
  <1>2. CASE Tick
    BY <1>2 DEF Tick, loopVars
  <1>3. ASSUME NEW r \in Replica, LoopStep(r) PROVE TimesPast'
    <2>1. clock' = clock
          /\ (t' = t \/ t' = [t EXCEPT ![r] = clock])
      BY <1>3 DEF LoopStep, ReadClock, ClaimHostScan, ClaimNothing, SweepFirst,
                  SweepSecond
    <2> QED
      BY <2>1
  <1>4. ASSUME NEW r \in Replica,
               ClaimFails(r) \/ SweepFails(r) \/ Crash(r) \/ Restart(r)
        PROVE  TimesPast'
    BY <1>4 DEF ClaimFails, SweepFails, Crash, Restart
  <1>5. ASSUME NEW j \in DOMAIN jobs, JobStep(j) \/ CompleteFails(j)
        PROVE  TimesPast'
    <2>1. UNCHANGED <<clock, t>>
      BY <1>5 DEF JobStep, CountAttempt, SpawnTask, ScanEnds, InsertServiceProbe,
                  InsertsDone, CompleteJob, CompleteFails, loopVars
    <2> QED
      BY <2>1
  <1>6. CASE UNCHANGED vars
    BY <1>6 DEF vars, loopVars
  <1> QED
    BY <1>1, <1>2, <1>3, <1>4, <1>5, <1>6 DEF Next

LEMMA KeysStep == TypeOK /\ JobKeys /\ [Next]_vars => JobKeys'
  <1> SUFFICES ASSUME TypeOK, JobKeys, [Next]_vars PROVE JobKeys'
    OBVIOUS
  <1>tab. IsTable(queue, Ip)
    BY DEF TypeOK, IsTable
  <1>nat. nextId \in Nat /\ \A r \in Replica : t[r] \in Nat
    BY DEF TypeOK
  (* All that matters when no job is new and no row changes hands. *)
  <1>same. ASSUME DOMAIN jobs' \subseteq DOMAIN jobs,
                  \A i \in DOMAIN jobs' : /\ jobs'[i].id = jobs[i].id
                                          /\ jobs'[i].ip = jobs[i].ip,
                  DOMAIN queue' = DOMAIN queue,
                  \A x \in DOMAIN queue : queue'[x].key = queue[x].key,
                  UNCHANGED <<nextId, closed, dropped>>
           PROVE  JobKeys'
    BY <1>same DEF JobKeys
  <1>1. ASSUME NEW ip \in Ip, InsertHostScan(ip) PROVE JobKeys'
    <2>1. nextId \notin DOMAIN queue
      BY DEF TypeOK
    <2>2. /\ \A x \in DOMAIN queue : queue'[x] = queue[x]
          /\ DOMAIN queue' \subseteq DOMAIN queue \cup {nextId}
      BY <1>1, <2>1 DEF InsertHostScan, Insert, Put, Overlay
    <2>3. nextId' \in {nextId, nextId + 1} /\ UNCHANGED <<jobs, closed, dropped>>
      BY <1>1 DEF InsertHostScan, history
    <2> QED
      BY <1>nat, <2>2, <2>3 DEF JobKeys
  <1>2. CASE Tick
    BY <1>2, <1>same DEF Tick, history
  <1>3. ASSUME NEW r \in Replica, ClaimHostScan(r) PROVE JobKeys'
    <2>1. queue' = Claim(queue, 1, t[r]) /\ UNCHANGED <<nextId, closed, dropped>>
      BY <1>3 DEF ClaimHostScan, history
    <2>2. /\ DOMAIN queue' = DOMAIN queue
          /\ \A x \in DOMAIN queue : queue'[x].key = queue[x].key
      BY <1>tab, <2>1, ClaimKeepsKeys
    <2>3. PICK id \in Claimed(queue, 1, t[r]), j \in JobId \ DOMAIN jobs :
            jobs' = Put(jobs, j, NewJob(r, id))
      BY <1>3 DEF ClaimHostScan
    <2>4. id \in DOMAIN queue
      BY <2>3, ClaimedWasFree
    <2>5. jobs'[j].id = id /\ jobs'[j].ip = queue[id].key
      BY <2>3 DEF NewJob, Put, Overlay
    <2>6. \A i \in DOMAIN jobs' : i # j => i \in DOMAIN jobs /\ jobs'[i] = jobs[i]
      BY <2>3 DEF Put, Overlay
    <2>7. id \in 1 .. nextId - 1
      BY <2>4 DEF TypeOK
    <2>8. /\ id \in DOMAIN closed => closed[id].key = queue[id].key
          /\ id \in DOMAIN dropped => dropped[id] = queue[id].key
      BY <2>4 DEF TypeOK
    <2> QED
      BY <2>1, <2>2, <2>4, <2>5, <2>6, <2>7, <2>8 DEF JobKeys
  <1>4. ASSUME NEW r \in Replica, ReadClock(r) \/ ClaimNothing(r) PROVE JobKeys'
    BY <1>4, <1>same DEF ReadClock, ClaimNothing, history
  <1>5. ASSUME NEW r \in Replica, SweepFirst(r) PROVE JobKeys'
    <2>1. queue' = SweepRequeue(queue, MaxAttempts, t[r])
      BY <1>5 DEF SweepFirst
    <2> QED
      BY <1>5, <1>tab, <1>nat, <1>same, <2>1, RequeueKeepsRows
      DEF SweepFirst, history
  <1>6. ASSUME NEW r \in Replica, SweepSecond(r) PROVE JobKeys'
    <2> DEFINE S == Swept(queue, MaxAttempts, t[r])
    <2>1. S \subseteq DOMAIN queue
      BY SweptWasExpired
    <2>2. /\ queue' = Remove(queue, S)
          /\ dropped' = Overlay(dropped, [id \in S |-> queue[id].key])
          /\ UNCHANGED <<nextId, jobs, closed>>
      BY <1>6 DEF SweepSecond, SweepDelete
    <2>3. DOMAIN queue' \subseteq DOMAIN queue
          /\ \A x \in DOMAIN queue' : queue'[x] = queue[x]
      BY <2>2 DEF Remove, Restrict
    <2>4. \A x \in DOMAIN dropped' :
            \/ x \in S /\ dropped'[x] = queue[x].key
            \/ x \in DOMAIN dropped /\ dropped'[x] = dropped[x]
      BY <2>2 DEF Overlay
    <2> QED
      BY <2>1, <2>2, <2>3, <2>4 DEF JobKeys
  <1>7. ASSUME NEW r \in Replica, ClaimFails(r) PROVE JobKeys'
    <2>1. queue' \in {queue, Claim(queue, 1, t[r])}
      BY <1>7 DEF ClaimFails
    <2>2. /\ DOMAIN queue' = DOMAIN queue
          /\ \A x \in DOMAIN queue : queue'[x].key = queue[x].key
      <3>1. CASE queue' = queue
        BY <3>1
      <3>2. CASE queue' = Claim(queue, 1, t[r])
        BY <1>tab, <3>2, ClaimKeepsKeys
      <3> QED
        BY <2>1, <3>1, <3>2
    <2> QED
      BY <1>7, <1>same, <2>2 DEF ClaimFails, history
  <1>8. ASSUME NEW r \in Replica, SweepFails(r) \/ Restart(r) PROVE JobKeys'
    BY <1>8, <1>same DEF SweepFails, Restart, history
  <1>9. ASSUME NEW r \in Replica, Crash(r) PROVE JobKeys'
    <2>1. /\ DOMAIN jobs' \subseteq DOMAIN jobs
          /\ \A i \in DOMAIN jobs' : jobs'[i] = jobs[i]
      BY <1>9 DEF Crash, Remove, Restrict
    <2> QED
      BY <1>9, <1>same, <2>1 DEF Crash, history
  <1>10. ASSUME NEW j \in DOMAIN jobs, JobStep(j) \/ CompleteFails(j)
         PROVE  JobKeys'
    <2>1. /\ DOMAIN jobs' \subseteq DOMAIN jobs
          /\ \A i \in DOMAIN jobs' : /\ jobs'[i].id = jobs[i].id
                                     /\ jobs'[i].ip = jobs[i].ip
      BY <1>10, JobsKeep
    <2>2. CASE CountAttempt(j)
      <3>1. /\ DOMAIN queue' = DOMAIN queue
            /\ \A x \in DOMAIN queue : queue'[x].key = queue[x].key
        <4>1. CASE queue' = IncrementAttempts(queue, jobs[j].id)
          BY <1>tab, <4>1, IncrementKeepsRows
        <4>2. CASE queue' = queue
          BY <4>2
        <4> QED
          BY <2>2, <4>1, <4>2 DEF CountAttempt
      <3> QED
        BY <1>same, <2>1, <2>2, <3>1 DEF CountAttempt, history
    <2>3. CASE \/ SpawnTask(j) \/ ScanEnds(j) \/ InsertServiceProbe(j)
               \/ InsertsDone(j) \/ CompleteFails(j)
      BY <1>same, <2>1, <2>3
      DEF SpawnTask, ScanEnds, InsertServiceProbe, InsertsDone, CompleteFails,
          history
    <2>4. CASE CompleteJob(j)
      <3> DEFINE id == jobs[j].id
      <3>1. /\ DOMAIN queue' \subseteq DOMAIN queue
            /\ \A x \in DOMAIN queue' : queue'[x] = queue[x]
            /\ UNCHANGED <<nextId, dropped>>
        BY <2>4 DEF CompleteJob, Complete, Remove, Restrict
      <3>2. \A x \in DOMAIN closed' :
              \/ x \in DOMAIN queue /\ x = id /\ closed'[x].key = jobs[j].ip
              \/ x \in DOMAIN closed /\ closed'[x] = closed[x]
        BY <2>4 DEF CompleteJob, Put, Overlay
      <3>3. id \in DOMAIN queue => queue[id].key = jobs[j].ip
        BY DEF JobKeys
      <3> QED
        BY <2>1, <3>1, <3>2, <3>3 DEF JobKeys
    <2> QED
      BY <1>10, <2>2, <2>3, <2>4 DEF JobStep
  <1>11. CASE UNCHANGED vars
    BY <1>11 DEF vars, history, JobKeys
  <1> QED
    BY <1>1, <1>2, <1>3, <1>4, <1>5, <1>6, <1>7, <1>8, <1>9, <1>10, <1>11
    DEF Next, LoopStep

-----------------------------------------------------------------------------
(* Permits. *)

LEMMA TasksFinite ==
  ASSUME TypeOK, NEW r \in Replica
  PROVE  IsFiniteSet(Tasks(r)) /\ Cardinality(Tasks(r)) \in Nat
  <1>1. Tasks(r) \in SUBSET JobId
    BY DEF Tasks, TypeOK
  <1> QED
    BY <1>1, DeepScanAssumption, FS_Subset, FS_CardinalityType

LEMMA PermitsStep == TypeOK /\ PermitsKept /\ [Next]_vars => PermitsKept'
  <1> SUFFICES ASSUME TypeOK, PermitsKept, [Next]_vars PROVE PermitsKept'
    OBVIOUS
  (* No job is new or changes hands between loop and task, and nobody dies. *)
  <1>same. ASSUME UNCHANGED permits,
                  \A r \in Replica : Tasks(r)' = Tasks(r),
                  \A r \in Replica : pc'[r] = "down" <=> pc[r] = "down",
                  \A i \in DOMAIN jobs' :
                    i \in DOMAIN jobs /\ jobs'[i].replica = jobs[i].replica
           PROVE  PermitsKept'
    BY <1>same DEF PermitsKept
  <1>quiet. ASSUME UNCHANGED <<permits, jobs>>,
                   \A r \in Replica : pc'[r] = "down" <=> pc[r] = "down"
            PROVE  PermitsKept'
    BY <1>same, <1>quiet DEF Tasks, InLoop
  <1>goto. ASSUME NEW r \in Replica, NEW label \in {"read", "claim", "body",
                  "requeue", "drop"}, pc[r] # "down", Goto(r, label)
           PROVE  \A x \in Replica : pc'[x] = "down" <=> pc[x] = "down"
    BY <1>goto DEF Goto, TypeOK
  <1>1. ASSUME NEW ip \in Ip, InsertHostScan(ip) PROVE PermitsKept'
    BY <1>1, <1>quiet DEF InsertHostScan, loopVars
  <1>2. CASE Tick
    BY <1>2, <1>quiet DEF Tick, loopVars
  <1>3. ASSUME NEW r \in Replica,
               \/ ReadClock(r) \/ ClaimNothing(r) \/ SweepFirst(r)
               \/ SweepSecond(r) \/ ClaimFails(r) \/ SweepFails(r)
        PROVE  PermitsKept'
    <2>1. UNCHANGED <<permits, jobs>> /\ pc[r] # "down"
      BY <1>3 DEF ReadClock, ClaimNothing, SweepFirst, SweepSecond, ClaimFails,
                  SweepFails
    <2>2. \E label \in {"read", "claim", "drop"} : Goto(r, label)
      BY <1>3 DEF ReadClock, ClaimNothing, SweepFirst, SweepSecond, ClaimFails,
                  SweepFails
    <2> QED
      BY <1>goto, <1>quiet, <2>1, <2>2
  <1>4. ASSUME NEW r \in Replica, ClaimHostScan(r) PROVE PermitsKept'
    <2>1. PICK id \in Claimed(queue, 1, t[r]), j \in JobId \ DOMAIN jobs :
            jobs' = Put(jobs, j, NewJob(r, id))
      BY <1>4 DEF ClaimHostScan
    <2>2. /\ DOMAIN jobs' = DOMAIN jobs \cup {j}
          /\ jobs'[j].replica = r /\ jobs'[j].state = "claimed"
          /\ \A i \in DOMAIN jobs : jobs'[i] = jobs[i]
      BY <2>1 DEF Put, Overlay, NewJob
    <2>3. \A x \in Replica : Tasks(x)' = Tasks(x)
      BY <2>2 DEF Tasks, InLoop
    <2>4. /\ UNCHANGED permits
          /\ \A x \in Replica : pc'[x] = "down" <=> pc[x] = "down"
          /\ pc[r] # "down"
      BY <1>4, <1>goto DEF ClaimHostScan
    <2> QED
      BY <2>2, <2>3, <2>4 DEF PermitsKept
  <1>5. ASSUME NEW r \in Replica, Crash(r) PROVE PermitsKept'
    <2>1. /\ DOMAIN jobs' = {j \in DOMAIN jobs : jobs[j].replica # r}
          /\ \A j \in DOMAIN jobs' : jobs'[j] = jobs[j]
      BY <1>5 DEF Crash, Remove, Restrict
    <2>2. \A x \in Replica : x # r => Tasks(x)' = Tasks(x)
      BY <2>1 DEF Tasks, InLoop
    <2>3. /\ UNCHANGED permits
          /\ pc'[r] = "down"
          /\ \A x \in Replica : x # r => pc'[x] = pc[x]
      BY <1>5 DEF Crash, Goto, TypeOK
    <2> QED
      BY <2>1, <2>2, <2>3 DEF PermitsKept
  <1>6. ASSUME NEW r \in Replica, Restart(r) PROVE PermitsKept'
    <2>1. UNCHANGED jobs /\ \A x \in Replica : Tasks(x)' = Tasks(x)
      BY <1>6 DEF Restart, Tasks, InLoop
    <2>2. Tasks(r) = {}
      BY <1>6 DEF Restart, PermitsKept, Tasks
    <2>3. /\ permits'[r] = MaxConcurrent /\ pc'[r] = "read"
          /\ \A x \in Replica : x # r => /\ permits'[x] = permits[x]
                                         /\ pc'[x] = pc[x]
      BY <1>6 DEF Restart, Goto, TypeOK
    <2>4. Cardinality(Tasks(r)) = 0
      BY <2>2, FS_EmptySet
    <2>5. permits'[r] + Cardinality(Tasks(r)) = MaxConcurrent
      BY <2>3, <2>4, DeepScanAssumption
    <2> QED
      BY <2>1, <2>3, <2>5 DEF PermitsKept
  <1>7. ASSUME NEW j \in DOMAIN jobs, JobStep(j) \/ CompleteFails(j)
        PROVE  PermitsKept'
    <2> DEFINE r == jobs[j].replica
    <2>job. jobs[j] \in Job /\ r \in Replica /\ pc[r] # "down"
      BY DEF TypeOK, Job, PermitsKept
    <2>keep. \A i \in DOMAIN jobs' : /\ i \in DOMAIN jobs
                                     /\ jobs'[i].replica = jobs[i].replica
                                     /\ i # j => jobs'[i] = jobs[i]
      BY <1>7, JobsKeep
    <2>1. CASE CountAttempt(j)
      <3>1. /\ DOMAIN jobs' = DOMAIN jobs
            /\ jobs[j].state = "claimed" /\ jobs'[j].state = "counted"
            /\ UNCHANGED <<permits, pc>>
        BY <2>1, <2>job DEF CountAttempt, SetState, loopVars, Job
      <3>2. \A x \in Replica : Tasks(x)' = Tasks(x)
        BY <2>keep, <3>1 DEF Tasks, InLoop
      <3> QED
        BY <1>same, <2>keep, <3>1, <3>2
    <2>2. CASE ScanEnds(j) \/ InsertServiceProbe(j) \/ InsertsDone(j)
      <3>1. /\ DOMAIN jobs' = DOMAIN jobs
            /\ jobs[j].state \in {"scan", "insert"}
            /\ jobs'[j].state \in {"insert", "complete"}
            /\ UNCHANGED <<permits, pc>>
        <4>1. CASE ScanEnds(j)
          BY <4>1, <2>job DEF ScanEnds, loopVars, Job
        <4>2. CASE InsertServiceProbe(j)
          BY <4>2, <2>job DEF InsertServiceProbe, loopVars, Job
        <4>3. CASE InsertsDone(j)
          BY <4>3, <2>job DEF InsertsDone, SetState, loopVars, Job
        <4> QED
          BY <2>2, <4>1, <4>2, <4>3
      <3>2. \A x \in Replica : Tasks(x)' = Tasks(x)
        BY <2>keep, <3>1 DEF Tasks, InLoop
      <3> QED
        BY <1>same, <2>keep, <3>1, <3>2
    <2>3. CASE SpawnTask(j)
      <3>1. /\ DOMAIN jobs' = DOMAIN jobs
            /\ jobs[j].state = "counted" /\ jobs'[j].state = "scan"
            /\ permits' = [permits EXCEPT ![r] = @ - 1]
            /\ \E label \in {"read", "requeue"} : Goto(r, label)
        BY <2>3, <2>job DEF SpawnTask, Acquire, SetState, Job
      <3>2. \A x \in Replica : pc'[x] = "down" <=> pc[x] = "down"
        BY <1>goto, <2>job, <3>1
      <3>3. /\ j \notin Tasks(r)
            /\ \A x \in Replica :
                 Tasks(x)' = IF x = r THEN Tasks(x) \cup {j} ELSE Tasks(x)
        BY <2>job, <2>keep, <3>1 DEF Tasks, InLoop
      <3>4. permits' = [permits EXCEPT ![r] = permits[r] - 1]
        BY <3>1
      <3>7. ASSUME NEW x \in Replica, pc[x] # "down"
            PROVE  permits'[x] + Cardinality(Tasks(x)') = MaxConcurrent
        <4>1. /\ permits[x] + Cardinality(Tasks(x)) = MaxConcurrent
              /\ permits[x] \in Nat
          BY <3>7 DEF PermitsKept, TypeOK
        <4>2. IsFiniteSet(Tasks(x)) /\ Cardinality(Tasks(x)) \in Nat
          BY TasksFinite
        <4>3. CASE x = r
          <5>1. Tasks(x)' = Tasks(x) \cup {j} /\ j \notin Tasks(x)
            BY <3>3, <4>3
          <5>2. Cardinality(Tasks(x)') = Cardinality(Tasks(x)) + 1
            BY <4>2, <5>1, FS_AddElement
          <5>3. permits'[x] = permits[x] - 1
            BY <3>4, <4>3 DEF TypeOK
          <5> QED
            BY <4>1, <4>2, <5>2, <5>3
        <4>4. CASE x # r
          <5>1. Tasks(x)' = Tasks(x) /\ permits'[x] = permits[x]
            BY <3>3, <3>4, <4>4 DEF TypeOK
          <5> QED
            BY <4>1, <5>1
        <4> QED
          BY <4>3, <4>4
      <3>8. ASSUME NEW x \in Replica, pc[x] = "down", NEW i \in DOMAIN jobs'
            PROVE  jobs'[i].replica # x
        BY <2>keep, <3>8 DEF PermitsKept
      <3> QED
        BY <3>2, <3>7, <3>8 DEF PermitsKept
    <2>4. CASE CompleteJob(j) \/ CompleteFails(j)
      <3>1. /\ DOMAIN jobs' = DOMAIN jobs \ {j}
            /\ jobs[j].state = "complete"
            /\ permits' = [permits EXCEPT ![r] = @ + 1]
            /\ UNCHANGED pc
        BY <2>4 DEF CompleteJob, CompleteFails, EndTask, Release, Remove,
                    Restrict, loopVars
      <3>0. /\ j \in Tasks(r)
            /\ \A x \in Replica : x # r => j \notin Tasks(x)
        BY <2>job, <3>1 DEF Tasks, InLoop
      <3>i. \A i \in DOMAIN jobs' : i \in DOMAIN jobs \ {j} /\ jobs'[i] = jobs[i]
        BY <2>keep, <3>1
      <3>x. \A x \in Replica : Tasks(x)' = Tasks(x) \ {j}
        BY <3>1, <3>i DEF Tasks, InLoop
      <3>4. permits' = [permits EXCEPT ![r] = permits[r] + 1]
        BY <3>1
      <3>6. ASSUME NEW x \in Replica, pc[x] # "down"
            PROVE  permits'[x] + Cardinality(Tasks(x)') = MaxConcurrent
        <4>1. /\ permits[x] + Cardinality(Tasks(x)) = MaxConcurrent
              /\ permits[x] \in Nat
          BY <3>6 DEF PermitsKept, TypeOK
        <4>2. IsFiniteSet(Tasks(x)) /\ Cardinality(Tasks(x)) \in Nat
          BY TasksFinite
        <4>3. CASE x = r
          <5>1. Tasks(x)' = Tasks(x) \ {j} /\ j \in Tasks(x)
            BY <3>0, <3>x, <4>3
          <5>2. Cardinality(Tasks(x)') = Cardinality(Tasks(x)) - 1
            BY <4>2, <5>1, FS_RemoveElement
          <5>3. permits'[x] = permits[x] + 1
            BY <3>4, <4>3 DEF TypeOK
          <5> QED
            BY <4>1, <4>2, <5>2, <5>3
        <4>4. CASE x # r
          <5>1. Tasks(x)' = Tasks(x) \ {j} /\ j \notin Tasks(x)
            BY <3>0, <3>x, <4>4
          <5>2. Tasks(x)' = Tasks(x) /\ permits'[x] = permits[x]
            BY <3>4, <4>4, <5>1 DEF TypeOK
          <5> QED
            BY <4>1, <5>2
        <4> QED
          BY <4>3, <4>4
      <3>7. ASSUME NEW x \in Replica, pc[x] = "down", NEW i \in DOMAIN jobs'
            PROVE  jobs'[i].replica # x
        BY <2>keep, <3>7 DEF PermitsKept
      <3> QED
        BY <3>1, <3>6, <3>7 DEF PermitsKept
    <2> QED
      BY <1>7, <2>1, <2>2, <2>3, <2>4 DEF JobStep
  <1>8. CASE UNCHANGED vars
    BY <1>8, <1>quiet DEF vars, loopVars
  <1> QED
    BY <1>1, <1>2, <1>3, <1>4, <1>5, <1>6, <1>7, <1>8 DEF Next, LoopStep

LEMMA PermitsInit == Init => PermitsKept
  <1> SUFFICES ASSUME Init, NEW r \in Replica
               PROVE  permits[r] + Cardinality(Tasks(r)) = MaxConcurrent
                      /\ pc[r] # "down"
    BY DEF PermitsKept
  <1>1. Tasks(r) = {}
    BY DEF Init, Tasks, NoEntries
  <1>2. Cardinality(Tasks(r)) = 0
    BY <1>1, FS_EmptySet
  <1> QED
    BY <1>2, DeepScanAssumption DEF Init

LEMMA PermitsBound == TypeOK /\ PermitsKept => PermitBound
  <1> SUFFICES ASSUME TypeOK, PermitsKept, NEW r \in Replica
               PROVE  /\ Cardinality(Tasks(r)) <= MaxConcurrent
                      /\ pc[r] # "down" =>
                           permits[r] + Cardinality(Tasks(r)) = MaxConcurrent
    BY DEF PermitBound
  <1>1. CASE pc[r] = "down"
    <2>1. Tasks(r) = {}
      BY <1>1 DEF PermitsKept, Tasks
    <2> QED
      BY <1>1, <2>1, FS_EmptySet, DeepScanAssumption
  <1>2. CASE pc[r] # "down"
    <2>1. permits[r] \in Nat /\ Cardinality(Tasks(r)) \in Nat
      BY TasksFinite DEF TypeOK
    <2> QED
      BY <1>2, <2>1, DeepScanAssumption DEF PermitsKept
  <1> QED
    BY <1>1, <1>2

(***************************************************************************)
(* No replica ever runs more than MaxConcurrent masscans, and no permit is *)
(* lost or made (main.rs, run_deepscan).                                   *)
(***************************************************************************)
THEOREM PermitsSafe == Spec => []PermitBound
  <1>1. Init => TypeOK /\ PermitsKept
    BY TypeInit, PermitsInit
  <1>2. TypeOK /\ PermitsKept /\ [Next]_vars => (TypeOK /\ PermitsKept)'
    BY TypeStep, PermitsStep
  <1> QED
    BY <1>1, <1>2, PermitsBound, PTL DEF Spec

-----------------------------------------------------------------------------
(* Leases. *)

Leases == LeaseProtects /\ LiveLeaseExclusive

(***************************************************************************)
(* A row that a loop may claim, requeue or drop has no live worker: its    *)
(* lease was over at the time the loop read, which is now or before.       *)
(***************************************************************************)
LEMMA NoLiveWorker ==
  ASSUME TypeOK, TimesPast, LeaseProtects,
         NEW r \in Replica, NEW id \in DOMAIN queue,
         queue[id].claimedUntil < t[r],
         NEW j \in DOMAIN jobs, jobs[j].id = id
  PROVE  ~Live(j)
  <1>1. /\ clock \in Nat /\ t[r] \in Nat /\ t[r] <= clock
        /\ queue[id].claimedUntil \in Nat
    BY DEF TypeOK, TimesPast, Row
  <1>2. Live(j) => queue[id].claimedUntil = jobs[j].lease /\ clock <= jobs[j].lease
    BY DEF LeaseProtects, Live
  <1> QED
    BY <1>1, <1>2

LEMMA LeaseStep ==
  TypeOK /\ JobKeys /\ TimesPast /\ Leases /\ [Next]_vars => Leases'
  <1> SUFFICES ASSUME TypeOK, JobKeys, TimesPast, Leases, [Next]_vars
               PROVE  Leases'
    OBVIOUS
  <1>tab. IsTable(queue, Ip)
    BY DEF TypeOK, IsTable
  <1>nat. /\ clock \in Nat /\ nextId \in Nat
          /\ \A r \in Replica : t[r] \in Nat
          /\ \A j \in DOMAIN jobs : jobs[j].lease \in Nat
    BY DEF TypeOK, Job
  <1>old. \A r \in Replica, id \in DOMAIN queue, j \in DOMAIN jobs :
            queue[id].claimedUntil < t[r] /\ jobs[j].id = id => ~Live(j)
    BY NoLiveWorker DEF Leases
  (* What is to be shown where no job is new and time does not go back. *)
  <1>keep. ASSUME DOMAIN jobs' \subseteq DOMAIN jobs,
                  \A i \in DOMAIN jobs' : /\ jobs'[i].id = jobs[i].id
                                          /\ jobs'[i].lease = jobs[i].lease,
                  clock' \in Nat, clock <= clock',
                  \A i \in DOMAIN jobs : Live(i) =>
                    /\ jobs[i].id \in DOMAIN dropped' =>
                         jobs[i].id \in DOMAIN dropped
                    /\ jobs[i].id \in DOMAIN queue' =>
                         /\ jobs[i].id \in DOMAIN queue
                         /\ queue'[jobs[i].id].claimedUntil
                              = queue[jobs[i].id].claimedUntil
           PROVE  Leases'
    <2>1. \A i \in DOMAIN jobs' : Live(i)' => Live(i)
      BY <1>nat, <1>keep DEF Live
    <2>2. LeaseProtects'
      BY <1>keep, <2>1 DEF Leases, LeaseProtects
    <2>3. LiveLeaseExclusive'
      BY <1>keep, <2>1 DEF Leases, LiveLeaseExclusive
    <2> QED
      BY <2>2, <2>3 DEF Leases
  (* A statement that claims: only rows without a live worker change. *)
  <1>claim. ASSUME NEW r \in Replica, queue' = Claim(queue, 1, t[r]),
                   NEW i \in DOMAIN jobs, Live(i)
            PROVE  /\ DOMAIN queue' = DOMAIN queue
                   /\ jobs[i].id \notin Claimed(queue, 1, t[r])
                   /\ jobs[i].id \in DOMAIN queue =>
                        queue'[jobs[i].id].claimedUntil
                          = queue[jobs[i].id].claimedUntil
    <2> DEFINE id == jobs[i].id
    <2>1. /\ DOMAIN queue' = DOMAIN queue
          /\ \A x \in DOMAIN queue \ Claimed(queue, 1, t[r]) :
               queue'[x] = queue[x]
      BY <1>claim, ClaimLeavesOthers
    <2>2. id \notin Claimed(queue, 1, t[r])
      BY <1>old, <1>claim, ClaimedWasFree
    <2> QED
      BY <2>1, <2>2
  <1>1. ASSUME NEW ip \in Ip, InsertHostScan(ip) PROVE Leases'
    <2>1. /\ \A x \in DOMAIN queue : queue'[x] = queue[x]
          /\ DOMAIN queue' \subseteq DOMAIN queue \cup {nextId}
      BY <1>1 DEF InsertHostScan, Insert, Put, Overlay, TypeOK
    <2>2. \A i \in DOMAIN jobs : jobs[i].id # nextId
      BY <1>nat DEF JobKeys
    <2>3. UNCHANGED <<clock, jobs, dropped>>
      BY <1>1 DEF InsertHostScan, history
    <2> QED
      BY <1>nat, <1>keep, <2>1, <2>2, <2>3
  <1>2. CASE Tick
    BY <1>2, <1>nat, <1>keep DEF Tick, history
  <1>3. ASSUME NEW r \in Replica, ClaimHostScan(r) PROVE Leases'
    <2>1. PICK id \in Claimed(queue, 1, t[r]), j \in JobId \ DOMAIN jobs :
            jobs' = Put(jobs, j, NewJob(r, id))
      BY <1>3 DEF ClaimHostScan
    <2>2. queue' = Claim(queue, 1, t[r]) /\ UNCHANGED <<clock, dropped>>
      BY <1>3 DEF ClaimHostScan, history
    <2>3. /\ DOMAIN jobs' = DOMAIN jobs \cup {j}
          /\ jobs'[j].id = id /\ jobs'[j].lease = t[r] + LeaseTime
          /\ \A i \in DOMAIN jobs : jobs'[i] = jobs[i]
      BY <2>1 DEF Put, Overlay, NewJob
    <2>4. id \in DOMAIN queue /\ id \notin DOMAIN dropped
      BY <2>1, ClaimedWasFree DEF TypeOK
    <2>5. queue'[id].claimedUntil = t[r] + LeaseTime
      BY <1>tab, <1>nat, <2>1, <2>2, ClaimWritesLease
    <2>6. \A i \in DOMAIN jobs : Live(i)' => Live(i) /\ jobs[i].id # id
      <3>1. \A i \in DOMAIN jobs : Live(i)' => Live(i)
        BY <2>2, <2>3 DEF Live
      <3>2. \A i \in DOMAIN jobs : Live(i) =>
              jobs[i].id \notin Claimed(queue, 1, t[r])
        <4>1. ASSUME NEW i \in DOMAIN jobs, Live(i)
              PROVE  jobs[i].id \notin Claimed(queue, 1, t[r])
          BY <1>claim, <2>2, <4>1
        <4> QED
          BY <4>1
      <3> QED
        BY <2>1, <3>1, <3>2
    <2>7. LeaseProtects'
      <3>1. ASSUME NEW i \in DOMAIN jobs, Live(i)'
            PROVE  /\ jobs'[i].id \notin DOMAIN dropped'
                   /\ jobs'[i].id \in DOMAIN queue' =>
                        queue'[jobs'[i].id].claimedUntil = jobs'[i].lease
        <4>1. Live(i)
          BY <2>6, <3>1
        <4>2. /\ jobs[i].id \notin DOMAIN dropped
              /\ jobs[i].id \in DOMAIN queue =>
                   queue[jobs[i].id].claimedUntil = jobs[i].lease
          BY <4>1 DEF Leases, LeaseProtects
        <4>3. /\ DOMAIN queue' = DOMAIN queue
              /\ jobs[i].id \in DOMAIN queue =>
                   queue'[jobs[i].id].claimedUntil
                     = queue[jobs[i].id].claimedUntil
          BY <1>claim, <2>2, <4>1
        <4> QED
          BY <2>2, <2>3, <4>2, <4>3
      <3>2. /\ jobs'[j].id \notin DOMAIN dropped'
            /\ queue'[jobs'[j].id].claimedUntil = jobs'[j].lease
        BY <2>2, <2>3, <2>4, <2>5
      <3> QED
        BY <2>3, <3>1, <3>2 DEF LeaseProtects
    <2>8. LiveLeaseExclusive'
      <3>1. ASSUME NEW i \in DOMAIN jobs, NEW k \in DOMAIN jobs, i # k,
                   jobs'[i].id = jobs'[k].id
            PROVE  ~Live(i)' \/ ~Live(k)'
        <4>1. jobs[i].id = jobs[k].id
          BY <2>3, <3>1
        <4>2. ~Live(i) \/ ~Live(k)
          BY <3>1, <4>1 DEF Leases, LiveLeaseExclusive
        <4> QED
          BY <2>6, <4>2
      <3>2. \A i \in DOMAIN jobs : jobs'[i].id = jobs'[j].id => ~Live(i)'
        BY <2>3, <2>6
      <3> QED
        BY <2>3, <3>1, <3>2 DEF LiveLeaseExclusive
    <2> QED
      BY <2>7, <2>8 DEF Leases
  <1>4. ASSUME NEW r \in Replica,
               ReadClock(r) \/ ClaimNothing(r) \/ SweepFails(r) \/ Restart(r)
        PROVE  Leases'
    BY <1>4, <1>nat, <1>keep
    DEF ReadClock, ClaimNothing, SweepFails, Restart, history
  <1>5. ASSUME NEW r \in Replica, SweepFirst(r) PROVE Leases'
    <2>1. /\ queue' = SweepRequeue(queue, MaxAttempts, t[r])
          /\ UNCHANGED <<clock, jobs, dropped>>
      BY <1>5 DEF SweepFirst, history
    <2>2. /\ DOMAIN queue' = DOMAIN queue
          /\ \A x \in DOMAIN queue :
               \/ queue'[x].claimedUntil = queue[x].claimedUntil
               \/ queue[x].claimedUntil < t[r]
      BY <1>tab, <1>nat, <2>1, RequeueKeepsRows
    <2>3. \A i \in DOMAIN jobs : Live(i) /\ jobs[i].id \in DOMAIN queue =>
            queue'[jobs[i].id].claimedUntil = queue[jobs[i].id].claimedUntil
      BY <1>old, <2>1, <2>2
    <2> QED
      BY <1>nat, <1>keep, <2>1, <2>2, <2>3
  <1>6. ASSUME NEW r \in Replica, SweepSecond(r) PROVE Leases'
    <2> DEFINE S == Swept(queue, MaxAttempts, t[r])
    <2>1. /\ DOMAIN queue' \subseteq DOMAIN queue
          /\ \A x \in DOMAIN queue' : queue'[x] = queue[x]
          /\ DOMAIN dropped' = DOMAIN dropped \cup S
          /\ UNCHANGED <<clock, jobs>>
      BY <1>6 DEF SweepSecond, SweepDelete, Remove, Restrict, Overlay
    <2>2. \A i \in DOMAIN jobs : Live(i) => jobs[i].id \notin S
      BY <1>old, SweptWasExpired
    <2> QED
      BY <1>nat, <1>keep, <2>1, <2>2
  <1>7. ASSUME NEW r \in Replica, ClaimFails(r) PROVE Leases'
    <2>1. UNCHANGED <<clock, jobs, dropped>>
      BY <1>7 DEF ClaimFails, history
    <2>2. CASE queue' = queue
      BY <1>nat, <1>keep, <2>1, <2>2
    <2>3. CASE queue' = Claim(queue, 1, t[r])
      BY <1>nat, <1>keep, <1>claim, <2>1, <2>3
    <2> QED
      BY <1>7, <2>2, <2>3 DEF ClaimFails
  <1>8. ASSUME NEW r \in Replica, Crash(r) PROVE Leases'
    <2>1. /\ DOMAIN jobs' \subseteq DOMAIN jobs
          /\ \A i \in DOMAIN jobs' : jobs'[i] = jobs[i]
          /\ UNCHANGED <<clock, queue, dropped>>
      BY <1>8 DEF Crash, Remove, Restrict, history
    <2> QED
      BY <1>nat, <1>keep, <2>1
  <1>9. ASSUME NEW j \in DOMAIN jobs, JobStep(j) \/ CompleteFails(j)
        PROVE  Leases'
    <2>1. /\ DOMAIN jobs' \subseteq DOMAIN jobs
          /\ \A i \in DOMAIN jobs' : /\ jobs'[i].id = jobs[i].id
                                     /\ jobs'[i].lease = jobs[i].lease
      BY <1>9, JobsKeep
    <2>2. UNCHANGED <<clock, dropped>>
      BY <1>9 DEF JobStep, CountAttempt, SpawnTask, ScanEnds, InsertsDone,
                  InsertServiceProbe, CompleteJob, CompleteFails, history
    <2>3. /\ DOMAIN queue' \subseteq DOMAIN queue
          /\ \A x \in DOMAIN queue' :
               queue'[x].claimedUntil = queue[x].claimedUntil
      <3>1. CASE CountAttempt(j)
        <4>1. CASE queue' = IncrementAttempts(queue, jobs[j].id)
          BY <1>tab, <4>1, IncrementKeepsRows
        <4>2. CASE queue' = queue
          BY <4>2
        <4> QED
          BY <3>1, <4>1, <4>2 DEF CountAttempt
      <3>2. CASE CompleteJob(j)
        BY <3>2 DEF CompleteJob, Complete, Remove, Restrict
      <3>3. CASE \/ SpawnTask(j) \/ ScanEnds(j) \/ InsertServiceProbe(j)
                 \/ InsertsDone(j) \/ CompleteFails(j)
        BY <3>3 DEF SpawnTask, ScanEnds, InsertServiceProbe, InsertsDone,
                    CompleteFails
      <3> QED
        BY <1>9, <3>1, <3>2, <3>3 DEF JobStep
    <2> QED
      BY <1>nat, <1>keep, <2>1, <2>2, <2>3
  <1>10. CASE UNCHANGED vars
    BY <1>10, <1>nat, <1>keep DEF vars, history
  <1> QED
    BY <1>1, <1>2, <1>3, <1>4, <1>5, <1>6, <1>7, <1>8, <1>9, <1>10
    DEF Next, LoopStep

LEMMA LeaseInit == Init => JobKeys /\ TimesPast /\ Leases
  BY DEF Init, JobKeys, TimesPast, Leases, LeaseProtects, LiveLeaseExclusive,
         NoEntries

(***************************************************************************)
(* Two workers never both hold a row under leases that still run, and a    *)
(* row is never dropped or leased again under a worker whose lease runs    *)
(* (queue.rs, claim_host_scans and sweep).                                 *)
(***************************************************************************)
THEOREM LeasesExclude == Spec => [](LiveLeaseExclusive /\ LeaseProtects)
  <1> DEFINE Inv == TypeOK /\ JobKeys /\ TimesPast /\ Leases
  <1>1. Init => Inv
    BY TypeInit, LeaseInit
  <1>2. Inv /\ [Next]_vars => Inv'
    BY TypeStep, KeysStep, TimesStep, LeaseStep
  <1>3. Inv => LiveLeaseExclusive /\ LeaseProtects
    BY DEF Leases
  <1> QED
    BY <1>1, <1>2, <1>3, PTL DEF Spec

(***************************************************************************)
(* A row whose lease still runs is neither leased again nor swept under    *)
(* the worker that holds it, although claims and sweeps compare with a     *)
(* time read before the wait for a permit (main.rs:231).                   *)
(***************************************************************************)
THEOREM LeasesProtect == Spec => []LeaseProtects
  BY LeasesExclude, PTL

(***************************************************************************)
(* The lease of a row, whoever claimed it and whether anybody knows: until *)
(* it has run out, it stays, or the row is completed.                      *)
(***************************************************************************)
LEMMA LeaseKeptStep ==
  ASSUME TypeOK, TimesPast, [Next]_vars
  PROVE  LeaseKept
<1> SUFFICES ASSUME NEW id \in DOMAIN queue, clock <= queue[id].claimedUntil
             PROVE  \/ /\ id \in DOMAIN queue'
                       /\ queue'[id].claimedUntil = queue[id].claimedUntil
                    \/ \E j \in DOMAIN jobs : jobs[j].id = id /\ CompleteJob(j)
  BY DEF LeaseKept
<1> DEFINE Kept == /\ id \in DOMAIN queue'
                   /\ queue'[id].claimedUntil = queue[id].claimedUntil
<1>tab. IsTable(queue, Ip)
  BY DEF TypeOK, IsTable
<1>nat. /\ clock \in Nat /\ queue[id].claimedUntil \in Nat
        /\ \A r \in Replica : t[r] \in Nat
  BY <1>tab DEF TypeOK, IsTable, Row
<1>late. ASSUME NEW r \in Replica PROVE ~ queue[id].claimedUntil < t[r]
  BY <1>nat DEF TimesPast
<1>same. ASSUME UNCHANGED queue PROVE Kept
  BY <1>same
<1>claim. ASSUME NEW r \in Replica, queue' = Claim(queue, 1, t[r]) PROVE Kept
  <2>1. id \notin Claimed(queue, 1, t[r])
    BY <1>late, ClaimedWasFree
  <2> QED BY <1>claim, <2>1, ClaimLeavesOthers
<1>1. ASSUME NEW ip \in Ip, InsertHostScan(ip) PROVE Kept
  <2>1. nextId \notin DOMAIN queue
    BY <1>nat DEF TypeOK
  <2>2. /\ \A x \in DOMAIN queue : queue'[x] = queue[x]
        /\ DOMAIN queue \subseteq DOMAIN queue'
    BY <1>1, <2>1 DEF InsertHostScan, Insert, Put, Overlay
  <2> QED BY <2>2
<1>2. CASE Tick
  BY <1>2, <1>same DEF Tick
<1>3. ASSUME NEW r \in Replica,
             \/ ReadClock(r) \/ ClaimNothing(r) \/ SweepFails(r)
             \/ Crash(r) \/ Restart(r)
      PROVE  Kept
  BY <1>3, <1>same DEF ReadClock, ClaimNothing, SweepFails, Crash, Restart
<1>4. ASSUME NEW r \in Replica, ClaimHostScan(r) \/ ClaimFails(r) PROVE Kept
  BY <1>4, <1>claim, <1>same DEF ClaimHostScan, ClaimFails
<1>5. ASSUME NEW r \in Replica, SweepFirst(r) PROVE Kept
  <2>1. queue' = SweepRequeue(queue, MaxAttempts, t[r])
    BY <1>5 DEF SweepFirst
  <2> QED BY <2>1, <1>tab, <1>nat, <1>late, RequeueKeepsRows
<1>6. ASSUME NEW r \in Replica, SweepSecond(r) PROVE Kept
  <2>1. id \notin Swept(queue, MaxAttempts, t[r])
    BY <1>late, SweptWasExpired
  <2>2. queue' = SweepDelete(queue, MaxAttempts, t[r])
    BY <1>6 DEF SweepSecond
  <2> QED BY <2>1, <2>2 DEF SweepDelete, Remove, Restrict
<1>7. ASSUME NEW j \in DOMAIN jobs, JobStep(j) \/ CompleteFails(j)
      PROVE  Kept \/ \E i \in DOMAIN jobs : jobs[i].id = id /\ CompleteJob(i)
  <2>1. CASE CountAttempt(j)
    <3>1. UNCHANGED queue \/ queue' = IncrementAttempts(queue, jobs[j].id)
      BY <2>1 DEF CountAttempt
    <3> QED BY <3>1, <1>tab, <1>same, IncrementKeepsRows
  <2>2. CASE SpawnTask(j) \/ ScanEnds(j) \/ InsertServiceProbe(j)
             \/ InsertsDone(j) \/ CompleteFails(j)
    BY <2>2, <1>same
    DEF SpawnTask, ScanEnds, InsertServiceProbe, InsertsDone, CompleteFails
  <2>3. CASE CompleteJob(j) /\ jobs[j].id = id
    BY <2>3
  <2>4. CASE CompleteJob(j) /\ jobs[j].id # id
    BY <2>4 DEF CompleteJob, Complete, Remove, Restrict
  <2> QED BY <1>7, <2>1, <2>2, <2>3, <2>4 DEF JobStep
<1>8. CASE UNCHANGED vars
  BY <1>8, <1>same DEF vars
<1>9. ASSUME NEW r \in Replica,
             \/ LoopStep(r) \/ ClaimFails(r) \/ SweepFails(r)
             \/ Crash(r) \/ Restart(r)
      PROVE  Kept
  BY <1>3, <1>4, <1>5, <1>6, <1>9 DEF LoopStep
<1> QED BY <1>1, <1>2, <1>7, <1>8, <1>9 DEF Next

(***************************************************************************)
(* No claim and no sweep disturbs a lease that still runs, with whatever   *)
(* time it compares (main.rs:231), also one whose claimer is gone.         *)
(***************************************************************************)
THEOREM LeasesStay == Spec => LeaseUndisturbed
<1>1. Init => TypeOK /\ TimesPast
  BY TypeInit, LeaseInit
<1>2. TypeOK /\ TimesPast /\ [Next]_vars => (TypeOK /\ TimesPast)'
  BY TypeStep, TimesStep
<1>3. TypeOK /\ TimesPast /\ [Next]_vars => [LeaseKept]_vars
  BY LeaseKeptStep
<1> QED BY <1>1, <1>2, <1>3, PTL DEF Spec, LeaseUndisturbed

-----------------------------------------------------------------------------
(* Results, and the abstract queue. *)

LEMMA ReportedStep == TypeOK /\ Reported /\ [Next]_vars => Reported'
  <1> SUFFICES ASSUME TypeOK, Reported, [Next]_vars PROVE Reported'
    OBVIOUS
  (* A job that a step leaves alone stays accounted for. *)
  <1>keep. ASSUME NEW i \in DOMAIN jobs, i \in DOMAIN jobs', jobs'[i] = jobs[i],
                  handed \cup refused \subseteq handed' \cup refused'
           PROVE  /\ jobs'[i].state \in {"insert", "complete"} => Accounted(i)'
                  /\ jobs'[i].state = "complete" => jobs'[i].todo = {}
    <2>1. Accounted(i) => Accounted(i)'
      BY <1>keep DEF Accounted, Honeypot
    <2> QED
      BY <1>keep, <2>1 DEF Reported
  <1>all. ASSUME \A i \in DOMAIN jobs' : i \in DOMAIN jobs /\ jobs'[i] = jobs[i],
                 UNCHANGED <<handed, refused>>
          PROVE  Reported'
    BY <1>keep, <1>all DEF Reported
  <1>1. ASSUME NEW ip \in Ip, InsertHostScan(ip) PROVE Reported'
    BY <1>1, <1>all DEF InsertHostScan, history
  <1>2. CASE Tick
    BY <1>2, <1>all DEF Tick, history
  <1>3. ASSUME NEW r \in Replica,
               \/ ReadClock(r) \/ ClaimNothing(r) \/ SweepFirst(r)
               \/ SweepSecond(r) \/ ClaimFails(r) \/ SweepFails(r) \/ Restart(r)
        PROVE  Reported'
    BY <1>3, <1>all DEF ReadClock, ClaimNothing, SweepFirst, SweepSecond,
                        ClaimFails, SweepFails, Restart, history
  <1>4. ASSUME NEW r \in Replica, ClaimHostScan(r) PROVE Reported'
    <2>1. PICK id \in Claimed(queue, 1, t[r]), j \in JobId \ DOMAIN jobs :
            jobs' = Put(jobs, j, NewJob(r, id))
      BY <1>4 DEF ClaimHostScan
    <2>2. /\ DOMAIN jobs' = DOMAIN jobs \cup {j}
          /\ jobs'[j].state = "claimed"
          /\ \A i \in DOMAIN jobs : jobs'[i] = jobs[i]
      BY <2>1 DEF Put, Overlay, NewJob
    <2>3. UNCHANGED <<handed, refused>>
      BY <1>4 DEF ClaimHostScan, history
    <2> QED
      BY <1>keep, <2>2, <2>3 DEF Reported
  <1>5. ASSUME NEW r \in Replica, Crash(r) PROVE Reported'
    BY <1>5, <1>all DEF Crash, Remove, Restrict, history
  <1>6. ASSUME NEW j \in DOMAIN jobs, JobStep(j) \/ CompleteFails(j)
        PROVE  Reported'
    <2>job. jobs[j] \in Job
      BY DEF TypeOK
    <2>1. /\ DOMAIN jobs' \subseteq DOMAIN jobs
          /\ \A i \in DOMAIN jobs' : i # j => jobs'[i] = jobs[i]
          /\ j \in DOMAIN jobs' => jobs'[j].ip = jobs[j].ip
      BY <1>6, JobsKeep
    <2>2. handed \cup refused \subseteq handed' \cup refused'
      BY <1>6 DEF JobStep, CountAttempt, SpawnTask, ScanEnds, InsertsDone,
                  InsertServiceProbe, CompleteJob, CompleteFails, history
    (* It remains to look at the job that took the step. *)
    <2>mine. ASSUME j \in DOMAIN jobs' =>
                      /\ jobs'[j].state \in {"insert", "complete"} =>
                           Accounted(j)'
                      /\ jobs'[j].state = "complete" => jobs'[j].todo = {}
             PROVE  Reported'
      <3>1. \A i \in DOMAIN jobs' : i # j =>
              /\ jobs'[i].state \in {"insert", "complete"} => Accounted(i)'
              /\ jobs'[i].state = "complete" => jobs'[i].todo = {}
        BY <1>keep, <2>1, <2>2
      <3> QED
        BY <2>mine, <3>1 DEF Reported
    <2>3. CASE CountAttempt(j) \/ SpawnTask(j)
      <3>1. jobs'[j].state \in {"counted", "scan"}
        BY <2>3, <2>job DEF CountAttempt, SpawnTask, SetState, Job
      <3> QED
        BY <2>mine, <3>1
    <2>4. CASE ScanEnds(j)
      <3>0. PICK found \in SUBSET Port :
              jobs' = [jobs EXCEPT ![j].state = "insert",
                                   ![j].found = found,
                                   ![j].todo = IF Honeypot(found)
                                               THEN {} ELSE found]
        BY <2>4 DEF ScanEnds
      <3>1. /\ jobs'[j].state = "insert"
            /\ Honeypot(jobs'[j].found) \/ jobs'[j].todo = jobs'[j].found
        <4>1. /\ jobs'[j].state = "insert"
              /\ jobs'[j].found = found
              /\ jobs'[j].todo = IF Honeypot(found) THEN {} ELSE found
          BY <2>job, <3>0 DEF Job
        <4> QED
          BY <4>1
      <3>2. Accounted(j)'
        BY <3>1 DEF Accounted, Honeypot
      <3> QED
        BY <2>mine, <3>1, <3>2
    <2>5. CASE InsertServiceProbe(j)
      <3>1. PICK port \in jobs[j].todo :
              /\ jobs' = [jobs EXCEPT ![j].todo = @ \ {port}]
              /\ \/ handed' = handed \cup {<<jobs[j].ip, port>>}
                 \/ refused' = refused \cup {<<jobs[j].ip, port>>}
        BY <2>5 DEF InsertServiceProbe
      <3>2. /\ jobs'[j].state = "insert"
            /\ jobs'[j].found = jobs[j].found
            /\ jobs'[j].ip = jobs[j].ip
            /\ jobs'[j].todo = jobs[j].todo \ {port}
        BY <2>5, <2>job, <3>1 DEF InsertServiceProbe, Job
      <3>3. Accounted(j)
        BY <2>5 DEF InsertServiceProbe, Reported
      <3>4. <<jobs[j].ip, port>> \in handed' \cup refused'
        BY <3>1
      <3>5. Accounted(j)'
        <4>1. CASE Honeypot(jobs[j].found)
          BY <3>2, <4>1 DEF Accounted, Honeypot
        <4>2. CASE \A p \in jobs[j].found \ jobs[j].todo :
                     <<jobs[j].ip, p>> \in handed \cup refused
          <5>1. \A p \in jobs'[j].found \ jobs'[j].todo :
                  p = port \/ p \in jobs[j].found \ jobs[j].todo
            BY <3>2
          <5>2. \A p \in jobs'[j].found \ jobs'[j].todo :
                  <<jobs'[j].ip, p>> \in handed' \cup refused'
            BY <2>2, <3>2, <3>4, <4>2, <5>1
          <5> QED
            BY <5>2 DEF Accounted
        <4> QED
          BY <3>3, <4>1, <4>2 DEF Accounted
      <3> QED
        BY <2>mine, <3>2, <3>5
    <2>6. CASE InsertsDone(j)
      <3>1. /\ jobs[j].state = "insert" /\ jobs[j].todo = {}
            /\ jobs'[j].found = jobs[j].found
            /\ jobs'[j].ip = jobs[j].ip
            /\ jobs'[j].todo = jobs[j].todo
        BY <2>6, <2>job DEF InsertsDone, SetState, Job
      <3>2. Accounted(j)
        BY <3>1 DEF Reported
      <3>3. Accounted(j)'
        BY <2>2, <3>1, <3>2 DEF Accounted, Honeypot
      <3> QED
        BY <2>mine, <3>1, <3>3
    <2>7. CASE CompleteJob(j) \/ CompleteFails(j)
      <3>1. j \notin DOMAIN jobs'
        BY <2>7 DEF CompleteJob, CompleteFails, EndTask, Remove, Restrict
      <3> QED
        BY <2>mine, <3>1
    <2> QED
      BY <1>6, <2>3, <2>4, <2>5, <2>6, <2>7 DEF JobStep
  <1>7. CASE UNCHANGED vars
    BY <1>7, <1>all DEF vars, history
  <1> QED
    BY <1>1, <1>2, <1>3, <1>4, <1>5, <1>6, <1>7 DEF Next, LoopStep

Pending == [id \in DOMAIN queue |-> queue[id].key]

LEMMA RefinesInit == Init => JQ!JQInit
  BY DEF Init, JQ!JQInit, NoEntries, JQ!NoEntries

LEMMA RefinesStep ==
  TypeOK /\ JobKeys /\ Reported /\ [Next]_vars => [JQ!JQNext]_JQ!abstractVars
  <1> SUFFICES ASSUME TypeOK, JobKeys, Reported, [Next]_vars
               PROVE  [JQ!JQNext]_JQ!abstractVars
    OBVIOUS
  <1>tab. IsTable(queue, Ip)
    BY DEF TypeOK, IsTable
  <1>nat. nextId \in Nat /\ \A r \in Replica : t[r] \in Nat
    BY DEF TypeOK
  (* Leases, attempts and workers are nothing the neighbours see. *)
  <1>stutter. ASSUME DOMAIN queue' = DOMAIN queue,
                     \A x \in DOMAIN queue : queue'[x].key = queue[x].key,
                     UNCHANGED history
              PROVE  UNCHANGED JQ!abstractVars
    <2>1. Pending' = Pending
      BY <1>stutter DEF Pending
    <2> QED
      BY <1>stutter, <2>1 DEF JQ!abstractVars, Pending, history
  <1>1. ASSUME NEW ip \in Ip, InsertHostScan(ip)
        PROVE  [JQ!JQNext]_JQ!abstractVars
    <2>1. UNCHANGED history /\ nextId \in 1 .. MaxRows
      BY <1>1, DeepScanAssumption DEF InsertHostScan, TypeOK
    <2>2. CASE ip \in Keys(queue)
      BY <1>1, <1>stutter, <2>1, <2>2 DEF InsertHostScan, Insert
    <2>3. CASE ip \notin Keys(queue)
      <3>1. queue' = Put(queue, nextId, NewRow(ip))
        BY <1>1, <2>3 DEF InsertHostScan, Insert
      <3>2. nextId \notin DOMAIN queue /\ nextId \notin JQ!Used
        BY <1>nat DEF TypeOK, JQ!Used
      <3>3. ip \notin JQ!Range(Pending)
        BY <2>3 DEF Keys, JQ!Range, Pending
      <3>4. Pending' = JQ!Put(Pending, nextId, ip)
        <4>1. /\ DOMAIN queue' = DOMAIN queue \cup {nextId}
              /\ queue'[nextId].key = ip
              /\ \A x \in DOMAIN queue : x # nextId => queue'[x] = queue[x]
          BY <3>1 DEF Put, Overlay, NewRow
        <4> QED
          BY <3>2, <4>1 DEF Pending, JQ!Put, JQ!Overlay
      <3>5. JQ!Submit(nextId, ip)
        BY <2>1, <3>2, <3>3, <3>4 DEF JQ!Submit, Pending, history
      <3> QED
        BY <2>1, <3>5 DEF JQ!JQNext
    <2> QED
      BY <2>2, <2>3
  <1>2. CASE Tick
    BY <1>2, <1>stutter DEF Tick
  <1>3. ASSUME NEW r \in Replica,
               \/ ReadClock(r) \/ ClaimNothing(r) \/ SweepFails(r) \/ Restart(r)
               \/ Crash(r)
        PROVE  [JQ!JQNext]_JQ!abstractVars
    BY <1>3, <1>stutter DEF ReadClock, ClaimNothing, SweepFails, Restart, Crash
  <1>4. ASSUME NEW r \in Replica, ClaimHostScan(r) \/ ClaimFails(r)
        PROVE  [JQ!JQNext]_JQ!abstractVars
    <2>1. queue' \in {queue, Claim(queue, 1, t[r])} /\ UNCHANGED history
      BY <1>4 DEF ClaimHostScan, ClaimFails
    <2>2. CASE queue' = queue
      BY <1>stutter, <2>1, <2>2
    <2>3. CASE queue' = Claim(queue, 1, t[r])
      <3>1. /\ DOMAIN queue' = DOMAIN queue
            /\ \A x \in DOMAIN queue : queue'[x].key = queue[x].key
        BY <1>tab, <2>3, ClaimKeepsKeys
      <3> QED
        BY <1>stutter, <2>1, <3>1
    <2> QED
      BY <2>1, <2>2, <2>3
  <1>5. ASSUME NEW r \in Replica, SweepFirst(r)
        PROVE  [JQ!JQNext]_JQ!abstractVars
    <2>1. queue' = SweepRequeue(queue, MaxAttempts, t[r]) /\ UNCHANGED history
      BY <1>5 DEF SweepFirst
    <2> QED
      BY <1>tab, <1>nat, <1>stutter, <2>1, RequeueKeepsRows
  <1>6. ASSUME NEW r \in Replica, SweepSecond(r)
        PROVE  [JQ!JQNext]_JQ!abstractVars
    <2>0. PICK S : S = Swept(queue, MaxAttempts, t[r])
      OBVIOUS
    <2>1. S \subseteq DOMAIN queue
      BY <2>0, SweptWasExpired
    <2>2. /\ queue' = Remove(queue, S)
          /\ dropped' = Overlay(dropped, [id \in S |-> queue[id].key])
          /\ UNCHANGED <<handed, refused, closed>>
      BY <1>6, <2>0 DEF SweepSecond, SweepDelete
    <2>3. Pending' = JQ!Remove(Pending, S)
      BY <2>2 DEF Pending, Remove, Restrict, JQ!Remove, JQ!Restrict
    <2>4. JQ!Restrict(Pending, S) = [id \in S |-> queue[id].key]
      BY <2>1 DEF Pending, JQ!Restrict
    <2>5. dropped' = JQ!Overlay(dropped, JQ!Restrict(Pending, S))
      BY <2>2, <2>4 DEF Overlay, JQ!Overlay
    <2>6. JQ!Drop(S)
      BY <2>1, <2>2, <2>3, <2>5 DEF JQ!Drop, Pending
    <2>7. S \in SUBSET DOMAIN Pending
      BY <2>1 DEF Pending
    <2>8. \E ids \in SUBSET DOMAIN Pending : JQ!Drop(ids)
      BY <2>6, <2>7
    <2> QED
      BY <2>8 DEF JQ!JQNext, Pending
  <1>7. ASSUME NEW j \in DOMAIN jobs, JobStep(j) \/ CompleteFails(j)
        PROVE  [JQ!JQNext]_JQ!abstractVars
    <2>names. PICK id, ip, found :
                id = jobs[j].id /\ ip = jobs[j].ip /\ found = jobs[j].found
      OBVIOUS
    <2> USE <2>names
    <2>job. jobs[j] \in Job
      BY DEF TypeOK
    <2>1. CASE CountAttempt(j)
      <3>1. CASE queue' = IncrementAttempts(queue, jobs[j].id)
        <4>1. /\ DOMAIN queue' = DOMAIN queue
              /\ \A x \in DOMAIN queue : queue'[x].key = queue[x].key
          BY <1>tab, <3>1, IncrementKeepsRows
        <4> QED
          BY <1>stutter, <2>1, <4>1 DEF CountAttempt
      <3>2. CASE queue' = queue
        BY <1>stutter, <2>1, <3>2 DEF CountAttempt
      <3> QED
        BY <2>1, <3>1, <3>2 DEF CountAttempt
    <2>2. CASE \/ SpawnTask(j) \/ ScanEnds(j) \/ InsertsDone(j)
               \/ CompleteFails(j)
      BY <1>stutter, <2>2
      DEF SpawnTask, ScanEnds, InsertsDone, CompleteFails
    <2>3. CASE InsertServiceProbe(j)
      <3>1. PICK port \in jobs[j].todo :
              \/ /\ handed' = handed \cup {<<ip, port>>}
                 /\ UNCHANGED refused
              \/ /\ refused' = refused \cup {<<ip, port>>}
                 /\ UNCHANGED handed
        BY <2>3 DEF InsertServiceProbe
      <3>2. port \in Port
        BY <2>job, <3>1 DEF Job
      <3>3. UNCHANGED <<queue, closed, dropped>>
        BY <2>3 DEF InsertServiceProbe
      <3>4. ip \in JQ!Submitted
        <4>1. id \in DOMAIN queue \cup DOMAIN closed \cup DOMAIN dropped
          BY DEF JobKeys, TypeOK
        <4>2. CASE id \in DOMAIN queue
          BY <4>2 DEF JobKeys, JQ!Submitted, JQ!Range
        <4>3. CASE id \in DOMAIN closed
          BY <4>3 DEF JobKeys, JQ!Submitted
        <4>4. CASE id \in DOMAIN dropped
          BY <4>4 DEF JobKeys, JQ!Submitted, JQ!Range
        <4> QED
          BY <4>1, <4>2, <4>3, <4>4
      <3>5. Pending' = Pending
        BY <3>3 DEF Pending
      <3>6. {ip} \X {port} = {<<ip, port>>}
        OBVIOUS
      <3>7. JQ!Hand(ip, port) \/ JQ!Refuse(ip, {port})
        BY <3>1, <3>3, <3>4, <3>5, <3>6 DEF JQ!Hand, JQ!Refuse, Pending
      <3>8. {port} \in SUBSET Port
        BY <3>2
      <3> QED
        BY <3>2, <3>4, <3>7, <3>8 DEF JQ!JQNext
    <2>4. CASE CompleteJob(j)
      <3>1. /\ queue' = Remove(queue, {id})
            /\ UNCHANGED <<handed, refused, dropped>>
        BY <2>4 DEF CompleteJob, Complete
      <3>2. CASE id \notin DOMAIN queue
        <4>1. UNCHANGED history
          BY <2>4, <3>2 DEF CompleteJob, history
        <4>2. DOMAIN queue' = DOMAIN queue
              /\ \A x \in DOMAIN queue : queue'[x] = queue[x]
          BY <3>1, <3>2 DEF Remove, Restrict
        <4> QED
          BY <1>stutter, <4>1, <4>2
      <3>3. CASE id \in DOMAIN queue
        <4>1. queue[id].key = ip
          BY <3>3 DEF JobKeys
        <4>2. closed' = Put(closed, id, [key |-> ip, found |-> found])
          BY <2>4, <3>3 DEF CompleteJob
        <4>3. Accounted(j) /\ jobs[j].todo = {}
          BY <2>4 DEF CompleteJob, Reported
        <4>4. JQ!Accounted(ip, found)
          <5>1. \/ Honeypot(found)
                \/ \A port \in found : <<ip, port>> \in handed \cup refused
            <6>1. found \ jobs[j].todo = found
              BY <4>3
            <6> QED
              BY <4>3, <6>1 DEF Accounted
          <5> QED
            BY <2>job, <5>1 DEF JQ!Accounted, Job
        <4>5. Pending' = JQ!Remove(Pending, {id})
          BY <3>1 DEF Pending, Remove, Restrict, JQ!Remove, JQ!Restrict
        <4>6. Pending[id] = ip /\ id \in DOMAIN Pending
          BY <3>3, <4>1 DEF Pending
        <4>7. closed' = JQ!Put(closed, id, [key |-> ip, found |-> found])
          BY <4>2 DEF Put, Overlay, JQ!Put, JQ!Overlay
        <4>8. JQ!Close(id, found)
          BY <3>1, <4>4, <4>5, <4>6, <4>7 DEF JQ!Close, Pending
        <4>9. found \in SUBSET Port
          BY <2>job DEF Job
        <4> QED
          <5>1. \E x \in DOMAIN Pending, f \in SUBSET Port : JQ!Close(x, f)
            BY <4>6, <4>8, <4>9
          <5> QED
            BY <5>1 DEF JQ!JQNext, Pending
      <3> QED
        BY <3>2, <3>3
    <2> QED
      BY <1>7, <2>1, <2>2, <2>3, <2>4 DEF JobStep
  <1>8. CASE UNCHANGED vars
    BY <1>8, <1>stutter DEF vars
  <1> QED
    BY <1>1, <1>2, <1>3, <1>4, <1>5, <1>6, <1>7, <1>8 DEF Next, LoopStep

(***************************************************************************)
(* The stage implements the at-least-once queue (PLAN.md, "Crash-safe      *)
(* at-least-once"): a host that leaves the queue was dropped, or every     *)
(* port of one finished scan of it was handed over or refused.             *)
(***************************************************************************)
THEOREM Implements == Spec => ImplementsJobQueue
  <1> DEFINE Inv == TypeOK /\ JobKeys /\ Reported
  <1>1. Init => Inv
    BY TypeInit, LeaseInit DEF Init, Reported, NoEntries
  <1>2. Inv /\ [Next]_vars => Inv'
    BY TypeStep, KeysStep, ReportedStep
  <1>3. Inv /\ [Next]_vars => [JQ!JQNext]_JQ!abstractVars
    BY RefinesStep
  <1> QED
    BY <1>1, <1>2, <1>3, RefinesInit, PTL DEF Spec, ImplementsJobQueue, JQ!JQSpec

(* The inductive invariant, whole. *)
THEOREM Invariant == Spec => []IInv
  <1>1. Init => IInv
    BY TypeInit, LeaseInit, PermitsInit
    DEF Init, IInv, Leases, Reported, NoEntries
  <1>2. IInv /\ [Next]_vars => IInv'
    BY TypeStep, KeysStep, TimesStep, PermitsStep, LeaseStep, ReportedStep
    DEF IInv, Leases
  <1> QED
    BY <1>1, <1>2, PTL DEF Spec

-----------------------------------------------------------------------------
(* What the stage promises the probe stage, by way of the abstract queue.   *)
JP == INSTANCE JobQueueProofs WITH
        Id <- 1 .. MaxRows,
        Key <- Ip,
        Result <- Port,
        Decoys <- {found \in SUBSET Port : Honeypot(found)},
        pending <- [id \in DOMAIN queue |-> queue[id].key]

(* JobQueueProofs names the queue anew: the same queue under the same names. *)
LEMMA SameQueue == ImplementsJobQueue => JP!JQSpec
<1>1. JQ!JQInit => JP!JQInit
  BY DEF JQ!JQInit, JP!JQInit, JQ!NoEntries, JP!NoEntries
<1>2. [JQ!JQNext]_JQ!abstractVars => [JP!JQNext]_JP!abstractVars
  BY DEF JQ!JQNext, JP!JQNext, JQ!abstractVars, JP!abstractVars,
         JQ!Submit, JP!Submit, JQ!Hand, JP!Hand, JQ!Refuse, JP!Refuse,
         JQ!Close, JP!Close, JQ!Drop, JP!Drop, JQ!Submitted, JP!Submitted,
         JQ!Used, JP!Used, JQ!Accounted, JP!Accounted, JQ!Range, JP!Range,
         JQ!Put, JP!Put, JQ!Overlay, JP!Overlay,
         JQ!Remove, JP!Remove, JQ!Restrict, JP!Restrict
<1> QED BY <1>1, <1>2, PTL DEF ImplementsJobQueue, JQ!JQSpec, JP!JQSpec

(* A host leaves the queue as a honeypot, or with every port of the scan    *)
(* that ended in queue_service_probes or refused by an error of its insert; *)
(* nothing in there is about a host that nobody submitted, and no host is   *)
(* queued twice.  However often leases run out and replicas die.            *)
THEOREM Delivered ==
  Spec => [](/\ \A id \in DOMAIN closed :
                  \/ Honeypot(closed[id].found)
                  \/ \A port \in closed[id].found :
                       <<closed[id].key, port>> \in handed \cup refused
             /\ JP!NothingInvented
             /\ \A x, y \in DOMAIN queue : queue[x].key = queue[y].key => x = y)
<1>1. JP!Promises =>
        /\ \A id \in DOMAIN closed :
             \/ Honeypot(closed[id].found)
             \/ \A port \in closed[id].found :
                  <<closed[id].key, port>> \in handed \cup refused
        /\ JP!NothingInvented
        /\ \A x, y \in DOMAIN queue : queue[x].key = queue[y].key => x = y
  BY DEF JP!Promises, JP!OneFate, JP!AtLeastOnce, JP!Accounted
<1> QED BY <1>1, Implements, SameQueue, JP!Kept, PTL

(* A host that was completed or dropped does not come back under its id,    *)
(* and no step takes back a port that was handed over, whatever a worker    *)
(* that outlived its lease still does.                                      *)
THEOREM FateIsFinal == Spec => JP!FatesFinal
BY Implements, SameQueue, JP!FateIsFinal, PTL

=============================================================================
