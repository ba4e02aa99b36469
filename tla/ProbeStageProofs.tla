--------------------------- MODULE ProbeStageProofs ---------------------------
(***************************************************************************)
(* Proofs about ProbeStage, for any hosts, ports, replicas, answers, lease *)
(* and batch, any limit for honeypots, any number of rows and faults.      *)
(***************************************************************************)
EXTENDS ProbeStage, LeasedQueueProofs, FiniteSetTheorems

(* What the assumptions say, one fact each. *)
LEMMA Bounds ==
  /\ LeaseTime \in Nat \ {0}
  /\ Answers \subseteq Answer
  /\ Batch \in Nat
  /\ HoneypotServices \in Nat /\ MaxRows \in Nat
  BY ProbeStageAssumption, LeaseTimeAssumption

(* An answer is a set of results; only one of them is not stored. *)
LEMMA AnswerIs ==
  ASSUME NEW found \in Answer
  PROVE  /\ found \in SUBSET Result
         /\ found # Firewalled => found \ {"service"} = found \cap Kind
  BY DEF Answer, Firewalled, Wanted, Result, Kind

-----------------------------------------------------------------------------
(* What a step of a task changes. *)

(* The steps of a task, but for the completion of its row. *)
Works(j) ==
  \/ ProbeAnswers(j) \/ ProbeGivenUp(j) \/ EnsureHost(j) \/ SkipFirewalled(j)
  \/ UpsertService(j) \/ UpsertFails(j) \/ FlagHoneypot(j) \/ FlagFails(j)
  \/ EnqueueEnrichment(j) \/ EnqueueFails(j) \/ EnqueueDone(j)

Ends(j) == CompleteTask(j) \/ CompleteFails(j)

(* Task j goes on to a state with what it found and what is left to do. *)
Becomes(j, state, found, todo) ==
  /\ DOMAIN tasks' = DOMAIN tasks
  /\ tasks' \in [DOMAIN tasks -> Task]
  /\ \A i \in DOMAIN tasks \ {j} : tasks'[i] = tasks[i]
  /\ tasks'[j] = [tasks[j] EXCEPT !.state = state, !.found = found, !.todo = todo]
  /\ tasks'[j].replica = tasks[j].replica
  /\ tasks'[j].key = tasks[j].key
  /\ tasks'[j].state = state
  /\ tasks'[j].found = found
  /\ tasks'[j].todo = todo

States == {"probe", "host", "upsert", "flag", "enqueue", "complete"}

LEMMA Updated ==
  ASSUME TypeOK, NEW j \in DOMAIN tasks, NEW state \in States,
         NEW found \in SUBSET Result, NEW todo \in SUBSET Kind,
         tasks' = [tasks EXCEPT ![j] = [@ EXCEPT !.state = state, !.found = found,
                                                 !.todo = todo]]
  PROVE  Becomes(j, state, found, todo)
<1>1. tasks[j] \in Task /\ tasks \in [DOMAIN tasks -> Task]
  BY DEF TypeOK
<1>2. tasks'[j] = [tasks[j] EXCEPT !.state = state, !.found = found, !.todo = todo]
  BY <1>1
<1>3. tasks'[j] \in Task
  BY <1>1, <1>2 DEF Task, States
<1>4. tasks' \in [DOMAIN tasks -> Task] /\ DOMAIN tasks' = DOMAIN tasks
  BY <1>1, <1>3
<1>5. \A i \in DOMAIN tasks \ {j} : tasks'[i] = tasks[i]
  BY <1>1
<1>6. /\ tasks'[j].replica = tasks[j].replica /\ tasks'[j].key = tasks[j].key
      /\ tasks'[j].state = state /\ tasks'[j].found = found /\ tasks'[j].todo = todo
  BY <1>1, <1>2 DEF Task
<1> QED BY <1>2, <1>4, <1>5, <1>6 DEF Becomes

(* Which way it goes, and what is handed over or refused on it. *)
Report(j) ==
  LET key   == tasks[j].key
      found == tasks[j].found
      todo  == tasks[j].todo
  IN \/ /\ tasks[j].state = "probe" /\ UNCHANGED <<handed, refused>>
        /\ \E answer \in Answers : Becomes(j, "host", answer, todo)
     \/ /\ tasks[j].state \in {"probe", "host"} /\ UNCHANGED <<handed, refused>>
        /\ Becomes(j, "complete", {}, todo)
     \/ /\ tasks[j].state = "host" /\ UNCHANGED <<handed, refused>>
        /\ Becomes(j, "upsert", found, todo)
     \/ /\ tasks[j].state = "upsert" /\ UNCHANGED <<handed, refused>>
        /\ found = Firewalled
        /\ Becomes(j, "complete", found, todo)
     \/ /\ tasks[j].state = "upsert"
        /\ found # Firewalled
        /\ handed' = handed \cup {<<key, "service">>} /\ UNCHANGED refused
        /\ Becomes(j, "flag", found, found \cap Kind)
     \/ /\ tasks[j].state = "upsert" /\ faults' # 0
        /\ UNCHANGED handed /\ refused' = refused \cup {key} \X found
        /\ Becomes(j, "complete", found, todo)
     \/ /\ tasks[j].state = "flag" /\ UNCHANGED <<handed, refused>>
        /\ honeypots' = WithFlag(key[1])
        /\ Becomes(j, "enqueue", found, todo)
     \/ /\ tasks[j].state \in {"flag", "enqueue"} /\ faults' # 0
        /\ UNCHANGED handed /\ refused' = refused \cup {key} \X todo
        /\ Becomes(j, "complete", found, {})
     \/ /\ tasks[j].state = "enqueue"
        /\ \E kind \in todo :
             /\ handed' = handed \cup {<<key, kind>>}
             /\ Becomes(j, "enqueue", found, todo \ {kind})
        /\ UNCHANGED refused
     \/ /\ tasks[j].state = "enqueue" /\ todo = {}
        /\ UNCHANGED <<handed, refused>>
        /\ Becomes(j, "complete", found, todo)

LEMMA WorkReports ==
  ASSUME TypeOK, NEW j \in DOMAIN tasks, Works(j)
  PROVE  Report(j)
<1> DEFINE found == tasks[j].found
           todo  == tasks[j].todo
<1>1. /\ tasks[j] \in Task /\ tasks \in [DOMAIN tasks -> Task]
      /\ found \in SUBSET Result /\ todo \in SUBSET Kind
  BY DEF TypeOK, Task
<1>2. ASSUME NEW state \in States, SetState(j, state)
      PROVE  Becomes(j, state, found, todo)
  <2>1. tasks[j] = [tasks[j] EXCEPT !.found = found, !.todo = todo]
    BY <1>1 DEF Task
  <2>2. [tasks[j] EXCEPT !.state = state] =
          [tasks[j] EXCEPT !.state = state, !.found = found, !.todo = todo]
    BY <1>1 DEF Task
  <2>3. tasks' = [tasks EXCEPT ![j] = [@ EXCEPT !.state = state, !.found = found,
                                                !.todo = todo]]
    BY <1>2, <2>2 DEF SetState
  <2> QED BY <1>1, <2>3, Updated
<1>3. ASSUME NEW state \in States, NEW some \in SUBSET Result,
             tasks' = [tasks EXCEPT ![j].state = state, ![j].found = some]
      PROVE  Becomes(j, state, some, todo)
  <2>1. [tasks[j] EXCEPT !.state = state, !.found = some] =
          [tasks[j] EXCEPT !.state = state, !.found = some, !.todo = todo]
    BY <1>1 DEF Task
  <2>2. tasks' = [tasks EXCEPT ![j] = [@ EXCEPT !.state = state, !.found = some,
                                                !.todo = todo]]
    BY <1>1, <1>3, <2>1
  <2> QED BY <1>1, <2>2, Updated
<1>4. ASSUME NEW state \in States, NEW some \in SUBSET Kind,
             tasks' = [tasks EXCEPT ![j].state = state, ![j].todo = some]
      PROVE  Becomes(j, state, found, some)
  <2>1. [tasks[j] EXCEPT !.state = state, !.todo = some] =
          [tasks[j] EXCEPT !.state = state, !.found = found, !.todo = some]
    BY <1>1 DEF Task
  <2>2. tasks' = [tasks EXCEPT ![j] = [@ EXCEPT !.state = state, !.found = found,
                                                !.todo = some]]
    BY <1>1, <1>4, <2>1
  <2> QED BY <1>1, <2>2, Updated
<1>5. CASE ProbeAnswers(j)
  <2>1. PICK answer \in Answers :
          tasks' = [tasks EXCEPT ![j].state = "host", ![j].found = answer]
    BY <1>5 DEF ProbeAnswers
  <2>2. answer \in SUBSET Result
    BY <2>1, Bounds, AnswerIs
  <2>3. Becomes(j, "host", answer, todo)
    BY <1>3, <2>1, <2>2 DEF States
  <2> QED BY <1>5, <2>3 DEF ProbeAnswers, history, Report
<1>6. GivenUp(j) => Becomes(j, "complete", {}, todo)
  BY <1>3 DEF GivenUp, States
<1>7. CASE ProbeGivenUp(j)
  BY <1>6, <1>7 DEF ProbeGivenUp, history, Report
<1>8. CASE EnsureHost(j)
  BY <1>2, <1>6, <1>8 DEF EnsureHost, history, Report, States
<1>9. CASE SkipFirewalled(j)
  BY <1>2, <1>9 DEF SkipFirewalled, history, Report, States
<1>10. CASE UpsertService(j)
  <2>1. Becomes(j, "flag", found, found \cap Kind)
    BY <1>4, <1>10 DEF UpsertService, States
  <2> QED BY <1>10, <2>1 DEF UpsertService, Report
<1>11. Fault => faults' # 0
  BY DEF Fault, TypeOK
<1>12. CASE UpsertFails(j)
  BY <1>2, <1>11, <1>12 DEF UpsertFails, Refuse, Report, States
<1>13. CASE FlagHoneypot(j)
  BY <1>2, <1>13 DEF FlagHoneypot, history, Report, States
<1>14. CASE FlagFails(j)
  <2>1. Becomes(j, "complete", found, {})
    BY <1>4, <1>14 DEF FlagFails, States
  <2> QED BY <1>11, <1>14, <2>1 DEF FlagFails, Refuse, Report
<1>15. CASE EnqueueEnrichment(j)
  <2>1. PICK kind \in todo :
          /\ handed' = handed \cup {<<tasks[j].key, kind>>}
          /\ tasks' = [tasks EXCEPT ![j].todo = @ \ {kind}]
    BY <1>15 DEF EnqueueEnrichment, First
  <2>2. tasks[j].state = "enqueue" /\ UNCHANGED refused
    BY <1>15 DEF EnqueueEnrichment
  <2>3. [tasks[j] EXCEPT !.todo = todo \ {kind}] =
          [tasks[j] EXCEPT !.state = "enqueue", !.found = found,
                           !.todo = todo \ {kind}]
    BY <1>1, <2>2 DEF Task
  <2>4. tasks' = [tasks EXCEPT ![j] = [@ EXCEPT !.state = "enqueue",
                                                !.found = found,
                                                !.todo = todo \ {kind}]]
    BY <1>1, <2>1, <2>3
  <2>5. Becomes(j, "enqueue", found, todo \ {kind})
    BY <1>1, <2>4, Updated DEF States
  <2> QED BY <2>1, <2>2, <2>5 DEF Report
<1>16. CASE EnqueueFails(j)
  <2>1. Becomes(j, "complete", found, {})
    BY <1>4, <1>16 DEF EnqueueFails, States
  <2> QED BY <1>11, <1>16, <2>1 DEF EnqueueFails, Refuse, Report
<1>17. CASE EnqueueDone(j)
  BY <1>2, <1>17 DEF EnqueueDone, history, Report, States
<1> QED
  BY <1>5, <1>7, <1>8, <1>9, <1>10, <1>12, <1>13, <1>14, <1>15, <1>16, <1>17
     DEF Works

-----------------------------------------------------------------------------
(* Types. *)

(* A task at work touches neither the clock, the queue nor the loops. *)
LEMMA WorkLeaves ==
  ASSUME NEW j, Works(j)
  PROVE  UNCHANGED <<clock, queue, nextId, pc, t, closed>>
  BY DEF Works, ProbeAnswers, ProbeGivenUp, EnsureHost, SkipFirewalled,
         UpsertService, UpsertFails, FlagHoneypot, FlagFails,
         EnqueueEnrichment, EnqueueFails, EnqueueDone, store, history

(* The tasks of a step at work are the tasks of before. *)
LEMMA WorkKeepsTasks ==
  ASSUME TypeOK, NEW j \in DOMAIN tasks, Works(j)
  PROVE  /\ DOMAIN tasks' = DOMAIN tasks
         /\ tasks' \in [DOMAIN tasks -> Task]
         /\ \A i \in DOMAIN tasks : tasks'[i].key = tasks[i].key
         /\ \A i \in DOMAIN tasks \ {j} : tasks'[i] = tasks[i]
<1>1. Report(j)
  BY WorkReports
<1>2. ASSUME NEW state, NEW found, NEW todo, Becomes(j, state, found, todo)
      PROVE  /\ DOMAIN tasks' = DOMAIN tasks
             /\ tasks' \in [DOMAIN tasks -> Task]
             /\ tasks'[j].key = tasks[j].key
             /\ \A i \in DOMAIN tasks \ {j} : tasks'[i] = tasks[i]
  BY <1>2 DEF Becomes
<1>3. \E state, found, todo : Becomes(j, state, found, todo)
  BY <1>1 DEF Report
<1> QED BY <1>2, <1>3

(* What a task at work does to the store. *)
LEMMA WorkStores ==
  ASSUME TypeOK, HostsStored, NEW j \in DOMAIN tasks, Works(j)
  PROVE  /\ hosts \subseteq hosts' /\ hosts' \subseteq Ip
         /\ honeypots' \subseteq hosts'
         /\ services' \in [DOMAIN services' -> SUBSET Kind]
         /\ DOMAIN services' \subseteq hosts' \X Port
         /\ faults' \in Nat
<1>1. tasks[j] \in Task /\ tasks[j].key \in Endpoint
  BY DEF TypeOK, Task
<1>2. tasks[j].key[1] \in Ip /\ tasks[j].key = <<tasks[j].key[1], tasks[j].key[2]>>
      /\ tasks[j].key[2] \in Port
  BY <1>1 DEF Endpoint
<1>3. tasks[j].state \in {"upsert", "flag"} => tasks[j].key[1] \in hosts
  BY DEF HostsStored
<1>4. tasks[j].state \in {"upsert", "flag"} => tasks[j].key \in hosts \X Port
  BY <1>2, <1>3
<1>5. StoreAnswer(j) /\ tasks[j].state = "upsert" =>
        /\ services' \in [DOMAIN services' -> SUBSET Kind]
        /\ DOMAIN services' \subseteq hosts \X Port
  BY <1>4 DEF StoreAnswer, Put, Overlay, TypeOK
<1>6. tasks[j].state = "flag" => WithFlag(tasks[j].key[1]) \subseteq hosts
  BY <1>3 DEF WithFlag, TypeOK
<1>7. Fault => faults' \in Nat
  BY DEF Fault, TypeOK
<1>8. CASE \/ ProbeAnswers(j) \/ ProbeGivenUp(j) \/ SkipFirewalled(j)
           \/ EnqueueEnrichment(j) \/ EnqueueDone(j)
  BY <1>8 DEF ProbeAnswers, ProbeGivenUp, SkipFirewalled, EnqueueEnrichment,
              EnqueueDone, store, TypeOK
<1>9. CASE EnsureHost(j)
  BY <1>2, <1>9 DEF EnsureHost, TypeOK
<1>10. CASE UpsertService(j)
  BY <1>5, <1>10 DEF UpsertService, TypeOK
<1>11. CASE UpsertFails(j)
  <2>1. StoreAnswer(j) \/ UNCHANGED services
    BY <1>11 DEF UpsertFails
  <2> QED BY <1>5, <1>7, <1>11, <2>1 DEF UpsertFails, TypeOK
<1>12. CASE FlagHoneypot(j)
  BY <1>6, <1>12 DEF FlagHoneypot, TypeOK
<1>13. CASE FlagFails(j)
  BY <1>6, <1>7, <1>13 DEF FlagFails, TypeOK
<1>14. CASE EnqueueFails(j)
  BY <1>7, <1>14 DEF EnqueueFails, store, TypeOK
<1> QED BY <1>8, <1>9, <1>10, <1>11, <1>12, <1>13, <1>14 DEF Works

(* The handed and the refused are pairs of an endpoint and a result. *)
LEMMA WorkReportsTyped ==
  ASSUME TypeOK, NEW j \in DOMAIN tasks, Works(j)
  PROVE  handed' \subseteq Endpoint \X Result /\ refused' \subseteq Endpoint \X Result
<1>1. /\ tasks[j].key \in Endpoint /\ tasks[j].found \in SUBSET Result
      /\ tasks[j].todo \in SUBSET Kind
  BY DEF TypeOK, Task
<1>2. Kind \subseteq Result /\ "service" \in Result
  BY DEF Result
<1>3. PICK key, found, todo :
        key = tasks[j].key /\ found = tasks[j].found /\ todo = tasks[j].todo
  OBVIOUS
<1>4. {key} \X found \subseteq Endpoint \X Result
      /\ {key} \X todo \subseteq Endpoint \X Result
  BY <1>1, <1>2, <1>3
<1>5. /\ <<key, "service">> \in Endpoint \X Result
      /\ \A kind \in todo : <<key, kind>> \in Endpoint \X Result
  BY <1>1, <1>2, <1>3
<1>6. Report(j)
  BY WorkReports
<1>7. \/ UNCHANGED <<handed, refused>>
      \/ UNCHANGED refused /\ handed' = handed \cup {<<key, "service">>}
      \/ UNCHANGED refused /\ \E kind \in todo : handed' = handed \cup {<<key, kind>>}
      \/ UNCHANGED handed /\ refused' = refused \cup {key} \X found
      \/ UNCHANGED handed /\ refused' = refused \cup {key} \X todo
  BY <1>3, <1>6 DEF Report
<1>8. handed \subseteq Endpoint \X Result /\ refused \subseteq Endpoint \X Result
  BY DEF TypeOK
<1> QED BY <1>4, <1>5, <1>7, <1>8

(* A claim's new tasks: named after rows of the queue and the new lease. *)
LEMMA ClaimStarts ==
  ASSUME TypeOK, NEW r \in Replica, ClaimServiceProbes(r)
  PROVE  /\ DOMAIN tasks \subseteq DOMAIN tasks'
         /\ DOMAIN tasks' \subseteq (Nat \ {0}) \X Nat
         /\ tasks' \in [DOMAIN tasks' -> Task]
         /\ \A j \in DOMAIN tasks' :
              \/ /\ j \in DOMAIN tasks /\ tasks'[j] = tasks[j]
                 /\ ~(RowId(j) \in Claimed(queue, Batch, t[r])
                        /\ Lease(j) = t[r] + LeaseTime)
              \/ /\ RowId(j) \in Claimed(queue, Batch, t[r])
                 /\ RowId(j) \in DOMAIN queue
                 /\ queue[RowId(j)].claimedUntil < t[r]
                 /\ Lease(j) = t[r] + LeaseTime
                 /\ j = <<RowId(j), t[r] + LeaseTime>>
                 /\ tasks'[j].key = queue[RowId(j)].key
                 /\ tasks'[j].state = "probe"
<1> DEFINE ids == Claimed(queue, Batch, t[r])
           new == {<<id, t[r] + LeaseTime>> : id \in ids}
<1>1. tasks' = Overlay(tasks, [j \in new |-> NewTask(r, RowId(j))])
  BY DEF ClaimServiceProbes
<1>2. \A id \in ids : id \in DOMAIN queue /\ queue[id].claimedUntil < t[r]
  BY ClaimedWasFree
<1>3. \A id \in DOMAIN queue : id \in Nat \ {0} /\ queue[id].key \in Endpoint
  BY DEF TypeOK, Row
<1>4. t[r] + LeaseTime \in Nat
  BY Bounds DEF TypeOK
<1>5. \A j \in new : /\ RowId(j) \in ids /\ Lease(j) = t[r] + LeaseTime
                     /\ j = <<RowId(j), t[r] + LeaseTime>>
                     /\ j \in (Nat \ {0}) \X Nat
  BY <1>2, <1>3, <1>4 DEF RowId, Lease
<1>6. DOMAIN tasks' = DOMAIN tasks \cup new
  BY <1>1 DEF Overlay
<1>7. \A j \in DOMAIN tasks \ new : tasks'[j] = tasks[j]
  BY <1>1 DEF Overlay
<1>8. \A j \in new : tasks'[j] = NewTask(r, RowId(j))
  BY <1>1 DEF Overlay
<1>9. \A id \in ids : /\ NewTask(r, id) \in Task
                      /\ NewTask(r, id).key = queue[id].key
                      /\ NewTask(r, id).state = "probe"
  BY <1>2, <1>3 DEF NewTask, Task
<1>10. \A j \in DOMAIN tasks' : tasks'[j] \in Task
  BY <1>5, <1>6, <1>7, <1>8, <1>9 DEF TypeOK
<1>11. DOMAIN tasks' \subseteq (Nat \ {0}) \X Nat
  BY <1>5, <1>6 DEF TypeOK
<1>12. \A j \in DOMAIN tasks :
         RowId(j) \in ids /\ Lease(j) = t[r] + LeaseTime => j \in new
  <2>1. \A j \in DOMAIN tasks : j = <<RowId(j), Lease(j)>>
    BY DEF TypeOK, RowId, Lease
  <2> QED BY <2>1
<1>13. tasks' \in [DOMAIN tasks' -> Task]
  BY <1>1, <1>10 DEF Overlay
<1> QED BY <1>2, <1>5, <1>6, <1>7, <1>8, <1>9, <1>11, <1>12, <1>13

(* When a task or its replica goes, the other tasks are what they were. *)
LEMMA EndKeepsTasks ==
  ASSUME TypeOK, \/ \E j \in DOMAIN tasks : Ends(j)
                 \/ \E r \in Replica : Crash(r)
  PROVE  /\ DOMAIN tasks' \subseteq DOMAIN tasks
         /\ tasks' \in [DOMAIN tasks' -> Task]
         /\ \A i \in DOMAIN tasks' : tasks'[i] = tasks[i]
<1>1. \E gone : tasks' = Remove(tasks, gone)
  BY DEF Ends, CompleteTask, CompleteFails, EndTask, Crash
<1> QED BY <1>1 DEF Remove, Restrict, TypeOK

(* The statements of the loops keep the rows and the keys of the queue. *)
LEMMA LoopKeepsRows ==
  ASSUME TypeOK, NEW r \in Replica, LoopStep(r) \/ ClaimFails(r)
  PROVE  /\ IsTable(queue', Endpoint)
         /\ DOMAIN queue' = DOMAIN queue
         /\ \A id \in DOMAIN queue : queue'[id].key = queue[id].key
         /\ UNCHANGED <<clock, nextId, store, history>>
         /\ r \in DOMAIN pc /\ t' \in [Replica -> Nat]
         /\ pc' \in [Replica -> {"read", "claim", "down"}]
         /\ faults' \in Nat
<1> DEFINE K == Endpoint
<1>tab. IsTable(queue, K)
  BY DEF TypeOK, IsTable
<1>nat. t[r] \in Nat /\ Batch \in Nat
  BY Bounds DEF TypeOK
<1>1. queue' = queue \/ queue' = Claim(queue, Batch, t[r])
  BY DEF LoopStep, ReadClock, ClaimServiceProbes, ClaimNothing, ClaimFails
<1>2. /\ IsTable(queue', K) /\ DOMAIN queue' = DOMAIN queue
      /\ \A id \in DOMAIN queue : queue'[id].key = queue[id].key
  <2> HIDE DEF K
  <2>1. CASE queue' = queue
    BY <1>tab, <2>1
  <2>2. CASE queue' = Claim(queue, Batch, t[r])
    BY <1>tab, <1>nat, <2>2, ClaimKeepsRows
  <2> QED BY <1>1, <2>1, <2>2
<1>3. UNCHANGED <<clock, nextId, store, history>>
  BY DEF LoopStep, ReadClock, ClaimServiceProbes, ClaimNothing, ClaimFails
<1>4. t' \in [Replica -> Nat]
  BY DEF LoopStep, ReadClock, ClaimServiceProbes, ClaimNothing, ClaimFails, TypeOK
<1>5. pc' \in [Replica -> {"read", "claim", "down"}] /\ r \in DOMAIN pc
  BY DEF LoopStep, ReadClock, ClaimServiceProbes, ClaimNothing, ClaimFails,
         Goto, TypeOK
<1>6. faults' \in Nat
  BY DEF LoopStep, ReadClock, ClaimServiceProbes, ClaimNothing, ClaimFails,
         Fault, TypeOK
<1> QED BY <1>2, <1>3, <1>4, <1>5, <1>6

LEMMA TypeInit == Init => TypeOK
  BY Bounds DEF Init, TypeOK, NoEntries, Row

(* Every step keeps the types, given that tasks store hosts first. *)
LEMMA TypeStep == TypeOK /\ HostsStored /\ [Next]_vars => TypeOK'
<1> SUFFICES ASSUME TypeOK, HostsStored, [Next]_vars PROVE TypeOK'
  OBVIOUS
<1>1. ASSUME NEW key \in Endpoint, InsertServiceProbe(key) PROVE TypeOK'
  <2> DEFINE K == Endpoint
  <2>1. nextId \notin DOMAIN queue /\ IsTable(queue, K) /\ key \in K
    BY DEF TypeOK, IsTable
  <2>2. queue' = Insert(queue, nextId, key)
    BY <1>1 DEF InsertServiceProbe
  <2>3. IsTable(queue', K)
    <3> HIDE DEF K
    <3> QED BY <2>1, <2>2, InsertKeepsRows
  <2>4. DOMAIN queue' = IF key \in Keys(queue) THEN DOMAIN queue
                        ELSE DOMAIN queue \cup {nextId}
    BY <2>2 DEF Insert, Put, Overlay
  <2>5. UNCHANGED <<clock, pc, t, tasks, store, faults, history>>
        /\ nextId' = IF key \in Keys(queue) THEN nextId ELSE nextId + 1
    BY <1>1 DEF InsertServiceProbe
  <2>6. /\ DOMAIN queue' \cup DOMAIN closed = 1 .. nextId' - 1
        /\ DOMAIN queue' \cap DOMAIN closed = {}
        /\ nextId' \in Nat \ {0}
    <3>1. /\ DOMAIN queue \cup DOMAIN closed = 1 .. nextId - 1
          /\ DOMAIN queue \cap DOMAIN closed = {}
          /\ nextId \in Nat \ {0}
      BY DEF TypeOK
    <3>2. CASE key \in Keys(queue)
      BY <2>4, <2>5, <3>1, <3>2
    <3>3. CASE key \notin Keys(queue)
      <4>1. DOMAIN queue' = DOMAIN queue \cup {nextId} /\ nextId' = nextId + 1
        BY <2>4, <2>5, <3>3
      <4>2. 1 .. nextId = (1 .. nextId - 1) \cup {nextId}
        BY <3>1
      <4> QED BY <2>5, <3>1, <4>1, <4>2
    <3> QED BY <3>2, <3>3
  <2> QED BY <2>3, <2>5, <2>6 DEF TypeOK, IsTable, store, history
<1>2. CASE Tick
  BY <1>2 DEF Tick, TypeOK, store, history
<1>3. ASSUME NEW r \in Replica, LoopStep(r) \/ ClaimFails(r) PROVE TypeOK'
  <2>1. /\ IsTable(queue', Endpoint) /\ DOMAIN queue' = DOMAIN queue
        /\ UNCHANGED <<clock, nextId, store, history>>
        /\ t' \in [Replica -> Nat]
        /\ pc' \in [Replica -> {"read", "claim", "down"}]
        /\ faults' \in Nat
    BY <1>3, LoopKeepsRows
  <2>2. /\ DOMAIN tasks' \subseteq (Nat \ {0}) \X Nat
        /\ tasks' \in [DOMAIN tasks' -> Task]
    <3>1. CASE ClaimServiceProbes(r)
      BY <3>1, ClaimStarts
    <3>2. CASE UNCHANGED tasks
      BY <3>2 DEF TypeOK
    <3> QED BY <1>3, <3>1, <3>2 DEF LoopStep, ReadClock, ClaimNothing, ClaimFails
  <2> QED BY <2>1, <2>2 DEF TypeOK, IsTable, store, history
<1>4. ASSUME NEW r \in Replica, Crash(r) PROVE TypeOK'
  <2>1. /\ DOMAIN tasks' \subseteq DOMAIN tasks
        /\ tasks' \in [DOMAIN tasks' -> Task]
    BY <1>4, EndKeepsTasks
  <2> QED BY <1>4, <2>1 DEF Crash, Fault, Goto, TypeOK, store, history
<1>5. ASSUME NEW r \in Replica, Restart(r) PROVE TypeOK'
  BY <1>5 DEF Restart, Goto, TypeOK, store, history
<1>6. ASSUME NEW j \in DOMAIN tasks, Works(j) PROVE TypeOK'
  <2>1. UNCHANGED <<clock, queue, nextId, pc, t, closed>>
    BY <1>6, WorkLeaves
  <2>2. DOMAIN tasks' = DOMAIN tasks /\ tasks' \in [DOMAIN tasks -> Task]
    BY <1>6, WorkKeepsTasks
  <2>3. /\ hosts' \subseteq Ip /\ honeypots' \subseteq hosts'
        /\ services' \in [DOMAIN services' -> SUBSET Kind]
        /\ DOMAIN services' \subseteq hosts' \X Port
        /\ faults' \in Nat
    BY <1>6, WorkStores
  <2>4. handed' \subseteq Endpoint \X Result /\ refused' \subseteq Endpoint \X Result
    BY <1>6, WorkReportsTyped
  <2> QED BY <2>1, <2>2, <2>3, <2>4 DEF TypeOK
<1>7. ASSUME NEW j \in DOMAIN tasks, CompleteFails(j) PROVE TypeOK'
  <2>1. /\ DOMAIN tasks' \subseteq DOMAIN tasks
        /\ tasks' \in [DOMAIN tasks' -> Task]
    BY <1>7, EndKeepsTasks DEF Ends
  <2> QED BY <1>7, <2>1 DEF CompleteFails, Fault, TypeOK, store, history
<1>8. ASSUME NEW j \in DOMAIN tasks, CompleteTask(j) PROVE TypeOK'
  <2>1. /\ DOMAIN tasks' \subseteq DOMAIN tasks
        /\ tasks' \in [DOMAIN tasks' -> Task]
    BY <1>8, EndKeepsTasks DEF Ends
  <2>2. tasks[j] \in Task
    BY DEF TypeOK
  <2>3. PICK id, key, found :
          id = RowId(j) /\ key = tasks[j].key /\ found = tasks[j].found
    OBVIOUS
  <2>4. queue' = Remove(queue, {id})
    BY <1>8, <2>3 DEF CompleteTask, Complete
  <2>5. DOMAIN queue' = DOMAIN queue \ {id} /\ IsTable(queue', Endpoint)
    BY <2>4 DEF Remove, Restrict, IsTable, TypeOK
  <2>6. closed' = IF id \in DOMAIN queue
                  THEN Put(closed, id, [key |-> key, found |-> found]) ELSE closed
    BY <1>8, <2>3 DEF CompleteTask
  <2>7. key \in Endpoint /\ found \in SUBSET Result
    BY <2>2, <2>3 DEF Task
  <2>8. closed' \in [DOMAIN closed' -> [key: Endpoint, found: SUBSET Result]]
    <3>1. CASE id \in DOMAIN queue
      BY <2>6, <2>7, <3>1 DEF Put, Overlay, TypeOK
    <3>2. CASE id \notin DOMAIN queue
      BY <2>6, <3>2 DEF TypeOK
    <3> QED BY <3>1, <3>2
  <2>9. DOMAIN closed' = IF id \in DOMAIN queue THEN DOMAIN closed \cup {id}
                         ELSE DOMAIN closed
    BY <2>6 DEF Put, Overlay
  <2>10. /\ DOMAIN queue' \cup DOMAIN closed' = 1 .. nextId - 1
         /\ DOMAIN queue' \cap DOMAIN closed' = {}
    BY <2>5, <2>9 DEF TypeOK
  <2>11. UNCHANGED <<clock, nextId, pc, t, store, faults, handed, refused>>
    BY <1>8 DEF CompleteTask
  <2> QED BY <2>1, <2>5, <2>8, <2>10, <2>11 DEF TypeOK, IsTable, store
<1>9. CASE UNCHANGED vars
  BY <1>9 DEF vars, store, history, TypeOK
<1> QED
  BY <1>1, <1>2, <1>3, <1>4, <1>5, <1>6, <1>7, <1>8, <1>9
     DEF Next, TaskStep, TaskFails, Works

-----------------------------------------------------------------------------
(* Times, rows and hosts. *)

(* A step is an insert, a tick, a loop's, the end of tasks or a task's. *)
LEMMA StepIs ==
  ASSUME [Next]_vars
  PROVE  \/ \E key \in Endpoint : InsertServiceProbe(key)
         \/ Tick
         \/ \E r \in Replica : ClaimServiceProbes(r)
         \/ \E r \in Replica : ClaimFails(r)
         \/ \E r \in Replica : ReadClock(r) \/ ClaimNothing(r) \/ Restart(r)
         \/ \E r \in Replica : Crash(r)
         \/ \E j \in DOMAIN tasks : Works(j)
         \/ \E j \in DOMAIN tasks : CompleteTask(j)
         \/ \E j \in DOMAIN tasks : CompleteFails(j)
         \/ UNCHANGED vars
  BY DEF Next, LoopStep, TaskStep, TaskFails, Works

(* Nobody reads a time that is still to come. *)
LEMMA TimesStep == TypeOK /\ TimesPast /\ [Next]_vars => TimesPast'
<1> SUFFICES ASSUME TypeOK, TimesPast, [Next]_vars PROVE TimesPast'
  OBVIOUS
<1>0. ASSUME UNCHANGED t, clock' \in {clock, clock + 1} PROVE TimesPast'
  BY <1>0 DEF TimesPast, TypeOK
<1>1. ASSUME NEW key \in Endpoint, InsertServiceProbe(key) PROVE TimesPast'
  BY <1>0, <1>1 DEF InsertServiceProbe
<1>2. CASE Tick
  BY <1>0, <1>2 DEF Tick
<1>3. ASSUME NEW r \in Replica, ClaimServiceProbes(r) PROVE TimesPast'
  BY <1>0, <1>3 DEF ClaimServiceProbes
<1>4. ASSUME NEW r \in Replica, ClaimFails(r) PROVE TimesPast'
  BY <1>0, <1>4 DEF ClaimFails
<1>5. ASSUME NEW r \in Replica, ReadClock(r) PROVE TimesPast'
  BY <1>5 DEF ReadClock, TimesPast, TypeOK
<1>6. ASSUME NEW r \in Replica, ClaimNothing(r) \/ Restart(r) PROVE TimesPast'
  BY <1>6 DEF ClaimNothing, Restart, TimesPast, TypeOK
<1>7. ASSUME NEW r \in Replica, Crash(r) PROVE TimesPast'
  BY <1>0, <1>7 DEF Crash
<1>8. ASSUME NEW j \in DOMAIN tasks, Works(j) PROVE TimesPast'
  BY <1>0, <1>8, WorkLeaves
<1>9. ASSUME NEW j \in DOMAIN tasks, CompleteTask(j) \/ CompleteFails(j)
      PROVE  TimesPast'
  BY <1>0, <1>9 DEF CompleteTask, CompleteFails
<1>10. CASE UNCHANGED vars
  BY <1>0, <1>10 DEF vars
<1> QED
  BY StepIs, <1>1, <1>2, <1>3, <1>4, <1>5, <1>6, <1>7, <1>8, <1>9, <1>10

(* A task is about its row's endpoint, also after the row is closed. *)
LEMMA KeysStep == TypeOK /\ JobKeys /\ [Next]_vars => JobKeys'
<1> SUFFICES ASSUME TypeOK, JobKeys, [Next]_vars PROVE JobKeys'
  OBVIOUS
<1> DEFINE K == Endpoint
<1>tab. IsTable(queue, K)
  BY DEF TypeOK, IsTable
<1>nat. nextId \in Nat \ {0}
  BY DEF TypeOK
(* All that matters when no task is new and no row changes hands. *)
<1>same. ASSUME DOMAIN tasks' \subseteq DOMAIN tasks,
                \A i \in DOMAIN tasks' : tasks'[i].key = tasks[i].key,
                DOMAIN queue' = DOMAIN queue,
                \A x \in DOMAIN queue : queue'[x].key = queue[x].key,
                UNCHANGED <<nextId, closed>>
         PROVE  JobKeys'
  BY <1>same DEF JobKeys
<1>claim. ASSUME NEW r \in Replica,
                 \/ queue' = queue
                 \/ queue' = Claim(queue, Batch, t[r])
          PROVE  /\ DOMAIN queue' = DOMAIN queue
                 /\ \A x \in DOMAIN queue : queue'[x].key = queue[x].key
  <2> HIDE DEF K
  <2>1. CASE queue' = queue
    BY <2>1
  <2>2. CASE queue' = Claim(queue, Batch, t[r])
    BY <1>tab, <2>2, ClaimKeepsKeys
  <2> QED BY <1>claim, <2>1, <2>2
<1>1. ASSUME NEW key \in Endpoint, InsertServiceProbe(key) PROVE JobKeys'
  <2>1. nextId \notin DOMAIN queue
    BY DEF TypeOK
  <2>2. /\ \A x \in DOMAIN queue : queue'[x] = queue[x]
        /\ DOMAIN queue' \subseteq DOMAIN queue \cup {nextId}
    BY <1>1, <2>1 DEF InsertServiceProbe, Insert, Put, Overlay
  <2>3. nextId' \in {nextId, nextId + 1} /\ UNCHANGED <<tasks, closed>>
    BY <1>1 DEF InsertServiceProbe, history
  <2> QED BY <1>nat, <2>2, <2>3 DEF JobKeys
<1>2. CASE Tick
  BY <1>2, <1>same DEF Tick, history
<1>3. ASSUME NEW r \in Replica, ClaimServiceProbes(r) PROVE JobKeys'
  <2>1. queue' = Claim(queue, Batch, t[r]) /\ UNCHANGED <<nextId, closed>>
    BY <1>3 DEF ClaimServiceProbes, history
  <2>2. /\ DOMAIN queue' = DOMAIN queue
        /\ \A x \in DOMAIN queue : queue'[x].key = queue[x].key
    BY <1>claim, <2>1
  <2>3. \A j \in DOMAIN tasks' :
          \/ j \in DOMAIN tasks /\ tasks'[j] = tasks[j]
          \/ RowId(j) \in DOMAIN queue /\ tasks'[j].key = queue[RowId(j)].key
    BY <1>3, ClaimStarts
  <2>4. \A id \in DOMAIN queue : id \in 1 .. nextId - 1 /\ id \notin DOMAIN closed
    BY DEF TypeOK
  <2> QED BY <2>1, <2>2, <2>3, <2>4 DEF JobKeys
<1>4. ASSUME NEW r \in Replica, ClaimFails(r) PROVE JobKeys'
  <2>1. \/ queue' = queue
        \/ queue' = Claim(queue, Batch, t[r])
    BY <1>4 DEF ClaimFails
  <2> QED BY <1>claim, <1>same, <1>4, <2>1 DEF ClaimFails, history
<1>5. ASSUME NEW r \in Replica, ReadClock(r) \/ ClaimNothing(r) \/ Restart(r)
      PROVE  JobKeys'
  BY <1>5, <1>same DEF ReadClock, ClaimNothing, Restart, history
<1>6. ASSUME NEW r \in Replica, Crash(r) PROVE JobKeys'
  BY <1>6, <1>same, EndKeepsTasks DEF Crash, history
<1>7. ASSUME NEW j \in DOMAIN tasks, Works(j) PROVE JobKeys'
  BY <1>7, <1>same, WorkLeaves, WorkKeepsTasks
<1>8. ASSUME NEW j \in DOMAIN tasks, CompleteTask(j) PROVE JobKeys'
  <2>1. /\ DOMAIN tasks' \subseteq DOMAIN tasks
        /\ \A i \in DOMAIN tasks' : tasks'[i] = tasks[i]
    BY <1>8, EndKeepsTasks DEF Ends
  <2>2. PICK id, key, found :
          id = RowId(j) /\ key = tasks[j].key /\ found = tasks[j].found
    OBVIOUS
  <2>3. /\ DOMAIN queue' \subseteq DOMAIN queue
        /\ \A x \in DOMAIN queue' : queue'[x] = queue[x]
    BY <1>8 DEF CompleteTask, Complete, Remove, Restrict
  <2>4. \A x \in DOMAIN closed' :
          \/ x \in DOMAIN closed /\ closed'[x] = closed[x]
          \/ x = id /\ id \in DOMAIN queue /\ closed'[x].key = key
    <3>1. closed' = IF id \in DOMAIN queue
                    THEN Put(closed, id, [key |-> key, found |-> found])
                    ELSE closed
      BY <1>8, <2>2 DEF CompleteTask
    <3> QED BY <3>1 DEF Put, Overlay
  <2>5. id \in DOMAIN queue => queue[id].key = key
    BY <2>2 DEF JobKeys
  <2>6. UNCHANGED nextId
    BY <1>8 DEF CompleteTask
  <2> QED BY <2>1, <2>3, <2>4, <2>5, <2>6 DEF JobKeys
<1>9. ASSUME NEW j \in DOMAIN tasks, CompleteFails(j) PROVE JobKeys'
  BY <1>9, <1>same, EndKeepsTasks DEF Ends, CompleteFails, history
<1>10. CASE UNCHANGED vars
  BY <1>10, <1>same DEF vars, history
<1> QED
  BY StepIs, <1>1, <1>2, <1>3, <1>4, <1>5, <1>6, <1>7, <1>8, <1>9, <1>10

(* A task that is to store an answer has stored its host. *)
LEMMA HostsStep == TypeOK /\ HostsStored /\ [Next]_vars => HostsStored'
<1> SUFFICES ASSUME TypeOK, HostsStored, [Next]_vars PROVE HostsStored'
  OBVIOUS
<1>same. ASSUME hosts \subseteq hosts', DOMAIN tasks' \subseteq DOMAIN tasks,
                \A i \in DOMAIN tasks' : tasks'[i] = tasks[i]
         PROVE  HostsStored'
  BY <1>same DEF HostsStored
<1>1. ASSUME NEW key \in Endpoint, InsertServiceProbe(key) PROVE HostsStored'
  BY <1>1, <1>same DEF InsertServiceProbe, store
<1>2. CASE Tick
  BY <1>2, <1>same DEF Tick, store
<1>3. ASSUME NEW r \in Replica, ClaimServiceProbes(r) PROVE HostsStored'
  <2>1. \A j \in DOMAIN tasks' :
          \/ j \in DOMAIN tasks /\ tasks'[j] = tasks[j]
          \/ tasks'[j].state = "probe"
    BY <1>3, ClaimStarts
  <2>2. UNCHANGED hosts
    BY <1>3 DEF ClaimServiceProbes, store
  <2> QED BY <2>1, <2>2 DEF HostsStored
<1>4. ASSUME NEW r \in Replica, ClaimFails(r) PROVE HostsStored'
  BY <1>4, <1>same DEF ClaimFails, store
<1>5. ASSUME NEW r \in Replica, ReadClock(r) \/ ClaimNothing(r) \/ Restart(r)
      PROVE  HostsStored'
  BY <1>5, <1>same DEF ReadClock, ClaimNothing, Restart, store
<1>6. ASSUME NEW r \in Replica, Crash(r) PROVE HostsStored'
  BY <1>6, <1>same, EndKeepsTasks DEF Crash, store
<1>7. ASSUME NEW j \in DOMAIN tasks, Works(j) PROVE HostsStored'
  <2>1. /\ DOMAIN tasks' = DOMAIN tasks
        /\ tasks'[j].key = tasks[j].key
        /\ \A i \in DOMAIN tasks \ {j} : tasks'[i] = tasks[i]
    BY <1>7, WorkKeepsTasks
  <2>2. hosts \subseteq hosts'
    BY <1>7, WorkStores
  <2>3. tasks'[j].state \in {"upsert", "flag"} =>
          \/ tasks[j].state \in {"upsert", "flag"}
          \/ tasks[j].state = "host"
    BY <1>7, WorkReports DEF Report, Becomes
  <2>4. CASE EnsureHost(j)
    <3>1. tasks[j].key[1] \in hosts'
      BY <2>4 DEF EnsureHost
    <3> QED BY <2>1, <2>2, <3>1 DEF HostsStored
  <2>5. CASE ~EnsureHost(j)
    <3>1. tasks'[j].state \in {"upsert", "flag"} =>
            tasks[j].state \in {"upsert", "flag"}
      <4>1. tasks[j].state = "host" => tasks'[j].state = "complete"
        <5> SUFFICES ASSUME tasks[j].state = "host"
                     PROVE  tasks'[j].state = "complete"
          OBVIOUS
        <5>1. ProbeGivenUp(j)
          BY <1>7, <2>5
          DEF Works, ProbeAnswers, SkipFirewalled, UpsertService, UpsertFails,
              FlagHoneypot, FlagFails, EnqueueEnrichment, EnqueueFails, EnqueueDone
        <5> QED BY <5>1 DEF ProbeGivenUp, GivenUp, TypeOK, Task
      <4> QED BY <2>3, <4>1
    <3> QED BY <2>1, <2>2, <3>1 DEF HostsStored
  <2> QED BY <2>4, <2>5
<1>8. ASSUME NEW j \in DOMAIN tasks, CompleteTask(j) \/ CompleteFails(j)
      PROVE  HostsStored'
  BY <1>8, <1>same, EndKeepsTasks DEF Ends, CompleteTask, CompleteFails, store
<1>9. CASE UNCHANGED vars
  BY <1>9, <1>same DEF vars, store
<1> QED BY StepIs, <1>1, <1>2, <1>3, <1>4, <1>5, <1>6, <1>7, <1>8, <1>9

-----------------------------------------------------------------------------
(* Leases. *)

Leases == LeasesCurrent /\ LiveLeaseExclusive

(* A row carries its latest lease, so two live tasks on it are the same. *)
LEMMA LeaseStep ==
  TypeOK /\ JobKeys /\ TimesPast /\ Leases /\ [Next]_vars => Leases'
<1> SUFFICES ASSUME TypeOK, JobKeys, TimesPast, Leases, [Next]_vars
             PROVE  Leases'
  OBVIOUS
<1> DEFINE K == Endpoint
<1>tab. IsTable(queue, K)
  BY DEF TypeOK, IsTable
<1>nat. /\ clock \in Nat /\ LeaseTime \in Nat \ {0} /\ Batch \in Nat
        /\ \A r \in Replica : t[r] \in Nat /\ t[r] <= clock
        /\ \A id \in DOMAIN queue : queue[id].claimedUntil \in Nat
        /\ \A j \in DOMAIN tasks : Lease(j) \in Nat /\ j = <<RowId(j), Lease(j)>>
  BY Bounds DEF TypeOK, TimesPast, Row, RowId, Lease
(* All that matters when no task is new, and no lease. *)
<1>same. ASSUME clock' \in {clock, clock + 1}, DOMAIN tasks' \subseteq DOMAIN tasks,
                \A j \in DOMAIN tasks : RowId(j) \in DOMAIN queue' =>
                  /\ RowId(j) \in DOMAIN queue
                  /\ queue'[RowId(j)].claimedUntil = queue[RowId(j)].claimedUntil
         PROVE  Leases'
  <2>1. \A j \in DOMAIN tasks : clock' <= Lease(j) => clock <= Lease(j)
    BY <1>same, <1>nat
  <2>2. LeasesCurrent'
    BY <1>same, <2>1 DEF Leases, LeasesCurrent, Live
  <2>3. LiveLeaseExclusive'
    BY <1>same, <2>1 DEF Leases, LiveLeaseExclusive, Live
  <2> QED BY <2>2, <2>3 DEF Leases
(* A claim leaves the leases of other rows alone; those it takes were over. *)
<1>claim. ASSUME NEW r \in Replica, queue' = Claim(queue, Batch, t[r])
          PROVE  /\ DOMAIN queue' = DOMAIN queue
                 /\ \A x \in DOMAIN queue :
                      \/ queue'[x].claimedUntil = queue[x].claimedUntil
                      \/ /\ queue[x].claimedUntil < t[r]
                         /\ queue'[x].claimedUntil = t[r] + LeaseTime
                 /\ \A x \in Claimed(queue, Batch, t[r]) :
                      queue'[x].claimedUntil = t[r] + LeaseTime
  <2>1. \A x \in Claimed(queue, Batch, t[r]) : queue[x].claimedUntil < t[r]
    BY ClaimedWasFree
  <2>2. DOMAIN queue' = DOMAIN queue
    BY <1>claim DEF Claim
  <2>3. \A x \in DOMAIN queue :
          queue'[x].claimedUntil = IF x \in Claimed(queue, Batch, t[r])
                                   THEN t[r] + LeaseTime
                                   ELSE queue[x].claimedUntil
    BY <1>tab, <1>claim DEF Claim, IsTable, Row
  <2>4. Claimed(queue, Batch, t[r]) \subseteq DOMAIN queue
    BY ClaimedWasFree
  <2> QED BY <2>1, <2>2, <2>3, <2>4
<1>1. ASSUME NEW key \in Endpoint, InsertServiceProbe(key) PROVE Leases'
  <2>1. /\ \A x \in DOMAIN queue : queue'[x] = queue[x]
        /\ DOMAIN queue' \subseteq DOMAIN queue \cup {nextId}
    <3>1. nextId \notin DOMAIN queue
      BY DEF TypeOK
    <3> QED BY <1>1, <3>1 DEF InsertServiceProbe, Insert, Put, Overlay
  <2>2. \A j \in DOMAIN tasks : RowId(j) # nextId
    BY DEF JobKeys, TypeOK
  <2>3. UNCHANGED <<clock, tasks>>
    BY <1>1 DEF InsertServiceProbe
  <2> QED BY <1>same, <2>1, <2>2, <2>3
<1>2. CASE Tick
  BY <1>2, <1>same DEF Tick
<1>3. ASSUME NEW r \in Replica, ClaimServiceProbes(r) PROVE Leases'
  <2> DEFINE until == t[r] + LeaseTime
             ids   == Claimed(queue, Batch, t[r])
             New(j) == /\ RowId(j) \in ids /\ RowId(j) \in DOMAIN queue
                       /\ queue[RowId(j)].claimedUntil < t[r]
                       /\ Lease(j) = until /\ j = <<RowId(j), until>>
             Old(j) == /\ j \in DOMAIN tasks
                       /\ ~(RowId(j) \in ids /\ Lease(j) = until)
  <2>1. \A j \in DOMAIN tasks' : New(j) \/ Old(j)
    BY <1>3, ClaimStarts
  <2>2. queue' = Claim(queue, Batch, t[r]) /\ UNCHANGED clock
    BY <1>3 DEF ClaimServiceProbes
  <2>3. /\ DOMAIN queue' = DOMAIN queue
        /\ \A x \in DOMAIN queue :
             \/ queue'[x].claimedUntil = queue[x].claimedUntil
             \/ queue[x].claimedUntil < t[r] /\ queue'[x].claimedUntil = until
        /\ \A x \in ids : queue'[x].claimedUntil = until
    BY <1>claim, <2>2
  <2>4. until \in Nat /\ t[r] \in Nat /\ t[r] <= clock /\ t[r] < until
    BY <1>nat
  (* A task from before on a row whose lease was over has outlived its own. *)
  <2>5. ASSUME NEW j \in DOMAIN tasks, RowId(j) \in DOMAIN queue,
               queue[RowId(j)].claimedUntil < t[r]
        PROVE  Lease(j) < clock /\ Lease(j) < until
    <3>1. /\ Lease(j) <= queue[RowId(j)].claimedUntil
          /\ Lease(j) \in Nat /\ queue[RowId(j)].claimedUntil \in Nat
      BY <1>nat, <2>5 DEF Leases, LeasesCurrent
    <3> QED BY <1>nat, <2>4, <2>5, <3>1
  <2>6. ASSUME NEW j \in DOMAIN tasks', RowId(j) \in DOMAIN queue'
        PROVE  /\ Lease(j) <= queue'[RowId(j)].claimedUntil
               /\ clock <= Lease(j) => queue'[RowId(j)].claimedUntil = Lease(j)
    <3>1. CASE New(j)
      BY <2>3, <2>4, <3>1
    <3>2. CASE Old(j)
      <4>1. CASE queue'[RowId(j)].claimedUntil = queue[RowId(j)].claimedUntil
        BY <2>3, <2>6, <3>2, <4>1 DEF Leases, LeasesCurrent, Live
      <4>2. CASE /\ queue[RowId(j)].claimedUntil < t[r]
                 /\ queue'[RowId(j)].claimedUntil = until
        <5>1. Lease(j) < clock /\ Lease(j) < until /\ Lease(j) \in Nat
          BY <1>nat, <2>3, <2>5, <2>6, <3>2, <4>2
        <5> QED BY <1>nat, <2>4, <4>2, <5>1
      <4> QED BY <2>3, <2>6, <4>1, <4>2
    <3> QED BY <2>1, <3>1, <3>2
  <2>7. LeasesCurrent'
    BY <2>2, <2>6 DEF LeasesCurrent, Live
  <2>8. ASSUME NEW i \in DOMAIN tasks', NEW j \in DOMAIN tasks', i # j,
               RowId(i) = RowId(j)
        PROVE  ~(clock <= Lease(i)) \/ ~(clock <= Lease(j))
    <3>1. CASE Old(i) /\ Old(j)
      BY <2>8, <3>1 DEF Leases, LiveLeaseExclusive, Live
    <3>2. CASE New(i) /\ New(j)
      BY <2>8, <3>2
    <3>3. CASE Old(i) /\ New(j)
      <4>1. Lease(i) < clock /\ Lease(i) \in Nat
        BY <1>nat, <2>5, <2>8, <3>3
      <4> QED BY <1>nat, <4>1
    <3>4. CASE New(i) /\ Old(j)
      <4>1. Lease(j) < clock /\ Lease(j) \in Nat
        BY <1>nat, <2>5, <2>8, <3>4
      <4> QED BY <1>nat, <4>1
    <3> QED BY <2>1, <3>1, <3>2, <3>3, <3>4
  <2>9. LiveLeaseExclusive'
    BY <2>2, <2>8 DEF LiveLeaseExclusive, Live
  <2> QED BY <2>7, <2>9 DEF Leases
(* A claim whose answer is lost may move leases on all the same. *)
<1>4. ASSUME NEW r \in Replica, ClaimFails(r) PROVE Leases'
  <2>1. UNCHANGED <<clock, tasks>>
    BY <1>4 DEF ClaimFails
  <2>2. CASE queue' = queue
    BY <1>same, <2>1, <2>2
  <2>3. CASE queue' = Claim(queue, Batch, t[r])
    <3>1. ASSUME NEW j \in DOMAIN tasks, RowId(j) \in DOMAIN queue'
          PROVE  /\ Lease(j) <= queue'[RowId(j)].claimedUntil
                 /\ clock <= Lease(j) => queue'[RowId(j)].claimedUntil = Lease(j)
      <4>1. RowId(j) \in DOMAIN queue
        BY <1>claim, <2>3, <3>1
      <4>2. /\ Lease(j) <= queue[RowId(j)].claimedUntil
            /\ clock <= Lease(j) => queue[RowId(j)].claimedUntil = Lease(j)
        BY <4>1 DEF Leases, LeasesCurrent, Live
      <4>3. \/ queue'[RowId(j)].claimedUntil = queue[RowId(j)].claimedUntil
            \/ /\ queue[RowId(j)].claimedUntil < t[r]
               /\ queue'[RowId(j)].claimedUntil = t[r] + LeaseTime
        BY <1>claim, <2>3, <4>1
      <4> QED BY <1>nat, <4>1, <4>2, <4>3
    <3>2. LeasesCurrent'
      BY <2>1, <3>1 DEF LeasesCurrent, Live
    <3>3. LiveLeaseExclusive'
      BY <2>1 DEF Leases, LiveLeaseExclusive, Live
    <3> QED BY <3>2, <3>3 DEF Leases
  <2> QED BY <1>4, <2>2, <2>3 DEF ClaimFails
<1>5. ASSUME NEW r \in Replica, ReadClock(r) \/ ClaimNothing(r) \/ Restart(r)
      PROVE  Leases'
  BY <1>5, <1>same DEF ReadClock, ClaimNothing, Restart
<1>6. ASSUME NEW r \in Replica, Crash(r) PROVE Leases'
  BY <1>6, <1>same, EndKeepsTasks DEF Crash
<1>7. ASSUME NEW j \in DOMAIN tasks, Works(j) PROVE Leases'
  BY <1>7, <1>same, WorkLeaves, WorkKeepsTasks
<1>8. ASSUME NEW j \in DOMAIN tasks, CompleteTask(j) PROVE Leases'
  <2>1. DOMAIN tasks' \subseteq DOMAIN tasks /\ UNCHANGED clock
    BY <1>8, EndKeepsTasks DEF Ends, CompleteTask
  <2>2. /\ DOMAIN queue' \subseteq DOMAIN queue
        /\ \A x \in DOMAIN queue' : queue'[x] = queue[x]
    BY <1>8 DEF CompleteTask, Complete, Remove, Restrict
  <2> QED BY <1>same, <2>1, <2>2
<1>9. ASSUME NEW j \in DOMAIN tasks, CompleteFails(j) PROVE Leases'
  BY <1>9, <1>same, EndKeepsTasks DEF Ends, CompleteFails
<1>10. CASE UNCHANGED vars
  BY <1>10, <1>same DEF vars
<1> QED
  BY StepIs, <1>1, <1>2, <1>3, <1>4, <1>5, <1>6, <1>7, <1>8, <1>9, <1>10

-----------------------------------------------------------------------------
(* What was found is reported. *)

(* What Reported says of one task, when given is handed or refused. *)
Faithful(task, given) ==
  /\ task.state \in {"host", "upsert", "flag", "enqueue"} => task.found \in Answer
  /\ task.state \in {"flag", "enqueue"} =>
       /\ task.found # Firewalled
       /\ \A res \in task.found \ task.todo : <<task.key, res>> \in given
  /\ task.state = "complete" =>
       \/ task.found = Firewalled
       \/ \A res \in task.found : <<task.key, res>> \in given

LEMMA FaithfulGrows ==
  ASSUME NEW task, NEW given, NEW more, given \subseteq more, Faithful(task, given)
  PROVE  Faithful(task, more)
  BY DEF Faithful

LEMMA ReportedIs ==
  Reported <=> \A j \in DOMAIN tasks : Faithful(tasks[j], handed \cup refused)
  BY DEF Reported, Faithful

(* A task at work stays faithful: what leaves todo was handed or refused. *)
LEMMA WorkIsFaithful ==
  ASSUME TypeOK, Reported, NEW j \in DOMAIN tasks, Works(j)
  PROVE  /\ handed \cup refused \subseteq handed' \cup refused'
         /\ Faithful(tasks'[j], handed' \cup refused')
<1>1. PICK task, key, found, todo :
        /\ task = tasks'[j]
        /\ key = tasks[j].key /\ found = tasks[j].found /\ todo = tasks[j].todo
  OBVIOUS
<1>2. /\ found \in SUBSET Result /\ todo \in SUBSET Kind
      /\ tasks[j].state \in {"host", "upsert", "flag", "enqueue"} => found \in Answer
      /\ tasks[j].state \in {"flag", "enqueue"} =>
           /\ found # Firewalled
           /\ \A res \in found \ todo : <<key, res>> \in handed \cup refused
  BY <1>1, ReportedIs DEF TypeOK, Task, Faithful
<1>3. ASSUME NEW state, NEW some, NEW left, Becomes(j, state, some, left)
      PROVE  /\ task.key = key /\ task.state = state /\ task.found = some
             /\ task.todo = left
  BY <1>1, <1>3 DEF Becomes
<1> DEFINE given == handed' \cup refused'
<1>4. CASE /\ tasks[j].state = "probe" /\ UNCHANGED <<handed, refused>>
           /\ \E answer \in Answers : Becomes(j, "host", answer, todo)
  BY <1>1, <1>3, <1>4, Bounds DEF Faithful
<1>5. CASE /\ tasks[j].state \in {"probe", "host"} /\ UNCHANGED <<handed, refused>>
           /\ Becomes(j, "complete", {}, todo)
  BY <1>1, <1>3, <1>5 DEF Faithful
<1>6. CASE /\ tasks[j].state = "host" /\ UNCHANGED <<handed, refused>>
           /\ Becomes(j, "upsert", found, todo)
  BY <1>1, <1>2, <1>3, <1>6 DEF Faithful
<1>7. CASE /\ tasks[j].state = "upsert" /\ UNCHANGED <<handed, refused>>
           /\ found = Firewalled
           /\ Becomes(j, "complete", found, todo)
  BY <1>1, <1>3, <1>7 DEF Faithful
<1>8. CASE /\ tasks[j].state = "upsert" /\ found # Firewalled
           /\ handed' = handed \cup {<<key, "service">>} /\ UNCHANGED refused
           /\ Becomes(j, "flag", found, found \cap Kind)
  <2>1. found \in Answer
    BY <1>2, <1>8
  <2>2. found \ {"service"} = found \cap Kind
    BY <1>8, <2>1, AnswerIs
  <2>3. \A res \in found \ (found \cap Kind) : <<key, res>> \in given
    BY <1>8, <2>2
  <2> QED BY <1>1, <1>3, <1>8, <2>1, <2>3 DEF Faithful
<1>9. CASE /\ tasks[j].state = "upsert"
           /\ UNCHANGED handed /\ refused' = refused \cup {key} \X found
           /\ Becomes(j, "complete", found, todo)
  <2>1. \A res \in found : <<key, res>> \in given
    BY <1>9
  <2> QED BY <1>1, <1>3, <1>9, <2>1 DEF Faithful
<1>10. CASE /\ tasks[j].state = "flag" /\ UNCHANGED <<handed, refused>>
            /\ Becomes(j, "enqueue", found, todo)
  BY <1>1, <1>2, <1>3, <1>10 DEF Faithful
<1>11. CASE /\ tasks[j].state \in {"flag", "enqueue"}
            /\ UNCHANGED handed /\ refused' = refused \cup {key} \X todo
            /\ Becomes(j, "complete", found, {})
  <2>1. \A res \in found : <<key, res>> \in given
    BY <1>2, <1>11
  <2> QED BY <1>1, <1>3, <1>11, <2>1 DEF Faithful
<1>12. CASE /\ tasks[j].state = "enqueue" /\ UNCHANGED refused
            /\ \E kind \in todo :
                 /\ handed' = handed \cup {<<key, kind>>}
                 /\ Becomes(j, "enqueue", found, todo \ {kind})
  <2>1. PICK kind \in todo : /\ handed' = handed \cup {<<key, kind>>}
                             /\ Becomes(j, "enqueue", found, todo \ {kind})
    BY <1>12
  <2>2. \A res \in found \ (todo \ {kind}) : <<key, res>> \in given
    BY <1>2, <1>12, <2>1
  <2> QED BY <1>1, <1>2, <1>3, <1>12, <2>1, <2>2 DEF Faithful
<1>13. CASE /\ tasks[j].state = "enqueue" /\ todo = {}
            /\ UNCHANGED <<handed, refused>>
            /\ Becomes(j, "complete", found, todo)
  <2>1. \A res \in found : <<key, res>> \in given
    BY <1>2, <1>13
  <2> QED BY <1>1, <1>3, <1>13, <2>1 DEF Faithful
<1>14. Report(j)
  BY WorkReports
<1> QED
  BY <1>1, <1>4, <1>5, <1>6, <1>7, <1>8, <1>9, <1>10, <1>11, <1>12, <1>13, <1>14
     DEF Report

(* No step loses a result that was found and not given up. *)
LEMMA ReportedStep == TypeOK /\ Reported /\ [Next]_vars => Reported'
<1> SUFFICES ASSUME TypeOK, Reported, [Next]_vars PROVE Reported'
  OBVIOUS
<1> DEFINE given == handed \cup refused
<1>old. \A j \in DOMAIN tasks : Faithful(tasks[j], given)
  BY ReportedIs
<1>new. (\A j \in DOMAIN tasks' : Faithful(tasks'[j], given')) => Reported'
  BY DEF Reported, Faithful
<1>same. ASSUME DOMAIN tasks' \subseteq DOMAIN tasks,
                \A i \in DOMAIN tasks' : tasks'[i] = tasks[i],
                UNCHANGED <<handed, refused>>
         PROVE  Reported'
  BY <1>old, <1>new, <1>same
<1>1. ASSUME NEW key \in Endpoint, InsertServiceProbe(key) PROVE Reported'
  BY <1>1, <1>same DEF InsertServiceProbe, history
<1>2. CASE Tick
  BY <1>2, <1>same DEF Tick, history
<1>3. ASSUME NEW r \in Replica, ClaimServiceProbes(r) PROVE Reported'
  <2>1. \A j \in DOMAIN tasks' :
          \/ j \in DOMAIN tasks /\ tasks'[j] = tasks[j]
          \/ tasks'[j].state = "probe"
    BY <1>3, ClaimStarts
  <2>2. UNCHANGED <<handed, refused>>
    BY <1>3 DEF ClaimServiceProbes, history
  <2>3. \A j \in DOMAIN tasks' :
          tasks'[j].state = "probe" => Faithful(tasks'[j], given')
    BY DEF Faithful
  <2>4. \A j \in DOMAIN tasks' : Faithful(tasks'[j], given')
    BY <1>old, <2>1, <2>2, <2>3
  <2> QED BY <1>new, <2>4
<1>4. ASSUME NEW r \in Replica, ClaimFails(r) PROVE Reported'
  BY <1>4, <1>same DEF ClaimFails, history
<1>5. ASSUME NEW r \in Replica, ReadClock(r) \/ ClaimNothing(r) \/ Restart(r)
      PROVE  Reported'
  BY <1>5, <1>same DEF ReadClock, ClaimNothing, Restart, history
<1>6. ASSUME NEW r \in Replica, Crash(r) PROVE Reported'
  BY <1>6, <1>same, EndKeepsTasks DEF Crash, history
<1>7. ASSUME NEW j \in DOMAIN tasks, Works(j) PROVE Reported'
  <2>1. given \subseteq given' /\ Faithful(tasks'[j], given')
    BY <1>7, WorkIsFaithful
  <2>2. /\ DOMAIN tasks' = DOMAIN tasks
        /\ \A i \in DOMAIN tasks \ {j} : tasks'[i] = tasks[i]
    BY <1>7, WorkKeepsTasks
  <2>3. \A i \in DOMAIN tasks \ {j} : Faithful(tasks'[i], given')
    <3> HIDE DEF given
    <3> QED BY <1>old, <2>1, <2>2, FaithfulGrows
  <2> QED BY <1>new, <2>1, <2>2, <2>3
<1>8. ASSUME NEW j \in DOMAIN tasks, CompleteTask(j) \/ CompleteFails(j)
      PROVE  Reported'
  BY <1>8, <1>same, EndKeepsTasks DEF Ends, CompleteTask, CompleteFails, history
<1>9. CASE UNCHANGED vars
  BY <1>9, <1>same DEF vars, history
<1> QED BY StepIs, <1>1, <1>2, <1>3, <1>4, <1>5, <1>6, <1>7, <1>8, <1>9

-----------------------------------------------------------------------------
(* Honeypots. *)

(* A claim overwrites no task: their leases on its rows were shorter. *)
LEMMA ClaimKeepsTasks ==
  ASSUME TypeOK, LeasesCurrent, NEW r \in Replica, ClaimServiceProbes(r)
  PROVE  \A j \in DOMAIN tasks : j \in DOMAIN tasks' /\ tasks'[j] = tasks[j]
<1> SUFFICES ASSUME NEW j \in DOMAIN tasks
             PROVE  j \in DOMAIN tasks' /\ tasks'[j] = tasks[j]
  OBVIOUS
<1>1. j \in DOMAIN tasks'
  BY ClaimStarts
<1>2. ASSUME RowId(j) \in DOMAIN queue, queue[RowId(j)].claimedUntil < t[r],
             Lease(j) = t[r] + LeaseTime
      PROVE  FALSE
  <2>1. /\ t[r] \in Nat /\ LeaseTime \in Nat
        /\ queue[RowId(j)].claimedUntil \in Nat
    BY <1>2, Bounds DEF TypeOK, Row
  <2>2. t[r] + LeaseTime <= queue[RowId(j)].claimedUntil
    BY <1>2 DEF LeasesCurrent
  <2> QED BY <1>2, <2>1, <2>2
<1> QED BY <1>1, <1>2, ClaimStarts

(* No host that passes the limit is left with nobody to mark it. *)
LEMMA HoneypotStep ==
  TypeOK /\ LeasesCurrent /\ HoneypotFlagged /\ [Next]_vars => HoneypotFlagged'
<1> SUFFICES ASSUME TypeOK, LeasesCurrent, HoneypotFlagged, [Next]_vars, faults' = 0
             PROVE  \A ip \in hosts' :
                      IsHoneypot(ip)' =>
                        \/ ip \in honeypots'
                        \/ \E j \in DOMAIN tasks' :
                              tasks'[j].state = "flag" /\ tasks'[j].key[1] = ip
  BY DEF HoneypotFlagged
<1> DEFINE Flagging(i, ip) == tasks[i].state = "flag" /\ tasks[i].key[1] = ip
           Marked(ip) == \/ ip \in honeypots
                         \/ \E i \in DOMAIN tasks : Flagging(i, ip)
           MarkedNext(ip) == \/ ip \in honeypots'
                             \/ \E i \in DOMAIN tasks' :
                                  /\ tasks'[i].state = "flag"
                                  /\ tasks'[i].key[1] = ip
           Goal == \A ip \in hosts' : IsHoneypot(ip)' => MarkedNext(ip)
<1>0. Fault => FALSE
  BY DEF Fault, TypeOK
<1>marked. ASSUME faults = 0, NEW ip \in hosts, IsHoneypot(ip) PROVE Marked(ip)
  BY <1>marked DEF HoneypotFlagged
(* The usual step: no service is new, and who is to mark a host still is. *)
<1>same. ASSUME UNCHANGED <<services, hosts, faults>>, honeypots \subseteq honeypots',
                \A i \in DOMAIN tasks : tasks[i].state = "flag" =>
                  i \in DOMAIN tasks' /\ tasks'[i] = tasks[i]
         PROVE  Goal
  <2> SUFFICES ASSUME NEW ip \in hosts, IsHoneypot(ip)' PROVE MarkedNext(ip)
    BY <1>same
  <2>1. IsHoneypot(ip)
    BY <1>same DEF IsHoneypot, ServicesOf
  <2>2. Marked(ip)
    BY <1>marked, <1>same, <2>1
  <2> QED BY <1>same, <2>2
<1>1. ASSUME NEW key \in Endpoint, InsertServiceProbe(key) PROVE Goal
  BY <1>1, <1>same DEF InsertServiceProbe, store
<1>2. CASE Tick
  BY <1>2, <1>same DEF Tick, store
<1>3. ASSUME NEW r \in Replica, ClaimServiceProbes(r) PROVE Goal
  BY <1>3, <1>same, ClaimKeepsTasks DEF ClaimServiceProbes, store
<1>4. ASSUME NEW r \in Replica, ReadClock(r) \/ ClaimNothing(r) \/ Restart(r)
      PROVE  Goal
  BY <1>4, <1>same DEF ReadClock, ClaimNothing, Restart, store
<1>5. ASSUME NEW r \in Replica, ClaimFails(r) \/ Crash(r) PROVE Goal
  BY <1>0, <1>5 DEF ClaimFails, Crash
<1>6. ASSUME NEW j \in DOMAIN tasks, Works(j) PROVE Goal
  <2>tasks. /\ DOMAIN tasks' = DOMAIN tasks
            /\ \A i \in DOMAIN tasks \ {j} : tasks'[i] = tasks[i]
            /\ tasks'[j].key = tasks[j].key
    BY <1>6, WorkKeepsTasks
  <2>report. Report(j)
    BY <1>6, WorkReports
  <2>1. CASE \/ ProbeAnswers(j) \/ ProbeGivenUp(j) \/ SkipFirewalled(j)
             \/ EnqueueEnrichment(j) \/ EnqueueDone(j)
    <3>1. UNCHANGED <<services, hosts, faults, honeypots>> /\ tasks[j].state # "flag"
      BY <2>1 DEF ProbeAnswers, ProbeGivenUp, SkipFirewalled, EnqueueEnrichment,
                  EnqueueDone, store
    <3> QED BY <1>same, <2>tasks, <3>1
  (* A host that is new has no service. *)
  <2>2. CASE EnsureHost(j)
    <3>1. /\ UNCHANGED <<services, faults, honeypots>>
          /\ tasks[j].state = "host"
          /\ hosts' = hosts \cup {tasks[j].key[1]}
      BY <2>2 DEF EnsureHost
    <3> SUFFICES ASSUME NEW ip \in hosts', IsHoneypot(ip)' PROVE MarkedNext(ip)
      OBVIOUS
    <3>2. IsHoneypot(ip)
      BY <3>1 DEF IsHoneypot, ServicesOf
    <3>3. ip \in hosts
      <4> SUFFICES ASSUME ip \notin hosts PROVE FALSE
        OBVIOUS
      <4>1. ServicesOf(ip) = {}
        BY DEF ServicesOf, TypeOK
      <4>2. Cardinality(ServicesOf(ip)) = 0
        BY <4>1, FS_EmptySet
      <4> QED BY <3>2, <4>2, Bounds DEF IsHoneypot
    <3>4. Marked(ip)
      BY <1>marked, <3>1, <3>2, <3>3
    <3> QED BY <2>tasks, <3>1, <3>4
  (* Whose answer is the one too many is to count the services next. *)
  <2>3. CASE UpsertService(j)
    <3>1. /\ UNCHANGED <<hosts, honeypots, faults>>
          /\ tasks[j].state = "upsert"
          /\ StoreAnswer(j)
      BY <2>3 DEF UpsertService
    <3>2. tasks'[j].state = "flag"
      BY <2>3 DEF UpsertService, TypeOK, Task
    <3> SUFFICES ASSUME NEW ip \in hosts, IsHoneypot(ip)' PROVE MarkedNext(ip)
      BY <3>1
    <3>3. CASE ip = tasks[j].key[1]
      BY <2>tasks, <3>2, <3>3
    <3>4. CASE ip # tasks[j].key[1]
      <4>1. DOMAIN services' = DOMAIN services \cup {tasks[j].key}
        BY <3>1 DEF StoreAnswer, Put, Overlay
      <4>2. {k \in DOMAIN services' : k[1] = ip} = {k \in DOMAIN services : k[1] = ip}
        BY <3>4, <4>1
      <4>3. IsHoneypot(ip)
        BY <4>2 DEF IsHoneypot, ServicesOf
      <4>4. Marked(ip)
        BY <1>marked, <3>1, <4>3
      <4> QED BY <2>tasks, <3>1, <4>4
    <3> QED BY <3>3, <3>4
  <2>4. CASE FlagHoneypot(j)
    <3>1. /\ UNCHANGED <<services, hosts, faults>>
          /\ honeypots' = WithFlag(tasks[j].key[1])
      BY <2>4 DEF FlagHoneypot
    <3>2. honeypots \subseteq honeypots'
      BY <3>1 DEF WithFlag
    <3> SUFFICES ASSUME NEW ip \in hosts, IsHoneypot(ip)' PROVE MarkedNext(ip)
      BY <3>1
    <3>3. IsHoneypot(ip)
      BY <3>1 DEF IsHoneypot, ServicesOf
    <3>4. CASE ip = tasks[j].key[1]
      BY <3>1, <3>3, <3>4 DEF WithFlag
    <3>5. CASE ip # tasks[j].key[1]
      <4>1. Marked(ip)
        BY <1>marked, <3>1, <3>3
      <4> QED BY <2>tasks, <3>2, <3>5, <4>1
    <3> QED BY <3>4, <3>5
  <2>5. CASE UpsertFails(j) \/ FlagFails(j) \/ EnqueueFails(j)
    BY <1>0, <2>5 DEF UpsertFails, FlagFails, EnqueueFails
  <2> QED BY <1>6, <2>1, <2>2, <2>3, <2>4, <2>5 DEF Works
<1>7. ASSUME NEW j \in DOMAIN tasks, CompleteTask(j) PROVE Goal
  <2>1. /\ tasks[j].state = "complete" /\ tasks' = Remove(tasks, {j})
        /\ UNCHANGED <<hosts, honeypots, services, faults>>
    BY <1>7 DEF CompleteTask, EndTask, store
  <2>2. \A i \in DOMAIN tasks : tasks[i].state = "flag" =>
          i \in DOMAIN tasks' /\ tasks'[i] = tasks[i]
    BY <2>1 DEF Remove, Restrict
  <2> QED BY <1>same, <2>1, <2>2
<1>8. ASSUME NEW j \in DOMAIN tasks, CompleteFails(j) PROVE Goal
  BY <1>0, <1>8 DEF CompleteFails
<1>9. CASE UNCHANGED vars
  BY <1>9, <1>same DEF vars, store
<1> QED BY StepIs, <1>1, <1>2, <1>3, <1>4, <1>5, <1>6, <1>7, <1>8, <1>9

-----------------------------------------------------------------------------
(* The stage implements its promise. *)

Pending == [id \in DOMAIN queue |-> queue[id].key]

LEMMA RefinesInit == Init => JQ!JQInit
  BY DEF Init, JQ!JQInit, NoEntries, JQ!NoEntries

(* Whatever a task is about was submitted. *)
LEMMA TaskSubmitted ==
  ASSUME TypeOK, JobKeys, NEW j \in DOMAIN tasks
  PROVE  tasks[j].key \in JQ!Submitted
<1>1. RowId(j) \in DOMAIN queue \cup DOMAIN closed
  BY DEF JobKeys, TypeOK
<1>2. CASE RowId(j) \in DOMAIN queue
  BY <1>2 DEF JobKeys, JQ!Submitted, JQ!Range
<1>3. CASE RowId(j) \in DOMAIN closed
  BY <1>3 DEF JobKeys, JQ!Submitted
<1> QED BY <1>1, <1>2, <1>3

(* Each step of the stage is one of the promise, or none at all. *)
LEMMA RefinesStep ==
  TypeOK /\ JobKeys /\ Reported /\ [Next]_vars => [JQ!JQNext]_JQ!abstractVars
<1> SUFFICES ASSUME TypeOK, JobKeys, Reported, [Next]_vars
             PROVE  [JQ!JQNext]_JQ!abstractVars
  OBVIOUS
<1> DEFINE K == Endpoint
<1>tab. IsTable(queue, K)
  BY DEF TypeOK, IsTable
<1>nat. nextId \in Nat
  BY DEF TypeOK
(* Leases, times and tasks are nothing the neighbours see. *)
<1>stutter. ASSUME DOMAIN queue' = DOMAIN queue,
                   \A x \in DOMAIN queue : queue'[x].key = queue[x].key,
                   UNCHANGED history
            PROVE  UNCHANGED JQ!abstractVars
  <2>1. Pending' = Pending
    BY <1>stutter DEF Pending
  <2> QED BY <1>stutter, <2>1 DEF JQ!abstractVars, Pending, history
<1>1. ASSUME NEW key \in Endpoint, InsertServiceProbe(key)
      PROVE  [JQ!JQNext]_JQ!abstractVars
  <2>1. UNCHANGED history /\ nextId \in 1 .. MaxRows
    BY <1>1, Bounds DEF InsertServiceProbe, TypeOK
  <2>2. CASE key \in Keys(queue)
    BY <1>1, <1>stutter, <2>1, <2>2 DEF InsertServiceProbe, Insert
  <2>3. CASE key \notin Keys(queue)
    <3>1. queue' = Put(queue, nextId, NewRow(key))
      BY <1>1, <2>3 DEF InsertServiceProbe, Insert
    <3>2. nextId \notin DOMAIN queue /\ nextId \notin JQ!Used
      BY <1>nat DEF TypeOK, JQ!Used, NoEntries
    <3>3. key \notin JQ!Range(Pending)
      BY <2>3 DEF Keys, JQ!Range, Pending
    <3>4. Pending' = JQ!Put(Pending, nextId, key)
      <4>1. /\ DOMAIN queue' = DOMAIN queue \cup {nextId}
            /\ queue'[nextId].key = key
            /\ \A x \in DOMAIN queue : x # nextId => queue'[x] = queue[x]
        BY <3>1 DEF Put, Overlay, NewRow
      <4> QED BY <3>2, <4>1 DEF Pending, JQ!Put, JQ!Overlay
    <3>5. JQ!Submit(nextId, key)
      BY <2>1, <3>2, <3>3, <3>4 DEF JQ!Submit, Pending, history, NoEntries
    <3> QED BY <2>1, <3>5 DEF JQ!JQNext
  <2> QED BY <2>2, <2>3
<1>2. CASE Tick
  BY <1>2, <1>stutter DEF Tick
<1>3. ASSUME NEW r \in Replica,
             ClaimServiceProbes(r) \/ ClaimFails(r) \/ ReadClock(r) \/ ClaimNothing(r)
      PROVE  [JQ!JQNext]_JQ!abstractVars
  <2>1. /\ DOMAIN queue' = DOMAIN queue
        /\ \A x \in DOMAIN queue : queue'[x].key = queue[x].key
        /\ UNCHANGED history
    BY <1>3, LoopKeepsRows DEF LoopStep
  <2> QED BY <1>stutter, <2>1
<1>4. ASSUME NEW r \in Replica, Crash(r) \/ Restart(r)
      PROVE  [JQ!JQNext]_JQ!abstractVars
  BY <1>4, <1>stutter DEF Crash, Restart
<1>5. ASSUME NEW j \in DOMAIN tasks, Works(j)
      PROVE  [JQ!JQNext]_JQ!abstractVars
  <2>1. PICK key, found, todo :
          key = tasks[j].key /\ found = tasks[j].found /\ todo = tasks[j].todo
    OBVIOUS
  <2>2. UNCHANGED <<queue, closed>>
    BY <1>5, WorkLeaves
  <2>3. key \in JQ!Submitted
    BY <2>1, TaskSubmitted
  <2>4. Pending' = Pending
    BY <2>2 DEF Pending
  <2>5. /\ found \in SUBSET Result /\ todo \in SUBSET Result
        /\ "service" \in Result
    BY <2>1 DEF TypeOK, Task, Result
  <2>6. \/ UNCHANGED <<handed, refused>>
        \/ UNCHANGED refused /\ handed' = handed \cup {<<key, "service">>}
        \/ UNCHANGED refused /\ \E kind \in todo : handed' = handed \cup {<<key, kind>>}
        \/ UNCHANGED handed /\ refused' = refused \cup {key} \X found
        \/ UNCHANGED handed /\ refused' = refused \cup {key} \X todo
    BY <1>5, <2>1, WorkReports DEF Report
  <2>7. CASE UNCHANGED <<handed, refused>>
    BY <1>stutter, <2>2, <2>7 DEF history
  <2>8. ASSUME NEW res \in Result, UNCHANGED refused,
               handed' = handed \cup {<<key, res>>}
        PROVE  JQ!JQNext
    <3>1. JQ!Hand(key, res)
      BY <2>2, <2>3, <2>4, <2>8 DEF JQ!Hand, Pending, NoEntries
    <3> QED BY <2>3, <3>1 DEF JQ!JQNext
  <2>9. ASSUME NEW results \in SUBSET Result, UNCHANGED handed,
               refused' = refused \cup {key} \X results
        PROVE  JQ!JQNext
    <3>1. JQ!Refuse(key, results)
      BY <2>2, <2>3, <2>4, <2>9 DEF JQ!Refuse, Pending, NoEntries
    <3> QED BY <2>3, <3>1 DEF JQ!JQNext
  <2> QED BY <2>5, <2>6, <2>7, <2>8, <2>9
<1>6. ASSUME NEW j \in DOMAIN tasks, CompleteTask(j)
      PROVE  [JQ!JQNext]_JQ!abstractVars
  <2>1. PICK id, key, found :
          id = RowId(j) /\ key = tasks[j].key /\ found = tasks[j].found
    OBVIOUS
  <2>2. /\ queue' = Remove(queue, {id})
        /\ UNCHANGED <<handed, refused>>
    BY <1>6, <2>1 DEF CompleteTask, Complete
  <2>3. CASE id \notin DOMAIN queue
    <3>1. UNCHANGED history
      BY <1>6, <2>1, <2>3 DEF CompleteTask, history
    <3>2. DOMAIN queue' = DOMAIN queue /\ \A x \in DOMAIN queue : queue'[x] = queue[x]
      BY <2>2, <2>3 DEF Remove, Restrict
    <3> QED BY <1>stutter, <3>1, <3>2
  <2>4. CASE id \in DOMAIN queue
    <3>1. queue[id].key = key
      BY <2>1, <2>4 DEF JobKeys
    <3>2. closed' = Put(closed, id, [key |-> key, found |-> found])
      BY <1>6, <2>1, <2>4 DEF CompleteTask
    <3>3. \/ found = Firewalled
          \/ \A res \in found : <<key, res>> \in handed \cup refused
      BY <1>6, <2>1 DEF CompleteTask, Reported
    <3>4. JQ!Accounted(key, found)
      BY <3>3 DEF JQ!Accounted
    <3>5. Pending' = JQ!Remove(Pending, {id})
      BY <2>2 DEF Pending, Remove, Restrict, JQ!Remove, JQ!Restrict
    <3>6. Pending[id] = key /\ id \in DOMAIN Pending
      BY <2>4, <3>1 DEF Pending
    <3>7. closed' = JQ!Put(closed, id, [key |-> key, found |-> found])
      BY <3>2 DEF Put, Overlay, JQ!Put, JQ!Overlay
    <3>8. JQ!Close(id, found)
      BY <2>2, <3>4, <3>5, <3>6, <3>7 DEF JQ!Close, Pending, NoEntries
    <3>9. found \in SUBSET Result
      BY <2>1 DEF TypeOK, Task
    <3>10. \E x \in DOMAIN Pending, f \in SUBSET Result : JQ!Close(x, f)
      BY <3>6, <3>8, <3>9
    <3> QED BY <3>10 DEF JQ!JQNext, Pending
  <2> QED BY <2>3, <2>4
<1>7. ASSUME NEW j \in DOMAIN tasks, CompleteFails(j)
      PROVE  [JQ!JQNext]_JQ!abstractVars
  BY <1>7, <1>stutter DEF CompleteFails
<1>8. CASE UNCHANGED vars
  BY <1>8, <1>stutter DEF vars
<1> QED BY StepIs, <1>1, <1>2, <1>3, <1>4, <1>5, <1>6, <1>7, <1>8

-----------------------------------------------------------------------------
(* The theorems. *)

(* The inductive invariant, whole: every state reached satisfies it. *)
THEOREM Invariant == Spec => []IInv
<1>1. Init => IInv
  BY TypeInit, Bounds
     DEF Init, IInv, JobKeys, TimesPast, HostsStored, LeasesCurrent,
         LiveLeaseExclusive, HoneypotFlagged, Reported, NoEntries
<1>2. IInv /\ [Next]_vars => IInv'
  BY TypeStep, KeysStep, TimesStep, HostsStep, LeaseStep, HoneypotStep, ReportedStep
     DEF IInv, Leases
<1> QED BY <1>1, <1>2, PTL DEF Spec

(***************************************************************************)
(* Tables and tasks keep their types, a service and a honeypot mark belong *)
(* to a stored host, and each row of queue_service_probes has one fate.    *)
(***************************************************************************)
THEOREM Typing == Spec => []TypeOK
  BY Invariant, PTL DEF IInv

(***************************************************************************)
(* Of two tasks on one row of queue_service_probes, one has outlived its   *)
(* lease, however many rows a claim takes and whatever crashes or fails.   *)
(***************************************************************************)
THEOREM LeasesExclude == Spec => []LiveLeaseExclusive
  BY Invariant, PTL DEF IInv

(* A step leaves a running lease alone, or completes its row. *)
LEMMA LeaseKeptStep ==
  ASSUME TypeOK, TimesPast, [Next]_vars
  PROVE  LeaseKept
<1> SUFFICES ASSUME NEW id \in DOMAIN queue, clock <= queue[id].claimedUntil
             PROVE  \/ /\ id \in DOMAIN queue'
                       /\ queue'[id].claimedUntil = queue[id].claimedUntil
                    \/ \E j \in DOMAIN tasks : RowId(j) = id /\ CompleteTask(j)
  BY DEF LeaseKept
<1> DEFINE Kept == /\ id \in DOMAIN queue'
                   /\ queue'[id].claimedUntil = queue[id].claimedUntil
<1>nat. /\ clock \in Nat /\ queue[id].claimedUntil \in Nat
        /\ \A r \in Replica : t[r] \in Nat
  BY DEF TypeOK, Row
<1>late. ASSUME NEW r \in Replica PROVE ~ queue[id].claimedUntil < t[r]
  BY <1>nat DEF TimesPast
<1>same. ASSUME UNCHANGED queue PROVE Kept
  BY <1>same
<1>claim. ASSUME NEW r \in Replica, queue' = Claim(queue, Batch, t[r]) PROVE Kept
  <2>1. id \notin Claimed(queue, Batch, t[r])
    BY <1>late, ClaimedWasFree
  <2> QED BY <1>claim, <2>1, ClaimLeavesOthers
<1>1. ASSUME NEW key \in Endpoint, InsertServiceProbe(key) PROVE Kept
  <2>1. nextId \notin DOMAIN queue
    BY DEF TypeOK
  <2>2. /\ \A x \in DOMAIN queue : queue'[x] = queue[x]
        /\ DOMAIN queue \subseteq DOMAIN queue'
    BY <1>1, <2>1 DEF InsertServiceProbe, Insert, Put, Overlay
  <2> QED BY <2>2
<1>2. ASSUME NEW r \in Replica, ClaimServiceProbes(r) \/ ClaimFails(r) PROVE Kept
  BY <1>2, <1>claim, <1>same DEF ClaimServiceProbes, ClaimFails
<1>3. ASSUME NEW r \in Replica,
             ReadClock(r) \/ ClaimNothing(r) \/ Restart(r) \/ Crash(r)
      PROVE  Kept
  BY <1>3, <1>same DEF ReadClock, ClaimNothing, Restart, Crash
<1>4. ASSUME NEW j \in DOMAIN tasks, Works(j) \/ CompleteFails(j) PROVE Kept
  BY <1>4, <1>same, WorkLeaves DEF CompleteFails
<1>5. ASSUME NEW j \in DOMAIN tasks, CompleteTask(j), RowId(j) # id PROVE Kept
  BY <1>5 DEF CompleteTask, Complete, Remove, Restrict
<1>6. CASE Tick \/ UNCHANGED vars
  BY <1>6, <1>same DEF Tick, vars
<1> QED BY StepIs, <1>1, <1>2, <1>3, <1>4, <1>5, <1>6

(***************************************************************************)
(* No claim disturbs a lease that still runs, with whatever time it        *)
(* compares, also one whose claimer is gone.                               *)
(***************************************************************************)
THEOREM LeasesStay == Spec => LeaseUndisturbed
<1>1. IInv /\ [Next]_vars => [LeaseKept]_vars
  BY LeaseKeptStep DEF IInv
<1> QED BY <1>1, Invariant, PTL DEF Spec, LeaseUndisturbed

(***************************************************************************)
(* As long as nothing fails, a host with too many services is marked as a  *)
(* honeypot or a task is about to count them: the upsert and the count of  *)
(* upsert_service are two statements, and the tasks of all replicas        *)
(* interleave them.                                                        *)
(***************************************************************************)
THEOREM HoneypotsMarked == Spec => []HoneypotFlagged
  BY Invariant, PTL DEF IInv

(***************************************************************************)
(* The stage is an at-least-once queue: an endpoint leaves it only when    *)
(* the probe that closed it found nothing or a firewall, or each result it *)
(* found was stored, queued, or kept back by an error.                     *)
(***************************************************************************)
THEOREM Implements == Spec => ImplementsJobQueue
<1>1. IInv /\ [Next]_vars => [JQ!JQNext]_JQ!abstractVars
  BY RefinesStep DEF IInv
<1> QED
  BY <1>1, Invariant, RefinesInit, PTL DEF Spec, ImplementsJobQueue, JQ!JQSpec

-----------------------------------------------------------------------------
(* What the stage promises, by way of the abstract queue.                   *)
JP == INSTANCE JobQueueProofs WITH
        Id <- 1 .. MaxRows,
        Key <- Endpoint,
        Result <- Result,
        Decoys <- {Firewalled},
        pending <- [id \in DOMAIN queue |-> queue[id].key],
        dropped <- NoEntries

(* JobQueueProofs names the queue anew: the same queue under the same names. *)
LEMMA SameQueue == ImplementsJobQueue => JP!JQSpec
<1>1. JQ!JQInit => JP!JQInit
  BY DEF JQ!JQInit, JP!JQInit, JQ!NoEntries, JP!NoEntries
<1>2. [JQ!JQNext]_JQ!abstractVars => [JP!JQNext]_JP!abstractVars
  BY DEF JQ!JQNext, JP!JQNext, JQ!abstractVars, JP!abstractVars,
         JQ!Submit, JP!Submit, JQ!Hand, JP!Hand, JQ!Refuse, JP!Refuse,
         JQ!Close, JP!Close, JQ!Drop, JP!Drop, JQ!Submitted, JP!Submitted,
         JQ!Used, JP!Used, JQ!Accounted, JP!Accounted, JQ!Range, JP!Range,
         JQ!Put, JP!Put, JQ!Overlay, JP!Overlay,
         JQ!Remove, JP!Remove, JQ!Restrict, JP!Restrict
<1> QED BY <1>1, <1>2, PTL DEF ImplementsJobQueue, JQ!JQSpec, JP!JQSpec

(* An endpoint leaves the queue firewalled, or with everything its probe    *)
(* found stored and queued for enrichment, or kept back by an error; what   *)
(* is stored is about endpoints that were submitted, and no endpoint is     *)
(* queued twice.                                                            *)
THEOREM Delivered ==
  Spec => [](/\ \A id \in DOMAIN closed :
                  \/ closed[id].found = Firewalled
                  \/ \A res \in closed[id].found :
                       <<closed[id].key, res>> \in handed \cup refused
             /\ JP!NothingInvented
             /\ \A x, y \in DOMAIN queue : queue[x].key = queue[y].key => x = y)
<1>1. JP!Promises =>
        /\ \A id \in DOMAIN closed :
             \/ closed[id].found = Firewalled
             \/ \A res \in closed[id].found :
                  <<closed[id].key, res>> \in handed \cup refused
        /\ JP!NothingInvented
        /\ \A x, y \in DOMAIN queue : queue[x].key = queue[y].key => x = y
  BY DEF JP!Promises, JP!OneFate, JP!AtLeastOnce, JP!Accounted
<1> QED BY <1>1, Implements, SameQueue, JP!Kept, PTL

(* A completed endpoint does not come back under its id, and no step takes  *)
(* back a result that was stored or queued, whatever a task that outlived   *)
(* its lease still does.                                                    *)
THEOREM FateIsFinal == Spec => JP!FatesFinal
BY Implements, SameQueue, JP!FateIsFinal, PTL

=============================================================================
