----------------------------- MODULE ServiceStore -----------------------------
(***************************************************************************)
(* Everything that writes documents of services and the files and rows of  *)
(* service_assets: a probe's upsert and its request for enrichments        *)
(* (src/probe/dispatch.rs), the workers of stage 4 (run_enrich of          *)
(* src/main.rs, src/enrich), and the maintenance commands backfill and     *)
(* reidentify_http, which rewrite documents while the stages run.          *)
(*                                                                         *)
(* There is one enrich process; it starts a task per claimed row without   *)
(* bound, so several processes would only add crashes of some of the tasks.*)
(* Every SQL statement, download, ffmpeg run and file operation is an      *)
(* action; reading a picture and removing the file right after is one.     *)
(***************************************************************************)
EXTENDS LeasedQueue, Sequences

CONSTANTS
  Services,        \* ids of services, positive numbers
  Found,           \* what probes find: sets of parts of a document
  Frames,          \* a device shows one picture after the other: 1 .. Frames
  Paths(_),        \* kind -> the urls ffmpeg tries: 5 and, for cameras, 45
  Batch,           \* rows a claim takes: 10
  MaxClock,        \* bound: the clock stops here
  MaxRows,         \* bound: rows ever inserted in queue_enrichments
  MaxProbes,       \* bound: upserts
  MaxRuns,         \* bound: runs of a maintenance command
  MaxFaults        \* bound: crashes and failed statements

Kind == {"favicon", "rtsp_frame", "camera_frame"}

Part == {"http", "rtsp", "camera"}    \* data.http, data.rtsp, the tag

ASSUME ServiceStoreAssumption ==
  /\ Services \subseteq Nat \ {0}
  /\ Found \subseteq SUBSET Part
  /\ {Frames, Batch} \cup {Paths(kind) : kind \in Kind} \subseteq Nat \ {0}
  /\ {MaxClock, MaxRows, MaxProbes, MaxRuns, MaxFaults} \subseteq Nat

(* Bytes are told apart by whose they are; a hash stands for its bytes, be it
   the sha256 that names a file or the number that a document has for them.
   Favicons are .ico files and frames .jpg files: no two share a name. *)
Picture(service, kind) ==
  [of: {service},
   n: IF kind = "favicon" THEN Frames + 1 .. 2 * Frames ELSE 1 .. Frames]

(* No service has these: no bytes, a capture that is too small, what the HTTP
   probe hashed itself (not as the enricher does, and into no file), and the
   beginning of a file that is being written. *)
NoBytes   == [of |-> 0, n |-> 0]
Tiny      == [of |-> 0, n |-> 1]
ProbeHash == [of |-> 0, n |-> 2]
Partial   == [of |-> 0, n |-> 3]

VARIABLES
  clock, queue, nextId,   \* as in the other stages; keys are <<service, kind>>
  pc, t,           \* the claim loop of the enrich process
  tasks,           \* its spawned tasks, named <<row, lease>>
  docs,            \* service -> its document
  asking,          \* service -> kinds its probe has yet to queue
  assets,          \* service_assets: <<service, kind>> -> hash
  saved,           \* assets_dir: hash -> the bytes in the file of that name
  temp,            \* temporary files: path -> bytes
  maint,           \* documents a maintenance command has read, not yet written
  probes, runs, faults,   \* counters for the bounds
  (* history, read by no action: *)
  lost,            \* keys whose hash an error or a known race kept back
  crossed,         \* temporary files two workers have used at once
  late,            \* services of which a worker has outlived its lease
  cut              \* names whose file a kill or an error left half written

loop == <<clock, pc, t>>
files == <<assets, saved, temp>>
counts == <<probes, runs, faults>>
history == <<lost, crossed, late, cut>>
vars == <<loop, queue, nextId, tasks, docs, asking, files, maint, counts,
          history>>

RowId(j) == j[1]
Lease(j) == j[2]

Init ==
  /\ clock = 1 /\ pc = "read" /\ t = 0
  /\ queue = NoEntries /\ nextId = 1
  /\ tasks = NoEntries
  /\ docs = NoEntries
  /\ asking = [s \in Services |-> <<>>]
  /\ assets = NoEntries /\ saved = NoEntries /\ temp = NoEntries
  /\ maint = NoEntries
  /\ probes = 0 /\ runs = 0 /\ faults = 0
  /\ lost = {} /\ crossed = {} /\ late = {} /\ cut = {}

Fault ==
  /\ faults < MaxFaults
  /\ clock + LeaseTime < MaxClock
  /\ faults' = faults + 1
  /\ UNCHANGED <<probes, runs>>

(* The services of which all has a capture that is past its lease. *)
Overdue(all, now) ==
  {all[j].service :
     j \in {j \in DOMAIN all : all[j].kind = "rtsp_frame" /\ Lease(j) < now}}

Tick ==
  /\ clock < MaxClock
  /\ clock' = clock + 1
  /\ late' = late \cup Overdue(tasks, clock')
  /\ UNCHANGED <<pc, t, queue, nextId, tasks, docs, asking, files, maint,
                 counts, lost, crossed, cut>>

-----------------------------------------------------------------------------
(* A probe stores its answer: upsert_service, maybe_enqueue_enrichments.    *)

Keyed(s) == {s} \X Kind

(* The order in which maybe_enqueue_enrichments looks at the parts. *)
Wanted(parts) ==
  (IF "http" \in parts THEN <<"favicon">> ELSE <<>>)
    \o (IF "rtsp" \in parts THEN <<"rtsp_frame">> ELSE <<>>)
    \o (IF "camera" \in parts THEN <<"camera_frame">> ELSE <<>>)

(* The HTTP probe hashes a favicon itself when it gets one; no probe takes a
   frame. *)
Hashed(parts) == IF "http" \in parts THEN {NoBytes, ProbeHash} ELSE {NoBytes}

(* Variant of Upsert: only a new service asks for its enrichments. *)
UpsertAsksOnce(s) ==
  /\ probes < MaxProbes
  /\ asking[s] = <<>>
  /\ \E parts \in Found : \E favicon \in Hashed(parts) :
       /\ docs' = Put(docs, s, [parts |-> parts, favicon |-> favicon,
                                frame |-> NoBytes])
       /\ asking' = [asking EXCEPT ![s] = IF s \in DOMAIN docs THEN <<>>
                                         ELSE Wanted(parts)]
  /\ probes' = probes + 1
  /\ lost' = lost \ Keyed(s)
  /\ UNCHANGED <<loop, queue, nextId, tasks, files, maint, runs, faults,
                 crossed, late, cut>>

(* ON CONFLICT DO UPDATE SET data: the whole document is replaced. *)
Upsert(s) ==
  /\ probes < MaxProbes
  /\ asking[s] = <<>>
  /\ \E parts \in Found : \E favicon \in Hashed(parts) :
       /\ docs' = Put(docs, s, [parts |-> parts, favicon |-> favicon,
                                frame |-> NoBytes])
       /\ asking' = [asking EXCEPT ![s] = Wanted(parts)]
  /\ probes' = probes + 1
  /\ lost' = lost \ Keyed(s)
  /\ UNCHANGED <<loop, queue, nextId, tasks, files, maint, runs, faults,
                 crossed, late, cut>>

TasksOn(id) == {j \in DOMAIN tasks : RowId(j) = id}

(* A request that finds its row still there although every worker on it has
   already done its writing comes to nothing. *)
RefusedTooLate(key) ==
  \E id \in DOMAIN queue :
    /\ queue[id].key = key
    /\ TasksOn(id) # {}
    /\ \A j \in TasksOn(id) : tasks[j].state = "complete"

Ask(s) ==
  /\ asking[s] # <<>>
  /\ nextId <= MaxRows
  /\ LET key == <<s, Head(asking[s])>>
     IN /\ queue' = Insert(queue, nextId, key)
        /\ nextId' = IF key \in Keys(queue) THEN nextId ELSE nextId + 1
        /\ lost' = IF RefusedTooLate(key) THEN lost \cup {key} ELSE lost
  /\ asking' = [asking EXCEPT ![s] = Tail(@)]
  /\ UNCHANGED <<loop, tasks, docs, files, maint, counts, crossed, late, cut>>

(* The first error ends the requests, and the probe's row is completed. *)
AskFails(s) ==
  /\ asking[s] # <<>>
  /\ Fault
  /\ asking' = [asking EXCEPT ![s] = <<>>]
  /\ lost' = lost \cup Keyed(s)
  /\ UNCHANGED <<loop, queue, nextId, tasks, docs, files, maint, crossed, late, cut>>

-----------------------------------------------------------------------------
(* The claim loop of run_enrich.                                            *)

ReadClock ==
  /\ pc = "read"
  /\ t' = clock
  /\ pc' = "claim"
  /\ UNCHANGED <<clock, queue, nextId, tasks, docs, asking, files, maint,
                 counts, history>>

(* Variant of TempOf: one file for all the RTSP services as well. *)
TempShared(service, kind) == IF kind = "camera_frame" THEN 0 ELSE 1

(* The temporary file of a capture: one for each service in assets_dir for
   RTSP services, one in /tmp for all the cameras of a process. *)
TempOf(service, kind) == IF kind = "camera_frame" THEN 0 ELSE service

Uses(task, path) ==
  /\ task.state \in {"ffmpeg", "read", "rename"}
  /\ TempOf(task.service, task.kind) = path

(* path is shared once one of the new users finds another one there. *)
Crossing(j, all) ==
  LET path == TempOf(all[j].service, all[j].kind)
  IN IF /\ all[j].state = "ffmpeg"
        /\ \E i \in DOMAIN all \ {j} : Uses(all[i], path)
     THEN {path} ELSE {}

NewTask(id) ==
  LET key == queue[id].key
  IN [service |-> key[1], kind |-> key[2], bytes |-> NoBytes, tries |-> Paths(key[2]),
      state |-> IF key[2] = "rtsp_frame" THEN "ffmpeg" ELSE "fetch"]

(* claim_enrichments, and a task per row at once. *)
ClaimEnrichments ==
  LET ids == Claimed(queue, Batch, t)
      new == {<<id, t + LeaseTime>> : id \in ids}
      all == Overlay(tasks, [j \in new |-> NewTask(RowId(j))])
  IN /\ pc = "claim"
     /\ ids # {}
     /\ tasks' = all
     /\ queue' = Claim(queue, Batch, t)
     /\ crossed' = crossed \cup UNION {Crossing(j, all) : j \in new}
     /\ late' = late \cup Overdue(all, clock)
     /\ pc' = "read"
     /\ UNCHANGED <<clock, t, nextId, docs, asking, files, maint, counts, lost,
                    cut>>

ClaimNothing ==
  /\ pc = "claim"
  /\ Claimed(queue, Batch, t) = {}
  /\ pc' = "read"
  /\ UNCHANGED <<clock, t, queue, nextId, tasks, docs, asking, files, maint,
                 counts, history>>

(* unwrap_or_default: an error is an empty answer, committed or not. *)
ClaimFails ==
  /\ pc = "claim"
  /\ Fault
  /\ queue' \in {queue, Claim(queue, Batch, t)}
  /\ pc' = "read"
  /\ UNCHANGED <<clock, t, nextId, tasks, docs, asking, files, maint, history>>

-----------------------------------------------------------------------------
(* A task.                                                                  *)

Key(j) == <<tasks[j].service, tasks[j].kind>>
Path(j) == TempOf(tasks[j].service, tasks[j].kind)

Goto(j, state) == tasks' = [tasks EXCEPT ![j].state = state]

With(j, state, bytes) ==
  tasks' = [tasks EXCEPT ![j].state = state, ![j].bytes = bytes]

(* An error, or nothing to be had: the row is completed all the same. *)
GiveUp(j) ==
  /\ Goto(j, "complete")
  /\ lost' = lost \cup {Key(j)}

NextPath(j) ==
  IF tasks[j].tries > 1
  THEN /\ tasks' = [tasks EXCEPT ![j].state = "ffmpeg", ![j].tries = @ - 1]
       /\ UNCHANGED lost
  ELSE GiveUp(j)

(* Variant of FetchFavicon: the hash goes straight into the document. *)
FetchFaviconOnly(j) ==
  /\ tasks[j].state = "fetch"
  /\ tasks[j].kind = "favicon"
  /\ \/ \E bytes \in Picture(tasks[j].service, tasks[j].kind) :
          With(j, "data", bytes) /\ UNCHANGED lost
     \/ GiveUp(j)
  /\ UNCHANGED <<loop, queue, nextId, docs, asking, files, maint, counts,
                 crossed, late, cut>>

(* Any answer is a favicon, whatever its size; a service that gives none is
   not asked again. *)
FetchFavicon(j) ==
  /\ tasks[j].state = "fetch"
  /\ tasks[j].kind = "favicon"
  /\ \/ \E bytes \in Picture(tasks[j].service, tasks[j].kind) :
          With(j, "save", bytes) /\ UNCHANGED lost
     \/ GiveUp(j)
  /\ UNCHANGED <<loop, queue, nextId, docs, asking, files, maint, counts,
                 crossed, late, cut>>

(* capture_from_http: a snapshot over HTTP, from one url or another; a camera
   that has none is tried over RTSP. *)
FetchSnapshot(j) ==
  /\ tasks[j].state = "fetch"
  /\ tasks[j].kind = "camera_frame"
  /\ \/ /\ \E bytes \in Picture(tasks[j].service, tasks[j].kind) : With(j, "save", bytes)
        /\ UNCHANGED crossed
     \/ /\ Goto(j, "ffmpeg")
        /\ crossed' = crossed \cup Crossing(j, tasks')
  /\ UNCHANGED <<loop, queue, nextId, docs, asking, files, maint, counts,
                 lost, late, cut>>

Writing(j, hash) == tasks[j].state = "write" /\ tasks[j].bytes = hash

(* std::fs::write of {hash}.ico or {hash}.jpg creates or truncates the file
   under its final name, ... *)
Open(j) ==
  LET hash == tasks[j].bytes
  IN /\ tasks[j].state = "save"
     /\ saved' = Put(saved, hash, Partial)
     /\ cut' = cut \ {hash}
     /\ Goto(j, "write")
     /\ UNCHANGED <<loop, queue, nextId, docs, asking, assets, temp, maint, counts,
                    lost, crossed, late>>

(* Variant of Write: write instead of write_all. *)
WriteSome(j) ==
  LET hash == tasks[j].bytes
  IN /\ tasks[j].state = "write"
     /\ \E bytes \in {hash, Partial} : saved' = Put(saved, hash, bytes)
     /\ Goto(j, "row")
     /\ UNCHANGED <<loop, queue, nextId, docs, asking, assets, temp, maint, counts,
                    history>>

(* ... then writes into it.  Another worker that has truncated the same file
   meanwhile may leave a gap; one that has renamed its own over it, the file. *)
Write(j) ==
  LET hash == tasks[j].bytes
      gaps == hash \in cut \/ \E i \in DOMAIN tasks \ {j} : Writing(i, hash)
  IN /\ tasks[j].state = "write"
     /\ \E bytes \in IF saved[hash] # Partial THEN {saved[hash]}
                     ELSE IF gaps THEN {hash, Partial} ELSE {hash} :
          saved' = Put(saved, hash, bytes)
     /\ Goto(j, "row")
     /\ UNCHANGED <<loop, queue, nextId, docs, asking, assets, temp, maint, counts,
                    history>>

(* ffmpeg -y; a run that fails has its file removed. *)
RunFfmpeg(j) ==
  /\ tasks[j].state = "ffmpeg"
  /\ \/ /\ \E bytes \in Picture(tasks[j].service, tasks[j].kind) \cup {Tiny} :
             temp' = Put(temp, Path(j), bytes)
        /\ Goto(j, "read")
        /\ UNCHANGED lost
     \/ /\ temp' = Remove(temp, {Path(j)})
        /\ NextPath(j)
  /\ UNCHANGED <<loop, queue, nextId, docs, asking, assets, saved, maint, counts,
                 crossed, late, cut>>

(* Variant of ReadFrame: no look at the size. *)
ReadFrameAnySize(j) ==
  /\ tasks[j].state = "read"
  /\ tasks[j].kind = "rtsp_frame"
  /\ IF Path(j) \notin DOMAIN temp
     THEN GiveUp(j)
     ELSE With(j, "rename", temp[Path(j)]) /\ UNCHANGED lost
  /\ UNCHANGED <<loop, queue, nextId, docs, asking, files, maint, counts,
                 crossed, late, cut>>

(* rtsp_frame.rs: a file that is too small is removed, another is renamed. *)
ReadFrame(j) ==
  /\ tasks[j].state = "read"
  /\ tasks[j].kind = "rtsp_frame"
  /\ IF Path(j) \notin DOMAIN temp
     THEN GiveUp(j) /\ UNCHANGED temp
     ELSE IF temp[Path(j)] = Tiny
     THEN temp' = Remove(temp, {Path(j)}) /\ NextPath(j)
     ELSE With(j, "rename", temp[Path(j)]) /\ UNCHANGED <<temp, lost>>
  /\ UNCHANGED <<loop, queue, nextId, docs, asking, assets, saved, maint, counts,
                 crossed, late, cut>>

(* camera_frame.rs: a file that is too small stays for the next path. *)
ReadCamera(j) ==
  /\ tasks[j].state = "read"
  /\ tasks[j].kind = "camera_frame"
  /\ IF Path(j) \notin DOMAIN temp
     THEN GiveUp(j) /\ UNCHANGED temp
     ELSE IF temp[Path(j)] = Tiny
     THEN NextPath(j) /\ UNCHANGED temp
     ELSE /\ With(j, "save", temp[Path(j)])
          /\ temp' = Remove(temp, {Path(j)})
          /\ UNCHANGED lost
  /\ UNCHANGED <<loop, queue, nextId, docs, asking, assets, saved, maint, counts,
                 crossed, late, cut>>

(* Variant of RenameFrame: an error of the rename is ignored. *)
RenameUnchecked(j) ==
  /\ tasks[j].state = "rename"
  /\ saved' = IF Path(j) \in DOMAIN temp
              THEN Put(saved, tasks[j].bytes, temp[Path(j)]) ELSE saved
  /\ temp' = Remove(temp, {Path(j)})
  /\ Goto(j, "row")
  /\ UNCHANGED <<loop, queue, nextId, docs, asking, assets, maint, counts,
                 history>>

(* std::fs::rename: what is in the file by now gets the name of the hash. *)
RenameFrame(j) ==
  /\ tasks[j].state = "rename"
  /\ IF Path(j) \in DOMAIN temp
     THEN /\ saved' = Put(saved, tasks[j].bytes, temp[Path(j)])
          /\ temp' = Remove(temp, {Path(j)})
          /\ Goto(j, "row")
          /\ UNCHANGED lost
     ELSE GiveUp(j) /\ UNCHANGED <<saved, temp>>
  /\ UNCHANGED <<loop, queue, nextId, docs, asking, assets, maint, counts,
                 crossed, late, cut>>

PutAsset(j) == assets' = Put(assets, Key(j), tasks[j].bytes)

(* INSERT INTO service_assets ... ON CONFLICT DO UPDATE *)
RecordAsset(j) ==
  /\ tasks[j].state = "row"
  /\ PutAsset(j)
  /\ Goto(j, IF tasks[j].kind = "camera_frame" THEN "complete" ELSE "data")
  /\ UNCHANGED <<loop, queue, nextId, docs, asking, saved, temp, maint, counts,
                 history>>

(* jsonb_set creates no object: without the part, nothing is set. *)
SetHash(j) ==
  LET s == tasks[j].service
  IN docs' = CASE tasks[j].kind = "favicon" /\ "http" \in docs[s].parts ->
                    [docs EXCEPT ![s].favicon = tasks[j].bytes]
               [] tasks[j].kind = "rtsp_frame" /\ "rtsp" \in docs[s].parts ->
                    [docs EXCEPT ![s].frame = tasks[j].bytes]
               [] OTHER -> docs

WriteHash(j) ==
  /\ tasks[j].state = "data"
  /\ SetHash(j)
  /\ Goto(j, "complete")
  /\ lost' = lost \ {Key(j)}
  /\ UNCHANGED <<loop, queue, nextId, asking, files, maint, counts, crossed, late, cut>>

(* The names of the files that some of the tasks are writing. *)
Unfinished(some) == {tasks[j].bytes : j \in {j \in some : tasks[j].state = "write"}}

(* A statement or a file operation fails: a statement may be committed, a file
   is left as far as it was written. *)
StepFails(j) ==
  /\ tasks[j].state \in {"fetch", "ffmpeg", "save", "write", "rename", "row", "data"}
  /\ Fault
  /\ \/ tasks[j].state = "row" /\ PutAsset(j) /\ UNCHANGED docs
     \/ tasks[j].state = "data" /\ SetHash(j) /\ UNCHANGED assets
     \/ UNCHANGED <<assets, docs>>
  /\ GiveUp(j)
  /\ cut' = cut \cup Unfinished({j})
  /\ UNCHANGED <<loop, queue, nextId, asking, saved, temp, maint, crossed, late>>

EndTask(j) == tasks' = Remove(tasks, {j})

CompleteTask(j) ==
  /\ tasks[j].state = "complete"
  /\ queue' = Complete(queue, RowId(j))
  /\ EndTask(j)
  /\ UNCHANGED <<loop, nextId, docs, asking, files, maint, counts, history>>

CompleteFails(j) ==
  /\ tasks[j].state = "complete"
  /\ Fault
  /\ EndTask(j)
  /\ UNCHANGED <<loop, queue, nextId, docs, asking, files, maint, history>>

(* The rows are claimed again when their leases are over, except those that
   another worker has deleted under a task (complete asks nobody). *)
Crash ==
  /\ pc # "down"
  /\ Fault
  /\ pc' = "down"
  /\ tasks' = NoEntries
  /\ lost' = lost \cup
       {Key(j) : j \in {j \in DOMAIN tasks : RowId(j) \notin DOMAIN queue}}
  /\ cut' = cut \cup Unfinished(DOMAIN tasks)
  /\ UNCHANGED <<clock, t, queue, nextId, docs, asking, files, maint, crossed, late>>

Restart ==
  /\ pc = "down"
  /\ pc' = "read"
  /\ t' = 0
  /\ UNCHANGED <<clock, queue, nextId, tasks, docs, asking, files, maint,
                 counts, history>>

-----------------------------------------------------------------------------
(* backfill and reidentify_http: read a chunk, then write back, in the      *)
(* order of the ids, each document that comes out different.                *)

StartMaintenance ==
  /\ maint = NoEntries
  /\ runs < MaxRuns
  /\ runs' = runs + 1
  /\ \E which \in {DOMAIN docs, {s \in DOMAIN docs : "http" \in docs[s].parts}} :
       maint' = Restrict(docs, which)
  /\ UNCHANGED <<loop, queue, nextId, tasks, docs, asking, files, probes, faults,
                 history>>

(* What is written is the document that was read, normalized: its tags and
   names may differ, its hashes are the old ones. *)
MaintainNext ==
  \E s \in DOMAIN maint :
    /\ \A other \in DOMAIN maint : s <= other
    /\ \/ /\ docs' = [docs EXCEPT ![s] = maint[s]]
          /\ lost' = IF docs[s] # maint[s] THEN lost \cup Keyed(s) ELSE lost
       \/ UNCHANGED <<docs, lost>>
    /\ maint' = Remove(maint, {s})
    /\ UNCHANGED <<loop, queue, nextId, tasks, asking, files, counts, crossed, late, cut>>

(* An error ends the command; the rest of the chunk is not written. *)
MaintenanceFails ==
  /\ maint # NoEntries
  /\ Fault
  /\ maint' = NoEntries
  /\ UNCHANGED <<loop, queue, nextId, tasks, docs, asking, files, history>>

-----------------------------------------------------------------------------
LoopStep == ReadClock \/ ClaimEnrichments \/ ClaimNothing

TaskStep(j) ==
  \/ FetchFavicon(j)
  \/ FetchSnapshot(j)
  \/ Open(j)
  \/ Write(j)
  \/ RunFfmpeg(j)
  \/ ReadFrame(j)
  \/ ReadCamera(j)
  \/ RenameFrame(j)
  \/ RecordAsset(j)
  \/ WriteHash(j)
  \/ CompleteTask(j)

Next ==
  \/ Tick
  \/ \E s \in Services : Upsert(s) \/ Ask(s) \/ AskFails(s)
  \/ LoopStep \/ ClaimFails \/ Crash \/ Restart
  \/ \E j \in DOMAIN tasks : TaskStep(j) \/ StepFails(j) \/ CompleteFails(j)
  \/ StartMaintenance \/ MaintainNext \/ MaintenanceFails

Spec == Init /\ [][Next]_vars

(* As in the other stages.  Downloads have a timeout of ten seconds; that    *)
(* ffmpeg ends is an assumption, the code gives it no timeout.               *)
TaskName == (1 .. MaxRows) \X (1 .. MaxClock + LeaseTime)

Fairness ==
  /\ WF_vars(Tick) /\ WF_vars(LoopStep) /\ WF_vars(Restart)
  /\ \A j \in TaskName : WF_vars(j \in DOMAIN tasks /\ TaskStep(j))

FairSpec == Spec /\ Fairness

-----------------------------------------------------------------------------
(* Correctness properties. *)

TypeOK ==
  /\ queue \in [DOMAIN queue -> Row((DOMAIN docs) \X Kind)]   \* foreign key
  /\ DOMAIN queue \subseteq 1 .. nextId - 1
  /\ pc \in {"read", "claim", "down"}
  /\ t \in 0 .. clock
  /\ \A j \in DOMAIN tasks :
       /\ RowId(j) \in 1 .. nextId - 1
       /\ Key(j) \in (DOMAIN docs) \X Kind
       /\ tasks[j].tries \in 1 .. Paths(tasks[j].kind)
       /\ tasks[j].state \in {"save", "write", "rename", "row", "data"} =>
            tasks[j].bytes \notin {NoBytes, Tiny, ProbeHash}
  /\ DOMAIN assets \subseteq (DOMAIN docs) \X Kind            \* foreign key
  /\ DOMAIN maint \subseteq DOMAIN docs
  /\ DOMAIN temp \subseteq {0} \cup Services

(* No row or hash is stored before its file: what service_assets names, and
   the frame a document names, is a file in assets_dir, although workers of one
   service may rename or remove the file under each other.  A document names a
   favicon by a number that names no file; if the enricher wrote it (the HTTP
   probe writes one of its own), the service has an asset of that kind. *)
Enriched(doc) == doc.favicon \notin {NoBytes, ProbeHash}

Documented(s, doc) ==
  /\ doc.frame \in DOMAIN saved \cup {NoBytes}
  /\ Enriched(doc) => <<s, "favicon">> \in DOMAIN assets

RowsHaveFiles ==
  /\ \A key \in DOMAIN assets : assets[key] \in DOMAIN saved
  /\ \A s \in DOMAIN docs : Documented(s, docs[s])

(* The picture stored for a service was taken of that service, or is what a
   second worker of it left unfinished.  Captures of several cameras at once
   share one file (camera_frame.rs), and only then a service may get the
   picture of another. *)
OwnPictures ==
  \A key \in DOMAIN assets :
    \/ saved[assets[key]].of \in {key[1], Tiny.of}
    \/ key[2] = "camera_frame" /\ 0 \in crossed

(* Frames of a service that two workers were capturing at once: rtsp_frame.rs
   may rename what another worker has written meanwhile. *)
Overtaken(hash) == hash.n <= Frames /\ hash.of \in crossed

(* A file whose name is not the hash of its bytes is being written, was left
   half written by a kill or a failed write and not opened again since, or is
   such an overtaken frame; the name of a favicon is never wrong otherwise. *)
NamedByContent ==
  \A hash \in DOMAIN saved :
    \/ saved[hash] = hash
    \/ \E j \in DOMAIN tasks : Writing(j, hash)
    \/ hash \in cut
    \/ Overtaken(hash)

(* Two workers capture one service at once only after a lease on it has run
   out under a worker: not always that of one of the two, as a worker that is
   late also deletes the row under its successor, and the next probe queues
   another. *)
SharedWhenLate == crossed \ {0} \subseteq late

(* Once nothing is queued, claimed or still to be asked for, a document that
   has an http part has its favicon hash, and one with an rtsp part its
   frame, unless an error was met or one of three windows was hit: a new probe
   asked for the enrichment when the worker had written its hash but not yet
   deleted its row; a maintenance command wrote back a document that had
   changed since it was read; or a process was killed at work on a row that
   an earlier worker, its lease long over, had deleted. *)
Idle(key) ==
  /\ key \notin Keys(queue)
  /\ \A j \in DOMAIN tasks : Key(j) # key
  /\ asking[key[1]] = <<>>

EnrichmentsArrive ==
  \A s \in DOMAIN docs :
    /\ /\ "http" \in docs[s].parts
       /\ Idle(<<s, "favicon">>)
       /\ <<s, "favicon">> \notin lost
       => Enriched(docs[s])
    /\ /\ "rtsp" \in docs[s].parts
       /\ Idle(<<s, "rtsp_frame">>)
       /\ <<s, "rtsp_frame">> \notin lost
       => docs[s].frame # NoBytes

(* Nothing is stuck: this stage neither counts attempts nor sweeps, and
   still every row leaves the queue, whatever dies or fails meanwhile. *)
EveryEnrichmentLeaves ==
  \A id \in 1 .. MaxRows : id \in DOMAIN queue ~> id \notin DOMAIN queue

-----------------------------------------------------------------------------
(***************************************************************************)
(* What makes the safety properties inductive.                             *)
(***************************************************************************)
Hash     == [of: Nat, n: Nat]
Document == [parts: SUBSET Part, favicon: Hash, frame: Hash]
Task     == [service: Services, kind: Kind, bytes: Hash, tries: Nat,
             state: {"fetch", "ffmpeg", "read", "rename", "save", "row", "data",
                     "write", "complete"}]

Typed ==
  /\ clock \in Nat \ {0} /\ nextId \in Nat \ {0}
  /\ DOMAIN docs \subseteq Services
  /\ docs \in [DOMAIN docs -> Document]
  /\ maint \in [DOMAIN maint -> Document]
  /\ tasks \in [DOMAIN tasks -> Task]
  /\ asking \in [Services -> Seq(Kind)]
  /\ \A s \in Services : asking[s] # <<>> => s \in DOMAIN docs

(* A row is about its task's service as long as it is there. *)
JobKeys ==
  \A j \in DOMAIN tasks :
    RowId(j) \in DOMAIN queue => queue[RowId(j)].key = Key(j)

(* A hash that is about to be stored, or stored again, has its file. *)
FilesFirst ==
  /\ \A j \in DOMAIN tasks :
       /\ tasks[j].state \in {"write", "row", "data"} => tasks[j].bytes \in DOMAIN saved
       /\ tasks[j].state = "data" => /\ tasks[j].kind # "camera_frame"
                                     /\ Key(j) \in DOMAIN assets
  /\ \A s \in DOMAIN maint : Documented(s, maint[s])

(* Two captures that use one temporary file have been noticed.  A file of one
   service holds its own picture, whoever wrote it; one that only one capture
   uses holds what that capture wrote into it. *)
Capturing == {j \in DOMAIN tasks : tasks[j].state \in {"ffmpeg", "read", "rename"}}

Captures ==
  /\ \A j \in Capturing :
       \/ tasks[j].kind = "rtsp_frame"
       \/ tasks[j].kind = "camera_frame" /\ tasks[j].state # "rename"
  /\ \A i, j \in Capturing : i # j /\ Path(i) = Path(j) => Path(i) \in crossed
  /\ \A s \in DOMAIN temp \ {0} : temp[s] \in Picture(s, "rtsp_frame") \cup {Tiny}
  /\ 0 \in DOMAIN temp =>
       temp[0] \in (UNION {Picture(s, "camera_frame") : s \in Services}) \cup {Tiny}
  /\ \A j \in Capturing :
       Path(j) \in DOMAIN temp \ crossed =>
         /\ tasks[j].state = "read" =>
              temp[Path(j)] \in Picture(tasks[j].service, tasks[j].kind) \cup {Tiny}
         /\ tasks[j].state = "rename" => temp[Path(j)] = tasks[j].bytes

(* A row is never claimed again under a lease that one of its workers has. *)
Claims ==
  \A j \in DOMAIN tasks :
    RowId(j) \in DOMAIN queue => Lease(j) <= queue[RowId(j)].claimedUntil

(* As long as no worker of a service is late, each has the row it claimed,
   under the lease it claimed it with; and no key has two rows. *)
Unique(q) == \A i, j \in DOMAIN q : q[i].key = q[j].key => i = j

OnTime(j) == tasks[j].kind = "rtsp_frame" /\ tasks[j].service \notin late

Leases ==
  /\ Unique(queue)
  /\ DOMAIN tasks \subseteq Nat \X Nat
  /\ Overdue(tasks, clock) \subseteq late
  /\ \A j \in DOMAIN tasks :
       OnTime(j) => /\ RowId(j) \in DOMAIN queue
                    /\ queue[RowId(j)].claimedUntil = Lease(j)

(* From the capture to the asset, bytes are of their service, when the files
   in shared have had two users at once. *)
Whose(bytes, s, kind, shared) ==
  \/ bytes \in Picture(s, kind)
  \/ /\ kind = "camera_frame" /\ 0 \in shared
     /\ bytes \in UNION {Picture(other, kind) : other \in Services}

Owned ==
  /\ \A j \in DOMAIN tasks :
       tasks[j].state \in {"save", "write", "rename", "row", "data"} =>
         Whose(tasks[j].bytes, tasks[j].service, tasks[j].kind, crossed)
  /\ \A key \in DOMAIN assets : Whose(assets[key], key[1], key[2], crossed)
  /\ \A hash \in DOMAIN saved :
       /\ saved[hash].of \in {hash.of, Tiny.of}
       /\ saved[hash] \in {hash, Partial} \/ Overtaken(hash)

(* A hash that is missing and not given up is still asked for, at work, or
   queued in a row that nobody works on. *)
Coming(s, kind) ==
  \/ kind \in Range(asking[s])
  \/ \E j \in DOMAIN tasks : Key(j) = <<s, kind>> /\ tasks[j].state # "complete"
  \/ \E id \in DOMAIN queue : queue[id].key = <<s, kind>> /\ TasksOn(id) = {}

Missing(s, kind) ==
  \/ kind = "favicon" /\ "http" \in docs[s].parts /\ ~Enriched(docs[s])
  \/ kind = "rtsp_frame" /\ "rtsp" \in docs[s].parts /\ docs[s].frame = NoBytes

Awaited ==
  \A s \in DOMAIN docs, kind \in Kind :
    Missing(s, kind) /\ <<s, kind>> \notin lost => Coming(s, kind)

IInv ==
  /\ TypeOK /\ Typed /\ JobKeys
  /\ FilesFirst /\ RowsHaveFiles
  /\ Captures /\ Owned /\ NamedByContent
  /\ Claims /\ Leases /\ SharedWhenLate
  /\ Awaited

=============================================================================
