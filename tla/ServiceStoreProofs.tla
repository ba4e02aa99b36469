-------------------------- MODULE ServiceStoreProofs --------------------------
(***************************************************************************)
(* Proofs about ServiceStore, for any services, answers, numbers of        *)
(* pictures and urls, any lease, batch and clock, and any number of        *)
(* probes, maintenance runs, crashes and failed statements.                *)
(***************************************************************************)
EXTENDS ServiceStore, LeasedQueueProofs

(* What the assumptions say, one fact each. *)
LEMMA Bounds ==
  /\ LeaseTime \in Nat \ {0}
  /\ Services \subseteq Nat \ {0}
  /\ Found \subseteq SUBSET Part
  /\ Batch \in Nat \ {0} /\ Frames \in Nat \ {0}
  /\ \A kind \in Kind : Paths(kind) \in Nat \ {0}
  BY ServiceStoreAssumption, LeaseTimeAssumption

(* Pictures are hashed; none of the other bytes is one. *)
LEMMA PictureHash ==
  ASSUME NEW s \in Services, NEW kind
  PROVE  /\ Picture(s, kind) \subseteq Hash
         /\ {NoBytes, Tiny, ProbeHash, Partial} \cap Picture(s, kind) = {}
         /\ \A bytes \in Picture(s, kind) : bytes.of = s
<1>1. s \in Nat \ {0}
  BY Bounds
<1>2. \A n \in (Frames + 1 .. 2 * Frames) \cup (1 .. Frames) : n \in Nat
  BY Bounds
<1>3. \A bytes \in Picture(s, kind) : bytes \in Hash /\ bytes.of = s
  BY <1>1, <1>2 DEF Picture, Hash
<1> QED BY <1>1, <1>3 DEF NoBytes, Tiny, ProbeHash, Partial

-----------------------------------------------------------------------------
(* Changes of a table. *)

LEMMA PutIs ==
  ASSUME NEW f, NEW key, NEW value, NEW g, g = Put(f, key, value)
  PROVE  /\ DOMAIN g = DOMAIN f \cup {key}
         /\ g[key] = value
         /\ \A x \in DOMAIN f \ {key} : g[x] = f[x]
         /\ g = [x \in DOMAIN f \cup {key} |-> g[x]]
  BY DEF Put, Overlay

LEMMA RemoveIs ==
  ASSUME NEW f, NEW keys, NEW g, g = Remove(f, keys)
  PROVE  /\ DOMAIN g = DOMAIN f \ keys
         /\ \A x \in DOMAIN g : g[x] = f[x]
         /\ g = [x \in DOMAIN f \ keys |-> g[x]]
  BY DEF Remove, Restrict

(* Rows keep their type when services are added. *)
LEMMA MoreKeys ==
  ASSUME NEW q, NEW K, NEW L, K \subseteq L, IsTable(q, K)
  PROVE  IsTable(q, L)
<1>1. Row(K) \subseteq Row(L)
  BY DEF Row
<1> QED BY <1>1 DEF IsTable

-----------------------------------------------------------------------------
(* What a step of a task changes of the task. *)

States == {"fetch", "ffmpeg", "read", "rename", "save", "row", "data",
           "write", "complete"}

(* Task j goes on; its service and its kind, and the other tasks, stay. *)
Moves(j) ==
  /\ DOMAIN tasks' = DOMAIN tasks
  /\ tasks' \in [DOMAIN tasks -> Task]
  /\ \A i \in DOMAIN tasks \ {j} : tasks'[i] = tasks[i]
  /\ tasks'[j].service = tasks[j].service
  /\ tasks'[j].kind = tasks[j].kind

Same(j) == tasks'[j].bytes = tasks[j].bytes

LEMMA GotoMoves ==
  ASSUME Typed, NEW j \in DOMAIN tasks, NEW state \in States, Goto(j, state)
  PROVE  /\ Moves(j) /\ Same(j)
         /\ tasks'[j].state = state
         /\ tasks'[j].tries = tasks[j].tries
<1>1. tasks[j] \in Task
  BY DEF Typed
<1>2. tasks'[j] = [tasks[j] EXCEPT !.state = state]
  BY DEF Goto, Typed
<1>3. tasks'[j] \in Task
  BY <1>1, <1>2 DEF Task, States
<1>4. tasks' \in [DOMAIN tasks -> Task] /\ DOMAIN tasks' = DOMAIN tasks
  BY <1>3 DEF Goto, Typed
<1> QED BY <1>1, <1>2, <1>4 DEF Moves, Same, Goto, Task, Typed

LEMMA WithMoves ==
  ASSUME Typed, NEW j \in DOMAIN tasks, NEW state \in States, NEW bytes \in Hash,
         With(j, state, bytes)
  PROVE  /\ Moves(j)
         /\ tasks'[j].bytes = bytes
         /\ tasks'[j].state = state
         /\ tasks'[j].tries = tasks[j].tries
<1>1. tasks[j] \in Task
  BY DEF Typed
<1>2. tasks'[j] = [tasks[j] EXCEPT !.state = state, !.bytes = bytes]
  BY DEF With, Typed
<1>3. tasks'[j] \in Task
  BY <1>1, <1>2 DEF Task, States
<1>4. tasks' \in [DOMAIN tasks -> Task] /\ DOMAIN tasks' = DOMAIN tasks
  BY <1>3 DEF With, Typed
<1> QED BY <1>1, <1>2, <1>4 DEF Moves, With, Task, Typed

LEMMA NextPathMoves ==
  ASSUME Typed, NEW j \in DOMAIN tasks, NextPath(j)
  PROVE  /\ Moves(j) /\ Same(j)
         /\ \/ /\ tasks'[j].state = "ffmpeg"
               /\ tasks[j].tries > 1
               /\ tasks'[j].tries = tasks[j].tries - 1
               /\ lost' = lost
            \/ /\ tasks'[j].state = "complete"
               /\ tasks'[j].tries = tasks[j].tries
               /\ lost' = lost \cup {Key(j)}
<1>1. tasks[j] \in Task
  BY DEF Typed
<1>2. CASE tasks[j].tries > 1
  <2>1. tasks' = [tasks EXCEPT ![j].state = "ffmpeg", ![j].tries = @ - 1]
    BY <1>2 DEF NextPath
  <2>2. tasks'[j] = [tasks[j] EXCEPT !.state = "ffmpeg",
                                     !.tries = tasks[j].tries - 1]
    BY <2>1 DEF Typed
  <2>3. tasks'[j] \in Task
    <3>1. tasks[j].tries \in Nat
      BY <1>1 DEF Task
    <3>2. tasks[j].tries - 1 \in Nat
      BY <1>2, <3>1
    <3> DEFINE fewer == tasks[j].tries - 1
    <3>3. tasks'[j] = [tasks[j] EXCEPT !.state = "ffmpeg", !.tries = fewer]
      BY <2>2
    <3>4. fewer \in Nat
      BY <3>2
    <3> HIDE DEF fewer
    <3> QED BY <1>1, <3>3, <3>4 DEF Task
  <2>4. tasks' \in [DOMAIN tasks -> Task] /\ DOMAIN tasks' = DOMAIN tasks
    BY <2>1, <2>3 DEF Typed
  <2>5. Moves(j) /\ Same(j)
    <3>1. \A i \in DOMAIN tasks \ {j} : tasks'[i] = tasks[i]
      BY <2>1 DEF Typed
    <3>2. /\ tasks'[j].service = tasks[j].service
          /\ tasks'[j].kind = tasks[j].kind
          /\ tasks'[j].bytes = tasks[j].bytes
      BY <1>1, <2>2 DEF Task
    <3> QED BY <2>4, <3>1, <3>2 DEF Moves, Same
  <2>6. tasks'[j].state = "ffmpeg" /\ tasks'[j].tries = tasks[j].tries - 1
    BY <1>1, <2>2 DEF Task
  <2> QED BY <1>2, <2>5, <2>6 DEF NextPath
<1>3. CASE ~(tasks[j].tries > 1)
  BY <1>3, GotoMoves DEF NextPath, GiveUp, States
<1> QED BY <1>2, <1>3

(* The steps of a task, but for the completion of its row. *)
Works(j) ==
  \/ FetchFavicon(j) \/ FetchSnapshot(j) \/ Open(j) \/ Write(j)
  \/ RunFfmpeg(j) \/ ReadFrame(j) \/ ReadCamera(j) \/ RenameFrame(j) \/ RecordAsset(j)
  \/ WriteHash(j) \/ StepFails(j)

(* What is read from a temporary file is a picture or tiny. *)
LEMMA TempHash ==
  ASSUME Captures, TypeOK
  PROVE  \A path \in DOMAIN temp :
           /\ temp[path] \in Hash /\ temp[path] \notin {NoBytes, ProbeHash}
           /\ path # 0 => temp[path] \in Picture(path, "rtsp_frame") \cup {Tiny}
           /\ temp[path] # Tiny =>
                \E s \in Services, kind \in Kind : temp[path] \in Picture(s, kind)
<1> SUFFICES ASSUME NEW path \in DOMAIN temp
             PROVE  /\ temp[path] \in Hash /\ temp[path] \notin {NoBytes, ProbeHash}
                    /\ path # 0 => temp[path] \in Picture(path, "rtsp_frame") \cup {Tiny}
                    /\ temp[path] # Tiny =>
                         \E s \in Services, kind \in Kind : temp[path] \in Picture(s, kind)
  OBVIOUS
<1>1. Tiny \in Hash /\ Tiny \notin {NoBytes, ProbeHash}
  BY DEF Tiny, Hash, NoBytes, ProbeHash
<1>2. temp[path] = Tiny \/ \E s \in Services, kind \in Kind : temp[path] \in Picture(s, kind)
  <2>1. CASE path = 0
    BY <2>1 DEF Captures, Kind
  <2>2. CASE path # 0
    <3>1. path \in Services /\ "rtsp_frame" \in Kind
      BY <2>2 DEF TypeOK, Kind
    <3>2. temp[path] \in Picture(path, "rtsp_frame") \cup {Tiny}
      BY <2>2 DEF Captures
    <3> QED BY <3>1, <3>2
  <2> QED BY <2>1, <2>2
<1>3. path # 0 => temp[path] \in Picture(path, "rtsp_frame") \cup {Tiny}
  BY DEF Captures
<1> QED BY <1>1, <1>2, <1>3, PictureHash

(* What such a step does to the bytes that the task carries. *)
Carries(j) ==
  \/ /\ Same(j)
     /\ tasks'[j].state \in {"ffmpeg", "read", "complete"}
  \/ /\ Same(j)
     /\ tasks[j].state = "save" /\ tasks'[j].state = "write"
  \/ /\ Same(j)
     /\ tasks[j].state \in {"write", "rename"} /\ tasks'[j].state = "row"
  \/ /\ Same(j)
     /\ tasks[j].state = "row" /\ tasks'[j].state = "data"
  \/ /\ tasks[j].state = "fetch" /\ tasks'[j].state = "save"
     /\ tasks'[j].bytes \in Picture(tasks[j].service, tasks[j].kind)
  \/ /\ tasks[j].state = "read"
     /\ \/ tasks[j].kind = "rtsp_frame" /\ tasks'[j].state = "rename"
        \/ tasks[j].kind = "camera_frame" /\ tasks'[j].state = "save"
     /\ Path(j) \in DOMAIN temp
     /\ temp[Path(j)] # Tiny
     /\ tasks'[j].bytes = temp[Path(j)]

LEMMA WorkMoves ==
  ASSUME TypeOK, Typed, Captures, NEW j \in DOMAIN tasks, Works(j)
  PROVE  /\ Moves(j) /\ Carries(j)
         /\ tasks'[j].tries \in 1 .. tasks[j].tries
<1>1. /\ tasks[j] \in Task
      /\ tasks[j].tries \in Nat \ {0}
      /\ tasks[j].service \in Services
  BY DEF Typed, TypeOK, Task
<1>2. tasks[j].tries \in 1 .. tasks[j].tries
  BY <1>1
<1>3. tasks[j].tries > 1 => tasks[j].tries - 1 \in 1 .. tasks[j].tries
  BY <1>1
<1>4. ASSUME NEW state \in {"ffmpeg", "read", "complete"}, Goto(j, state)
      PROVE  Moves(j) /\ Carries(j) /\ tasks'[j].tries \in 1 .. tasks[j].tries
  BY <1>2, <1>4, GotoMoves DEF Carries, States
<1>5. ASSUME NextPath(j)
      PROVE  Moves(j) /\ Carries(j) /\ tasks'[j].tries \in 1 .. tasks[j].tries
  BY <1>2, <1>3, <1>5, NextPathMoves DEF Carries
<1>6. ASSUME GiveUp(j)
      PROVE  Moves(j) /\ Carries(j) /\ tasks'[j].tries \in 1 .. tasks[j].tries
  BY <1>4, <1>6 DEF GiveUp
<1>7. ASSUME NEW bytes \in Picture(tasks[j].service, tasks[j].kind), With(j, "save", bytes),
             tasks[j].state = "fetch"
      PROVE  Moves(j) /\ Carries(j) /\ tasks'[j].tries \in 1 .. tasks[j].tries
  BY <1>1, <1>2, <1>7, WithMoves, PictureHash DEF Carries, States
<1>8. ASSUME Path(j) \in DOMAIN temp, temp[Path(j)] # Tiny,
             tasks[j].state = "read",
             NEW state, With(j, state, temp[Path(j)]),
             \/ tasks[j].kind = "rtsp_frame" /\ state = "rename"
             \/ tasks[j].kind = "camera_frame" /\ state = "save"
      PROVE  Moves(j) /\ Carries(j) /\ tasks'[j].tries \in 1 .. tasks[j].tries
  <2>1. temp[Path(j)] \in Hash
    BY <1>8, TempHash
  <2> QED BY <1>2, <1>8, <2>1, WithMoves DEF Carries, States
<1>9. CASE FetchFavicon(j)
  BY <1>6, <1>7, <1>9 DEF FetchFavicon
<1>10. CASE FetchSnapshot(j)
  BY <1>4, <1>7, <1>10 DEF FetchSnapshot
<1>11. CASE Open(j) \/ Write(j)
  BY <1>2, <1>11, GotoMoves DEF Open, Write, Carries, States
<1>12. CASE RunFfmpeg(j)
  BY <1>4, <1>5, <1>12 DEF RunFfmpeg
<1>13. CASE ReadFrame(j)
  BY <1>5, <1>6, <1>8, <1>13 DEF ReadFrame
<1>14. CASE ReadCamera(j)
  BY <1>5, <1>6, <1>8, <1>14 DEF ReadCamera
<1>15. CASE RenameFrame(j)
  <2>1. CASE Path(j) \in DOMAIN temp
    BY <1>2, <1>15, <2>1, GotoMoves DEF RenameFrame, Carries, States
  <2>2. CASE Path(j) \notin DOMAIN temp
    BY <1>6, <1>15, <2>2 DEF RenameFrame
  <2> QED BY <2>1, <2>2
<1>16. CASE RecordAsset(j)
  BY <1>2, <1>16, GotoMoves DEF RecordAsset, Carries, States
<1>17. CASE WriteHash(j)
  BY <1>4, <1>17 DEF WriteHash
<1>18. CASE StepFails(j)
  BY <1>6, <1>18 DEF StepFails
<1> QED
  BY <1>9, <1>10, <1>11, <1>12, <1>13, <1>14, <1>15, <1>16, <1>17, <1>18
     DEF Works

(* What it leaves alone, besides the task. *)
LEMMA WorkLeaves ==
  ASSUME NEW j \in DOMAIN tasks, Works(j)
  PROVE  /\ UNCHANGED <<clock, pc, t, queue, nextId, asking, maint>>
         /\ \/ assets' = assets
            \/ tasks[j].state = "row" /\ PutAsset(j)
         /\ \/ docs' = docs
            \/ tasks[j].state = "data" /\ SetHash(j)
  BY DEF Works, FetchFavicon, FetchSnapshot, Open, Write, RunFfmpeg, ReadFrame,
     ReadCamera, RenameFrame, RecordAsset, WriteHash, StepFails, loop, files

(* The statement of WriteHash changes at most one hash of one document, to
   the bytes that the task carries. *)
LEMMA SetHashIs ==
  ASSUME TypeOK, Typed, NEW j \in DOMAIN tasks, SetHash(j)
  PROVE  /\ DOMAIN docs' = DOMAIN docs
         /\ docs' \in [DOMAIN docs -> Document]
         /\ \A s \in DOMAIN docs :
              /\ docs'[s].parts = docs[s].parts
              /\ docs'[s].favicon \in {docs[s].favicon, tasks[j].bytes}
              /\ docs'[s].frame \in {docs[s].frame, tasks[j].bytes}
              /\ docs'[s].favicon # docs[s].favicon =>
                   tasks[j].kind = "favicon" /\ tasks[j].service = s
              /\ tasks[j].bytes # NoBytes /\ docs'[s].frame = NoBytes =>
                   docs[s].frame = NoBytes
         /\ tasks[j].kind = "favicon" /\ "http" \in docs[tasks[j].service].parts
              => docs'[tasks[j].service].favicon = tasks[j].bytes
         /\ tasks[j].kind = "rtsp_frame" /\ "rtsp" \in docs[tasks[j].service].parts
              => docs'[tasks[j].service].frame = tasks[j].bytes
<1> DEFINE service == tasks[j].service
<1>1. service \in DOMAIN docs /\ tasks[j].bytes \in Hash
  BY DEF TypeOK, Typed, Key, Task
<1>2. docs[service] \in Document
  BY <1>1 DEF Typed
<1>3. docs \in [DOMAIN docs -> Document]
  BY DEF Typed
<1>4. CASE tasks[j].kind = "favicon" /\ "http" \in docs[service].parts
  <2>1. docs' = [docs EXCEPT ![service].favicon = tasks[j].bytes]
    BY <1>4 DEF SetHash
  <2>2. docs'[service] = [docs[service] EXCEPT !.favicon = tasks[j].bytes]
    BY <1>1, <1>3, <2>1
  <2>3. /\ docs'[service] \in Document
        /\ docs'[service].favicon = tasks[j].bytes
        /\ docs'[service].frame = docs[service].frame
        /\ docs'[service].parts = docs[service].parts
    BY <1>1, <1>2, <2>2 DEF Document
  <2>4. \A s \in DOMAIN docs \ {service} : docs'[s] = docs[s]
    BY <1>3, <2>1
  <2>5. docs' \in [DOMAIN docs -> Document] /\ DOMAIN docs' = DOMAIN docs
    BY <1>3, <2>1, <2>3
  <2> QED BY <1>4, <2>3, <2>4, <2>5
<1>5. CASE tasks[j].kind = "rtsp_frame" /\ "rtsp" \in docs[service].parts
  <2>1. docs' = [docs EXCEPT ![service].frame = tasks[j].bytes]
    BY <1>5 DEF SetHash
  <2>2. docs'[service] = [docs[service] EXCEPT !.frame = tasks[j].bytes]
    BY <1>1, <1>3, <2>1
  <2>3. /\ docs'[service] \in Document
        /\ docs'[service].frame = tasks[j].bytes
        /\ docs'[service].favicon = docs[service].favicon
        /\ docs'[service].parts = docs[service].parts
    BY <1>1, <1>2, <2>2 DEF Document
  <2>4. \A s \in DOMAIN docs \ {service} : docs'[s] = docs[s]
    BY <1>3, <2>1
  <2>5. docs' \in [DOMAIN docs -> Document] /\ DOMAIN docs' = DOMAIN docs
    BY <1>3, <2>1, <2>3
  <2> QED BY <1>5, <2>3, <2>4, <2>5
<1>6. CASE /\ ~(tasks[j].kind = "favicon" /\ "http" \in docs[service].parts)
           /\ ~(tasks[j].kind = "rtsp_frame" /\ "rtsp" \in docs[service].parts)
  <2>1. docs' = docs
    BY <1>6 DEF SetHash
  <2> QED BY <1>3, <1>6, <2>1
<1> QED BY <1>4, <1>5, <1>6

(* What it does to the files. *)
Files(j) ==
  /\ \/ saved' = saved /\ tasks'[j].state \notin {"row", "write"}
     \/ /\ Open(j) /\ tasks[j].state = "save" /\ tasks'[j].state = "write"
        /\ saved' = Put(saved, tasks[j].bytes, Partial)
     \/ /\ Write(j) /\ tasks[j].state = "write" /\ tasks'[j].state = "row"
        /\ \E bytes : saved' = Put(saved, tasks[j].bytes, bytes)
     \/ /\ tasks[j].state = "rename" /\ tasks'[j].state = "row"
        /\ Path(j) \in DOMAIN temp
        /\ saved' = Put(saved, tasks[j].bytes, temp[Path(j)])
  /\ \/ temp' = temp /\ tasks'[j].state # "read"
     \/ /\ tasks[j].state \in {"ffmpeg", "read", "rename"}
        /\ tasks'[j].state \notin {"read", "rename"}
        /\ temp' = Remove(temp, {Path(j)})
     \/ /\ tasks[j].state = "ffmpeg" /\ tasks'[j].state = "read"
        /\ \E bytes \in Picture(tasks[j].service, tasks[j].kind) \cup {Tiny} :
             temp' = Put(temp, Path(j), bytes)

LEMMA WorkFiles ==
  ASSUME TypeOK, Typed, Captures, NEW j \in DOMAIN tasks, Works(j)
  PROVE  Files(j)
<1>1. ASSUME NEW state \in States, Goto(j, state)
      PROVE  tasks'[j].state = state
  BY <1>1, GotoMoves
<1>2. ASSUME NextPath(j) PROVE tasks'[j].state \in {"ffmpeg", "complete"}
  BY <1>2, NextPathMoves
<1>3. ASSUME GiveUp(j) PROVE tasks'[j].state = "complete"
  BY <1>1, <1>3 DEF GiveUp, States
<1>4. ASSUME NEW bytes \in Picture(tasks[j].service, tasks[j].kind), With(j, "save", bytes)
      PROVE  tasks'[j].state = "save"
  <2>1. bytes \in Hash
    BY <1>4, PictureHash DEF Typed, Task
  <2> QED BY <1>4, <2>1, WithMoves DEF States
<1>5. ASSUME Path(j) \in DOMAIN temp, NEW state \in States,
             With(j, state, temp[Path(j)])
      PROVE  tasks'[j].state = state
  BY <1>5, TempHash, WithMoves
<1>6. CASE FetchFavicon(j)
  BY <1>3, <1>4, <1>6 DEF FetchFavicon, Files, files
<1>7. CASE FetchSnapshot(j)
  BY <1>1, <1>4, <1>7 DEF FetchSnapshot, Files, files, States
<1>8. CASE Open(j) \/ Write(j)
  BY <1>1, <1>8 DEF Open, Write, Files, States
<1>9. CASE RunFfmpeg(j)
  BY <1>1, <1>2, <1>9 DEF RunFfmpeg, Files, States
<1>10. CASE ReadFrame(j)
  BY <1>2, <1>3, <1>5, <1>10 DEF ReadFrame, Files, States
<1>11. CASE ReadCamera(j)
  BY <1>2, <1>3, <1>5, <1>11 DEF ReadCamera, Files, States
<1>12. CASE RenameFrame(j)
  BY <1>1, <1>3, <1>12 DEF RenameFrame, Files, States
<1>13. CASE RecordAsset(j)
  BY <1>1, <1>13 DEF RecordAsset, Files, States
<1>14. CASE WriteHash(j)
  BY <1>1, <1>14 DEF WriteHash, Files, files, States
<1>15. CASE StepFails(j)
  BY <1>3, <1>15 DEF StepFails, Files
<1> QED
  BY <1>6, <1>7, <1>8, <1>9, <1>10, <1>11, <1>12, <1>13, <1>14, <1>15 DEF Works

(* A task that begins to use a temporary file notices the other users. *)
LEMMA WorkCrosses ==
  ASSUME TypeOK, Typed, Captures, NEW j \in DOMAIN tasks, Works(j)
  PROVE  /\ crossed \subseteq crossed'
         /\ \/ j \in Capturing
            \/ tasks'[j].state \notin {"ffmpeg", "read", "rename"}
            \/ /\ tasks[j].kind = "camera_frame" /\ tasks'[j].state = "ffmpeg"
               /\ crossed' = crossed \cup Crossing(j, tasks')
<1>1. crossed \subseteq crossed'
  BY DEF Works, FetchFavicon, FetchSnapshot, Open, Write, RunFfmpeg, ReadFrame,
     ReadCamera, RenameFrame, RecordAsset, WriteHash, StepFails, history
<1>2. CASE tasks[j].state = "fetch" /\ tasks'[j].state = "ffmpeg"
  <2>1. FetchFavicon(j) \/ FetchSnapshot(j) \/ StepFails(j)
    BY <1>2 DEF Works, Open, Write, RunFfmpeg, ReadFrame, ReadCamera, RenameFrame,
       RecordAsset, WriteHash
  <2>2. \A bytes \in Picture(tasks[j].service, tasks[j].kind) :
          With(j, "save", bytes) => tasks'[j].state = "save"
    BY PictureHash, WithMoves DEF Typed, Task, States
  <2>3. GiveUp(j) => tasks'[j].state = "complete"
    BY GotoMoves DEF GiveUp, States
  <2>4. FetchSnapshot(j)
    BY <1>2, <2>1, <2>2, <2>3 DEF FetchFavicon, StepFails
  <2> QED BY <1>1, <1>2, <2>2, <2>4 DEF FetchSnapshot
<1>3. CASE ~(tasks[j].state = "fetch" /\ tasks'[j].state = "ffmpeg")
  <2>1. Carries(j)
    BY WorkMoves
  <2>2. tasks'[j].state = "ffmpeg" => tasks[j].state \in {"ffmpeg", "read"}
    <3>1. ASSUME NEW state \in {"row", "data", "complete", "save", "write", "read"},
                 Goto(j, state)
          PROVE  tasks'[j].state # "ffmpeg"
      BY <3>1, GotoMoves DEF States
    <3> QED
      BY <1>3, <3>1, WorkMoves
         DEF Works, FetchFavicon, FetchSnapshot, Open, Write, RunFfmpeg, ReadFrame,
             ReadCamera, RenameFrame, RecordAsset, WriteHash, StepFails, GiveUp
  <2>3. tasks'[j].state = "read" => tasks[j].state = "ffmpeg"
    <3>1. ASSUME NEW state \in {"row", "data", "complete", "save", "write", "ffmpeg"},
                 Goto(j, state)
          PROVE  tasks'[j].state # "read"
      BY <3>1, GotoMoves DEF States
    <3>2. ASSUME NEW bytes \in Picture(tasks[j].service, tasks[j].kind), With(j, "save", bytes)
          PROVE  tasks'[j].state # "read"
      BY <3>2, PictureHash, WithMoves DEF Typed, Task, States
    <3>3. ASSUME Path(j) \in DOMAIN temp, NEW state \in {"save", "rename"},
                 With(j, state, temp[Path(j)])
          PROVE  tasks'[j].state # "read"
      BY <3>3, TempHash, WithMoves DEF States
    <3>4. NextPath(j) => tasks'[j].state # "read"
      BY NextPathMoves
    <3> QED
      BY <3>1, <3>2, <3>3, <3>4
         DEF Works, FetchFavicon, FetchSnapshot, Open, Write, RunFfmpeg, ReadFrame,
             ReadCamera, RenameFrame, RecordAsset, WriteHash, StepFails, GiveUp
  <2> QED BY <1>1, <2>1, <2>2, <2>3 DEF Carries, Capturing
<1> QED BY <1>2, <1>3

-----------------------------------------------------------------------------
(* Types.  Each group of conjuncts is preserved by the steps of a task      *)
(* first, then by every step.                                               *)

LEMMA WorkTypes ==
  ASSUME TypeOK, Typed, JobKeys, Captures, NEW j \in DOMAIN tasks, Works(j)
  PROVE  TypeOK' /\ Typed' /\ JobKeys'
<1>1. /\ UNCHANGED <<clock, pc, t, queue, nextId, asking, maint>>
      /\ \/ assets' = assets
         \/ tasks[j].state = "row" /\ PutAsset(j)
      /\ \/ docs' = docs
         \/ tasks[j].state = "data" /\ SetHash(j)
  BY WorkLeaves
<1>2. Moves(j) /\ Carries(j) /\ tasks'[j].tries \in 1 .. tasks[j].tries
  BY WorkMoves
<1>3. Files(j)
  BY WorkFiles
<1>4. DOMAIN docs' = DOMAIN docs /\ docs' \in [DOMAIN docs -> Document]
  BY <1>1, SetHashIs DEF Typed
<1>5. \A i \in DOMAIN tasks : Key(i)' = Key(i)
  BY <1>2 DEF Moves, Key
<1>6. ASSUME NEW i \in DOMAIN tasks
      PROVE  /\ RowId(i) \in 1 .. nextId - 1
             /\ Key(i)' \in (DOMAIN docs) \X Kind
             /\ tasks'[i].tries \in 1 .. Paths(tasks'[i].kind)
             /\ tasks'[i].state \in {"save", "write", "rename", "row", "data"} =>
                  tasks'[i].bytes \notin {NoBytes, Tiny, ProbeHash}
  <2>1. CASE i # j
    BY <1>2, <1>5, <2>1 DEF TypeOK, Moves
  <2>2. CASE i = j
    <3>1. tasks[j].kind \in Kind /\ tasks[j].service \in Services
      BY DEF Typed, Task
    <3>2. /\ Paths(tasks[j].kind) \in Nat
          /\ tasks[j].tries \in 1 .. Paths(tasks[j].kind)
      BY <3>1, Bounds DEF TypeOK
    <3>3. tasks'[j].tries \in 1 .. Paths(tasks[j].kind)
      BY <1>2, <3>2
    <3>4. tasks'[j].state \in {"save", "write", "rename", "row", "data"} =>
            tasks'[j].bytes \notin {NoBytes, Tiny, ProbeHash}
      <4>1. tasks'[j].bytes \in Picture(tasks[j].service, tasks[j].kind) =>
              tasks'[j].bytes \notin {NoBytes, Tiny, ProbeHash}
        BY <3>1, PictureHash
      <4>2. Path(j) \in DOMAIN temp => temp[Path(j)] \notin {NoBytes, ProbeHash}
        BY TempHash
      <4> QED BY <1>2, <4>1, <4>2 DEF Carries, Same, TypeOK
    <3> QED BY <1>2, <1>5, <2>2, <3>3, <3>4 DEF TypeOK, Moves
  <2> QED BY <2>1, <2>2
<1>7. DOMAIN assets' \subseteq (DOMAIN docs) \X Kind
  <2>1. PutAsset(j) => DOMAIN assets' = DOMAIN assets \cup {Key(j)}
    BY DEF PutAsset, Put, Overlay
  <2> QED BY <1>1, <2>1 DEF TypeOK
<1>8. DOMAIN temp' \subseteq {0} \cup Services
  <2>1. Path(j) \in {0} \cup Services
    BY DEF Path, TempOf, Typed, Task
  <2>2. DOMAIN temp' \subseteq DOMAIN temp \cup {Path(j)}
    BY <1>3 DEF Files, Put, Overlay, Remove, Restrict
  <2> QED BY <2>1, <2>2 DEF TypeOK
<1>9. TypeOK'
  <2>1. queue' \in [DOMAIN queue' -> Row((DOMAIN docs') \X Kind)]
    BY <1>1, <1>4 DEF TypeOK
  <2> QED BY <1>1, <1>2, <1>4, <1>6, <1>7, <1>8, <2>1 DEF TypeOK, Moves, RowId
<1>10. Typed'
  BY <1>1, <1>2, <1>4 DEF Typed, Moves
<1>11. JobKeys'
  BY <1>1, <1>2, <1>5 DEF JobKeys, Moves, RowId
<1> QED BY <1>9, <1>10, <1>11

(* A key of a row is a service and a kind. *)
LEMMA RowKeys ==
  ASSUME TypeOK, NEW id \in DOMAIN queue
  PROVE  /\ queue[id].key \in (DOMAIN docs) \X Kind
         /\ queue[id].key = <<queue[id].key[1], queue[id].key[2]>>
         /\ queue[id].key[1] \in DOMAIN docs
         /\ queue[id].key[2] \in Kind
<1>1. queue[id] \in Row((DOMAIN docs) \X Kind)
  BY DEF TypeOK
<1>2. queue[id].key \in (DOMAIN docs) \X Kind
  BY <1>1 DEF Row
<1> QED BY <1>2

(* The claim loop spawns well-formed tasks, beside those that are at work. *)
NewJobs == {<<id, t + LeaseTime>> : id \in Claimed(queue, Batch, t)}

LEMMA Spawns ==
  ASSUME TypeOK, Typed, ClaimEnrichments
  PROVE  /\ DOMAIN tasks' = DOMAIN tasks \cup NewJobs
         /\ \A j \in DOMAIN tasks \ NewJobs : tasks'[j] = tasks[j]
         /\ \A j \in NewJobs :
              /\ RowId(j) \in Claimed(queue, Batch, t)
              /\ RowId(j) \in DOMAIN queue
              /\ tasks'[j] = NewTask(RowId(j))
              /\ tasks'[j] \in Task
              /\ tasks'[j].service = queue[RowId(j)].key[1]
              /\ tasks'[j].kind = queue[RowId(j)].key[2]
              /\ tasks'[j].tries = Paths(tasks'[j].kind)
              /\ tasks'[j].state =
                   IF tasks'[j].kind = "rtsp_frame" THEN "ffmpeg" ELSE "fetch"
         /\ tasks' \in [DOMAIN tasks' -> Task]
<1>1. tasks' = Overlay(tasks, [j \in NewJobs |-> NewTask(RowId(j))])
  BY DEF ClaimEnrichments, NewJobs
<1>2. DOMAIN tasks' = DOMAIN tasks \cup NewJobs
  BY <1>1 DEF Overlay
<1>3. \A j \in DOMAIN tasks \ NewJobs : tasks'[j] = tasks[j]
  BY <1>1 DEF Overlay
<1>4. \A j \in NewJobs : tasks'[j] = NewTask(RowId(j))
  BY <1>1 DEF Overlay
<1>5. ASSUME NEW j \in NewJobs
      PROVE  /\ RowId(j) \in Claimed(queue, Batch, t)
             /\ RowId(j) \in DOMAIN queue
             /\ tasks'[j] \in Task
             /\ tasks'[j].service = queue[RowId(j)].key[1]
             /\ tasks'[j].kind = queue[RowId(j)].key[2]
             /\ tasks'[j].tries = Paths(tasks'[j].kind)
             /\ tasks'[j].state =
                  IF tasks'[j].kind = "rtsp_frame" THEN "ffmpeg" ELSE "fetch"
  <2>1. RowId(j) \in Claimed(queue, Batch, t)
    BY DEF NewJobs, RowId
  <2>2. RowId(j) \in DOMAIN queue
    BY <2>1, ClaimedWasFree
  <2>3. queue[RowId(j)].key[1] \in Services /\ queue[RowId(j)].key[2] \in Kind
    BY <2>2, RowKeys DEF Typed
  <2>4. Paths(queue[RowId(j)].key[2]) \in Nat
    BY <2>3, Bounds
  <2>5. NoBytes \in Hash
    BY DEF NoBytes, Hash
  <2>6. NewTask(RowId(j)) =
          [service |-> queue[RowId(j)].key[1], kind |-> queue[RowId(j)].key[2],
           bytes |-> NoBytes, tries |-> Paths(queue[RowId(j)].key[2]),
           state |-> IF queue[RowId(j)].key[2] = "rtsp_frame"
                     THEN "ffmpeg" ELSE "fetch"]
    BY DEF NewTask
  <2>7. NewTask(RowId(j)) \in Task
    BY <2>3, <2>4, <2>5, <2>6 DEF Task
  <2> QED BY <1>4, <2>1, <2>2, <2>6, <2>7
<1>6. tasks' \in [DOMAIN tasks' -> Task]
  <2>1. \A j \in DOMAIN tasks' : tasks'[j] \in Task
    BY <1>2, <1>3, <1>5 DEF Typed
  <2>2. tasks' = [j \in DOMAIN tasks' |-> tasks'[j]]
    BY <1>1 DEF Overlay
  <2> QED BY <2>1, <2>2
<1> QED BY <1>2, <1>3, <1>4, <1>5, <1>6

(* The queue is a table, whatever services it is about. *)
LEMMA QueueTable ==
  ASSUME TypeOK, Typed
  PROVE  /\ IsTable(queue, (DOMAIN docs) \X Kind)
         /\ nextId \notin DOMAIN queue
         /\ t \in Nat /\ Batch \in Nat
<1>1. IsTable(queue, (DOMAIN docs) \X Kind)
  BY DEF TypeOK, IsTable
<1>2. nextId \notin 1 .. nextId - 1 /\ \A n \in 0 .. clock : n \in Nat
  BY DEF Typed
<1> QED BY <1>1, <1>2, Bounds DEF TypeOK

(* A step that leaves the tables and the tasks alone keeps what is said of  *)
(* them.                                                                    *)
LEMMA TablesTyped ==
  ASSUME TypeOK, JobKeys, t' \in 0 .. clock', pc' \in {"read", "claim", "down"},
         UNCHANGED <<queue, nextId, tasks, docs, files, maint>>
  PROVE  TypeOK' /\ JobKeys'
<1>1. \A j : Key(j)' = Key(j)
  BY DEF Key
<1>2. UNCHANGED <<assets, temp>>
  BY DEF files
<1>3. TypeOK'
  BY <1>1, <1>2 DEF TypeOK
<1>4. JobKeys'
  BY <1>1 DEF JobKeys
<1> QED BY <1>3, <1>4

(* What a probe asks for are kinds. *)
LEMMA WantedTypes ==
  ASSUME NEW parts
  PROVE  Wanted(parts) \in Seq(Kind)
<1> DEFINE favicon == IF "http" \in parts THEN <<"favicon">> ELSE <<>>
<1> DEFINE rtsp    == IF "rtsp" \in parts THEN <<"rtsp_frame">> ELSE <<>>
<1> DEFINE camera  == IF "camera" \in parts THEN <<"camera_frame">> ELSE <<>>
<1>1. \A kind \in Kind : <<kind>> \in Seq(Kind)
  OBVIOUS
<1>2. {"favicon", "rtsp_frame", "camera_frame"} \subseteq Kind
  BY DEF Kind
<1>3. <<>> \in Seq(Kind)
  OBVIOUS
<1>4. favicon \in Seq(Kind) /\ rtsp \in Seq(Kind) /\ camera \in Seq(Kind)
  BY <1>1, <1>2, <1>3
<1>5. Wanted(parts) = favicon \o rtsp \o camera
  BY DEF Wanted
<1> HIDE DEF favicon, rtsp, camera
<1>6. favicon \o rtsp \in Seq(Kind)
  BY <1>4
<1> QED BY <1>4, <1>5, <1>6

(* A step of stage 2, of the probes. *)
LEMMA ProbeTypes ==
  ASSUME TypeOK, Typed, JobKeys, NEW s \in Services,
         Upsert(s) \/ Ask(s) \/ AskFails(s)
  PROVE  TypeOK' /\ Typed' /\ JobKeys'
<1>1. CASE Upsert(s)
  <2>1. PICK parts \in Found, favicon \in {NoBytes, ProbeHash} :
          /\ docs' = Put(docs, s, [parts |-> parts, favicon |-> favicon,
                                   frame |-> NoBytes])
          /\ asking' = [asking EXCEPT ![s] = Wanted(parts)]
    BY <1>1 DEF Upsert, Hashed
  <2>2. UNCHANGED <<loop, queue, nextId, tasks, files, maint>>
    BY <1>1 DEF Upsert
  <2>3. [parts |-> parts, favicon |-> favicon, frame |-> NoBytes] \in Document
    BY Bounds DEF Document, Hash, NoBytes, ProbeHash
  <2>4. /\ DOMAIN docs' = DOMAIN docs \cup {s}
        /\ docs' \in [DOMAIN docs' -> Document]
    BY <2>1, <2>3 DEF Put, Overlay, Typed
  <2>5. Wanted(parts) \in Seq(Kind)
    BY WantedTypes
  <2>6. /\ asking' \in [Services -> Seq(Kind)]
        /\ \A other \in Services \ {s} : asking'[other] = asking[other]
    BY <2>1, <2>5 DEF Typed
  <2>7. (DOMAIN docs) \X Kind \subseteq (DOMAIN docs') \X Kind
    BY <2>4
  <2>8. queue' \in [DOMAIN queue' -> Row((DOMAIN docs') \X Kind)]
    <3>1. IsTable(queue, (DOMAIN docs') \X Kind)
      BY <2>7, QueueTable, MoreKeys
    <3> QED BY <2>2, <3>1 DEF IsTable
  <2>9. Typed'
    BY <2>2, <2>4, <2>6 DEF Typed, loop
  <2>10. TypeOK'
    BY <2>2, <2>4, <2>7, <2>8 DEF TypeOK, Key, loop, files
  <2>11. JobKeys'
    BY <2>2 DEF JobKeys, Key
  <2> QED BY <2>9, <2>10, <2>11
<1>2. CASE Ask(s)
  <2> DEFINE key == <<s, Head(asking[s])>>
  <2>1. /\ queue' = Insert(queue, nextId, key)
        /\ nextId' = IF key \in Keys(queue) THEN nextId ELSE nextId + 1
        /\ asking' = [asking EXCEPT ![s] = Tail(@)]
        /\ asking[s] # <<>>
        /\ UNCHANGED <<loop, tasks, docs, files, maint>>
    BY <1>2 DEF Ask
  <2>2. asking[s] \in Seq(Kind) /\ s \in DOMAIN docs
    BY <2>1 DEF Typed
  <2>3. Head(asking[s]) \in Kind /\ Tail(asking[s]) \in Seq(Kind)
    BY <2>1, <2>2
  <2>4. key \in (DOMAIN docs) \X Kind
    BY <2>2, <2>3
  <2> HIDE DEF key
  <2>5. /\ IsTable(queue', (DOMAIN docs) \X Kind)
        /\ \A x \in DOMAIN queue : queue'[x] = queue[x]
        /\ key \in Keys(queue) => queue' = queue
        /\ key \notin Keys(queue) => DOMAIN queue' = DOMAIN queue \cup {nextId}
    <3> DEFINE K == (DOMAIN docs) \X Kind
    <3>1. IsTable(queue, K) /\ nextId \notin DOMAIN queue
      BY QueueTable
    <3>2. key \in K /\ queue' = Insert(queue, nextId, key)
      BY <2>1, <2>4
    <3> HIDE DEF K
    <3>3. IsTable(queue', K)
      BY <3>1, <3>2, InsertKeepsRows
    <3>4. /\ \A x \in DOMAIN queue : queue'[x] = queue[x]
          /\ key \in Keys(queue) => queue' = queue
          /\ key \notin Keys(queue) =>
               DOMAIN queue' = DOMAIN queue \cup {nextId}
      BY <3>1, <3>2 DEF Insert, Put, Overlay
    <3> QED BY <3>3, <3>4 DEF K
  <2>6. asking' \in [Services -> Seq(Kind)]
        /\ \A other \in Services \ {s} : asking'[other] = asking[other]
    BY <2>1, <2>3 DEF Typed
  <2>7. /\ nextId' \in Nat \ {0}
        /\ 1 .. nextId - 1 \subseteq 1 .. nextId' - 1
        /\ key \notin Keys(queue) => nextId \in 1 .. nextId' - 1
        /\ nextId \notin 1 .. nextId - 1
    <3>1. nextId \in Nat \ {0} /\ nextId' \in {nextId, nextId + 1}
      BY <2>1 DEF Typed
    <3>2. key \notin Keys(queue) => nextId' = nextId + 1
      BY <2>1
    <3>3. nextId' \in Nat \ {0} /\ nextId \notin 1 .. nextId - 1
      BY <3>1
    <3>4. \A n \in 1 .. nextId - 1 : n \in 1 .. nextId' - 1
      <4>1. nextId' = nextId \/ nextId' = nextId + 1
        BY <3>1
      <4>2. nextId \in Nat /\ 1 .. (nextId + 1) - 1 = 1 .. nextId
        BY <3>1
      <4> QED BY <4>1, <4>2
    <3>5. nextId' = nextId + 1 => nextId \in 1 .. nextId' - 1
      BY <3>1
    <3> QED BY <3>2, <3>3, <3>4, <3>5
  <2>8. Typed'
    BY <2>1, <2>2, <2>6, <2>7 DEF Typed, loop
  <2>9. DOMAIN queue' \subseteq 1 .. nextId' - 1
    BY <2>5, <2>7 DEF TypeOK
  <2>10. \A j \in DOMAIN tasks : RowId(j) \in 1 .. nextId' - 1
    BY <2>7 DEF TypeOK
  <2>11. TypeOK'
    BY <2>1, <2>5, <2>9, <2>10 DEF TypeOK, IsTable, Key, RowId, loop, files
  <2>12. JobKeys'
    BY <2>1, <2>5, <2>7 DEF JobKeys, TypeOK, Key, RowId
  <2> QED BY <2>8, <2>11, <2>12
<1>3. CASE AskFails(s)
  <2>1. /\ asking' = [asking EXCEPT ![s] = <<>>]
        /\ UNCHANGED <<loop, queue, nextId, tasks, docs, files, maint>>
    BY <1>3 DEF AskFails
  <2>2. asking' \in [Services -> Seq(Kind)]
        /\ \A other \in Services :
             asking'[other] # <<>> => asking'[other] = asking[other]
    BY <2>1 DEF Typed
  <2>3. Typed'
    BY <2>1, <2>2 DEF Typed, loop
  <2>4. UNCHANGED <<queue, nextId, tasks, docs, files, maint, clock, pc, t>>
    BY <2>1 DEF loop
  <2>5. TypeOK' /\ JobKeys'
    BY <2>4, TablesTyped DEF TypeOK
  <2> QED BY <2>3, <2>5
<1> QED BY <1>1, <1>2, <1>3

(* The same of all the types. *)
LEMMA TablesStay ==
  ASSUME TypeOK, Typed, JobKeys, t' \in 0 .. clock', clock' \in Nat \ {0},
         pc' \in {"read", "claim", "down"},
         UNCHANGED <<queue, nextId, tasks, docs, asking, files, maint>>
  PROVE  TypeOK' /\ Typed' /\ JobKeys'
<1>1. TypeOK' /\ JobKeys'
  BY TablesTyped
<1>2. Typed'
  BY DEF Typed
<1> QED BY <1>1, <1>2

(* The claim loop, crashes and the completion of rows. *)
LEMMA LoopTypes ==
  ASSUME TypeOK, Typed, JobKeys,
         \/ Tick \/ ReadClock \/ ClaimEnrichments \/ ClaimNothing \/ ClaimFails
         \/ Crash \/ Restart
         \/ \E j \in DOMAIN tasks : CompleteTask(j) \/ CompleteFails(j)
  PROVE  TypeOK' /\ Typed' /\ JobKeys'
<1>1. CASE Tick
  <2>1. /\ clock' = clock + 1
        /\ UNCHANGED <<pc, t, queue, nextId, tasks, docs, asking, files, maint>>
    BY <1>1 DEF Tick
  <2>2. clock' \in Nat \ {0} /\ t' \in 0 .. clock'
    BY <2>1 DEF Typed, TypeOK
  <2>3. pc' \in {"read", "claim", "down"}
    BY <2>1 DEF TypeOK
  <2> QED BY <2>1, <2>2, <2>3, TablesStay
<1>2. CASE ReadClock \/ ClaimNothing \/ Restart
  <2>1. /\ UNCHANGED <<clock, queue, nextId, tasks, docs, asking, files, maint>>
        /\ pc' \in {"read", "claim"}
        /\ t' \in {t, clock, 0}
    BY <1>2 DEF ReadClock, ClaimNothing, Restart
  <2>2. t' \in 0 .. clock' /\ clock' \in Nat \ {0}
    BY <2>1 DEF Typed, TypeOK
  <2> QED BY <2>1, <2>2, TablesStay
<1>3. ASSUME NEW c, c = Claim(queue, Batch, t)
      PROVE  /\ c \in [DOMAIN c -> Row((DOMAIN docs) \X Kind)]
             /\ DOMAIN c = DOMAIN queue
             /\ \A id \in DOMAIN queue : c[id].key = queue[id].key
  <2> DEFINE K == (DOMAIN docs) \X Kind
  <2>1. IsTable(queue, K) /\ t \in Nat /\ Batch \in Nat
    BY QueueTable
  <2> HIDE DEF K
  <2>2. /\ IsTable(c, K)
        /\ DOMAIN c = DOMAIN queue
        /\ \A id \in DOMAIN queue : c[id].key = queue[id].key
    BY <1>3, <2>1, ClaimKeepsRows
  <2> QED BY <2>2 DEF IsTable, K
<1>4. CASE ClaimFails
  <2>1. /\ UNCHANGED <<clock, t, nextId, tasks, docs, asking, files, maint>>
        /\ pc' = "read"
        /\ queue' = queue \/ queue' = Claim(queue, Batch, t)
    BY <1>4 DEF ClaimFails
  <2>2. /\ queue' \in [DOMAIN queue' -> Row((DOMAIN docs) \X Kind)]
        /\ DOMAIN queue' = DOMAIN queue
        /\ \A id \in DOMAIN queue : queue'[id].key = queue[id].key
    BY <1>3, <2>1 DEF TypeOK
  <2> QED BY <2>1, <2>2 DEF TypeOK, Typed, JobKeys, Key, RowId, files
<1>5. CASE ClaimEnrichments
  <2>1. /\ UNCHANGED <<clock, t, nextId, docs, asking, files, maint>>
        /\ pc' = "read"
        /\ queue' = Claim(queue, Batch, t)
    BY <1>5 DEF ClaimEnrichments
  <2>2. /\ queue' \in [DOMAIN queue' -> Row((DOMAIN docs) \X Kind)]
        /\ DOMAIN queue' = DOMAIN queue
        /\ \A id \in DOMAIN queue : queue'[id].key = queue[id].key
    BY <1>3, <2>1
  <2>3. ASSUME NEW j \in NewJobs
        PROVE  /\ RowId(j) \in 1 .. nextId - 1
               /\ Key(j)' = queue[RowId(j)].key
               /\ Key(j)' \in (DOMAIN docs) \X Kind
               /\ tasks'[j].tries \in 1 .. Paths(tasks'[j].kind)
               /\ tasks'[j].state \notin {"save", "write", "rename", "row", "data"}
    <3>1. RowId(j) \in DOMAIN queue
      BY <1>5, Spawns
    <3>2. Key(j)' = queue[RowId(j)].key
      BY <1>5, <3>1, Spawns, RowKeys DEF Key
    <3>3. /\ tasks'[j].tries = Paths(tasks'[j].kind)
          /\ tasks'[j].kind \in Kind
      BY <1>5, Spawns DEF Task
    <3>4. tasks'[j].tries \in 1 .. Paths(tasks'[j].kind)
      BY <3>3, Bounds
    <3>5. tasks'[j].state \in {"ffmpeg", "fetch"}
      BY <1>5, Spawns
    <3> QED BY <3>1, <3>2, <3>4, <3>5, RowKeys DEF TypeOK
  <2>4. ASSUME NEW j \in DOMAIN tasks \ NewJobs
        PROVE  /\ tasks'[j] = tasks[j]
               /\ Key(j)' = Key(j)
    BY <1>5, <2>4, Spawns DEF Key
  <2>5. DOMAIN tasks' = DOMAIN tasks \cup NewJobs
    BY <1>5, Spawns
  <2>6. \A j \in DOMAIN tasks' :
          /\ RowId(j) \in 1 .. nextId - 1
          /\ Key(j)' \in (DOMAIN docs) \X Kind
          /\ tasks'[j].tries \in 1 .. Paths(tasks'[j].kind)
          /\ tasks'[j].state \in {"save", "write", "rename", "row", "data"} =>
               tasks'[j].bytes \notin {NoBytes, Tiny, ProbeHash}
    BY <2>3, <2>4, <2>5 DEF TypeOK
  <2>7. TypeOK'
    BY <2>1, <2>2, <2>6 DEF TypeOK, RowId, files
  <2>8. Typed'
    BY <1>5, <2>1, Spawns DEF Typed
  <2>9. JobKeys'
    BY <2>2, <2>3, <2>4, <2>5 DEF JobKeys, RowId
  <2> QED BY <2>7, <2>8, <2>9
<1>6. ASSUME NEW j \in DOMAIN tasks, CompleteTask(j) \/ CompleteFails(j)
      PROVE  TypeOK' /\ Typed' /\ JobKeys'
  <2>1. /\ UNCHANGED <<clock, pc, t, nextId, docs, asking, files, maint>>
        /\ queue' = queue \/ queue' = Remove(queue, {RowId(j)})
        /\ tasks' = Remove(tasks, {j})
    BY <1>6 DEF CompleteTask, CompleteFails, Complete, EndTask, loop
  <2>2. /\ queue' \in [DOMAIN queue' -> Row((DOMAIN docs) \X Kind)]
        /\ DOMAIN queue' \subseteq DOMAIN queue
        /\ \A id \in DOMAIN queue' : queue'[id] = queue[id]
    BY <2>1 DEF TypeOK, Remove, Restrict
  <2>3. /\ tasks' \in [DOMAIN tasks' -> Task]
        /\ DOMAIN tasks' \subseteq DOMAIN tasks
        /\ \A i \in DOMAIN tasks' : tasks'[i] = tasks[i]
    BY <2>1 DEF Typed, Remove, Restrict
  <2>4. \A i \in DOMAIN tasks' : Key(i)' = Key(i)
    BY <2>3 DEF Key
  <2>5. Typed'
    BY <2>1, <2>3 DEF Typed
  <2>6. JobKeys'
    BY <2>2, <2>3, <2>4 DEF JobKeys, RowId
  <2>7. TypeOK'
    <3>1. DOMAIN queue' \subseteq 1 .. nextId' - 1 /\ pc' \in {"read", "claim", "down"}
          /\ t' \in 0 .. clock'
      BY <2>1, <2>2 DEF TypeOK
    <3>2. \A i \in DOMAIN tasks' :
            /\ RowId(i) \in 1 .. nextId' - 1
            /\ Key(i)' \in (DOMAIN docs') \X Kind
            /\ tasks'[i].tries \in 1 .. Paths(tasks'[i].kind)
            /\ tasks'[i].state \in {"save", "write", "rename", "row", "data"} =>
                 tasks'[i].bytes \notin {NoBytes, Tiny, ProbeHash}
      <4>1. ASSUME NEW i \in DOMAIN tasks'
            PROVE  /\ i \in DOMAIN tasks /\ tasks'[i] = tasks[i]
                   /\ Key(i)' = Key(i) /\ docs' = docs /\ nextId' = nextId
        BY <2>1, <2>3, <2>4
      <4> QED BY <4>1 DEF TypeOK
    <3>3. UNCHANGED <<docs, assets, temp, maint>>
      BY <2>1 DEF files
    <3> QED BY <2>2, <3>1, <3>2, <3>3 DEF TypeOK
  <2> QED BY <2>5, <2>6, <2>7
<1>7. CASE Crash
  <2>1. /\ UNCHANGED <<clock, t, queue, nextId, docs, asking, files, maint>>
        /\ pc' = "down"
        /\ tasks' = NoEntries
    BY <1>7 DEF Crash
  <2>2. DOMAIN tasks' = {} /\ tasks' \in [DOMAIN tasks' -> Task]
    BY <2>1 DEF NoEntries
  <2> QED BY <2>1, <2>2 DEF TypeOK, Typed, JobKeys, files
<1> QED BY <1>1, <1>2, <1>4, <1>5, <1>6, <1>7

(* The maintenance commands. *)
LEMMA MaintenanceTypes ==
  ASSUME TypeOK, Typed, JobKeys,
         StartMaintenance \/ MaintainNext \/ MaintenanceFails
  PROVE  TypeOK' /\ Typed' /\ JobKeys'
<1>1. UNCHANGED <<clock, pc, t, queue, nextId, tasks, asking, assets, saved, temp>>
  BY DEF StartMaintenance, MaintainNext, MaintenanceFails, loop, files
<1>2. /\ DOMAIN docs' = DOMAIN docs
      /\ docs' \in [DOMAIN docs -> Document]
      /\ DOMAIN maint' \subseteq DOMAIN docs
      /\ maint' \in [DOMAIN maint' -> Document]
  <2>1. CASE StartMaintenance
    <3>1. docs' = docs /\ \E which : maint' = Restrict(docs, which) /\ which \subseteq DOMAIN docs
      BY <2>1 DEF StartMaintenance
    <3> QED BY <3>1 DEF Typed, Restrict
  <2>2. CASE MaintainNext
    <3>1. PICK s \in DOMAIN maint :
            /\ docs' = docs \/ docs' = [docs EXCEPT ![s] = maint[s]]
            /\ maint' = Remove(maint, {s})
      BY <2>2 DEF MaintainNext
    <3> QED BY <3>1 DEF TypeOK, Typed, Remove, Restrict
  <2>3. CASE MaintenanceFails
    BY <2>3 DEF MaintenanceFails, NoEntries, Typed
  <2> QED BY <2>1, <2>2, <2>3
<1>3. TypeOK'
  BY <1>1, <1>2 DEF TypeOK, Key, RowId
<1>4. Typed'
  BY <1>1, <1>2 DEF Typed
<1>5. JobKeys'
  BY <1>1 DEF JobKeys, Key, RowId
<1> QED BY <1>3, <1>4, <1>5

(* The cases of every proof about a step. *)
LEMMA Steps ==
  ASSUME [Next]_vars
  PROVE  \/ \E s \in Services : Upsert(s) \/ Ask(s) \/ AskFails(s)
         \/ Tick \/ ReadClock \/ ClaimEnrichments \/ ClaimNothing \/ ClaimFails
         \/ Crash \/ Restart
         \/ \E j \in DOMAIN tasks : CompleteTask(j) \/ CompleteFails(j)
         \/ \E j \in DOMAIN tasks : Works(j)
         \/ StartMaintenance \/ MaintainNext \/ MaintenanceFails
         \/ UNCHANGED vars
  BY DEF Next, LoopStep, TaskStep, Works

LEMMA TypeStep ==
  ASSUME TypeOK, Typed, JobKeys, Captures, [Next]_vars
  PROVE  TypeOK' /\ Typed' /\ JobKeys'
<1>1. CASE UNCHANGED vars
  BY <1>1 DEF vars, loop, files, TypeOK, Typed, JobKeys, Key, RowId
<1> QED BY <1>1, Steps, ProbeTypes, LoopTypes, WorkTypes, MaintenanceTypes

-----------------------------------------------------------------------------
(* Files before rows. *)

LEMMA WorkStores ==
  ASSUME TypeOK, Typed, Captures, FilesFirst, RowsHaveFiles,
         NEW j \in DOMAIN tasks, Works(j)
  PROVE  FilesFirst' /\ RowsHaveFiles'
<1>1. Moves(j) /\ Carries(j)
  BY WorkMoves
<1>2. /\ maint' = maint
      /\ \/ assets' = assets
         \/ tasks[j].state = "row" /\ PutAsset(j)
      /\ \/ docs' = docs
         \/ tasks[j].state = "data" /\ SetHash(j)
  BY WorkLeaves
<1>3. /\ DOMAIN saved \subseteq DOMAIN saved'
      /\ tasks'[j].state \in {"write", "row"} => tasks[j].bytes \in DOMAIN saved'
  <2>1. \/ saved' = saved /\ tasks'[j].state \notin {"write", "row"}
        \/ \E bytes : saved' = Put(saved, tasks[j].bytes, bytes)
    BY WorkFiles DEF Files
  <2>2. \A bytes : DOMAIN Put(saved, tasks[j].bytes, bytes)
                    = DOMAIN saved \cup {tasks[j].bytes}
    BY DEF Put, Overlay
  <2> QED BY <2>1, <2>2
<1>4. tasks'[j].state \in {"write", "row", "data"} =>
        tasks'[j].bytes \in DOMAIN saved'
  BY <1>1, <1>3 DEF Carries, Same, FilesFirst
<1>5. /\ PutAsset(j) => \A key \in DOMAIN assets' :
           \/ key = Key(j) /\ assets'[key] = tasks[j].bytes
           \/ key \in DOMAIN assets /\ assets'[key] = assets[key]
      /\ PutAsset(j) => DOMAIN assets' = DOMAIN assets \cup {Key(j)}
  BY DEF PutAsset, Put, Overlay
<1>6. DOMAIN assets \subseteq DOMAIN assets'
  BY <1>2, <1>5
<1>7. ASSUME tasks'[j].state = "data"
      PROVE  tasks[j].kind # "camera_frame" /\ Key(j) \in DOMAIN assets'
  <2>1. tasks[j].state = "row"
    BY <1>1, <1>7 DEF Carries
  <2>2. RecordAsset(j) \/ StepFails(j)
    BY <2>1 DEF Works, FetchFavicon, FetchSnapshot, Open, Write, RunFfmpeg,
       ReadFrame, ReadCamera, RenameFrame, WriteHash
  <2>3. RecordAsset(j)
    BY <1>7, <2>2, GotoMoves DEF StepFails, GiveUp, States
  <2>4. tasks[j].kind # "camera_frame"
    BY <1>7, <2>3, GotoMoves DEF RecordAsset, States
  <2>5. PutAsset(j)
    BY <2>3 DEF RecordAsset
  <2> QED BY <1>5, <2>4, <2>5
<1>8. \A i \in DOMAIN tasks : Key(i)' = Key(i)
  BY <1>1 DEF Moves, Key
<1>9. \A i \in DOMAIN tasks' :
        /\ tasks'[i].state \in {"write", "row", "data"} =>
             tasks'[i].bytes \in DOMAIN saved'
        /\ tasks'[i].state = "data" => /\ tasks'[i].kind # "camera_frame"
                                       /\ Key(i)' \in DOMAIN assets'
  <2>1. /\ DOMAIN tasks' = DOMAIN tasks
        /\ \A i \in DOMAIN tasks \ {j} : tasks'[i] = tasks[i]
        /\ tasks'[j].kind = tasks[j].kind
    BY <1>1 DEF Moves
  <2>2. ASSUME NEW i \in DOMAIN tasks \ {j}
        PROVE  /\ tasks'[i].state \in {"write", "row", "data"} =>
                    tasks'[i].bytes \in DOMAIN saved'
               /\ tasks'[i].state = "data" => /\ tasks'[i].kind # "camera_frame"
                                              /\ Key(i)' \in DOMAIN assets'
    BY <1>3, <1>6, <1>8, <2>1 DEF FilesFirst
  <2> QED BY <1>4, <1>7, <1>8, <2>1, <2>2
<1>10. \A s \in DOMAIN maint' : Documented(s, maint[s])'
  BY <1>2, <1>3, <1>6 DEF FilesFirst, Documented, Enriched
<1>11. FilesFirst'
  BY <1>9, <1>10 DEF FilesFirst
<1>12. \A key \in DOMAIN assets' : assets'[key] \in DOMAIN saved'
  BY <1>2, <1>3, <1>5 DEF FilesFirst, RowsHaveFiles
<1>13. \A s \in DOMAIN docs' : Documented(s, docs[s])'
  <2>1. CASE docs' = docs
    BY <1>3, <1>6, <2>1 DEF RowsHaveFiles, Documented, Enriched
  <2>2. CASE tasks[j].state = "data" /\ SetHash(j)
    <3>1. tasks[j].bytes \in DOMAIN saved /\ Key(j) \in DOMAIN assets
      BY <2>2 DEF FilesFirst
    <3>2. /\ DOMAIN docs' = DOMAIN docs
          /\ \A s \in DOMAIN docs :
               /\ docs'[s].favicon # docs[s].favicon => Key(j) = <<s, "favicon">>
               /\ docs'[s].frame \in {docs[s].frame, tasks[j].bytes}
      BY <2>2, SetHashIs DEF Key
    <3> QED BY <1>3, <1>6, <3>1, <3>2 DEF RowsHaveFiles, Documented, Enriched
  <2> QED BY <1>2, <2>1, <2>2
<1> QED BY <1>11, <1>12, <1>13 DEF RowsHaveFiles

LEMMA FilesStep ==
  ASSUME TypeOK, Typed, Captures, FilesFirst, RowsHaveFiles, [Next]_vars
  PROVE  FilesFirst' /\ RowsHaveFiles'
<1>1. CASE \E s \in Services : Upsert(s)
  <2>1. PICK s \in Services : Upsert(s)
    BY <1>1
  <2>2. PICK parts \in Found, favicon \in {NoBytes, ProbeHash} :
          docs' = Put(docs, s, [parts |-> parts, favicon |-> favicon,
                                frame |-> NoBytes])
    BY <2>1 DEF Upsert, Hashed
  <2>3. \A other \in DOMAIN docs' :
          \/ docs'[other].favicon = favicon /\ docs'[other].frame = NoBytes
          \/ other \in DOMAIN docs /\ docs'[other] = docs[other]
    BY <2>2 DEF Put, Overlay
  <2>5. UNCHANGED <<assets, saved, tasks, maint>>
    BY <2>1 DEF Upsert, files
  <2>6. FilesFirst'
    BY <2>5 DEF FilesFirst, Key, Documented, Enriched
  <2>7. RowsHaveFiles'
    BY <2>3, <2>5 DEF RowsHaveFiles, Documented, Enriched
  <2> QED BY <2>6, <2>7
<1>2. CASE \/ \E s \in Services : Ask(s) \/ AskFails(s)
           \/ Tick \/ ReadClock \/ ClaimNothing \/ ClaimFails \/ Restart
           \/ UNCHANGED vars
  <2>1. UNCHANGED <<docs, assets, saved, tasks, maint>>
    BY <1>2 DEF Ask, AskFails, Tick, ReadClock, ClaimNothing, ClaimFails, Restart,
       vars, files
  <2> QED BY <2>1 DEF FilesFirst, RowsHaveFiles, Key, Documented, Enriched
<1>3. CASE ClaimEnrichments
  <2>1. \A j \in DOMAIN tasks' :
          \/ tasks'[j].state \in {"fetch", "ffmpeg"}
          \/ j \in DOMAIN tasks /\ tasks'[j] = tasks[j]
    BY <1>3, Spawns
  <2>2. UNCHANGED <<docs, assets, saved, maint>>
    BY <1>3 DEF ClaimEnrichments, files
  <2> QED BY <2>1, <2>2 DEF FilesFirst, RowsHaveFiles, Key, Documented, Enriched
<1>4. CASE \/ Crash
           \/ \E j \in DOMAIN tasks : CompleteTask(j) \/ CompleteFails(j)
  <2>1. /\ UNCHANGED <<docs, files, maint>>
        /\ \A j \in DOMAIN tasks' : j \in DOMAIN tasks /\ tasks'[j] = tasks[j]
    BY <1>4 DEF Crash, CompleteTask, CompleteFails, EndTask, Remove, Restrict,
       NoEntries
  <2> QED BY <2>1 DEF files, FilesFirst, RowsHaveFiles, Key, Documented, Enriched
<1>5. CASE StartMaintenance \/ MaintainNext \/ MaintenanceFails
  <2>1. UNCHANGED <<tasks, files>>
    BY <1>5 DEF StartMaintenance, MaintainNext, MaintenanceFails
  <2>2. /\ \A s \in DOMAIN maint' :
             \/ s \in DOMAIN maint /\ maint'[s] = maint[s]
             \/ s \in DOMAIN docs /\ maint'[s] = docs[s]
        /\ \A s \in DOMAIN docs' :
             \/ s \in DOMAIN maint /\ docs'[s] = maint[s]
             \/ s \in DOMAIN docs /\ docs'[s] = docs[s]
    <3>1. CASE StartMaintenance
      BY <3>1 DEF StartMaintenance, Restrict
    <3>2. CASE MaintainNext
      <4>1. PICK s \in DOMAIN maint :
              /\ docs' = docs \/ docs' = [docs EXCEPT ![s] = maint[s]]
              /\ maint' = Remove(maint, {s})
        BY <3>2 DEF MaintainNext
      <4> QED BY <4>1 DEF TypeOK, Typed, Remove, Restrict
    <3>3. CASE MaintenanceFails
      BY <3>3 DEF MaintenanceFails, NoEntries
    <3> QED BY <1>5, <3>1, <3>2, <3>3
  <2>3. UNCHANGED <<assets, saved, tasks>>
    BY <2>1 DEF files
  <2>4. FilesFirst'
    BY <2>2, <2>3 DEF FilesFirst, RowsHaveFiles, Key, Documented, Enriched
  <2>5. RowsHaveFiles'
    BY <2>2, <2>3 DEF FilesFirst, RowsHaveFiles, Documented, Enriched
  <2> QED BY <2>4, <2>5
<1> QED BY <1>1, <1>2, <1>3, <1>4, <1>5, Steps, WorkStores

-----------------------------------------------------------------------------
(* Temporary files. *)

LEMMA WorkCaptures ==
  ASSUME TypeOK, Typed, Captures, NEW j \in DOMAIN tasks, Works(j)
  PROVE  Captures'
<1>1. Moves(j) /\ Carries(j) /\ Files(j)
  BY WorkMoves, WorkFiles
<1>2. /\ crossed \subseteq crossed'
      /\ \/ j \in Capturing
         \/ tasks'[j].state \notin {"ffmpeg", "read", "rename"}
         \/ /\ tasks[j].kind = "camera_frame" /\ tasks'[j].state = "ffmpeg"
            /\ crossed' = crossed \cup Crossing(j, tasks')
  BY WorkCrosses
<1>3. \A i \in DOMAIN tasks : Path(i)' = Path(i)
  BY <1>1 DEF Moves, Path
<1>4. /\ Capturing' \subseteq DOMAIN tasks
      /\ \A i \in Capturing' \ {j} : i \in Capturing /\ tasks'[i] = tasks[i]
  BY <1>1 DEF Moves, Capturing
<1>5. /\ tasks[j].service \in Services
      /\ Path(j) \in {0, tasks[j].service}
      /\ tasks[j].kind = "camera_frame" <=> Path(j) = 0
  BY Bounds DEF Path, TempOf, Typed, Task
<1>6. ASSUME NEW i \in Capturing'
      PROVE  \/ tasks'[i].kind = "rtsp_frame"
             \/ tasks'[i].kind = "camera_frame" /\ tasks'[i].state # "rename"
  <2>1. CASE i # j
    BY <1>4, <2>1 DEF Captures
  <2>2. CASE i = j
    <3>1. tasks[j].kind = "rtsp_frame" \/ tasks[j].kind = "camera_frame"
      BY <1>2, <2>2 DEF Captures, Capturing
    <3>2. tasks'[j].state = "rename" => tasks[j].kind = "rtsp_frame"
      BY <1>1 DEF Carries
    <3> QED BY <1>1, <2>2, <3>1, <3>2 DEF Moves
  <2> QED BY <2>1, <2>2
<1>7. ASSUME NEW i \in Capturing', NEW k \in Capturing', i # k, Path(i) = Path(k)
      PROVE  Path(i) \in crossed'
  <2>1. CASE i \in Capturing /\ k \in Capturing
    BY <1>2, <1>7, <2>1 DEF Captures
  <2>2. ASSUME NEW other \in Capturing', other # j, Path(other) = Path(j),
               j \in Capturing', j \notin Capturing
        PROVE  Path(j) \in crossed'
    <3>1. /\ tasks'[j].state = "ffmpeg"
          /\ crossed' = crossed \cup Crossing(j, tasks')
      BY <1>2, <2>2 DEF Capturing
    <3>2. /\ TempOf(tasks'[j].service, tasks'[j].kind) = Path(j)
          /\ Uses(tasks'[other], Path(j))
          /\ other \in DOMAIN tasks' \ {j}
      BY <1>3, <1>4, <2>2 DEF Path, Uses, Capturing
    <3>3. Path(j) \in Crossing(j, tasks')
      BY <3>1, <3>2 DEF Crossing
    <3> QED BY <3>1, <3>3
  <2>3. CASE i = j /\ j \notin Capturing
    BY <1>7, <2>2, <2>3
  <2>4. CASE k = j /\ j \notin Capturing
    BY <1>7, <2>2, <2>4
  <2> QED BY <1>4, <2>1, <2>3, <2>4
<1>8. \A path \in DOMAIN temp' :
        \/ path \in DOMAIN temp /\ temp'[path] = temp[path]
        \/ path = Path(j) /\ temp'[path] \in Picture(tasks[j].service, tasks[j].kind) \cup {Tiny}
  BY <1>1 DEF Files, Put, Overlay, Remove, Restrict
<1>9. \A s \in DOMAIN temp' \ {0} : temp'[s] \in Picture(s, "rtsp_frame") \cup {Tiny}
  <2>1. \A s : Picture(s, tasks[j].kind) = Picture(s, "rtsp_frame")
               \/ tasks[j].kind = "favicon"
    BY DEF Picture
  <2>2. tasks[j].kind = "favicon" => temp' = temp
    BY <1>1 DEF Files, Captures, Capturing
  <2>3. Path(j) # 0 => Path(j) = tasks[j].service
    BY <1>5
  <2> QED BY <1>8, <2>1, <2>2, <2>3 DEF Captures
<1>10. 0 \in DOMAIN temp' =>
         temp'[0] \in (UNION {Picture(s, "camera_frame") : s \in Services}) \cup {Tiny}
  <2>1. CASE 0 \in DOMAIN temp /\ temp'[0] = temp[0]
    BY <2>1 DEF Captures
  <2>2. CASE /\ Path(j) = 0
             /\ temp'[0] \in Picture(tasks[j].service, tasks[j].kind) \cup {Tiny}
    BY <1>5, <2>2
  <2> QED BY <1>8, <2>1, <2>2
<1>11. ASSUME NEW i \in Capturing', Path(i) \in DOMAIN temp' \ crossed'
       PROVE  /\ tasks'[i].state = "read" =>
                   temp'[Path(i)] \in Picture(tasks'[i].service, tasks'[i].kind) \cup {Tiny}
              /\ tasks'[i].state = "rename" => temp'[Path(i)] = tasks'[i].bytes
  <2>1. CASE i = j
    <3>1. tasks'[j].state = "read" =>
            temp'[Path(j)] \in Picture(tasks[j].service, tasks[j].kind) \cup {Tiny}
      BY <1>1 DEF Files, Put, Overlay
    <3>2. tasks'[j].state = "rename" => temp'[Path(j)] = tasks'[j].bytes
      BY <1>1 DEF Files, Carries
    <3> QED BY <1>1, <2>1, <3>1, <3>2 DEF Moves
  <2>2. CASE i # j
    <3>1. i \in Capturing /\ tasks'[i] = tasks[i] /\ Path(i) \notin crossed
      BY <1>2, <1>4, <1>11, <2>2
    <3>2. j \in Capturing => Path(i) # Path(j)
      BY <2>2, <3>1 DEF Captures
    <3>3. j \notin Capturing => temp' = temp
      BY <1>1 DEF Files, Capturing
    <3>4. Path(i) \in DOMAIN temp /\ temp'[Path(i)] = temp[Path(i)]
      BY <1>8, <1>11, <3>2, <3>3
    <3> QED BY <3>1, <3>4 DEF Captures
  <2> QED BY <2>1, <2>2
<1>12. \A i \in Capturing' : Path(i)' = Path(i)
  BY <1>3, <1>4
<1> QED BY <1>6, <1>7, <1>9, <1>10, <1>11, <1>12 DEF Captures

LEMMA CapturesStep ==
  ASSUME TypeOK, Typed, Captures, [Next]_vars
  PROVE  Captures' /\ crossed \subseteq crossed'
<1>1. CASE UNCHANGED <<tasks, temp, crossed>>
  BY <1>1 DEF Captures, Capturing, Path
<1>2. CASE \/ \E s \in Services : Upsert(s) \/ Ask(s) \/ AskFails(s)
           \/ Tick \/ ReadClock \/ ClaimNothing \/ ClaimFails \/ Restart
           \/ StartMaintenance \/ MaintainNext \/ MaintenanceFails
           \/ UNCHANGED vars
  <2>1. UNCHANGED <<tasks, temp, crossed>>
    BY <1>2 DEF Upsert, Ask, AskFails, Tick, ReadClock, ClaimNothing, ClaimFails,
       Restart, StartMaintenance, MaintainNext, MaintenanceFails, vars, files,
       history
  <2> QED BY <1>1, <2>1
<1>3. CASE \/ Crash
           \/ \E j \in DOMAIN tasks : CompleteTask(j) \/ CompleteFails(j)
  <2>1. /\ UNCHANGED <<temp, crossed>>
        /\ \A j \in DOMAIN tasks' : j \in DOMAIN tasks /\ tasks'[j] = tasks[j]
    BY <1>3 DEF Crash, CompleteTask, CompleteFails, EndTask, Remove, Restrict,
       NoEntries, files, history
  <2>2. \A j \in Capturing' :
          j \in Capturing /\ tasks'[j] = tasks[j] /\ Path(j)' = Path(j)
    BY <2>1 DEF Capturing, Path
  <2> QED BY <2>1, <2>2 DEF Captures
<1>4. CASE ClaimEnrichments
  <2>1. /\ temp' = temp
        /\ crossed' = crossed \cup UNION {Crossing(j, tasks') : j \in NewJobs}
    BY <1>4 DEF ClaimEnrichments, NewJobs, files
  <2>2. \A j \in Capturing' :
          \/ j \in Capturing \ NewJobs /\ tasks'[j] = tasks[j] /\ Path(j)' = Path(j)
          \/ /\ j \in NewJobs
             /\ tasks'[j].kind = "rtsp_frame" /\ tasks'[j].state = "ffmpeg"
    BY <1>4, Spawns DEF Capturing, Path
  <2>3. ASSUME NEW i \in NewJobs \cap Capturing', NEW k \in Capturing',
               i # k, Path(i)' = Path(k)'
        PROVE  Path(i)' \in crossed'
    <3>1. /\ tasks'[i].state = "ffmpeg"
          /\ TempOf(tasks'[i].service, tasks'[i].kind) = Path(i)'
          /\ Uses(tasks'[k], Path(i)')
          /\ k \in DOMAIN tasks' \ {i}
      BY <2>2, <2>3 DEF Path, Uses, Capturing
    <3>2. Path(i)' \in Crossing(i, tasks')
      BY <3>1 DEF Crossing
    <3> QED BY <2>1, <3>2
  <2>4. \A i, k \in Capturing' :
          i # k /\ Path(i)' = Path(k)' => Path(i)' \in crossed'
    BY <2>1, <2>2, <2>3 DEF Captures
  <2> QED BY <2>1, <2>2, <2>4 DEF Captures
<1> QED BY <1>2, <1>3, <1>4, Steps, WorkCaptures, WorkCrosses

-----------------------------------------------------------------------------
(* Whose pictures. *)

(* What it does to the list of the names that are cut short. *)
LEMMA WorkCuts ==
  ASSUME TypeOK, Typed, Captures, NEW j \in DOMAIN tasks, Works(j)
  PROVE  /\ cut \ {tasks[j].bytes} \subseteq cut'
         /\ tasks'[j].state # "write" => cut \subseteq cut'
         /\ tasks[j].state = "write" => Write(j) \/ tasks[j].bytes \in cut'
<1>1. CASE Open(j)
  <2>1. tasks'[j].state = "write"
    BY <1>1, GotoMoves DEF Open, States
  <2> QED BY <1>1, <2>1 DEF Open
<1>2. CASE StepFails(j)
  BY <1>2 DEF StepFails, Unfinished
<1>3. CASE Write(j)
  BY <1>3 DEF Write, history
<1>4. CASE ~(Open(j) \/ StepFails(j) \/ Write(j))
  BY <1>4 DEF Works, FetchFavicon, FetchSnapshot, RunFfmpeg, ReadFrame,
     ReadCamera, RenameFrame, RecordAsset, WriteHash, history
<1> QED BY <1>1, <1>2, <1>3, <1>4

(* A file has its content, or the beginning of it, or was in two hands. *)
Named(hash) ==
  /\ saved[hash].of \in {hash.of, Tiny.of}
  /\ saved[hash] \in {hash, Partial} \/ Overtaken(hash)
  /\ \/ saved[hash] = hash
     \/ \E i \in DOMAIN tasks : Writing(i, hash)
     \/ hash \in cut
     \/ Overtaken(hash)

LEMMA WorkOwns ==
  ASSUME TypeOK, Typed, Captures, FilesFirst, Owned, NamedByContent,
         NEW j \in DOMAIN tasks, Works(j)
  PROVE  Owned' /\ NamedByContent'
<1> DEFINE service == tasks[j].service
           bytes == tasks[j].bytes
<1>1. Moves(j) /\ Carries(j) /\ Files(j) /\ crossed \subseteq crossed'
  BY WorkMoves, WorkFiles, WorkCrosses
<1>2. \/ assets' = assets
      \/ tasks[j].state = "row" /\ PutAsset(j)
  BY WorkLeaves
<1>3. /\ service \in Services
      /\ service # 0
      /\ tasks[j].kind = "camera_frame" => Path(j) = 0
      /\ tasks[j].kind # "camera_frame" => Path(j) = service
      /\ tasks[j].kind \in {"favicon", "rtsp_frame", "camera_frame"}
  BY Bounds DEF Path, TempOf, Typed, Task, Kind
<1>4. \A b, s, kind : Whose(b, s, kind, crossed) => Whose(b, s, kind, crossed')
  BY <1>1 DEF Whose
<1>5. ASSUME tasks[j].state \in {"save", "write", "rename", "row", "data"}
      PROVE  Whose(bytes, service, tasks[j].kind, crossed)
  BY <1>5 DEF Owned
<1>6. ASSUME tasks[j].state = "read", Path(j) \in DOMAIN temp, temp[Path(j)] # Tiny,
             tasks[j].kind # "favicon"
      PROVE  Whose(temp[Path(j)], service, tasks[j].kind, crossed)
  <2>1. CASE tasks[j].kind = "camera_frame" /\ 0 \in crossed
    BY <1>3, <1>6, <2>1 DEF Whose, Captures
  <2>2. CASE tasks[j].kind = "camera_frame" /\ 0 \notin crossed
    BY <1>3, <1>6, <2>2 DEF Whose, Captures, Capturing
  <2>3. CASE tasks[j].kind # "camera_frame"
    BY <1>3, <1>6, <2>3 DEF Whose, Captures
  <2> QED BY <2>1, <2>2, <2>3
<1>7. ASSUME NEW i \in DOMAIN tasks',
             tasks'[i].state \in {"save", "write", "rename", "row", "data"}
      PROVE  Whose(tasks'[i].bytes, tasks'[i].service, tasks'[i].kind, crossed')
  <2>1. CASE i # j
    BY <1>1, <1>4, <1>7, <2>1 DEF Owned, Moves
  <2>2. CASE i = j
    <3>1. Whose(tasks'[j].bytes, service, tasks[j].kind, crossed)
      BY <1>1, <1>5, <1>6, <1>7, <2>2 DEF Carries, Same, Whose
    <3>2. Whose(tasks'[j].bytes, service, tasks[j].kind, crossed')
      BY <1>4, <3>1
    <3> QED BY <1>1, <2>2, <3>2 DEF Moves
  <2> QED BY <2>1, <2>2
<1>8. ASSUME NEW key \in DOMAIN assets'
      PROVE  Whose(assets'[key], key[1], key[2], crossed')
  <2>1. CASE key \in DOMAIN assets /\ assets'[key] = assets[key]
    BY <1>4, <2>1 DEF Owned
  <2>2. CASE ~(key \in DOMAIN assets /\ assets'[key] = assets[key])
    <3>1. /\ tasks[j].state = "row"
          /\ key[1] = service /\ key[2] = tasks[j].kind
          /\ assets'[key] = bytes
      BY <1>2, <2>2 DEF PutAsset, Put, Overlay, Key
    <3> QED BY <1>4, <1>5, <3>1
  <2> QED BY <2>1, <2>2
<1>9. ASSUME NEW hash \in DOMAIN saved' PROVE Named(hash)'
  <2>1. \A i \in DOMAIN tasks \ {j} : Writing(i, hash) => Writing(i, hash)'
    BY <1>1 DEF Moves, Writing
  <2>2. CASE /\ hash \in DOMAIN saved /\ saved'[hash] = saved[hash]
             /\ ~(Write(j) /\ hash = bytes)
    <3>1. Named(hash)
      BY <2>2 DEF Owned, NamedByContent, Named
    <3>2. ASSUME NEW i \in DOMAIN tasks, Writing(i, hash)
          PROVE  hash \in cut' \/ \E k \in DOMAIN tasks' : Writing(k, hash)'
      <4>1. CASE i # j
        BY <1>1, <2>1, <3>2, <4>1 DEF Moves
      <4>2. CASE i = j
        BY <2>2, <3>2, <4>2, WorkCuts DEF Writing
      <4> QED BY <4>1, <4>2
    <3>3. ASSUME hash \in cut
          PROVE  hash \in cut' \/ \E k \in DOMAIN tasks' : Writing(k, hash)'
      <4>1. CASE tasks'[j].state = "write" /\ hash = bytes
        <5>1. tasks'[j].bytes = hash
          BY <1>1, <4>1 DEF Carries, Same
        <5> QED BY <1>1, <4>1, <5>1 DEF Moves, Writing
      <4>2. CASE ~(tasks'[j].state = "write" /\ hash = bytes)
        BY <3>3, <4>2, WorkCuts
      <4> QED BY <4>1, <4>2
    <3> QED BY <1>1, <2>2, <3>1, <3>2, <3>3 DEF Named, Overtaken
  <2>3. CASE Open(j) /\ hash = bytes
    <3>1. tasks'[j].state = "write" /\ tasks'[j].bytes = hash
      BY <1>1, <2>3, GotoMoves DEF Open, Same, States
    <3>2. saved'[hash] = Partial
      BY <2>3 DEF Open, Put, Overlay
    <3>3. Writing(j, hash)' /\ j \in DOMAIN tasks'
      BY <1>1, <3>1 DEF Moves, Writing
    <3> QED BY <3>2, <3>3 DEF Named, Partial, Tiny
  <2>4. CASE Write(j) /\ hash = bytes
    <3>1. /\ hash \in DOMAIN saved
          /\ cut' = cut
      BY <2>4 DEF Write, FilesFirst, history
    <3>2. Named(hash)
      BY <3>1 DEF Owned, NamedByContent, Named
    <3>3. \/ saved'[hash] = hash
          \/ saved'[hash] = saved[hash] /\ saved[hash] # Partial
          \/ /\ saved'[hash] = Partial
             /\ \/ hash \in cut
                \/ \E i \in DOMAIN tasks \ {j} : Writing(i, hash)
      BY <2>4 DEF Write, Put, Overlay
    <3>4. CASE saved'[hash] = hash
      BY <3>4 DEF Named
    <3>5. CASE saved'[hash] = saved[hash] /\ saved[hash] # Partial
      BY <1>1, <3>2, <3>5 DEF Named, Overtaken
    <3>6. CASE /\ saved'[hash] = Partial
               /\ \/ hash \in cut
                  \/ \E i \in DOMAIN tasks \ {j} : Writing(i, hash)
      <4>1. hash \in cut' \/ \E i \in DOMAIN tasks' : Writing(i, hash)'
        BY <1>1, <2>1, <3>1, <3>6 DEF Moves
      <4> QED BY <3>6, <4>1 DEF Named, Partial, Tiny
    <3> QED BY <3>3, <3>4, <3>5, <3>6
  <2>5. CASE /\ ~(hash \in DOMAIN saved /\ saved'[hash] = saved[hash])
             /\ ~Open(j) /\ ~Write(j)
    <3>1. /\ tasks[j].state = "rename"
          /\ Path(j) \in DOMAIN temp
          /\ hash = bytes /\ saved'[hash] = temp[Path(j)]
      BY <1>1, <2>5 DEF Files, Put, Overlay
    <3>2. tasks[j].kind = "rtsp_frame" /\ j \in Capturing
      BY <3>1 DEF Captures, Capturing
    <3>3. /\ bytes \in Picture(service, "rtsp_frame")
          /\ bytes.of = service /\ bytes.n <= Frames
      <4>1. bytes \in Picture(service, "rtsp_frame")
        BY <1>3, <1>5, <3>1, <3>2 DEF Whose
      <4> QED BY <1>3, <4>1, PictureHash DEF Picture
    <3>4. temp[Path(j)].of \in {service, Tiny.of}
      BY <1>3, <3>1, <3>2, TempHash, PictureHash
    <3>5. Path(j) \in crossed \/ temp[Path(j)] = hash
      BY <3>1, <3>2 DEF Captures
    <3>6. Overtaken(hash)' \/ saved'[hash] = hash
      BY <1>1, <1>3, <3>1, <3>2, <3>3, <3>5 DEF Overtaken
    <3> QED BY <1>1, <1>3, <3>1, <3>2, <3>3, <3>4, <3>6 DEF Named
  <2>6. \/ hash \in DOMAIN saved /\ saved'[hash] = saved[hash]
        \/ hash = bytes
    BY <1>1 DEF Files, Put, Overlay
  <2> QED BY <2>2, <2>3, <2>4, <2>5, <2>6
<1> QED BY <1>7, <1>8, <1>9 DEF Owned, NamedByContent, Named

(* A claim does not take over the name of a task that is at work. *)
LEMMA NewNames ==
  ASSUME TypeOK, Typed, Leases, Claims
  PROVE  NewJobs \cap DOMAIN tasks = {}
<1> SUFFICES ASSUME NEW j \in NewJobs, j \in DOMAIN tasks PROVE FALSE
  OBVIOUS
<1>1. PICK id \in Claimed(queue, Batch, t) : j = <<id, t + LeaseTime>>
  BY DEF NewJobs
<1>2. RowId(j) = id /\ Lease(j) = t + LeaseTime
  BY <1>1 DEF RowId, Lease
<1>3. id \in DOMAIN queue /\ queue[id].claimedUntil < t
  BY ClaimedWasFree
<1>4. Lease(j) <= queue[id].claimedUntil
  BY <1>2, <1>3 DEF Claims
<1>5. queue[id].claimedUntil \in Nat /\ t \in Nat /\ LeaseTime \in Nat
  BY <1>3, QueueTable, Bounds DEF IsTable, Row
<1> DEFINE until == queue[id].claimedUntil
<1>6. t + LeaseTime <= until /\ until < t
  BY <1>2, <1>3, <1>4
<1> HIDE DEF until
<1> QED BY <1>5, <1>6 DEF until

LEMMA OwnedStep ==
  ASSUME TypeOK, Typed, Captures, FilesFirst, Owned, NamedByContent,
         Claims, Leases, [Next]_vars
  PROVE  Owned' /\ NamedByContent'
<1>1. CASE ~\E j \in DOMAIN tasks : Works(j)
  <2>1. UNCHANGED <<assets, saved>> /\ crossed \subseteq crossed'
    BY <1>1, Steps, CapturesStep
       DEF Upsert, Ask, AskFails, Tick, ReadClock, ClaimEnrichments, ClaimNothing,
           ClaimFails, Crash, Restart, CompleteTask, CompleteFails,
           StartMaintenance, MaintainNext, MaintenanceFails, vars, files
  <2>2. \A j \in DOMAIN tasks' :
          \/ tasks'[j].state \in {"fetch", "ffmpeg"}
          \/ j \in DOMAIN tasks /\ tasks'[j] = tasks[j]
    <3>1. CASE ClaimEnrichments
      BY <3>1, Spawns
    <3>2. CASE \/ Crash
               \/ \E j \in DOMAIN tasks : CompleteTask(j) \/ CompleteFails(j)
      BY <3>2 DEF Crash, CompleteTask, CompleteFails, EndTask, Remove, Restrict,
         NoEntries
    <3>3. CASE \/ \E s \in Services : Upsert(s) \/ Ask(s) \/ AskFails(s)
               \/ Tick \/ ReadClock \/ ClaimNothing \/ ClaimFails \/ Restart
               \/ StartMaintenance \/ MaintainNext \/ MaintenanceFails
               \/ UNCHANGED vars
      BY <3>3 DEF Upsert, Ask, AskFails, Tick, ReadClock, ClaimNothing, ClaimFails,
         Restart, StartMaintenance, MaintainNext, MaintenanceFails, vars
    <3> QED BY <1>1, <3>1, <3>2, <3>3, Steps
  <2>3. \A b, s, kind : Whose(b, s, kind, crossed) =>
          Whose(b, s, kind, crossed')
    BY <2>1 DEF Whose
  <2>4. Owned'
    BY <2>1, <2>2, <2>3 DEF Owned, Overtaken
  <2>5. /\ cut \subseteq cut'
        /\ \A j \in DOMAIN tasks : tasks[j].state = "write" =>
             \/ j \in DOMAIN tasks' /\ tasks'[j] = tasks[j]
             \/ tasks[j].bytes \in cut'
    <3>1. CASE ClaimEnrichments
      BY <3>1, Spawns, NewNames DEF ClaimEnrichments
    <3>2. CASE Crash
      BY <3>2 DEF Crash, Unfinished
    <3>3. CASE \E j \in DOMAIN tasks : CompleteTask(j) \/ CompleteFails(j)
      BY <3>3 DEF CompleteTask, CompleteFails, EndTask, Remove, Restrict, history
    <3>4. CASE \/ \E s \in Services : Upsert(s) \/ Ask(s) \/ AskFails(s)
               \/ Tick \/ ReadClock \/ ClaimNothing \/ ClaimFails \/ Restart
               \/ StartMaintenance \/ MaintainNext \/ MaintenanceFails
               \/ UNCHANGED vars
      <4>1. UNCHANGED <<tasks, cut>>
        BY <3>4 DEF Upsert, Ask, AskFails, Tick, ReadClock, ClaimNothing, ClaimFails,
           Restart, StartMaintenance, MaintainNext, MaintenanceFails, vars, history
      <4> QED BY <4>1
    <3> QED BY <1>1, <3>1, <3>2, <3>3, <3>4, Steps
  <2>6. ASSUME NEW hash \in DOMAIN saved, NEW j \in DOMAIN tasks, Writing(j, hash)
        PROVE  hash \in cut' \/ \E i \in DOMAIN tasks' : Writing(i, hash)'
    BY <2>5, <2>6 DEF Writing
  <2>7. NamedByContent'
    BY <2>1, <2>5, <2>6 DEF NamedByContent, Overtaken
  <2> QED BY <2>4, <2>7
<1> QED BY <1>1, WorkOwns

-----------------------------------------------------------------------------
(* Nothing is forgotten. *)

(* A step of a task takes its key off the list of the lost only by writing the
   hash, and ends the work only so, or by giving up. *)
LEMMA WorkEnds ==
  ASSUME TypeOK, Typed, Captures, NEW j \in DOMAIN tasks, Works(j)
  PROVE  /\ lost \subseteq lost' \cup {Key(j)}
         /\ ~(lost \subseteq lost') => WriteHash(j)
         /\ tasks'[j].state = "complete" =>
              Key(j) \in lost' \/ tasks[j].kind = "camera_frame" \/ WriteHash(j)
<1>1. ASSUME NEW state \in States, Goto(j, state)
      PROVE  tasks'[j].state = state
  BY <1>1, GotoMoves
<1>2. ASSUME NextPath(j)
      PROVE  /\ lost \subseteq lost'
             /\ tasks'[j].state = "complete" => Key(j) \in lost'
  BY <1>2, NextPathMoves
<1>3. ASSUME GiveUp(j)
      PROVE  lost \subseteq lost' /\ Key(j) \in lost'
  BY <1>3 DEF GiveUp
<1>4. ASSUME NEW bytes \in Picture(tasks[j].service, tasks[j].kind), With(j, "save", bytes)
      PROVE  tasks'[j].state = "save"
  <2>1. bytes \in Hash
    BY <1>4, PictureHash DEF Typed, Task
  <2> QED BY <1>4, <2>1, WithMoves DEF States
<1>5. ASSUME Path(j) \in DOMAIN temp, NEW state \in States,
             With(j, state, temp[Path(j)])
      PROVE  tasks'[j].state = state
  BY <1>5, TempHash, WithMoves
<1>6. CASE FetchFavicon(j)
  BY <1>3, <1>4, <1>6 DEF FetchFavicon
<1>7. CASE FetchSnapshot(j)
  BY <1>1, <1>4, <1>7 DEF FetchSnapshot, States
<1>8. CASE Open(j) \/ Write(j)
  BY <1>1, <1>8 DEF Open, Write, States, history
<1>9. CASE RunFfmpeg(j)
  BY <1>1, <1>2, <1>9 DEF RunFfmpeg, States
<1>10. CASE ReadFrame(j)
  BY <1>2, <1>3, <1>5, <1>10 DEF ReadFrame, States
<1>11. CASE ReadCamera(j)
  BY <1>2, <1>3, <1>5, <1>11 DEF ReadCamera, States
<1>12. CASE RenameFrame(j)
  BY <1>1, <1>3, <1>12 DEF RenameFrame, States
<1>13. CASE RecordAsset(j)
  BY <1>1, <1>13 DEF RecordAsset, States, history
<1>14. CASE WriteHash(j)
  BY <1>14 DEF WriteHash
<1>15. CASE StepFails(j)
  BY <1>3, <1>15 DEF StepFails
<1> QED
  BY <1>6, <1>7, <1>8, <1>9, <1>10, <1>11, <1>12, <1>13, <1>14, <1>15 DEF Works

LEMMA WorkAwaits ==
  ASSUME TypeOK, Typed, Captures, Awaited, NEW j \in DOMAIN tasks, Works(j)
  PROVE  Awaited'
<1> SUFFICES ASSUME NEW s \in DOMAIN docs', NEW kind \in Kind,
                    Missing(s, kind)', <<s, kind>> \notin lost'
             PROVE  Coming(s, kind)'
  BY DEF Awaited
<1>1. Moves(j)
  BY WorkMoves
<1>2. /\ queue' = queue /\ asking' = asking
      /\ docs' = docs \/ (tasks[j].state = "data" /\ SetHash(j))
  BY WorkLeaves
<1>3. /\ tasks[j].state = "data" => tasks[j].bytes \notin {NoBytes, ProbeHash}
      /\ tasks[j].service \in DOMAIN docs
  BY DEF TypeOK, Key
<1>4. s \in DOMAIN docs /\ Missing(s, kind)
  <2>1. CASE docs' = docs
    BY <2>1 DEF Missing, Enriched
  <2>2. CASE tasks[j].state = "data" /\ SetHash(j)
    <3>1. /\ s \in DOMAIN docs
          /\ docs'[s].parts = docs[s].parts
          /\ docs'[s].favicon \in {docs[s].favicon, tasks[j].bytes}
          /\ docs'[s].frame \in {docs[s].frame, tasks[j].bytes}
      BY <2>2, SetHashIs
    <3> QED BY <1>3, <2>2, <3>1 DEF Missing, Enriched
  <2> QED BY <1>2, <2>1, <2>2
<1>5. WriteHash(j) => Key(j) # <<s, kind>>
  <2> SUFFICES ASSUME WriteHash(j), tasks[j].service = s, tasks[j].kind = kind
               PROVE  FALSE
    BY DEF Key
  <2>1. tasks[j].bytes \notin {NoBytes, ProbeHash} /\ SetHash(j)
    BY <1>3 DEF WriteHash
  <2> QED BY <1>4, <2>1, SetHashIs DEF Missing, Enriched
<1>6. <<s, kind>> \notin lost
  BY <1>5, WorkEnds
<1>7. kind # "camera_frame"
  BY DEF Missing
<1>8. \A i \in DOMAIN tasks : Key(i)' = Key(i)
  BY <1>1 DEF Moves, Key
<1>9. CASE kind \in Range(asking[s])
  BY <1>2, <1>9 DEF Coming
<1>10. ASSUME NEW i \in DOMAIN tasks, Key(i) = <<s, kind>>,
              tasks[i].state # "complete"
       PROVE  Coming(s, kind)'
  <2>1. tasks'[i].state # "complete"
    <3>1. CASE i = j
      BY <1>5, <1>7, <1>10, <3>1, WorkEnds DEF Key
    <3>2. CASE i # j
      BY <1>1, <1>10, <3>2 DEF Moves
    <3> QED BY <3>1, <3>2
  <2> QED BY <1>1, <1>8, <1>10, <2>1 DEF Coming, Moves
<1>11. ASSUME NEW id \in DOMAIN queue, queue[id].key = <<s, kind>>, TasksOn(id) = {}
       PROVE  Coming(s, kind)'
  <2>1. TasksOn(id)' = {}
    BY <1>1, <1>11 DEF TasksOn, RowId, Moves
  <2> QED BY <1>2, <1>11, <2>1 DEF Coming
<1> QED BY <1>4, <1>6, <1>9, <1>10, <1>11 DEF Awaited, Coming

(* A probe asks for everything its document can have, ... *)
LEMMA WantedKinds ==
  ASSUME NEW parts
  PROVE  /\ "http" \in parts => "favicon" \in Range(Wanted(parts))
         /\ "rtsp" \in parts => "rtsp_frame" \in Range(Wanted(parts))
<1> DEFINE a == IF "http" \in parts THEN <<"favicon">> ELSE <<>>
           b == IF "rtsp" \in parts THEN <<"rtsp_frame">> ELSE <<>>
           c == IF "camera" \in parts THEN <<"camera_frame">> ELSE <<>>
           w == Wanted(parts)
<1>1. /\ a = <<>> \/ a = <<"favicon">>
      /\ b = <<>> \/ b = <<"rtsp_frame">>
      /\ c = <<>> \/ c = <<"camera_frame">>
      /\ "http" \in parts => a = <<"favicon">>
      /\ "rtsp" \in parts => b = <<"rtsp_frame">>
  OBVIOUS
<1>2. w = (a \o b) \o c
  BY DEF Wanted
<1> HIDE DEF a, b, c, w
<1>3. a \in Seq(Kind) /\ b \in Seq(Kind) /\ c \in Seq(Kind)
  <2>1. {"favicon", "rtsp_frame", "camera_frame"} \subseteq Kind
    BY DEF Kind
  <2>2. <<>> \in Seq(Kind) /\ \A x \in Kind : <<x>> \in Seq(Kind)
    OBVIOUS
  <2> QED BY <1>1, <2>1, <2>2
<1>4. /\ a \o b \in Seq(Kind)
      /\ Len(a \o b) = Len(a) + Len(b)
      /\ Len(a) \in Nat /\ Len(b) \in Nat /\ Len(c) \in Nat
  BY <1>3
<1>5. w \in Seq(Kind) /\ Len(w) = Len(a \o b) + Len(c)
  <2> DEFINE front == a \o b
  <2>1. front \in Seq(Kind) /\ w = front \o c
    BY <1>2, <1>4
  <2> HIDE DEF front
  <2>2. w \in Seq(Kind) /\ Len(w) = Len(front) + Len(c)
    BY <1>3, <2>1
  <2> QED BY <2>2 DEF front
<1>6. \A n \in 1 .. Len(a \o b) : n \in DOMAIN w /\ w[n] = (a \o b)[n]
  <2> DEFINE front == a \o b
  <2>1. front \in Seq(Kind) /\ w = front \o c
    BY <1>2, <1>4
  <2> HIDE DEF front
  <2>2. \A n \in 1 .. Len(front) : n \in 1 .. Len(w) /\ w[n] = front[n]
    BY <1>3, <2>1
  <2>3. DOMAIN w = 1 .. Len(w)
    BY <1>5
  <2> QED BY <2>2, <2>3 DEF front
<1>7. "http" \in parts => 1 \in 1 .. Len(a \o b) /\ (a \o b)[1] = "favicon"
  <2> SUFFICES ASSUME "http" \in parts
               PROVE  1 \in 1 .. Len(a \o b) /\ (a \o b)[1] = "favicon"
    OBVIOUS
  <2>1. Len(a) = 1 /\ a[1] = "favicon"
    BY <1>1
  <2> QED BY <1>3, <1>4, <2>1
<1>8. "rtsp" \in parts =>
        Len(a) + 1 \in 1 .. Len(a \o b) /\ (a \o b)[Len(a) + 1] = "rtsp_frame"
  <2> SUFFICES ASSUME "rtsp" \in parts
               PROVE  /\ Len(a) + 1 \in 1 .. Len(a \o b)
                      /\ (a \o b)[Len(a) + 1] = "rtsp_frame"
    OBVIOUS
  <2>1. Len(b) = 1 /\ b[1] = "rtsp_frame"
    BY <1>1
  <2> QED BY <1>3, <1>4, <2>1
<1>9. "http" \in parts => \E n \in DOMAIN w : w[n] = "favicon"
  BY <1>6, <1>7
<1>10. "rtsp" \in parts => \E n \in DOMAIN w : w[n] = "rtsp_frame"
  BY <1>6, <1>8
<1> QED BY <1>9, <1>10 DEF Range, w

(* ... one kind after the other. *)
LEMMA HeadOrTail ==
  ASSUME NEW S, NEW q \in Seq(S), q # <<>>, NEW x \in Range(q)
  PROVE  x = Head(q) \/ x \in Range(Tail(q))
<1>1. PICK n \in 1 .. Len(q) : x = q[n]
  BY DEF Range
<1>2. CASE n = 1
  BY <1>1, <1>2
<1>3. CASE n # 1
  <2>1. n - 1 \in DOMAIN Tail(q) /\ Tail(q)[n - 1] = x
    BY <1>1, <1>3
  <2> QED BY <2>1 DEF Range
<1> QED BY <1>2, <1>3

LEMMA ProbeAwaits ==
  ASSUME TypeOK, Typed, JobKeys, Awaited, NEW who \in Services,
         Upsert(who) \/ Ask(who) \/ AskFails(who)
  PROVE  Awaited'
<1> SUFFICES ASSUME NEW s \in DOMAIN docs', NEW kind \in Kind,
                    Missing(s, kind)', <<s, kind>> \notin lost'
             PROVE  Coming(s, kind)'
  BY DEF Awaited
<1>1. tasks' = tasks
  BY DEF Upsert, Ask, AskFails
<1>2. CASE Upsert(who)
  <2>1. PICK parts \in Found, favicon \in {NoBytes, ProbeHash} :
          /\ docs' = Put(docs, who, [parts |-> parts, favicon |-> favicon,
                                     frame |-> NoBytes])
          /\ asking' = [asking EXCEPT ![who] = Wanted(parts)]
    BY <1>2 DEF Upsert, Hashed
  <2>2. CASE s = who
    <3>1. docs'[who].parts = parts /\ asking'[who] = Wanted(parts)
      BY <2>1 DEF Put, Overlay, Typed
    <3> QED BY <2>2, <3>1, WantedKinds DEF Missing, Coming
  <2>3. CASE s # who
    <3>1. /\ s \in DOMAIN docs /\ docs'[s] = docs[s]
          /\ s \in Services /\ asking'[s] = asking[s]
      BY <2>1, <2>3 DEF Put, Overlay, Typed
    <3>2. queue' = queue /\ <<s, kind>> \notin lost
      BY <1>2, <2>3 DEF Upsert, Keyed
    <3>3. Coming(s, kind)
      BY <3>1, <3>2 DEF Awaited, Missing, Enriched
    <3> QED BY <1>1, <3>1, <3>2, <3>3 DEF Coming, Key, TasksOn
  <2> QED BY <2>2, <2>3
<1>3. CASE Ask(who)
  <2> DEFINE key == <<who, Head(asking[who])>>
  <2>1. /\ queue' = Insert(queue, nextId, key)
        /\ asking' = [asking EXCEPT ![who] = Tail(@)]
        /\ asking[who] # <<>>
        /\ docs' = docs
        /\ lost' = IF RefusedTooLate(key) THEN lost \cup {key} ELSE lost
    BY <1>3 DEF Ask
  <2>2. /\ DOMAIN queue \subseteq DOMAIN queue'
        /\ \A id \in DOMAIN queue : queue'[id] = queue[id]
    BY <2>1, QueueTable DEF Insert, Put, Overlay
  <2>3. Coming(s, kind)
    BY <2>1 DEF Awaited, Missing, Enriched
  <2>4. CASE kind \in Range(asking[s]) /\ ~(s = who /\ kind = Head(asking[who]))
    <3>1. asking[who] \in Seq(Kind) /\ s \in Services
      BY <2>1 DEF Typed
    <3>2. asking'[s] = IF s = who THEN Tail(asking[who]) ELSE asking[s]
      BY <2>1, <3>1 DEF Typed
    <3>3. kind \in Range(asking'[s])
      BY <2>1, <2>4, <3>1, <3>2, HeadOrTail
    <3> QED BY <3>3 DEF Coming
  <2>5. CASE s = who /\ kind = Head(asking[who])
    <3>1. key = <<s, kind>>
      BY <2>5
    <3> HIDE DEF key
    <3>2. CASE key \in Keys(queue)
      <4>1. PICK id \in DOMAIN queue : queue[id].key = key
        BY <3>2 DEF Keys
      <4>2. ~RefusedTooLate(key)
        BY <2>1, <3>1
      <4>3. CASE TasksOn(id) = {}
        <5>1. TasksOn(id)' = {}
          BY <1>1, <4>3 DEF TasksOn
        <5> QED BY <2>2, <3>1, <4>1, <5>1 DEF Coming
      <4>4. CASE TasksOn(id) # {}
        <5>1. PICK j \in TasksOn(id) : tasks[j].state # "complete"
          BY <4>1, <4>2, <4>4 DEF RefusedTooLate
        <5>2. j \in DOMAIN tasks /\ Key(j) = <<s, kind>>
          BY <3>1, <4>1, <5>1 DEF TasksOn, JobKeys
        <5> QED BY <1>1, <5>1, <5>2 DEF Coming, Key
      <4> QED BY <4>3, <4>4
    <3>3. CASE key \notin Keys(queue)
      <4>1. nextId \in DOMAIN queue' /\ queue'[nextId].key = key
        BY <2>1, <3>3, QueueTable DEF Insert, Put, Overlay, NewRow
      <4>2. nextId \notin 1 .. nextId - 1
        BY DEF Typed
      <4>3. \A j \in DOMAIN tasks : RowId(j) # nextId
        BY <4>2 DEF TypeOK
      <4>4. TasksOn(nextId) = {}
        BY <4>3 DEF TasksOn
      <4>5. \E id \in DOMAIN queue' :
              queue'[id].key = <<s, kind>> /\ {j \in DOMAIN tasks : RowId(j) = id} = {}
        BY <3>1, <4>1, <4>4 DEF TasksOn
      <4> QED BY <1>1, <4>5 DEF Coming, TasksOn
    <3> QED BY <3>2, <3>3
  <2>6. CASE kind \notin Range(asking[s])
    BY <1>1, <2>2, <2>3, <2>6 DEF Coming, Key, TasksOn
  <2> QED BY <2>4, <2>5, <2>6
<1>4. CASE AskFails(who)
  <2>1. /\ asking' = [asking EXCEPT ![who] = <<>>]
        /\ lost' = lost \cup Keyed(who)
        /\ queue' = queue /\ docs' = docs
    BY <1>4 DEF AskFails
  <2>2. s # who
    BY <2>1 DEF Keyed
  <2>3. s \in Services /\ asking'[s] = asking[s]
    BY <2>1, <2>2 DEF Typed
  <2>4. Coming(s, kind)
    BY <2>1 DEF Awaited, Missing, Enriched
  <2> QED BY <1>1, <2>1, <2>3, <2>4 DEF Coming, Key, TasksOn
<1> QED BY <1>2, <1>3, <1>4

LEMMA LoopAwaits ==
  ASSUME TypeOK, Typed, JobKeys, Awaited,
         \/ Tick \/ ReadClock \/ ClaimEnrichments \/ ClaimNothing \/ ClaimFails
         \/ Crash \/ Restart
         \/ \E j \in DOMAIN tasks : CompleteTask(j) \/ CompleteFails(j)
  PROVE  Awaited'
<1> SUFFICES ASSUME NEW s \in DOMAIN docs', NEW kind \in Kind,
                    Missing(s, kind)', <<s, kind>> \notin lost'
             PROVE  Coming(s, kind)'
  BY DEF Awaited
<1>1. UNCHANGED <<docs, asking>> /\ lost \subseteq lost'
  BY DEF Tick, ReadClock, ClaimEnrichments, ClaimNothing, ClaimFails, Crash,
     Restart, CompleteTask, CompleteFails, history
<1>2. Coming(s, kind)
  BY <1>1 DEF Awaited, Missing, Enriched
<1>3. CASE kind \in Range(asking[s])
  BY <1>1, <1>3 DEF Coming
<1>4. ASSUME NEW i \in DOMAIN tasks, Key(i) = <<s, kind>>,
             tasks[i].state # "complete"
      PROVE  Coming(s, kind)'
  <2>1. CASE Tick \/ ReadClock \/ ClaimNothing \/ ClaimFails \/ Restart
    <3>1. tasks' = tasks
      BY <2>1 DEF Tick, ReadClock, ClaimNothing, ClaimFails, Restart
    <3> QED BY <1>4, <3>1 DEF Coming, Key
  <2>2. CASE ClaimEnrichments
    <3>1. CASE i \in NewJobs
      <4>1. /\ RowId(i) \in DOMAIN queue
            /\ tasks'[i].service = queue[RowId(i)].key[1]
            /\ tasks'[i].kind = queue[RowId(i)].key[2]
            /\ tasks'[i].state \in {"fetch", "ffmpeg"}
            /\ i \in DOMAIN tasks'
        BY <2>2, <3>1, Spawns
      <4>2. queue[RowId(i)].key = <<s, kind>>
        BY <1>4, <4>1 DEF JobKeys
      <4> QED BY <4>1, <4>2 DEF Coming, Key
    <3>2. CASE i \notin NewJobs
      <4>1. i \in DOMAIN tasks' /\ tasks'[i] = tasks[i]
        BY <2>2, <3>2, Spawns
      <4> QED BY <1>4, <4>1 DEF Coming, Key
    <3> QED BY <3>1, <3>2
  <2>3. CASE Crash
    <3>1. RowId(i) \in DOMAIN queue
      BY <1>4, <2>3 DEF Crash
    <3>2. queue[RowId(i)].key = <<s, kind>>
      BY <1>4, <3>1 DEF JobKeys
    <3>3. TasksOn(RowId(i))' = {} /\ queue' = queue
      BY <2>3 DEF Crash, TasksOn, NoEntries
    <3> QED BY <3>1, <3>2, <3>3 DEF Coming
  <2>4. ASSUME NEW j \in DOMAIN tasks, CompleteTask(j) \/ CompleteFails(j)
        PROVE  Coming(s, kind)'
    <3>1. tasks' = Remove(tasks, {j})
      BY <2>4 DEF CompleteTask, CompleteFails, EndTask
    <3>2. i # j
      BY <1>4, <2>4 DEF CompleteTask, CompleteFails
    <3>3. i \in DOMAIN tasks' /\ tasks'[i] = tasks[i]
      BY <3>1, <3>2 DEF Remove, Restrict
    <3> QED BY <1>4, <3>3 DEF Coming, Key
  <2> QED BY <2>1, <2>2, <2>3, <2>4
<1>5. ASSUME NEW id \in DOMAIN queue, queue[id].key = <<s, kind>>, TasksOn(id) = {}
      PROVE  Coming(s, kind)'
  <2>1. DOMAIN Claim(queue, Batch, t) = DOMAIN queue
    BY DEF Claim
  <2>2. Claim(queue, Batch, t)[id].key = queue[id].key
    BY QueueTable, ClaimKeepsKeys
  <2>3. CASE Tick \/ ReadClock \/ ClaimNothing \/ ClaimFails \/ Restart
    <3>1. tasks' = tasks /\ queue' \in {queue, Claim(queue, Batch, t)}
      BY <2>3 DEF Tick, ReadClock, ClaimNothing, ClaimFails, Restart
    <3>2. id \in DOMAIN queue' /\ queue'[id].key = <<s, kind>>
      BY <1>5, <2>1, <2>2, <3>1
    <3> QED BY <1>5, <3>1, <3>2 DEF Coming, TasksOn
  <2>4. CASE ClaimEnrichments
    <3>1. id \in DOMAIN queue' /\ queue'[id].key = <<s, kind>>
      BY <1>5, <2>1, <2>2, <2>4 DEF ClaimEnrichments
    <3>2. CASE \E j \in NewJobs : RowId(j) = id
      <4>1. PICK j \in NewJobs : RowId(j) = id
        BY <3>2
      <4>2. /\ j \in DOMAIN tasks'
            /\ tasks'[j].service = queue[id].key[1]
            /\ tasks'[j].kind = queue[id].key[2]
            /\ tasks'[j].state \in {"fetch", "ffmpeg"}
        BY <2>4, <4>1, Spawns
      <4> QED BY <1>5, <4>2 DEF Coming, Key
    <3>3. CASE ~\E j \in NewJobs : RowId(j) = id
      <4>1. TasksOn(id)' = {}
        BY <1>5, <2>4, <3>3, Spawns DEF TasksOn
      <4> QED BY <3>1, <4>1 DEF Coming
    <3> QED BY <3>2, <3>3
  <2>5. CASE Crash
    <3>1. TasksOn(id)' = {} /\ queue' = queue
      BY <2>5 DEF Crash, TasksOn, NoEntries
    <3> QED BY <1>5, <3>1 DEF Coming
  <2>6. ASSUME NEW j \in DOMAIN tasks, CompleteTask(j) \/ CompleteFails(j)
        PROVE  Coming(s, kind)'
    <3>1. /\ tasks' = Remove(tasks, {j})
          /\ queue' = queue \/ queue' = Remove(queue, {RowId(j)})
      BY <2>6 DEF CompleteTask, CompleteFails, EndTask, Complete
    <3>2. RowId(j) # id
      BY <1>5 DEF TasksOn
    <3>3. id \in DOMAIN queue' /\ queue'[id] = queue[id]
      BY <3>1, <3>2 DEF Remove, Restrict
    <3>4. TasksOn(id)' = {}
      BY <1>5, <3>1 DEF TasksOn, Remove, Restrict
    <3> QED BY <1>5, <3>3, <3>4 DEF Coming
  <2> QED BY <2>3, <2>4, <2>5, <2>6
<1> QED BY <1>2, <1>3, <1>4, <1>5 DEF Coming

LEMMA MaintenanceAwaits ==
  ASSUME TypeOK, Typed, Awaited,
         StartMaintenance \/ MaintainNext \/ MaintenanceFails
  PROVE  Awaited'
<1> SUFFICES ASSUME NEW s \in DOMAIN docs', NEW kind \in Kind,
                    Missing(s, kind)', <<s, kind>> \notin lost'
             PROVE  Coming(s, kind)'
  BY DEF Awaited
<1>1. UNCHANGED <<queue, tasks, asking>>
  BY DEF StartMaintenance, MaintainNext, MaintenanceFails
<1>2. s \in DOMAIN docs /\ docs'[s] = docs[s] /\ <<s, kind>> \notin lost
  <2>1. CASE StartMaintenance \/ MaintenanceFails
    BY <2>1 DEF StartMaintenance, MaintenanceFails, history
  <2>2. CASE MaintainNext
    <3>1. PICK who \in DOMAIN maint :
            \/ /\ docs' = [docs EXCEPT ![who] = maint[who]]
               /\ lost' = IF docs[who] # maint[who] THEN lost \cup Keyed(who)
                          ELSE lost
            \/ UNCHANGED <<docs, lost>>
      BY <2>2 DEF MaintainNext
    <3> QED BY <3>1 DEF Keyed, Typed
  <2> QED BY <2>1, <2>2
<1>3. Coming(s, kind)
  BY <1>2 DEF Awaited, Missing, Enriched
<1> QED BY <1>1, <1>3 DEF Coming, Key, TasksOn

LEMMA AwaitedStep ==
  ASSUME TypeOK, Typed, JobKeys, Captures, Awaited, [Next]_vars
  PROVE  Awaited'
<1>1. CASE UNCHANGED vars
  <2>1. UNCHANGED <<queue, tasks, docs, asking, lost>>
    BY <1>1 DEF vars, history
  <2>2. \A s, kind : Missing(s, kind)' = Missing(s, kind)
    BY <2>1 DEF Missing, Enriched
  <2>3. \A s, kind : Coming(s, kind)' = Coming(s, kind)
    BY <2>1 DEF Coming, Key, TasksOn
  <2> QED BY <2>1, <2>2, <2>3 DEF Awaited
<1> QED BY <1>1, Steps, ProbeAwaits, LoopAwaits, WorkAwaits, MaintenanceAwaits

-----------------------------------------------------------------------------
(* Leases. *)

(* A worker that is on time has its row to itself: another one on the same  *)
(* key would have claimed the same row, under the same lease.               *)
LEMMA OneOnTime ==
  ASSUME NEW q, Unique(q), NEW i \in Nat \X Nat, NEW j \in Nat \X Nat,
         i[1] \in DOMAIN q, j[1] \in DOMAIN q, q[i[1]].key = q[j[1]].key,
         q[i[1]].claimedUntil = i[2], q[j[1]].claimedUntil = j[2]
  PROVE  i = j
<1>1. i[1] = j[1]
  BY DEF Unique
<1> QED BY <1>1

(* Who is overdue depends on the names, services and kinds of the tasks. *)
LEMMA OverdueOf ==
  ASSUME NEW ts, NEW us, NEW now,
         \A j \in DOMAIN us : /\ j \in DOMAIN ts
                             /\ us[j].service = ts[j].service
                             /\ us[j].kind = ts[j].kind
  PROVE  Overdue(us, now) \subseteq Overdue(ts, now)
BY DEF Overdue

(* Steps that claim nothing, and take no row from a worker that is on time. *)
LEMMA LeasesKept ==
  ASSUME Leases, UNCHANGED <<clock, late>>, Unique(queue'),
         \A j \in DOMAIN tasks' : /\ j \in DOMAIN tasks
                                 /\ tasks'[j].service = tasks[j].service
                                 /\ tasks'[j].kind = tasks[j].kind,
         \A j \in DOMAIN tasks' :
           OnTime(j) => /\ RowId(j) \in DOMAIN queue'
                        /\ queue'[RowId(j)].claimedUntil =
                             queue[RowId(j)].claimedUntil
  PROVE  Leases'
<1>1. DOMAIN tasks' \subseteq Nat \X Nat
  BY DEF Leases
<1>2. Overdue(tasks', clock') \subseteq late'
  BY OverdueOf DEF Leases
<1>3. ASSUME NEW j \in DOMAIN tasks', OnTime(j)'
      PROVE  /\ RowId(j) \in DOMAIN queue'
             /\ queue'[RowId(j)].claimedUntil = Lease(j)
  <2>1. OnTime(j) /\ j \in DOMAIN tasks
    BY <1>3 DEF OnTime
  <2>2. queue[RowId(j)].claimedUntil = Lease(j)
    BY <2>1 DEF Leases
  <2> QED BY <2>1, <2>2
<1> QED BY <1>1, <1>2, <1>3 DEF Leases, RowId, Lease

(* A step of a task, of a probe or of maintenance leaves the rows alone. *)
LEMMA QuietLeases ==
  ASSUME Leases, UNCHANGED <<clock, late, queue>>,
         \A j \in DOMAIN tasks' : /\ j \in DOMAIN tasks
                                 /\ tasks'[j].service = tasks[j].service
                                 /\ tasks'[j].kind = tasks[j].kind
  PROVE  Leases'
<1>1. Unique(queue')
  BY DEF Leases
<1>2. \A j \in DOMAIN tasks' :
        OnTime(j) => /\ RowId(j) \in DOMAIN queue'
                     /\ queue'[RowId(j)].claimedUntil = queue[RowId(j)].claimedUntil
  BY DEF Leases
<1> QED BY <1>1, <1>2, LeasesKept

(* A request for an enrichment adds a row for a key that has none. *)
LEMMA AskLeases ==
  ASSUME TypeOK, Typed, Leases, NEW s \in Services, Ask(s)
  PROVE  Leases'
<1> DEFINE key == <<s, Head(asking[s])>>
           K == (DOMAIN docs) \X Kind
<1>1. queue' = Insert(queue, nextId, key) /\ UNCHANGED <<clock, late, tasks>>
  BY DEF Ask, loop
<1>2. IsTable(queue, K) /\ nextId \notin DOMAIN queue
  BY QueueTable
<1>3. key \in K
  <2>1. asking[s] \in Seq(Kind) /\ asking[s] # <<>>
    BY DEF Typed, Ask
  <2>2. Head(asking[s]) \in Kind
    BY <2>1
  <2>3. s \in DOMAIN docs
    BY <2>1 DEF Typed
  <2> QED BY <2>2, <2>3
<1> HIDE DEF key, K
<1>4. /\ \A x \in DOMAIN queue : queue'[x] = queue[x]
      /\ key \in Keys(queue) => queue' = queue
      /\ key \notin Keys(queue) => /\ DOMAIN queue' = DOMAIN queue \cup {nextId}
                                   /\ queue'[nextId] = NewRow(key)
  BY <1>1, <1>2, <1>3, InsertKeepsRows
<1>5. Unique(queue')
  <2>1. CASE key \in Keys(queue)
    BY <1>4, <2>1 DEF Leases
  <2>2. CASE key \notin Keys(queue)
    <3>1. queue'[nextId].key = key
      BY <1>4, <2>2 DEF NewRow
    <3>2. \A x \in DOMAIN queue : queue[x].key # key
      BY <2>2 DEF Keys
    <3>3. Unique(queue)
      BY DEF Leases
    <3> QED BY <1>4, <2>2, <3>1, <3>2, <3>3 DEF Unique
  <2> QED BY <2>1, <2>2
<1>6. \A j \in DOMAIN tasks' :
        OnTime(j) => /\ RowId(j) \in DOMAIN queue'
                     /\ queue'[RowId(j)].claimedUntil = queue[RowId(j)].claimedUntil
  <2>1. DOMAIN queue \subseteq DOMAIN queue'
    BY <1>4
  <2> QED BY <1>1, <1>4, <2>1 DEF Leases
<1> QED BY <1>1, <1>5, <1>6, LeasesKept

(* A task deletes its row under nobody who is on time: such a one would be  *)
(* the task itself.                                                         *)
LEMMA CompleteLeases ==
  ASSUME JobKeys, Leases, NEW j \in DOMAIN tasks, CompleteTask(j)
  PROVE  Leases'
<1>1. /\ queue' = Remove(queue, {RowId(j)}) /\ tasks' = Remove(tasks, {j})
      /\ UNCHANGED <<clock, late>>
  BY DEF CompleteTask, Complete, EndTask, loop, history
<1>2. /\ DOMAIN queue' = DOMAIN queue \ {RowId(j)}
      /\ \A x \in DOMAIN queue' : queue'[x] = queue[x]
  <2>1. queue' = Remove(queue, {RowId(j)})
    BY <1>1
  <2> QED BY <2>1 DEF Remove, Restrict
<1>3. /\ DOMAIN tasks' = DOMAIN tasks \ {j}
      /\ \A i \in DOMAIN tasks' : tasks'[i] = tasks[i]
  <2>1. tasks' = Remove(tasks, {j})
    BY <1>1
  <2> QED BY <2>1 DEF Remove, Restrict
<1>4. Unique(queue')
  BY <1>2 DEF Leases, Unique
<1>5. ASSUME NEW i \in DOMAIN tasks', OnTime(i)
      PROVE  /\ RowId(i) \in DOMAIN queue'
             /\ queue'[RowId(i)].claimedUntil = queue[RowId(i)].claimedUntil
  <2>1. i \in DOMAIN tasks /\ i # j
    BY <1>3
  <2>2. RowId(i) \in DOMAIN queue /\ queue[RowId(i)].claimedUntil = Lease(i)
    BY <1>5, <2>1 DEF Leases
  <2>3. ASSUME RowId(i) = RowId(j) PROVE FALSE
    <3>1. queue[RowId(i)].key = Key(i) /\ queue[RowId(j)].key = Key(j)
      BY <2>1, <2>2, <2>3 DEF JobKeys
    <3>2. Key(i) = Key(j)
      BY <2>3, <3>1
    <3>3. OnTime(j)
      BY <1>5, <3>2 DEF OnTime, Key
    <3>4. queue[RowId(j)].claimedUntil = Lease(j)
      BY <3>3 DEF Leases
    <3>5. i \in Nat \X Nat /\ j \in Nat \X Nat
      BY <2>1 DEF Leases
    <3>6. i = j
      BY <2>2, <2>3, <3>4, <3>5 DEF RowId, Lease
    <3> QED BY <2>1, <3>6
  <2> QED BY <1>2, <2>2, <2>3
<1>6. \A i \in DOMAIN tasks' : /\ i \in DOMAIN tasks
                              /\ tasks'[i].service = tasks[i].service
                              /\ tasks'[i].kind = tasks[i].kind
  BY <1>3
<1> QED BY <1>1, <1>4, <1>5, <1>6, LeasesKept

(* A claim takes no row whose worker is on time. *)
LEMMA ClaimedLate ==
  ASSUME TypeOK, Typed, Leases, NEW j \in DOMAIN tasks, OnTime(j)
  PROVE  RowId(j) \notin Claimed(queue, Batch, t)
<1>1. SUFFICES ASSUME RowId(j) \in Claimed(queue, Batch, t) PROVE FALSE
  OBVIOUS
<1>2. queue[RowId(j)].claimedUntil < t
  BY <1>1, ClaimedWasFree
<1>3. queue[RowId(j)].claimedUntil = Lease(j) /\ Lease(j) \in Nat
  BY DEF Leases, Lease
<1>4. t \in Nat /\ clock \in Nat /\ t <= clock
  BY DEF TypeOK, Typed
<1>5. Lease(j) < clock
  BY <1>2, <1>3, <1>4
<1>6. tasks[j].service \in Overdue(tasks, clock)
  BY <1>5 DEF Overdue, OnTime
<1> QED BY <1>6 DEF Leases, OnTime

(* What a claim leaves of the rows. *)
LEMMA ClaimRows ==
  ASSUME TypeOK, Typed, Leases, NEW c, c = Claim(queue, Batch, t)
  PROVE  /\ Unique(c)
         /\ DOMAIN c = DOMAIN queue
         /\ \A id \in DOMAIN queue : c[id].key = queue[id].key
         /\ \A id \in Claimed(queue, Batch, t) : c[id].claimedUntil = t + LeaseTime
         /\ \A j \in DOMAIN tasks :
              OnTime(j) => c[RowId(j)].claimedUntil = queue[RowId(j)].claimedUntil
<1>1. /\ IsTable(queue, (DOMAIN docs) \X Kind) /\ Batch \in Nat /\ t \in Nat
  BY QueueTable
<1>2. /\ DOMAIN c = DOMAIN queue
      /\ \A id \in DOMAIN queue : c[id].key = queue[id].key
  BY <1>1, ClaimKeepsKeys
<1>3. Unique(c)
  BY <1>2 DEF Leases, Unique
<1>4. \A id \in Claimed(queue, Batch, t) : c[id].claimedUntil = t + LeaseTime
  BY <1>1, ClaimWritesLease
<1>5. ASSUME NEW j \in DOMAIN tasks, OnTime(j)
      PROVE  c[RowId(j)].claimedUntil = queue[RowId(j)].claimedUntil
  <2>1. RowId(j) \in DOMAIN queue \ Claimed(queue, Batch, t)
    BY <1>5, ClaimedLate DEF Leases
  <2>2. \A id \in DOMAIN queue \ Claimed(queue, Batch, t) : c[id] = queue[id]
    BY ClaimLeavesOthers
  <2> QED BY <2>1, <2>2
<1> QED BY <1>2, <1>3, <1>4, <1>5

(* A claim whose answer is lost, if it was committed at all. *)
LEMMA LostClaimLeases ==
  ASSUME TypeOK, Typed, Leases, ClaimFails
  PROVE  Leases'
<1>1. UNCHANGED <<clock, late, tasks>> /\ queue' \in {queue, Claim(queue, Batch, t)}
  BY DEF ClaimFails, history
<1>2. CASE queue' = queue
  BY <1>1, <1>2, QuietLeases
<1>3. CASE queue' = Claim(queue, Batch, t)
  <2>1. /\ Unique(queue') /\ DOMAIN queue' = DOMAIN queue
        /\ \A j \in DOMAIN tasks :
             OnTime(j) => queue'[RowId(j)].claimedUntil = queue[RowId(j)].claimedUntil
    BY <1>3, ClaimRows
  <2>2. \A j \in DOMAIN tasks' :
          OnTime(j) => /\ RowId(j) \in DOMAIN queue'
                       /\ queue'[RowId(j)].claimedUntil = queue[RowId(j)].claimedUntil
    BY <1>1, <2>1 DEF Leases
  <2> QED BY <1>1, <2>1, <2>2, LeasesKept
<1> QED BY <1>1, <1>2, <1>3

(* A claim gives each new task its row under its lease. *)
LEMMA ClaimLeases ==
  ASSUME TypeOK, Typed, Leases, ClaimEnrichments
  PROVE  Leases'
<1>1. /\ queue' = Claim(queue, Batch, t) /\ clock' = clock
      /\ late' = late \cup Overdue(tasks', clock)
  BY DEF ClaimEnrichments
<1>2. /\ Unique(queue') /\ DOMAIN queue' = DOMAIN queue
      /\ \A id \in Claimed(queue, Batch, t) :
           queue'[id].claimedUntil = t + LeaseTime
      /\ \A j \in DOMAIN tasks :
           OnTime(j) => queue'[RowId(j)].claimedUntil = queue[RowId(j)].claimedUntil
  BY <1>1, ClaimRows
<1>3. /\ DOMAIN tasks' = DOMAIN tasks \cup NewJobs
      /\ \A j \in DOMAIN tasks \ NewJobs : tasks'[j] = tasks[j]
      /\ \A j \in NewJobs : /\ RowId(j) \in Claimed(queue, Batch, t)
                             /\ RowId(j) \in DOMAIN queue
  BY Spawns
<1>4. \A j \in NewJobs : j \in Nat \X Nat /\ Lease(j) = t + LeaseTime
  <2>1. DOMAIN queue \subseteq Nat
    BY DEF TypeOK, Typed
  <2>2. t \in Nat /\ LeaseTime \in Nat
    BY QueueTable, Bounds
  <2>3. \A id \in Claimed(queue, Batch, t) : id \in Nat
    BY <2>1, ClaimedWasFree
  <2> QED BY <2>2, <2>3 DEF NewJobs, Lease
<1>5. DOMAIN tasks' \subseteq Nat \X Nat
  BY <1>3, <1>4 DEF Leases
<1>6. Overdue(tasks', clock') \subseteq late'
  BY <1>1
<1>7. ASSUME NEW j \in DOMAIN tasks', OnTime(j)'
      PROVE  /\ RowId(j) \in DOMAIN queue'
             /\ queue'[RowId(j)].claimedUntil = Lease(j)
  <2>1. CASE j \in NewJobs
    BY <1>2, <1>3, <1>4, <2>1
  <2>2. CASE j \notin NewJobs
    <3>1. j \in DOMAIN tasks /\ tasks'[j] = tasks[j]
      BY <1>3, <2>2
    <3>2. OnTime(j)
      BY <1>1, <1>7, <3>1 DEF OnTime
    <3> QED BY <1>2, <3>1, <3>2 DEF Leases
  <2> QED BY <2>1, <2>2
<1> QED BY <1>2, <1>5, <1>6, <1>7 DEF Leases, RowId, Lease

(* Time passes: whose lease runs out is late. *)
LEMMA TickLeases ==
  ASSUME Leases, Tick
  PROVE  Leases'
<1>1. /\ UNCHANGED <<queue, tasks>> /\ late' = late \cup Overdue(tasks, clock')
  BY DEF Tick
<1>2. Overdue(tasks', clock') \subseteq late'
  BY <1>1
<1>3. \A j \in DOMAIN tasks' : OnTime(j)' => OnTime(j)
  BY <1>1 DEF OnTime
<1> QED BY <1>1, <1>2, <1>3 DEF Leases, RowId, Lease

(* No step lowers the lease of a row, and a new task has that of its row. *)
LEMMA ClaimsStep ==
  ASSUME TypeOK, Typed, Captures, Leases, Claims, [Next]_vars
  PROVE  Claims'
<1>1. CASE queue' = queue /\ DOMAIN tasks' \subseteq DOMAIN tasks
  BY <1>1 DEF Claims, RowId, Lease
<1>2. CASE \E s \in Services : Ask(s)
  <2>1. PICK s \in Services : Ask(s)
    BY <1>2
  <2> DEFINE key == <<s, Head(asking[s])>>
  <2>2. queue' = Insert(queue, nextId, key) /\ tasks' = tasks
    BY <2>1 DEF Ask
  <2> HIDE DEF key
  <2>3. \A id \in DOMAIN queue' :
          id = nextId \/ (id \in DOMAIN queue /\ queue'[id] = queue[id])
    BY <2>2, QueueTable DEF Insert, Put, Overlay
  <2>4. nextId \notin 1 .. nextId - 1
    BY DEF Typed
  <2>5. \A j \in DOMAIN tasks : RowId(j) # nextId
    BY <2>4 DEF TypeOK
  <2> QED BY <2>2, <2>3, <2>5 DEF Claims, RowId, Lease
<1>3. CASE \E j \in DOMAIN tasks : CompleteTask(j)
  BY <1>3 DEF CompleteTask, Complete, EndTask, Remove, Restrict, Claims, RowId, Lease
<1>4. ASSUME NEW id \in DOMAIN queue, queue' = Claim(queue, Batch, t)
      PROVE  /\ DOMAIN queue' = DOMAIN queue
             /\ queue[id].claimedUntil <= queue'[id].claimedUntil
  <2>1. /\ IsTable(queue, (DOMAIN docs) \X Kind) /\ Batch \in Nat /\ t \in Nat
        /\ queue[id].claimedUntil \in Nat /\ LeaseTime \in Nat
    BY QueueTable, Bounds DEF IsTable, Row
  <2>2. CASE id \in Claimed(queue, Batch, t)
    <3> DEFINE before == queue[id].claimedUntil
               after  == queue'[id].claimedUntil
    <3>1. before < t /\ after = t + LeaseTime
      BY <1>4, <2>1, <2>2, ClaimedWasFree, ClaimWritesLease
    <3>2. before \in Nat
      BY <2>1
    <3> HIDE DEF before, after
    <3>3. before <= after
      BY <2>1, <3>1, <3>2
    <3>4. DOMAIN queue' = DOMAIN queue
      BY <1>4, ClaimLeavesOthers
    <3> QED BY <3>3, <3>4 DEF before, after
  <2>3. CASE id \notin Claimed(queue, Batch, t)
    <3>1. DOMAIN queue' = DOMAIN queue /\ queue'[id] = queue[id]
      BY <1>4, <2>3, ClaimLeavesOthers
    <3> QED BY <2>1, <3>1
  <2> QED BY <2>2, <2>3
<1>5. ASSUME NEW j \in DOMAIN tasks, RowId(j) \in DOMAIN queue,
             queue' = Claim(queue, Batch, t)
      PROVE  Lease(j) <= queue'[RowId(j)].claimedUntil
  <2> DEFINE before == queue[RowId(j)].claimedUntil
             after  == queue'[RowId(j)].claimedUntil
  <2>1. Lease(j) <= before /\ before <= after
    BY <1>4, <1>5 DEF Claims
  <2>2. Lease(j) \in Nat /\ before \in Nat
    BY <1>5, QueueTable DEF Leases, Lease, IsTable, Row
  <2>3. after \in Nat
    <3>1. IsTable(queue, (DOMAIN docs) \X Kind) /\ Batch \in Nat /\ t \in Nat
      BY QueueTable
    <3>2. IsTable(queue', (DOMAIN docs) \X Kind) /\ DOMAIN queue' = DOMAIN queue
      BY <1>5, <3>1, ClaimKeepsRows
    <3> QED BY <1>5, <3>2 DEF IsTable, Row
  <2> HIDE DEF before, after
  <2>4. Lease(j) <= after
    BY <2>1, <2>2, <2>3
  <2> QED BY <2>4 DEF after
<1>6. CASE ClaimFails /\ queue' # queue
  <2>1. queue' = Claim(queue, Batch, t) /\ tasks' = tasks
    BY <1>6 DEF ClaimFails
  <2>2. DOMAIN queue' = DOMAIN queue
    BY <2>1, ClaimLeavesOthers
  <2> QED BY <1>5, <2>1, <2>2 DEF Claims, RowId, Lease
<1>7. CASE ClaimEnrichments
  <2>1. queue' = Claim(queue, Batch, t)
    BY <1>7 DEF ClaimEnrichments
  <2>2. DOMAIN queue' = DOMAIN queue
    BY <2>1, ClaimLeavesOthers
  <2>3. DOMAIN tasks' = DOMAIN tasks \cup NewJobs
    BY <1>7, Spawns
  <2>4. ASSUME NEW j \in NewJobs
        PROVE  Lease(j) <= queue'[RowId(j)].claimedUntil
    <3>1. PICK id \in Claimed(queue, Batch, t) : j = <<id, t + LeaseTime>>
      BY DEF NewJobs
    <3>2. queue'[id].claimedUntil = t + LeaseTime
      BY <2>1, QueueTable, ClaimWritesLease
    <3>3. t + LeaseTime \in Nat
      BY QueueTable, Bounds
    <3>4. Lease(j) = queue'[RowId(j)].claimedUntil /\ Lease(j) \in Nat
      BY <3>1, <3>2, <3>3 DEF RowId, Lease
    <3> QED BY <3>4
  <2> QED BY <1>5, <2>1, <2>2, <2>3, <2>4 DEF Claims, RowId, Lease
<1>8. CASE \/ \E s \in Services : Upsert(s) \/ AskFails(s)
           \/ Tick \/ ReadClock \/ ClaimNothing \/ Crash \/ Restart
           \/ \E j \in DOMAIN tasks : CompleteFails(j)
           \/ StartMaintenance \/ MaintainNext \/ MaintenanceFails
           \/ UNCHANGED vars
  <2>1. queue' = queue /\ DOMAIN tasks' \subseteq DOMAIN tasks
    BY <1>8 DEF Upsert, AskFails, Tick, ReadClock, ClaimNothing, Crash, Restart,
       CompleteFails, EndTask, Remove, Restrict, NoEntries, StartMaintenance,
       MaintainNext, MaintenanceFails, vars
  <2> QED BY <1>1, <2>1
<1>9. CASE \E j \in DOMAIN tasks : Works(j)
  <2>1. queue' = queue /\ DOMAIN tasks' = DOMAIN tasks
    BY <1>9, WorkMoves, WorkLeaves DEF Moves
  <2> QED BY <1>1, <2>1
<1>10. CASE ClaimFails /\ queue' = queue
  BY <1>1, <1>10 DEF ClaimFails
<1> QED BY <1>2, <1>3, <1>6, <1>7, <1>8, <1>9, <1>10, Steps

(* Every step. *)
LEMMA LeasesStep ==
  ASSUME TypeOK, Typed, JobKeys, Captures, Leases, [Next]_vars
  PROVE  Leases'
<1>1. CASE \/ \E s \in Services : Upsert(s) \/ AskFails(s)
           \/ ReadClock \/ ClaimNothing \/ Restart
           \/ StartMaintenance \/ MaintainNext \/ MaintenanceFails
           \/ UNCHANGED vars
  <2>1. UNCHANGED <<clock, late, queue, tasks>>
    BY <1>1 DEF Upsert, AskFails, ReadClock, ClaimNothing, Restart,
       StartMaintenance, MaintainNext, MaintenanceFails, vars, loop, history
  <2> QED BY <2>1, QuietLeases
<1>2. CASE Crash \/ \E j \in DOMAIN tasks : CompleteFails(j)
  <2>1. /\ UNCHANGED <<clock, late, queue>>
        /\ \A j \in DOMAIN tasks' : j \in DOMAIN tasks /\ tasks'[j] = tasks[j]
    BY <1>2 DEF Crash, CompleteFails, EndTask, Remove, Restrict, NoEntries, loop,
       history
  <2> QED BY <2>1, QuietLeases
<1>3. ASSUME NEW j \in DOMAIN tasks, Works(j) PROVE Leases'
  <2>1. Moves(j) /\ UNCHANGED <<clock, queue>>
    BY <1>3, WorkMoves, WorkLeaves
  <2>2. late' = late
    BY <1>3 DEF Works, FetchFavicon, FetchSnapshot, Open, Write, RunFfmpeg, ReadFrame,
       ReadCamera, RenameFrame, RecordAsset, WriteHash, StepFails, history
  <2>3. \A i \in DOMAIN tasks' : /\ i \in DOMAIN tasks
                                /\ tasks'[i].service = tasks[i].service
                                /\ tasks'[i].kind = tasks[i].kind
    BY <2>1 DEF Moves
  <2> QED BY <2>1, <2>2, <2>3, QuietLeases
<1> QED
  BY <1>1, <1>2, <1>3, Steps, AskLeases, CompleteLeases, LostClaimLeases,
     ClaimLeases, TickLeases

(* Who begins to capture a stream that another worker is at work on finds   *)
(* one of the two late.                                                     *)
LEMMA SharedStep ==
  ASSUME TypeOK, Typed, JobKeys, Captures, Leases, SharedWhenLate, [Next]_vars,
         JobKeys', Leases'
  PROVE  SharedWhenLate'
<1>1. CASE crossed' \subseteq crossed /\ late \subseteq late'
  BY <1>1 DEF SharedWhenLate
<1>2. CASE \/ \E s \in Services : Upsert(s) \/ Ask(s) \/ AskFails(s)
           \/ Tick \/ ReadClock \/ ClaimNothing \/ ClaimFails \/ Crash \/ Restart
           \/ \E j \in DOMAIN tasks : CompleteTask(j) \/ CompleteFails(j)
           \/ StartMaintenance \/ MaintainNext \/ MaintenanceFails
           \/ UNCHANGED vars
  <2>1. crossed' = crossed /\ late \subseteq late'
    BY <1>2 DEF Upsert, Ask, AskFails, Tick, ReadClock, ClaimNothing, ClaimFails,
       Crash, Restart, CompleteTask, CompleteFails, StartMaintenance, MaintainNext,
       MaintenanceFails, vars, history
  <2> QED BY <1>1, <2>1
<1>3. ASSUME NEW j \in DOMAIN tasks, Works(j) PROVE SharedWhenLate'
  <2>1. late' = late
    BY <1>3 DEF Works, FetchFavicon, FetchSnapshot, Open, Write, RunFfmpeg, ReadFrame,
       ReadCamera, RenameFrame, RecordAsset, WriteHash, StepFails, history
  <2>2. CASE FetchSnapshot(j)
    <3>1. tasks[j].kind = "camera_frame" /\ tasks'[j].kind = tasks[j].kind
      BY <1>3, <2>2, WorkMoves DEF FetchSnapshot, Moves
    <3>2. Crossing(j, tasks') \subseteq {0}
      BY <3>1 DEF Crossing, TempOf
    <3>3. crossed' \subseteq crossed \cup {0}
      BY <2>2, <3>2 DEF FetchSnapshot
    <3> QED BY <2>1, <3>3 DEF SharedWhenLate
  <2>3. CASE ~FetchSnapshot(j)
    <3>1. crossed' = crossed
      BY <1>3, <2>3 DEF Works, FetchFavicon, Open, Write, RunFfmpeg, ReadFrame,
         ReadCamera, RenameFrame, RecordAsset, WriteHash, StepFails, history
    <3> QED BY <1>1, <2>1, <3>1
  <2> QED BY <2>2, <2>3
<1>4. CASE ClaimEnrichments
  <2>1. /\ crossed' = crossed \cup UNION {Crossing(j, tasks') : j \in NewJobs}
        /\ late \subseteq late'
    BY <1>4 DEF ClaimEnrichments, NewJobs
  <2>2. ASSUME NEW j \in NewJobs, NEW s \in Crossing(j, tasks'), s # 0,
               s \notin late'
        PROVE  FALSE
    <3>1. /\ s = TempOf(tasks'[j].service, tasks'[j].kind)
          /\ tasks'[j].state = "ffmpeg"
          /\ \E i \in DOMAIN tasks' \ {j} : Uses(tasks'[i], s)
      BY <2>2 DEF Crossing
    <3>2. PICK i \in DOMAIN tasks' \ {j} : Uses(tasks'[i], s)
      BY <3>1
    <3>3. j \in DOMAIN tasks' /\ tasks'[j].kind = "rtsp_frame"
      BY <1>4, <3>1, <2>2, Spawns
    <3>4. tasks'[i].kind = "rtsp_frame"
      <4>1. i \in Capturing'
        BY <3>2 DEF Uses, Capturing
      <4>2. Captures'
        BY CapturesStep
      <4>3. tasks'[i].kind # "camera_frame"
        BY <2>2, <3>2 DEF Uses, TempOf
      <4> QED BY <4>1, <4>2, <4>3 DEF Captures
    <3>5. tasks'[i].service = s /\ tasks'[j].service = s
      BY <3>1, <3>2, <3>3, <3>4 DEF Uses, TempOf
    <3>6. OnTime(i)' /\ OnTime(j)'
      BY <2>2, <3>3, <3>4, <3>5 DEF OnTime
    <3>7. /\ i[1] \in DOMAIN queue' /\ queue'[i[1]].claimedUntil = i[2]
          /\ j[1] \in DOMAIN queue' /\ queue'[j[1]].claimedUntil = j[2]
          /\ i \in Nat \X Nat /\ j \in Nat \X Nat /\ Unique(queue')
      BY <3>2, <3>3, <3>6 DEF Leases, RowId, Lease
    <3>8. queue'[i[1]].key = queue'[j[1]].key
      <4>1. /\ queue'[i[1]].key = <<tasks'[i].service, tasks'[i].kind>>
            /\ queue'[j[1]].key = <<tasks'[j].service, tasks'[j].kind>>
        BY <3>2, <3>3, <3>7 DEF JobKeys, Key, RowId
      <4> QED BY <3>3, <3>4, <3>5, <4>1
    <3>9. i = j
      BY <3>7, <3>8, OneOnTime
    <3> QED BY <3>2, <3>9
  <2>3. ASSUME NEW s \in crossed' \ {0} PROVE s \in late'
    BY <2>1, <2>2 DEF SharedWhenLate
  <2> QED BY <2>3 DEF SharedWhenLate
<1> QED BY <1>2, <1>3, <1>4, Steps

-----------------------------------------------------------------------------
(* The theorems. *)

LEMMA Initially == Init => IInv
<1> SUFFICES ASSUME Init PROVE IInv
  OBVIOUS
<1>1. /\ clock = 1 /\ pc = "read" /\ t = 0 /\ nextId = 1
      /\ DOMAIN queue = {} /\ DOMAIN tasks = {} /\ DOMAIN docs = {}
      /\ DOMAIN assets = {} /\ DOMAIN saved = {} /\ DOMAIN temp = {}
      /\ DOMAIN maint = {}
      /\ asking = [s \in Services |-> <<>>]
  BY DEF Init, NoEntries
<1>2. TypeOK
  <2>1. queue \in [DOMAIN queue -> Row((DOMAIN docs) \X Kind)]
    BY DEF Init, NoEntries
  <2> QED BY <1>1, <2>1 DEF TypeOK
<1>3. Typed
  <2>1. /\ docs \in [DOMAIN docs -> Document]
        /\ maint \in [DOMAIN maint -> Document]
        /\ tasks \in [DOMAIN tasks -> Task]
    BY DEF Init, NoEntries
  <2>2. asking \in [Services -> Seq(Kind)] /\ \A s \in Services : asking[s] = <<>>
    BY <1>1
  <2> QED BY <1>1, <2>1, <2>2 DEF Typed
<1>4. JobKeys /\ FilesFirst /\ RowsHaveFiles
  BY <1>1 DEF JobKeys, FilesFirst, RowsHaveFiles
<1>5. Captures /\ Owned /\ NamedByContent
  BY <1>1 DEF Captures, Capturing, Owned, NamedByContent
<1>6. Awaited
  BY <1>1 DEF Awaited
<1>7. Claims /\ Leases /\ SharedWhenLate
  <2>1. crossed = {} /\ late = {}
    BY DEF Init
  <2> QED BY <1>1, <2>1 DEF Claims, Leases, Unique, Overdue, SharedWhenLate
<1> QED BY <1>2, <1>3, <1>4, <1>5, <1>6, <1>7 DEF IInv

LEMMA Inductive == IInv /\ [Next]_vars => IInv'
  BY TypeStep, FilesStep, CapturesStep, OwnedStep, AwaitedStep, ClaimsStep, LeasesStep,
     SharedStep DEF IInv

(* The inductive invariant holds of every state of the enrich stage. *)
THEOREM Invariant == Spec => []IInv
  BY Initially, Inductive, PTL DEF Spec

(* Rows, tasks, documents and assets stay well-formed; in particular what a
   worker is about to store is never a missing or a too small file. *)
THEOREM Typing == Spec => []TypeOK
<1>1. IInv => TypeOK
  BY DEF IInv
<1> QED BY <1>1, Invariant, PTL

(* No asset, and no document by its frame, names a file that is not there; a
   document whose favicon hash the enricher wrote has a favicon asset. *)
THEOREM FilesExist == Spec => []RowsHaveFiles
<1>1. IInv => RowsHaveFiles
  BY DEF IInv
<1> QED BY <1>1, Invariant, PTL

(* A service gets the picture of another only when captures of cameras have
   shared their temporary file. *)
THEOREM NoForeignPictures == Spec => []OwnPictures
<1>1. IInv => OwnPictures
  <2> SUFFICES ASSUME IInv, NEW key \in DOMAIN assets
               PROVE  \/ saved[assets[key]].of \in {key[1], Tiny.of}
                      \/ key[2] = "camera_frame" /\ 0 \in crossed
    BY DEF OwnPictures
  <2>1. /\ assets[key] \in DOMAIN saved
        /\ Whose(assets[key], key[1], key[2], crossed)
        /\ saved[assets[key]].of \in {assets[key].of, Tiny.of}
    BY DEF IInv, RowsHaveFiles, Owned
  <2>2. key[1] \in Services
    BY DEF IInv, TypeOK, Typed
  <2> QED BY <2>1, <2>2, PictureHash DEF Whose
<1> QED BY <1>1, Invariant, PTL

(* A file whose name is not the hash of its bytes is being written, was left
   half written by a kill or an error and not opened since, or is one that two
   workers of one service were capturing at once. *)
THEOREM NamesAreHashes == Spec => []NamedByContent
<1>1. IInv => NamedByContent
  BY DEF IInv
<1> QED BY <1>1, Invariant, PTL

(* Two workers capture one stream at once only after a worker of the service
   has outlived its lease. *)
THEOREM SharingIsLate == Spec => []SharedWhenLate
<1>1. IInv => SharedWhenLate
  BY DEF IInv
<1> QED BY <1>1, Invariant, PTL

(* Once a key is idle, its hash is there, unless it was given up or one of the
   three windows was hit. *)
THEOREM NothingForgotten == Spec => []EnrichmentsArrive
<1>1. IInv => EnrichmentsArrive
  <2> SUFFICES ASSUME IInv, NEW s \in DOMAIN docs, NEW kind \in Kind,
                      Missing(s, kind), <<s, kind>> \notin lost,
                      Idle(<<s, kind>>)
               PROVE  FALSE
    BY DEF EnrichmentsArrive, Missing, Kind
  <2>1. Coming(s, kind)
    BY DEF IInv, Awaited
  <2>2. asking[s] = <<>>
    BY DEF Idle
  <2>3. kind \notin Range(asking[s])
    BY <2>2 DEF Range
  <2> QED BY <2>1, <2>3 DEF Coming, Idle, Keys
<1> QED BY <1>1, Invariant, PTL

=============================================================================
