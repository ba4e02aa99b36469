-------------------------------- MODULE Sweep --------------------------------
(***************************************************************************)
(* Stage 1, run_sweep of src/main.rs with src/masscan.rs: one process      *)
(* scans the configured ranges round and round, queues the hosts that      *)
(* answer, and waits before each range while the queue of probes is deep.  *)
(*                                                                         *)
(* It waits for the stages that its own hosts keep busy, so they are here  *)
(* too, by what they promise (JobQueue): the deep scan removes a host and  *)
(* queues some of its ports, the probe stage claims a port and removes it. *)
(* Leases are left out: a claimed row is not counted whoever holds it.     *)
(***************************************************************************)
EXTENDS Integers, FiniteSets, Sequences, Functions, Tables

CONSTANTS
  Configs,         \* the settings a process may start with, see Ranges
  HostsOf(_),      \* range -> the hosts that may answer in it
  Ports,           \* the ports the deep scan looks at
  MaxDepth,        \* max_probe_queue_depth
  MaxScans,        \* bound: scans of one process; it then goes on from 0
                   \* (a multiple of the number of ranges, because the
                   \* counter of the code does not wrap)
  MaxFaults        \* bound: crashes and failed statements

ASSUME SweepAssumption ==
  /\ MaxDepth \in Nat \ {0}
  /\ MaxScans \in Nat \ {0}
  /\ MaxFaults \in Nat

(***************************************************************************)
(* config::load: the lines of ranges_file, if it can be read, replace the  *)
(* ranges of the configuration, without blank lines and comments.          *)
(***************************************************************************)
Blank == {"", "#"}

Ranges(config) ==
  IF config.file = <<"unreadable">> THEN config.inline
  ELSE SelectSeq(config.file, LAMBDA line : line \notin Blank)

ASSUME RangesAssumption ==
  \A c \in Configs :
    /\ Ranges(c) \in Seq(STRING)
    /\ Len(Ranges(c)) > 0 =>
         \E k \in 1 .. MaxScans : MaxScans = k * Len(Ranges(c))

VARIABLES
  pc,              \* where the loop is
  config,          \* what the process read at its start
  pos,             \* the range it is at, by its place in the list
  seq,             \* COUNTER of masscan.rs
  out,             \* number in the file name -> masscan's output
  results,         \* hosts found, not yet queued
  hostScans,       \* hosts in queue_host_scans
  waiting,         \* unclaimed rows of queue_service_probes
  claimed,         \* and claimed ones
  faults,
  (* history, read by no action: *)
  last,            \* the range this process scanned last, 0 before
  stale            \* ranges scanned when results of others were read

queues == <<hostScans, waiting, claimed>>
vars == <<pc, config, pos, seq, out, results, queues, faults, last, stale>>

Hosts == UNION {UNION {HostsOf(range) : range \in Range(Ranges(c))} :
                  c \in Configs}
ranges == Ranges(config)

Init ==
  /\ pc = "gate" /\ config \in Configs /\ Len(ranges) > 0
  /\ pos = 1 /\ seq = 0
  /\ out = NoEntries
  /\ results = {}
  /\ hostScans = {} /\ waiting = {} /\ claimed = {}
  /\ faults = 0
  /\ last = 0 /\ stale = {}

Fault == faults < MaxFaults /\ faults' = faults + 1

-----------------------------------------------------------------------------
(* backpressure_active: SELECT COUNT of the rows nobody has claimed *)
BackpressureActive == Cardinality(waiting) >= MaxDepth

(* Variants of Pause: the next range, or the first, after the pause. *)
PauseAndSkip ==
  /\ pc = "gate"
  /\ BackpressureActive
  /\ pos' = IF pos = Len(ranges) THEN 1 ELSE pos + 1
  /\ UNCHANGED <<pc, config, seq, out, results, queues, faults, last, stale>>

PauseAndRestart ==
  /\ pc = "gate"
  /\ BackpressureActive
  /\ pos' = 1
  /\ UNCHANGED <<pc, config, seq, out, results, queues, faults, last, stale>>

(* Sleep 30 s, then look again, at the same range. *)
Pause ==
  /\ pc = "gate"
  /\ BackpressureActive
  /\ UNCHANGED vars

(* An error of the query counts as no backpressure. *)
OpenGate ==
  /\ pc = "gate"
  /\ \/ ~BackpressureActive /\ UNCHANGED faults
     \/ BackpressureActive /\ Fault
  /\ pc' = "scan"
  /\ UNCHANGED <<config, pos, seq, out, results, queues, last, stale>>

(***************************************************************************)
(* run_stage1_batch.  The file is named after the pid, which is the same   *)
(* for every process of the container, and a counter.  masscan may leave   *)
(* no file: when nothing answered, or when it ended early.                 *)
(***************************************************************************)
FileOfProcess(n) == 0

File(n) == n

Masscan ==
  /\ pc = "scan"
  /\ \/ \E found \in SUBSET HostsOf(ranges[pos]) :
          out' = Put(out, File(seq), [range |-> ranges[pos], hosts |-> found])
     \/ UNCHANGED out
  /\ last' = pos
  /\ pc' = "read"
  /\ UNCHANGED <<config, pos, seq, results, queues, faults, stale>>

(* It could not be started: an error, and no file is looked at. *)
MasscanMissing ==
  /\ pc = "scan"
  /\ Fault
  /\ last' = pos
  /\ seq' = (seq + 1) % MaxScans
  /\ pc' = "insert"
  /\ UNCHANGED <<config, pos, out, results, queues, stale>>

(* Read and remove.  No file, a file that cannot be parsed and a masscan
   that failed all count as no hosts. *)
ReadOutput ==
  /\ pc = "read"
  /\ IF File(seq) \in DOMAIN out
     THEN \/ /\ results' = out[File(seq)].hosts
             /\ stale' = IF out[File(seq)].range = ranges[pos] THEN stale
                         ELSE stale \cup {ranges[pos]}
          \/ results' = {} /\ UNCHANGED stale
     ELSE results' = {} /\ UNCHANGED stale
  /\ out' = Remove(out, {File(seq)})
  /\ seq' = (seq + 1) % MaxScans
  /\ pc' = "insert"
  /\ UNCHANGED <<config, pos, queues, faults, last>>

(* insert_host_scan, ON CONFLICT DO NOTHING; an error is only logged. *)
InsertHostScan ==
  /\ pc = "insert"
  /\ \E ip \in results :
       /\ \/ hostScans' = hostScans \cup {ip} /\ UNCHANGED faults
          \/ Fault /\ UNCHANGED hostScans
       /\ results' = results \ {ip}
  /\ UNCHANGED <<pc, config, pos, seq, out, waiting, claimed, last, stale>>

NextRange ==
  /\ pc = "insert"
  /\ results = {}
  /\ pos' = IF pos = Len(ranges) THEN 1 ELSE pos + 1
  /\ pc' = "gate"
  /\ UNCHANGED <<config, seq, out, results, queues, faults, last, stale>>

(* Killed; the files in /tmp stay, and the counter starts again. *)
Crash ==
  /\ pc # "down"
  /\ Fault
  /\ pc' = "down"
  /\ results' = {}
  /\ UNCHANGED <<config, pos, seq, out, queues, last, stale>>

Restart ==
  /\ pc = "down"
  /\ pc' = "gate"
  /\ pos' = 1 /\ seq' = 0 /\ last' = 0
  /\ UNCHANGED <<config, out, results, queues, faults, stale>>

-----------------------------------------------------------------------------
(* The stages downstream.  A port that is already queued stays as it is.    *)

(* Variant: the row of a port that is being probed is reset. *)
DeepScanResets(ip) ==
  /\ ip \in hostScans
  /\ hostScans' = hostScans \ {ip}
  /\ \E open \in SUBSET Ports : waiting' = waiting \cup ({ip} \X open)
  /\ UNCHANGED <<pc, config, pos, seq, out, results, claimed, faults, last,
                 stale>>

DeepScanHost(ip) ==
  /\ ip \in hostScans
  /\ hostScans' = hostScans \ {ip}
  /\ \E open \in SUBSET Ports :
       waiting' = waiting \cup (({ip} \X open) \ claimed)
  /\ UNCHANGED <<pc, config, pos, seq, out, results, claimed, faults, last,
                 stale>>

ClaimProbe ==
  /\ \E key \in waiting :
       waiting' = waiting \ {key} /\ claimed' = claimed \cup {key}
  /\ UNCHANGED <<pc, config, pos, seq, out, results, hostScans, faults, last,
                 stale>>

CompleteProbe(key) ==
  /\ key \in claimed
  /\ claimed' = claimed \ {key}
  /\ UNCHANGED <<pc, config, pos, seq, out, results, hostScans, waiting, faults,
                 last, stale>>

-----------------------------------------------------------------------------
SweepStep ==
  \/ Pause
  \/ OpenGate
  \/ Masscan
  \/ MasscanMissing
  \/ ReadOutput
  \/ InsertHostScan
  \/ NextRange

Next ==
  \/ SweepStep \/ Crash \/ Restart
  \/ \E ip \in hostScans : DeepScanHost(ip)
  \/ ClaimProbe
  \/ \E key \in claimed : CompleteProbe(key)

Spec == Init /\ [][Next]_vars

(***************************************************************************)
(* The loop runs, masscan ends and the container is restarted; the other   *)
(* stages empty their queues, which EveryRowLeaves and EveryProbeLeaves    *)
(* of theirs say they do.                                                  *)
(***************************************************************************)
Fairness ==
  /\ WF_vars(SweepStep) /\ WF_vars(Restart) /\ WF_vars(ClaimProbe)
  /\ \A ip \in Hosts : WF_vars(DeepScanHost(ip))
  /\ \A key \in Hosts \X Ports : WF_vars(CompleteProbe(key))

FairSpec == Spec /\ Fairness

-----------------------------------------------------------------------------
(* Correctness properties. *)

TypeOK ==
  /\ pc \in {"gate", "scan", "read", "insert", "down"}
  /\ pos \in 1 .. Len(ranges)
  /\ last \in 0 .. Len(ranges)
  /\ DOMAIN out \subseteq 0 .. MaxScans - 1
  /\ results \cup hostScans \subseteq Hosts
  /\ waiting \cup claimed \subseteq Hosts \X Ports
  /\ waiting \cap claimed = {}

(* "retry the same range, never skip it" (main.rs:171): a process scans the
   ranges in the order of the list, from the first, and each once a round,
   however often it is told to wait and whatever fails. *)
RangesInOrder ==
  [][last' # last => last' \in {0, (last % Len(ranges)) + 1}]_vars

(* What is queued for a range was found in that range, although a process
   that was killed leaves its output behind, its successor uses the same
   names again, and masscan may write nothing (masscan.rs:13). *)
OwnOutput == stale = {}

(***************************************************************************)
(* What makes RangesInOrder and OwnOutput inductive.  Scan n of a process  *)
(* is of range p: a process starts with scan 0 and range 1, and both go on *)
(* together, also when masscan cannot be started.  A file that was left    *)
(* behind is therefore only ever read by a scan of the range it is of.     *)
(***************************************************************************)
ScanOf(n, p) == \E q \in 0 .. MaxScans : n = q * Len(ranges) + p - 1

Following(p) == IF p = Len(ranges) THEN 1 ELSE p + 1

Settings ==
  /\ config \in Configs
  /\ seq \in 0 .. MaxScans - 1
  /\ \A n \in DOMAIN out : out[n].hosts \subseteq Hosts

Order ==
  /\ pc \in {"gate", "scan"} => pos = (last % Len(ranges)) + 1
  /\ pc \in {"read", "insert"} => last = pos

Named ==
  /\ pc \in {"gate", "scan", "read"} => ScanOf(seq, pos)
  /\ pc = "insert" => ScanOf(seq, Following(pos))
  /\ \A n \in DOMAIN out, p \in 1 .. Len(ranges) :
       ScanOf(n, p) => out[n].range = ranges[p]

IInv == TypeOK /\ Settings /\ Order /\ Named /\ OwnOutput

(* The stages do not wait for each other for ever: whatever the queue of
   probes holds, every range is scanned again and again. *)
EveryRangeSwept ==
  \A range \in UNION {Range(Ranges(c)) : c \in Configs} :
    range \in Range(ranges) ~> pc = "scan" /\ ranges[pos] = range

=============================================================================
