----------------------------- MODULE MCDeepScan -----------------------------
(* Small instances of DeepScan for TLC. *)
EXTENDS DeepScan, TLC

(* Safety runs only: names of replicas, jobs, hosts and ports are opaque. *)
Symmetry == Permutations(Replica) \cup Permutations(JobId)
              \cup Permutations(Ip) \cup Permutations(Port)

=============================================================================
