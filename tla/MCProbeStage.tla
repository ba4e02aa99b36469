---------------------------- MODULE MCProbeStage ----------------------------
(* Small instances of ProbeStage for TLC. *)
EXTENDS ProbeStage, TLC

(* Safety runs only: names of replicas, hosts and ports are opaque. *)
Symmetry == Permutations(Replica) \cup Permutations(Ip) \cup Permutations(Port)

(* An rtsp service: two enrichments to queue. *)
RtspAnswer == {"service", "rtsp_frame", "camera_frame"}

StoredAnswer == {RtspAnswer}

TwoAnswers == {Firewalled, RtspAnswer}

=============================================================================
