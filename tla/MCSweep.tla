------------------------------ MODULE MCSweep ------------------------------
(* Two ranges with a host each, from the configuration or from its file,    *)
(* which has a comment and a blank line.                                    *)
EXTENDS Sweep

MCConfigs ==
  { [inline |-> <<"net1", "net2">>, file |-> <<"unreadable">>],
    [inline |-> <<"net1">>,         file |-> <<"#", "net2", "", "net1">>] }

MCHostsOf(range) == IF range = "net1" THEN {"h1"} ELSE {"h2"}

=============================================================================
