----------------------------- MODULE SweepProofs -----------------------------
(* The sweep stage, for every configuration, any hosts and ports, any depth *)
(* of the probe queue and any number of faults: the ranges are scanned in   *)
(* order, and none is ever given the output of another.                     *)
EXTENDS Sweep, TLAPS

(* The step of the loop through the list, written with a remainder. *)
LEMMA FollowingIs ==
  ASSUME NEW n \in Nat \ {0}, NEW p \in 1 .. n
  PROVE  (p % n) + 1 = IF p = n THEN 1 ELSE p + 1
<1>1. CASE p = n
  BY <1>1
<1>2. CASE p < n
  BY <1>2
<1> QED BY <1>1, <1>2

LEMMA FirstIs ==
  ASSUME NEW n \in Nat \ {0}
  PROVE  (0 % n) + 1 = 1
OBVIOUS

(* A number has one quotient and one remainder. *)
LEMMA OneDivision ==
  ASSUME NEW n \in Nat \ {0}, NEW q \in Nat, NEW r \in Nat,
         NEW p \in 1 .. n, NEW s \in 1 .. n,
         q * n + p = r * n + s
  PROVE  p = s
<1>1. CASE q = r
  <2>1. q * n = r * n /\ q * n \in Int
    BY <1>1
  <2> QED BY <2>1
<1>2. CASE q > r
  <2> DEFINE d == q - r - 1
  <2>1. d \in Nat /\ q = r + 1 + d
    BY <1>2
  <2>2. q * n = r * n + n + d * n /\ r * n \in Nat /\ d * n \in Nat
    BY <2>1
  <2> HIDE DEF d
  <2>3. q * n \in Nat
    OBVIOUS
  <2> QED BY <2>2, <2>3
<1>3. CASE r > q
  <2> DEFINE d == r - q - 1
  <2>1. d \in Nat /\ r = q + 1 + d
    BY <1>3
  <2>2. r * n = q * n + n + d * n /\ q * n \in Nat /\ d * n \in Nat
    BY <2>1
  <2> HIDE DEF d
  <2>3. r * n \in Nat
    OBVIOUS
  <2> QED BY <2>2, <2>3
<1> QED BY <1>1, <1>2, <1>3

(* The list of ranges is a list, which no step changes. *)
LEMMA ListOfRanges ==
  ASSUME config \in Configs, pos \in 1 .. Len(ranges)
  PROVE  /\ ranges \in Seq(STRING)
         /\ Len(ranges) \in Nat \ {0}
         /\ \E k \in 1 .. MaxScans : MaxScans = k * Len(ranges)
<1>1. ranges \in Seq(STRING)
  BY RangesAssumption DEF ranges
<1>2. Len(ranges) \in Nat \ {0}
  BY <1>1
<1> QED BY <1>1, <1>2, RangesAssumption DEF ranges

(* A scan has one range. *)
LEMMA OneRange ==
  ASSUME NEW n \in Nat, NEW p \in 1 .. Len(ranges), NEW s \in 1 .. Len(ranges),
         Len(ranges) \in Nat \ {0}, ScanOf(n, p), ScanOf(n, s)
  PROVE  p = s
<1>1. PICK q \in 0 .. MaxScans : n = q * Len(ranges) + p - 1
  BY DEF ScanOf
<1>2. PICK r \in 0 .. MaxScans : n = r * Len(ranges) + s - 1
  BY DEF ScanOf
<1>3. q \in Nat /\ r \in Nat
  BY SweepAssumption
<1>4. q * Len(ranges) \in Int /\ r * Len(ranges) \in Int
  BY <1>3
<1>5. q * Len(ranges) + p = r * Len(ranges) + s
  BY <1>1, <1>2, <1>4
<1> QED BY <1>3, <1>5, OneDivision

(* The next scan is of the next range, also where the counter starts again. *)
LEMMA NextScan ==
  ASSUME NEW n \in 0 .. MaxScans - 1, NEW p \in 1 .. Len(ranges),
         Len(ranges) \in Nat \ {0},
         NEW k \in 1 .. MaxScans, MaxScans = k * Len(ranges),
         ScanOf(n, p)
  PROVE  ScanOf((n + 1) % MaxScans, Following(p))
<1> DEFINE L == Len(ranges)
<1>1. PICK q \in 0 .. MaxScans : n = q * L + p - 1
  BY DEF ScanOf
<1>2. MaxScans \in Nat \ {0} /\ q \in Nat /\ k \in Nat /\ q * L \in Nat
  BY SweepAssumption
<1>3. 0 * L = 0 /\ (q + 1) * L = q * L + L
  BY <1>2
<1>4. CASE n + 1 < MaxScans
  <2>1. (n + 1) % MaxScans = n + 1
    BY <1>2, <1>4
  <2>2. CASE p = L
    <3>1. n + 1 = (q + 1) * L + 1 - 1
      BY <1>1, <1>2, <1>3, <2>2
    <3>2. q < MaxScans
      <4>1. q <= q * L
        BY <1>2
      <4> QED BY <4>1, <1>1, <1>2
    <3>3. q + 1 \in 0 .. MaxScans
      BY <1>2, <3>2
    <3>4. ScanOf(n + 1, 1)
      BY <3>1, <3>3 DEF ScanOf
    <3> QED BY <2>1, <2>2, <3>4 DEF Following
  <2>3. CASE p < L
    <3>1. n + 1 = q * L + (p + 1) - 1
      BY <1>1, <1>2
    <3>2. ScanOf(n + 1, p + 1)
      BY <3>1 DEF ScanOf
    <3>3. Following(p) = p + 1
      BY <2>3 DEF Following
    <3> QED BY <2>1, <3>2, <3>3
  <2> QED BY <2>2, <2>3
<1>5. CASE n + 1 = MaxScans
  <2>1. (n + 1) % MaxScans = 0
    BY <1>2, <1>5
  <2>2. q * L + p = (k - 1) * L + L
    <3>1. k * L = (k - 1) * L + L
      BY <1>2
    <3> QED BY <1>1, <1>2, <1>5, <3>1
  <2>3. p = L
    <3>1. k - 1 \in Nat
      BY <1>2
    <3> QED BY <1>2, <2>2, <3>1, OneDivision
  <2>4. 0 = 0 * L + 1 - 1
    BY <1>3
  <2> QED BY <1>2, <2>1, <2>3, <2>4 DEF ScanOf, Following
<1> QED BY <1>2, <1>4, <1>5

-----------------------------------------------------------------------------
(* The invariant. *)

LEMMA InitInv == Init => IInv
<1> SUFFICES ASSUME Init PROVE IInv
  OBVIOUS
<1>1. config \in Configs /\ pos \in 1 .. Len(ranges)
  <2>1. ranges \in Seq(STRING)
    BY RangesAssumption DEF Init, ranges
  <2> QED BY <2>1 DEF Init
<1>2. Len(ranges) \in Nat \ {0}
  BY <1>1, ListOfRanges
<1>3. DOMAIN out = {}
  BY DEF Init, NoEntries
<1>4. TypeOK
  BY <1>1, <1>2, <1>3 DEF Init, TypeOK
<1>5. Settings
  BY <1>3, SweepAssumption DEF Init, Settings
<1>6. Order
  BY <1>2, FirstIs DEF Init, Order
<1>7. Named
  <2>1. 0 = 0 * Len(ranges) + 1 - 1 /\ 0 \in 0 .. MaxScans
    BY <1>2, SweepAssumption
  <2>2. ScanOf(0, 1)
    BY <2>1 DEF ScanOf
  <2> QED BY <1>3, <2>2 DEF Init, Named
<1>8. OwnOutput
  BY DEF Init, OwnOutput
<1> QED BY <1>4, <1>5, <1>6, <1>7, <1>8 DEF IInv

(* Hosts of a range are hosts. *)
LEMMA HostsInRange ==
  ASSUME config \in Configs, pos \in 1 .. Len(ranges)
  PROVE  HostsOf(ranges[pos]) \subseteq Hosts
<1>1. ranges \in Seq(STRING)
  BY ListOfRanges
<1>2. ranges[pos] \in Range(Ranges(config))
  BY <1>1 DEF ranges, Range
<1> QED BY <1>2 DEF Hosts

LEMMA SameList ==
  ASSUME config' = config
  PROVE  /\ ranges' = ranges
         /\ \A n, p : ScanOf(n, p)' = ScanOf(n, p)
         /\ \A p : Following(p)' = Following(p)
BY DEF ranges, ScanOf, Following

LEMMA NextInv == IInv /\ [Next]_vars => IInv'
<1> SUFFICES ASSUME IInv, [Next]_vars PROVE IInv'
  OBVIOUS
<1> USE DEF IInv
<1>0. /\ config \in Configs /\ pos \in 1 .. Len(ranges)
      /\ ranges \in Seq(STRING) /\ Len(ranges) \in Nat \ {0}
      /\ MaxScans \in Nat \ {0}
  BY ListOfRanges, SweepAssumption DEF TypeOK, Settings
<1>1. config' = config
  BY DEF Next, SweepStep, Pause, OpenGate, Masscan, MasscanMissing, ReadOutput,
         InsertHostScan, NextRange, Crash, Restart, DeepScanHost, ClaimProbe,
         CompleteProbe, vars, queues
<1>2. /\ ranges' = ranges
      /\ \A n, p : ScanOf(n, p)' = ScanOf(n, p)
      /\ \A p : Following(p)' = Following(p)
  BY <1>1, SameList
<1>3. PICK k \in 1 .. MaxScans : MaxScans = k * Len(ranges)
  BY <1>0, ListOfRanges
<1>4. ScanOf(0, 1)
  BY <1>0 DEF ScanOf
<1>5. pc \in {"gate", "scan", "read"} =>
        ScanOf((seq + 1) % MaxScans, Following(pos))
  BY <1>0, <1>3, NextScan DEF Named, Settings
<1>6. (seq + 1) % MaxScans \in 0 .. MaxScans - 1
  BY <1>0 DEF Settings
<1>7. Following(pos) \in 1 .. Len(ranges)
  BY <1>0 DEF Following
<1>8. Following(pos) = (pos % Len(ranges)) + 1
  BY <1>0, FollowingIs DEF Following
<1>9. HostsOf(ranges[pos]) \subseteq Hosts
  BY <1>0, HostsInRange
<1>10. \A n \in DOMAIN Remove(out, {File(seq)}) :
         n \in DOMAIN out /\ Remove(out, {File(seq)})[n] = out[n]
  BY DEF Remove, Restrict
<1> DEFINE Keeps == UNCHANGED <<pos, seq, out, last, stale>>
<1>11. ASSUME Keeps, pc' = pc \/ (pc = "gate" /\ pc' = "scan"),
              results' \cup hostScans' \subseteq Hosts,
              waiting' \cup claimed' \subseteq Hosts \X Ports,
              waiting' \cap claimed' = {}
       PROVE  IInv'
  <2>1. TypeOK'
    BY <1>2, <1>11 DEF TypeOK
  <2>2. Settings'
    BY <1>1, <1>11 DEF Settings, Hosts
  <2>3. Order'
    BY <1>2, <1>11 DEF Order
  <2>4. Named'
    BY <1>2, <1>11 DEF Named, ScanOf, Following
  <2> QED BY <2>1, <2>2, <2>3, <2>4, <1>11 DEF OwnOutput
<1>12. CASE Pause \/ OpenGate \/ UNCHANGED vars
  BY <1>11, <1>12 DEF Pause, OpenGate, vars, queues, TypeOK
<1>13. CASE InsertHostScan
  BY <1>11, <1>13 DEF InsertHostScan, TypeOK
<1>14. CASE \E ip \in hostScans : DeepScanHost(ip)
  BY <1>11, <1>14 DEF DeepScanHost, TypeOK
<1>15. CASE ClaimProbe
  BY <1>11, <1>15 DEF ClaimProbe, TypeOK
<1>16. CASE \E key \in claimed : CompleteProbe(key)
  BY <1>11, <1>16 DEF CompleteProbe, TypeOK
<1>17. CASE Masscan
  <2> USE <1>17 DEF Masscan
  <2>1. DOMAIN out' \subseteq DOMAIN out \cup {seq}
    BY DEF Put, Overlay, File
  <2>2. \A n \in DOMAIN out' :
          \/ n \in DOMAIN out /\ out'[n] = out[n]
          \/ /\ n = seq
             /\ out'[n].hosts \subseteq Hosts
             /\ out'[n].range = ranges[pos]
    BY <1>9 DEF Put, Overlay, File
  <2>3. TypeOK'
    BY <1>0, <1>2, <2>1 DEF TypeOK, Settings, queues
  <2>4. Settings'
    BY <1>1, <2>2 DEF Settings, Hosts
  <2>5. Order'
    BY <1>2 DEF Order
  <2>6. ScanOf(seq, pos)
    BY DEF Named
  <2>7. \A n \in DOMAIN out', p \in 1 .. Len(ranges) :
          ScanOf(n, p) => out'[n].range = ranges[p]
    <3> SUFFICES ASSUME NEW n \in DOMAIN out', NEW p \in 1 .. Len(ranges),
                        ScanOf(n, p)
                 PROVE  out'[n].range = ranges[p]
      OBVIOUS
    <3>1. CASE n \in DOMAIN out /\ out'[n] = out[n]
      BY <3>1 DEF Named
    <3>2. CASE n = seq /\ out'[n].range = ranges[pos]
      <4>1. p = pos
        BY <1>0, <2>6, <3>2, OneRange DEF Settings
      <4> QED BY <3>2, <4>1
    <3> QED BY <2>2, <3>1, <3>2
  <2>8. Named'
    BY <1>2, <2>6, <2>7 DEF Named
  <2> QED BY <2>3, <2>4, <2>5, <2>8 DEF OwnOutput
<1>18. CASE MasscanMissing
  <2> USE <1>18 DEF MasscanMissing
  <2>1. TypeOK'
    BY <1>0, <1>2 DEF TypeOK, queues
  <2>2. Settings'
    BY <1>1, <1>6 DEF Settings, Hosts
  <2>3. Order'
    BY <1>2 DEF Order
  <2>4. Named'
    BY <1>2, <1>5 DEF Named
  <2> QED BY <2>1, <2>2, <2>3, <2>4 DEF OwnOutput
<1>19. CASE ReadOutput
  <2> USE <1>19 DEF ReadOutput
  <2>1. DOMAIN out' \subseteq DOMAIN out
    BY <1>10
  <2>2. \A n \in DOMAIN out' : out'[n] = out[n]
    BY <1>10
  <2>3. seq \in DOMAIN out => out[seq].range = ranges[pos]
    BY <1>0 DEF Named
  <2>4. results' \subseteq Hosts /\ stale' = stale
    BY <2>3 DEF Settings, File
  <2>5. TypeOK'
    BY <1>0, <1>2, <2>1, <2>4 DEF TypeOK, queues
  <2>6. Settings'
    BY <1>1, <1>6, <2>1, <2>2 DEF Settings, Hosts
  <2>7. Order'
    BY <1>2 DEF Order
  <2>8. Named'
    <3>1. ScanOf(seq', Following(pos)) /\ pc' = "insert" /\ pos' = pos
      BY <1>5
    <3> HIDE <1>19 DEF ReadOutput
    <3>2. \A n \in DOMAIN out', p \in 1 .. Len(ranges) :
            ScanOf(n, p) => out'[n].range = ranges[p]
      BY <2>1, <2>2 DEF Named
    <3> QED BY <1>2, <3>1, <3>2 DEF Named
  <2> QED BY <2>4, <2>5, <2>6, <2>7, <2>8 DEF OwnOutput
<1>20. CASE NextRange
  <2> USE <1>20 DEF NextRange
  <2>1. pos' = Following(pos)
    BY DEF Following
  <2>2. TypeOK'
    BY <1>2, <1>7, <2>1 DEF TypeOK, queues
  <2>3. Settings'
    BY <1>1 DEF Settings, Hosts
  <2>4. Order'
    BY <1>2, <1>8, <2>1 DEF Order
  <2>5. Named'
    BY <1>2, <2>1 DEF Named
  <2> QED BY <2>2, <2>3, <2>4, <2>5 DEF OwnOutput
<1>21. CASE Crash
  <2> USE <1>21 DEF Crash, queues
  <2>1. TypeOK'
    BY <1>2 DEF TypeOK
  <2>2. Settings'
    BY <1>1 DEF Settings, Hosts
  <2>3. Order' /\ Named'
    BY <1>2 DEF Order, Named
  <2> QED BY <2>1, <2>2, <2>3 DEF OwnOutput
<1>22. CASE Restart
  <2> USE <1>22 DEF Restart, queues
  <2>1. TypeOK'
    BY <1>0, <1>2 DEF TypeOK
  <2>2. Settings'
    BY <1>0, <1>1 DEF Settings, Hosts
  <2>3. Order'
    BY <1>0, <1>2, FirstIs DEF Order
  <2>4. Named'
    BY <1>2, <1>4 DEF Named
  <2> QED BY <2>1, <2>2, <2>3, <2>4 DEF OwnOutput
<1> QED BY <1>12, <1>13, <1>14, <1>15, <1>16, <1>17, <1>18, <1>19, <1>20,
           <1>21, <1>22 DEF Next, SweepStep

(* Places, counter and file names go together in every reachable state.     *)
THEOREM Invariant == Spec => []IInv
BY InitInv, NextInv, PTL DEF Spec

-----------------------------------------------------------------------------
(* The theorems. *)

(* Every place in the list is one of its places, and a row of the probe     *)
(* queue is waiting or claimed, not both.                                   *)
THEOREM Typing == Spec => []TypeOK
<1>1. IInv => TypeOK
  BY DEF IInv
<1> QED BY <1>1, Invariant, PTL

(* "retry the same range, never skip it" (main.rs:171): however often the   *)
(* loop is told to wait, and whatever fails.                                *)
THEOREM InOrder == Spec => RangesInOrder
<1>1. IInv /\ [Next]_vars =>
        [last' # last => last' \in {0, (last % Len(ranges)) + 1}]_vars
  <2> SUFFICES ASSUME IInv, [Next]_vars, last' # last
               PROVE  last' \in {0, (last % Len(ranges)) + 1}
    OBVIOUS
  <2>1. CASE Masscan \/ MasscanMissing
    BY <2>1 DEF Masscan, MasscanMissing, IInv, Order
  <2>2. CASE Restart
    BY <2>2 DEF Restart
  <2> QED BY <2>1, <2>2 DEF Next, SweepStep, Pause, OpenGate, ReadOutput,
             InsertHostScan, NextRange, Crash, DeepScanHost, ClaimProbe,
             CompleteProbe, vars, queues
<1> QED BY <1>1, Invariant, PTL DEF Spec, RangesInOrder

(* No range is given hosts of another, although a killed process leaves its *)
(* output behind and its successor uses the same names (masscan.rs:13).     *)
THEOREM OwnResults == Spec => []OwnOutput
<1>1. IInv => OwnOutput
  BY DEF IInv
<1> QED BY <1>1, Invariant, PTL

=============================================================================
