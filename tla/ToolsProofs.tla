---------------------------- MODULE ToolsProofs ----------------------------
(***************************************************************************)
(* Proofs about the tools of MCTools, each while it is the one that runs:  *)
(* the scripts of a host, for any number of plans and of starts; the       *)
(* multi-block kernel, for any numbers of blocks; the patcher of the NCCL  *)
(* tree, for any number of runs, failures and crashes; the ring planner,   *)
(* for any cabling; and the device map, for any topology documents.        *)
(***************************************************************************)
EXTENDS MCTools, FiniteSetTheorems, SequenceTheorems, TLAPS

toolsVars == <<tool, ringVars, hostVars, mapVars, treeVars, kernelVars, vars>>

K == INSTANCE MultiBlockProofs

-----------------------------------------------------------------------------
(***************************************************************************)
(* The scripts of a host.                                                  *)
(***************************************************************************)

Things == H!Rules \cup H!Routes

\* The line of mesh-up that installs a rule or a route, and the line of
\* mesh-down that takes it away.
InstallLine == [x \in Things |-> IF x = "rule0" THEN 3 ELSE IF x = "rule1" THEN 5
                                 ELSE IF x = "route0" THEN 7 ELSE 8]
CheckLine == [x \in H!Rules |-> IF x = "rule0" THEN 4 ELSE 6]
DeleteLine == [x \in Things |-> IF x = "rule0" THEN 2 ELSE IF x = "rule1" THEN 3
                                ELSE IF x = "route0" THEN 6 ELSE 7]
ClsactLine == [d \in H!Devices |-> IF d = "in0" THEN 1 ELSE 2]
RemoveLine == [d \in H!Devices |-> IF d = "in0" THEN 4 ELSE 5]

HostTypes ==
  /\ clsact \in [H!Devices -> BOOLEAN] /\ others \in [H!Devices -> BOOLEAN]
  /\ plan \in [Things -> Nat] /\ hard \in [H!Rules -> BOOLEAN]
  /\ markers \in BOOLEAN /\ using \in Nat \ {0}
  /\ \/ script = "none" /\ line = 0
     \/ script = "up" /\ line \in 1..10
     \/ script = "down" /\ line \in 1..7
  /\ script # "none" => ended = "none"

\* A filter sits on a discipline.
FilterInv ==
  \A d \in H!Devices : others[d] \/ H!Filters(d) # {} => clsact[d]

\* What the lines of mesh-up before the current one have left.
UpInv ==
  script = "up" =>
    /\ \A d \in H!Devices : line > ClsactLine[d] => clsact[d]
    /\ \A x \in Things : IF line > InstallLine[x]
                         THEN plan[x] # 0 /\ plan[x] \in {using, found[x]}
                         ELSE plan[x] = found[x]
    /\ \A x \in H!Rules : line > CheckLine[x] => hard[x]

\* What the lines of mesh-down before the current one have taken away.
DownInv ==
  script = "down" =>
    /\ line > 1 => ~markers
    /\ \A x \in Things : line > DeleteLine[x] => plan[x] = 0
    /\ \A d \in H!Devices : line > RemoveLine[d] => clsact[d] = others[d]

HostGood ==
  HostTypes /\ FilterInv /\ UpInv /\ DownInv /\ H!OkMeansUp /\ H!DownLeavesNothing
HostInv == tool = "host" => HostGood

LEMMA UpTable ==
  /\ Len(H!UpLines) = 10
  /\ H!UpLines[1][1] = "clsact" /\ H!UpLines[1][2] = "in0"
  /\ H!UpLines[2][1] = "clsact" /\ H!UpLines[2][2] = "in1"
  /\ H!UpLines[3][1] = "rule" /\ H!UpLines[3][2] = "rule0"
  /\ H!UpLines[4][1] = "in_hw" /\ H!UpLines[4][2] = "rule0"
  /\ H!UpLines[5][1] = "rule" /\ H!UpLines[5][2] = "rule1"
  /\ H!UpLines[6][1] = "in_hw" /\ H!UpLines[6][2] = "rule1"
  /\ H!UpLines[7][1] = "route" /\ H!UpLines[7][2] = "route0"
  /\ H!UpLines[8][1] = "route" /\ H!UpLines[8][2] = "route1"
  /\ H!UpLines[9][1] = "markers" /\ H!UpLines[9][2] = ""
  /\ H!UpLines[10][1] = "active" /\ H!UpLines[10][2] = ""
  BY DEF H!UpLines

LEMMA DownTable ==
  /\ Len(H!DownLines) = 7
  /\ H!DownLines[1][1] = "markers" /\ H!DownLines[1][2] = ""
  /\ H!DownLines[2][1] = "rule" /\ H!DownLines[2][2] = "rule0"
  /\ H!DownLines[3][1] = "rule" /\ H!DownLines[3][2] = "rule1"
  /\ H!DownLines[4][1] = "clsact" /\ H!DownLines[4][2] = "in0"
  /\ H!DownLines[5][1] = "clsact" /\ H!DownLines[5][2] = "in1"
  /\ H!DownLines[6][1] = "route" /\ H!DownLines[6][2] = "route0"
  /\ H!DownLines[7][1] = "route" /\ H!DownLines[7][2] = "route1"
  BY DEF H!DownLines

LEMMA Lines ==
  /\ InstallLine["rule0"] = 3 /\ InstallLine["rule1"] = 5
  /\ InstallLine["route0"] = 7 /\ InstallLine["route1"] = 8
  /\ DeleteLine["rule0"] = 2 /\ DeleteLine["rule1"] = 3
  /\ DeleteLine["route0"] = 6 /\ DeleteLine["route1"] = 7
  /\ CheckLine["rule0"] = 4 /\ CheckLine["rule1"] = 6
  /\ RemoveLine["in0"] = 4 /\ RemoveLine["in1"] = 5
  /\ ClsactLine["in0"] = 1 /\ ClsactLine["in1"] = 2
  /\ H!Devices = {"in0", "in1"} /\ H!Rules = {"rule0", "rule1"}
  /\ H!Routes = {"route0", "route1"} /\ Things = {"rule0", "rule1", "route0", "route1"}
  BY DEF InstallLine, CheckLine, DeleteLine, ClsactLine, RemoveLine, Things, H!Devices,
         H!Rules, H!Routes

\* Which line a command is at.
LEMMA UpAt ==
  ASSUME script = "up", line \in 1..10
  PROVE  /\ H!UpLines[line][1] = "clsact" =>
              H!UpLines[line][2] \in H!Devices /\ line = ClsactLine[H!UpLines[line][2]]
         /\ H!UpLines[line][1] = "rule" =>
              H!UpLines[line][2] \in H!Rules /\ line = InstallLine[H!UpLines[line][2]]
         /\ H!UpLines[line][1] = "in_hw" =>
              H!UpLines[line][2] \in H!Rules /\ line = CheckLine[H!UpLines[line][2]]
         /\ H!UpLines[line][1] = "route" =>
              H!UpLines[line][2] \in H!Routes /\ line = InstallLine[H!UpLines[line][2]]
         /\ H!UpLines[line][1] = "markers" => line = 9
         /\ H!UpLines[line][1] = "active" => line = 10
  <1>1. CASE line = 1
    BY <1>1, UpTable, Lines
  <1>2. CASE line = 2
    BY <1>2, UpTable, Lines
  <1>3. CASE line = 3
    BY <1>3, UpTable, Lines
  <1>4. CASE line = 4
    BY <1>4, UpTable, Lines
  <1>5. CASE line = 5
    BY <1>5, UpTable, Lines
  <1>6. CASE line = 6
    BY <1>6, UpTable, Lines
  <1>7. CASE line = 7
    BY <1>7, UpTable, Lines
  <1>8. CASE line = 8
    BY <1>8, UpTable, Lines
  <1>9. CASE line = 9
    BY <1>9, UpTable, Lines
  <1>10. CASE line = 10
    BY <1>10, UpTable, Lines
  <1> QED
    BY <1>1, <1>2, <1>3, <1>4, <1>5, <1>6, <1>7, <1>8, <1>9, <1>10

LEMMA DownAt ==
  ASSUME script = "down", line \in 1..7
  PROVE  /\ H!DownLines[line][1] = "clsact" =>
              H!DownLines[line][2] \in H!Devices /\ line = RemoveLine[H!DownLines[line][2]]
         /\ H!DownLines[line][1] \in {"rule", "route"} =>
              H!DownLines[line][2] \in Things /\ line = DeleteLine[H!DownLines[line][2]]
         /\ H!DownLines[line][1] = "markers" => line = 1
  <1>1. CASE line = 1
    BY <1>1, DownTable, Lines
  <1>2. CASE line = 2
    BY <1>2, DownTable, Lines
  <1>3. CASE line = 3
    BY <1>3, DownTable, Lines
  <1>4. CASE line = 4
    BY <1>4, DownTable, Lines
  <1>5. CASE line = 5
    BY <1>5, DownTable, Lines
  <1>6. CASE line = 6
    BY <1>6, DownTable, Lines
  <1>7. CASE line = 7
    BY <1>7, DownTable, Lines
  <1> QED
    BY <1>1, <1>2, <1>3, <1>4, <1>5, <1>6, <1>7

LEMMA HostStarts == ASSUME H!Init PROVE HostGood
  <1>1. HostTypes
    <2>1. clsact \in [H!Devices -> BOOLEAN] /\ others \in [H!Devices -> BOOLEAN]
      <3>1. others \in [H!Devices -> BOOLEAN] /\ clsact = others
        BY DEF H!Init
      <3> QED
        BY <3>1, Zenon
    <2>2. plan \in [Things -> Nat] /\ hard \in [H!Rules -> BOOLEAN]
      BY DEF H!Init, Things
    <2>3. markers \in BOOLEAN /\ using = 1 /\ script = "none" /\ line = 0
      BY DEF H!Init
    <2> QED
      BY <2>1, <2>2, <2>3 DEF HostTypes
  <1>2. FilterInv
    BY <1>1 DEF H!Init, FilterInv, H!Filters, Things
  <1> QED
    BY <1>1, <1>2 DEF H!Init, HostGood, UpInv, DownInv, H!OkMeansUp, H!DownLeavesNothing

LEMMA HostSame == ASSUME HostGood, UNCHANGED hostVars PROVE HostGood'
  BY DEF HostGood, hostVars, HostTypes, FilterInv, H!Filters, UpInv, DownInv, H!OkMeansUp,
         H!DownLeavesNothing

LEMMA StartStep ==
  ASSUME HostGood, NEW s \in {"up", "down"}, H!Start(s), Plans \in Nat
  PROVE  HostGood'
  <1>1. HostTypes'
    BY DEF H!Start, HostGood, HostTypes
  <1>2. FilterInv'
    BY DEF H!Start, HostGood, FilterInv, H!Filters
  <1>3. UpInv'
    <2> SUFFICES ASSUME script' = "up" PROVE UpInv'
      BY DEF UpInv
    <2>1. line' = 1 /\ plan' = plan /\ found' = plan
      BY DEF H!Start
    <2> QED
      BY <2>1, Lines DEF UpInv
  <1>4. DownInv'
    BY Lines DEF H!Start, DownInv
  <1> QED
    BY <1>1, <1>2, <1>3, <1>4 DEF HostGood, H!Start, H!OkMeansUp, H!DownLeavesNothing

\* A line of mesh-up that is not the last one.
LEMMA UpMoves ==
  ASSUME HostTypes, script = "up", H!Ran(H!UpLines, "ok"), line # 10
  PROVE  line' = line + 1 /\ script' = "up" /\ ended' = "none" /\ line' \in 1..10
  <1>1. line \in 1..10 /\ ended = "none"
    BY DEF HostTypes
  <1>2. line' = line + 1 /\ UNCHANGED <<script, ended>>
    BY UpTable DEF H!Ran
  <1> QED
    BY <1>1, <1>2

LEMMA AddClsactStep == ASSUME HostGood, H!AddClsact PROVE HostGood'
  <1> DEFINE d == H!UpLines[line][2]
  <1>1. script = "up" /\ line \in 1..10 /\ d \in H!Devices /\ line = ClsactLine[d]
    BY UpAt DEF H!AddClsact, H!At, HostGood, HostTypes
  <1>2. clsact' = [clsact EXCEPT ![d] = TRUE]
    BY DEF H!AddClsact
  <1> HIDE DEF d
  <1>3. line' = line + 1 /\ script' = "up" /\ ended' = "none" /\ line' \in 1..10
    BY <1>1, UpMoves, Lines DEF H!AddClsact, HostGood
  <1>4. UNCHANGED <<others, plan, hard, markers, using, found>>
    BY DEF H!AddClsact
  <1>5. HostTypes'
    BY <1>1, <1>2, <1>3, <1>4 DEF HostGood, HostTypes
  <1>6. FilterInv'
    BY <1>1, <1>2, <1>4 DEF HostGood, HostTypes, FilterInv, H!Filters
  <1>7. UpInv'
    <2>1. \A e \in H!Devices : line' > ClsactLine[e] => clsact'[e]
      BY <1>1, <1>2, <1>3, Lines DEF HostGood, HostTypes, UpInv
    <2>2. \A x \in Things : (line' > InstallLine[x]) = (line > InstallLine[x])
      BY <1>1, <1>3, Lines
    <2>3. \A x \in H!Rules : ~(line' > CheckLine[x])
      BY <1>1, <1>3, Lines
    <2> QED
      BY <1>1, <1>4, <2>1, <2>2, <2>3 DEF HostGood, UpInv
  <1> QED
    BY <1>3, <1>5, <1>6, <1>7 DEF HostGood, DownInv, H!OkMeansUp, H!DownLeavesNothing

LEMMA InstallStep ==
  ASSUME HostGood, NEW x \in Things, script = "up", line = InstallLine[x],
         H!Ran(H!UpLines, "ok"), UNCHANGED <<clsact, others, markers, using, found>>,
         plan' = [plan EXCEPT ![x] = IF @ = 0 THEN using ELSE @],
         hard' \in [H!Rules -> BOOLEAN],
         \A y \in H!Rules : y = x \/ hard'[y] = hard[y],
         x \in H!Rules => clsact[H!Device(x)]
  PROVE  HostGood'
  <1>3. line' = line + 1 /\ script' = "up" /\ ended' = "none" /\ line' \in 1..10
    BY UpMoves, Lines DEF HostGood
  <1>5. HostTypes'
    BY <1>3 DEF HostGood, HostTypes
  <1>6. FilterInv'
    BY DEF HostGood, HostTypes, FilterInv, H!Filters, Things
  <1>7. UpInv'
    <2>1. \A d \in H!Devices : line' > ClsactLine[d] => clsact'[d]
      BY <1>3, Lines DEF HostGood, HostTypes, UpInv
    <2>2. \A y \in Things : y # x => (line' > InstallLine[y]) = (line > InstallLine[y])
      BY <1>3, Lines
    <2>3. \A y \in Things : y # x => plan'[y] = plan[y]
      BY DEF HostGood, HostTypes
    <2>4. line' > InstallLine[x] /\ plan'[x] # 0 /\ plan'[x] \in {using, found[x]}
      <3>1. plan[x] = found[x]
        BY Lines DEF HostGood, UpInv
      <3> QED
        BY <3>1, <1>3, Lines DEF HostGood, HostTypes
    <2>5. \A y \in H!Rules : line' > CheckLine[y] => line > CheckLine[y] /\ y # x
      BY <1>3, Lines
    <2> QED
      BY <2>1, <2>2, <2>3, <2>4, <2>5 DEF HostGood, UpInv
  <1> QED
    BY <1>3, <1>5, <1>6, <1>7 DEF HostGood, DownInv, H!OkMeansUp, H!DownLeavesNothing

LEMMA AddRuleStep == ASSUME HostGood, H!AddRule PROVE HostGood'
  <1> DEFINE x == H!UpLines[line][2]
  <1>1. script = "up" /\ line \in 1..10 /\ x \in H!Rules /\ line = InstallLine[x]
    BY UpAt DEF H!AddRule, H!At, HostGood, HostTypes
  <1>2. H!Ran(H!UpLines, "ok") /\ UNCHANGED <<clsact, others, markers, using, found>>
    BY DEF H!AddRule
  <1>3. IF plan[x] # 0 THEN UNCHANGED <<plan, hard>>
        ELSE /\ plan' = [plan EXCEPT ![x] = using]
             /\ \E h \in BOOLEAN : hard' = [hard EXCEPT ![x] = h]
    BY DEF H!AddRule
  <1> HIDE DEF x
  <1>4. x \in Things /\ plan \in [Things -> Nat] /\ hard \in [H!Rules -> BOOLEAN]
    BY <1>1 DEF HostGood, HostTypes, Things
  <1>5. plan' = [plan EXCEPT ![x] = IF @ = 0 THEN using ELSE @]
    BY <1>3, <1>4
  <1>6. hard' \in [H!Rules -> BOOLEAN] /\ \A y \in H!Rules : y = x \/ hard'[y] = hard[y]
    BY <1>3, <1>4
  <1>7. clsact[H!Device(x)]
    BY <1>1, Lines DEF HostGood, UpInv, H!Device
  <1> QED
    BY <1>1, <1>2, <1>4, <1>5, <1>6, <1>7, InstallStep

LEMMA AddRouteStep == ASSUME HostGood, H!AddRoute PROVE HostGood'
  <1> DEFINE x == H!UpLines[line][2]
  <1>1. script = "up" /\ line \in 1..10 /\ x \in H!Routes /\ line = InstallLine[x]
    BY UpAt DEF H!AddRoute, H!At, HostGood, HostTypes
  <1>2. /\ H!Ran(H!UpLines, "ok") /\ UNCHANGED <<clsact, others, hard, markers, using, found>>
        /\ plan' = [plan EXCEPT ![x] = IF @ = 0 THEN using ELSE @]
    BY DEF H!AddRoute
  <1> HIDE DEF x
  <1>3. x \in Things /\ x \notin H!Rules
    BY <1>1, Lines
  <1>4. hard' \in [H!Rules -> BOOLEAN] /\ \A y \in H!Rules : hard'[y] = hard[y]
    BY <1>2 DEF HostGood, HostTypes
  <1> QED
    BY <1>1, <1>2, <1>3, <1>4, InstallStep

LEMMA LeaveStep ==
  ASSUME HostGood, NEW how \in {"failed", "down"}, H!Leave(how),
         UNCHANGED <<clsact, others, plan, hard, using, found>>, markers' \in BOOLEAN,
         how = "down" => H!DownLeavesNothing'
  PROVE  HostGood'
  <1>1. HostTypes'
    BY DEF HostGood, HostTypes, H!Leave
  <1> QED
    BY <1>1 DEF HostGood, FilterInv, H!Filters, UpInv, DownInv, H!Leave, H!OkMeansUp,
                H!DownLeavesNothing

LEMMA CheckRuleStep == ASSUME HostGood, H!CheckRule PROVE HostGood'
  <1> DEFINE x == H!UpLines[line][2]
  <1>1. script = "up" /\ line \in 1..10 /\ x \in H!Rules /\ line = CheckLine[x]
    BY UpAt DEF H!CheckRule, H!At, HostGood, HostTypes
  <1>2. /\ IF hard[x] THEN H!Ran(H!UpLines, "ok") ELSE H!Leave("failed")
        /\ UNCHANGED <<clsact, others, plan, hard, markers, using, found>>
    BY DEF H!CheckRule
  <1> HIDE DEF x
  <1>3. CASE ~hard[x]
    BY <1>2, <1>3, LeaveStep DEF HostGood, HostTypes
  <1>4. CASE hard[x]
    <2>1. line' = line + 1 /\ script' = "up" /\ ended' = "none" /\ line' \in 1..10
      BY <1>1, <1>2, <1>4, UpMoves, Lines DEF HostGood
    <2>2. HostTypes'
      BY <1>2, <2>1 DEF HostGood, HostTypes
    <2>3. UpInv'
      <3>1. \A d \in H!Devices : (line' > ClsactLine[d]) = (line > ClsactLine[d])
        BY <1>1, <2>1, Lines
      <3>2. \A y \in Things : (line' > InstallLine[y]) = (line > InstallLine[y])
        BY <1>1, <2>1, Lines
      <3>3. \A y \in H!Rules : line' > CheckLine[y] => y = x \/ line > CheckLine[y]
        BY <1>1, <2>1, Lines
      <3> QED
        BY <1>1, <1>2, <1>4, <3>1, <3>2, <3>3 DEF HostGood, UpInv
    <2> QED
      BY <1>2, <2>1, <2>2, <2>3 DEF HostGood, FilterInv, H!Filters, DownInv, H!OkMeansUp,
                                    H!DownLeavesNothing
  <1> QED
    BY <1>3, <1>4

LEMMA RestartStep == ASSUME HostGood, H!RestartMarkers PROVE HostGood'
  <1>1. script = "up" /\ line = 9
    BY UpAt DEF H!RestartMarkers, H!At, HostGood, HostTypes
  <1>2. markers' \in BOOLEAN /\ UNCHANGED <<clsact, others, plan, hard, using, found>>
    BY DEF H!RestartMarkers
  <1>3. line' = 10 /\ script' = "up" /\ ended' = "none"
    BY <1>1, UpMoves DEF H!RestartMarkers, HostGood
  <1>4. HostTypes'
    BY <1>2, <1>3 DEF HostGood, HostTypes
  <1>5. UpInv'
    BY <1>1, <1>2, <1>3, Lines DEF HostGood, UpInv
  <1> QED
    BY <1>2, <1>3, <1>4, <1>5 DEF HostGood, FilterInv, H!Filters, DownInv, H!OkMeansUp,
                                  H!DownLeavesNothing

\* The last line of mesh-up: everything before it has succeeded.
LEMMA CheckMarkersStep == ASSUME HostGood, H!CheckMarkers PROVE HostGood'
  <1>1. script = "up" /\ line = 10
    BY UpAt DEF H!CheckMarkers, H!At, HostGood, HostTypes
  <1>2. UNCHANGED <<clsact, others, plan, hard, markers, using, found>>
    BY DEF H!CheckMarkers
  <1>3. CASE ~markers
    BY <1>2, <1>3, LeaveStep DEF H!CheckMarkers, HostGood, HostTypes
  <1>4. CASE markers
    <2>1. H!Leave("ok")
      BY <1>1, <1>4, UpTable DEF H!CheckMarkers, H!Ran
    <2>2. HostTypes'
      BY <1>2, <2>1 DEF HostGood, HostTypes, H!Leave
    <2>3. H!OkMeansUp'
      <3>1. \A x \in H!Rules : hard[x] /\ clsact[H!Device(x)]
        BY <1>1, Lines DEF HostGood, UpInv, H!Device
      <3>2. \A x \in Things : plan[x] # 0 /\ plan[x] \in {using, found[x]}
        BY <1>1, Lines DEF HostGood, UpInv
      <3> QED
        BY <1>2, <1>4, <3>1, <3>2 DEF H!OkMeansUp, Things, H!Device
    <2> QED
      BY <1>2, <2>1, <2>2, <2>3 DEF HostGood, FilterInv, H!Filters, UpInv, DownInv, H!Leave,
                                    H!DownLeavesNothing
  <1> QED
    BY <1>3, <1>4

\* A line of mesh-down: it goes on, or was the last one.
LEMMA DownMoves ==
  ASSUME HostTypes, script = "down", H!Ran(H!DownLines, "down")
  PROVE  /\ line \in 1..7 /\ ended = "none"
         /\ line # 7 => line' = line + 1 /\ script' = "down" /\ ended' = "none"
         /\ line = 7 => line' = 0 /\ script' = "none" /\ ended' = "down"
  <1>1. line \in 1..7 /\ ended = "none"
    BY DEF HostTypes
  <1>2. CASE line = 7
    BY <1>1, <1>2, DownTable DEF H!Ran, H!Leave
  <1>3. CASE line # 7
    <2>1. line' = line + 1 /\ UNCHANGED <<script, ended>>
      BY <1>3, DownTable DEF H!Ran
    <2> QED
      BY <1>1, <1>3, <2>1
  <1> QED
    BY <1>2, <1>3

LEMMA StopMarkersStep == ASSUME HostGood, H!StopMarkers PROVE HostGood'
  <1>1. script = "down" /\ line = 1
    BY DownAt DEF H!StopMarkers, H!At, HostGood, HostTypes
  <1>2. ~markers' /\ markers' \in BOOLEAN /\ UNCHANGED <<clsact, others, plan, hard, using, found>>
    BY DEF H!StopMarkers
  <1>3. line' = 2 /\ script' = "down" /\ ended' = "none"
    BY <1>1, DownMoves DEF H!StopMarkers, HostGood
  <1>4. HostTypes'
    BY <1>2, <1>3 DEF HostGood, HostTypes
  <1>5. DownInv'
    BY <1>1, <1>2, <1>3, Lines DEF HostGood, DownInv
  <1> QED
    BY <1>2, <1>3, <1>4, <1>5 DEF HostGood, FilterInv, H!Filters, UpInv, H!OkMeansUp,
                                  H!DownLeavesNothing

LEMMA DeleteStep ==
  ASSUME HostGood, NEW c \in {"rule", "route"}, H!Delete(c) PROVE HostGood'
  <1> DEFINE x == H!DownLines[line][2]
  <1>1. script = "down" /\ line \in 1..7 /\ x \in Things /\ line = DeleteLine[x]
    BY DownAt DEF H!Delete, H!At, HostGood, HostTypes
  <1>2. /\ plan' = [plan EXCEPT ![x] = 0]
        /\ hard' = IF x \in H!Rules THEN [hard EXCEPT ![x] = FALSE] ELSE hard
        /\ H!Ran(H!DownLines, "down")
        /\ UNCHANGED <<clsact, others, markers, using, found>>
    BY DEF H!Delete
  <1> HIDE DEF x
  <1>3. /\ line # 7 => line' = line + 1 /\ script' = "down" /\ ended' = "none"
        /\ line = 7 => line' = 0 /\ script' = "none" /\ ended' = "down"
    BY <1>1, <1>2, DownMoves DEF HostGood
  <1>4. plan' \in [Things -> Nat] /\ plan'[x] = 0
        /\ \A y \in Things : plan'[y] # 0 => plan[y] # 0
    BY <1>1, <1>2 DEF HostGood, HostTypes
  <1>5. hard' \in [H!Rules -> BOOLEAN]
    BY <1>2 DEF HostGood, HostTypes
  <1>6. HostTypes'
    BY <1>1, <1>2, <1>3, <1>4, <1>5 DEF HostGood, HostTypes
  <1>7. FilterInv'
    BY <1>2, <1>4 DEF HostGood, FilterInv, H!Filters, Things
  <1>8. \A y \in Things : line >= DeleteLine[y] => plan'[y] = 0
    <2> SUFFICES ASSUME NEW y \in Things, line >= DeleteLine[y] PROVE plan'[y] = 0
      OBVIOUS
    <2>1. y = x \/ line > DeleteLine[y]
      BY <1>1, Lines
    <2> QED
      BY <1>1, <1>4, <2>1 DEF HostGood, DownInv, HostTypes
  <1>9. ~markers /\ \A d \in H!Devices : line + 1 > RemoveLine[d] => clsact[d] = others[d]
    BY <1>1, Lines DEF HostGood, DownInv
  <1>10. DownInv'
    <2>1. \A y \in Things : line + 1 > DeleteLine[y] => line >= DeleteLine[y]
      BY <1>1, Lines
    <2> QED
      BY <1>2, <1>3, <1>8, <1>9, <2>1 DEF DownInv
  <1>11. H!DownLeavesNothing'
    <2> SUFFICES ASSUME line = 7 PROVE H!DownLeavesNothing'
      BY <1>3 DEF H!DownLeavesNothing
    <2>1. \A y \in Things : plan'[y] = 0
      BY <1>8, Lines
    <2>2. clsact = others
      <3>1. \A d \in H!Devices : clsact[d] = others[d]
        BY <1>9, Lines
      <3> QED
        BY <3>1 DEF HostGood, HostTypes
    <2> QED
      BY <1>2, <1>9, <2>1, <2>2 DEF H!DownLeavesNothing, Things
  <1> QED
    BY <1>3, <1>6, <1>7, <1>10, <1>11 DEF HostGood, UpInv, H!OkMeansUp

LEMMA DelClsactStep == ASSUME HostGood, H!DelClsact PROVE HostGood' /\ others' = others
  <1> DEFINE d == H!DownLines[line][2]
  <1>1. script = "down" /\ line \in 1..7 /\ d \in H!Devices /\ line = RemoveLine[d]
    BY DownAt DEF H!DelClsact, H!At, HostGood, HostTypes
  <1>2. /\ clsact' = [clsact EXCEPT ![d] = @ /\ (H!Filters(d) # {} \/ others[d])]
        /\ others' = [others EXCEPT ![d] = @ /\ clsact'[d]]
        /\ H!Ran(H!DownLines, "down")
        /\ UNCHANGED <<plan, hard, markers, using, found>>
    BY DEF H!DelClsact
  <1> HIDE DEF d
  <1>3. line' = line + 1 /\ script' = "down" /\ ended' = "none"
    BY <1>1, <1>2, DownMoves, Lines DEF HostGood
  <1>4. clsact'[d] = (H!Filters(d) # {} \/ others[d])
    BY <1>1, <1>2 DEF HostGood, HostTypes, FilterInv
  <1>5. others' = others
    BY <1>1, <1>2, <1>4 DEF HostGood, HostTypes
  <1>6. clsact' \in [H!Devices -> BOOLEAN] /\ \A e \in H!Devices : e # d => clsact'[e] = clsact[e]
    BY <1>1, <1>2 DEF HostGood, HostTypes
  <1>7. HostTypes'
    BY <1>1, <1>2, <1>3, <1>5, <1>6, Lines DEF HostGood, HostTypes
  <1>8. FilterInv'
    BY <1>2, <1>4, <1>5, <1>6 DEF HostGood, FilterInv, H!Filters
  <1>9. H!Filters(d) = {}
    BY <1>1, Lines DEF HostGood, DownInv, H!Filters, H!Device
  <1>10. DownInv'
    <2>1. \A y \in Things : (line' > DeleteLine[y]) = (line > DeleteLine[y])
      BY <1>1, <1>3, Lines
    <2>2. \A e \in H!Devices : line' > RemoveLine[e] => e = d \/ line > RemoveLine[e]
      BY <1>1, <1>3, Lines
    <2>3. \A e \in H!Devices : line' > RemoveLine[e] => clsact'[e] = others'[e]
      BY <1>1, <1>4, <1>5, <1>6, <1>9, <2>2 DEF HostGood, HostTypes, DownInv
    <2>4. ~markers
      BY <1>1, Lines DEF HostGood, DownInv
    <2> QED
      BY <1>1, <1>2, <1>3, <2>1, <2>3, <2>4 DEF HostGood, DownInv
  <1> QED
    BY <1>3, <1>5, <1>7, <1>8, <1>10 DEF HostGood, UpInv, H!OkMeansUp, H!DownLeavesNothing

LEMMA HostStep ==
  ASSUME HostGood, H!Next, Plans \in Nat PROVE HostGood' /\ others' = others
  <1>1. CASE \E s \in {"up", "down"} : H!Start(s)
    BY <1>1, StartStep DEF H!Start
  <1>2. CASE H!AddClsact
    BY <1>2, AddClsactStep DEF H!AddClsact
  <1>3. CASE H!AddRule
    BY <1>3, AddRuleStep DEF H!AddRule
  <1>4. CASE H!CheckRule
    BY <1>4, CheckRuleStep DEF H!CheckRule
  <1>5. CASE H!AddRoute
    BY <1>5, AddRouteStep DEF H!AddRoute
  <1>6. CASE H!RestartMarkers
    BY <1>6, RestartStep DEF H!RestartMarkers
  <1>7. CASE H!CheckMarkers
    BY <1>7, CheckMarkersStep DEF H!CheckMarkers
  <1>8. CASE H!StopMarkers
    BY <1>8, StopMarkersStep DEF H!StopMarkers
  <1>9. CASE H!Delete("rule") \/ H!Delete("route")
    BY <1>9, DeleteStep DEF H!Delete
  <1>10. CASE H!DelClsact
    BY <1>10, DelClsactStep
  <1>11. CASE H!Kill
    BY <1>11, LeaveStep DEF H!Kill, HostGood, HostTypes
  <1>12. CASE H!Stop
    BY <1>12, HostSame DEF H!Stop, H!vars, hostVars
  <1> QED
    BY <1>1, <1>2, <1>3, <1>4, <1>5, <1>6, <1>7, <1>8, <1>9, <1>10, <1>11, <1>12 DEF H!Next

LEMMA HostInductive ==
  ASSUME HostInv, [ToolsNext]_toolsVars
  PROVE  HostInv' /\ (tool = "host" => others' = others)
  <1> SUFFICES ASSUME tool = "host" PROVE HostGood' /\ others' = others
    BY DEF HostInv, ToolsNext, toolsVars
  <1>1. CASE H!Next
    BY <1>1, HostStep, ToolsAssumption DEF HostInv
  <1>2. CASE UNCHANGED toolsVars
    BY <1>2, HostSame DEF HostInv, toolsVars, hostVars
  <1> QED
    BY <1>1, <1>2 DEF ToolsNext

LEMMA HostHolds == ToolsSpec => []HostInv
  <1>1. ToolsInit => HostInv
    BY HostStarts DEF ToolsInit, HostInv
  <1>2. HostInv /\ [ToolsNext]_toolsVars => HostInv'
    BY HostInductive
  <1> QED
    BY <1>1, <1>2, PTL DEF ToolsSpec, toolsVars

\* mesh-up that says OK has everything up, whatever was left of earlier runs, of
\* earlier plans and of runs that were killed (host_scripts of plan.py).
THEOREM UpHolds == ToolsSpec => []OkMeansUp
  <1>1. HostInv => OkMeansUp
    BY DEF HostInv, HostGood, OkMeansUp
  <1> QED
    BY <1>1, HostHolds, PTL

\* mesh-down that ended has left nothing, however the runs before it ended.
THEOREM DownHolds == ToolsSpec => []DownLeavesNothing
  <1>1. HostInv => DownLeavesNothing
    BY DEF HostInv, HostGood, DownLeavesNothing
  <1> QED
    BY <1>1, HostHolds, PTL

\* No step of a script takes away a filter of somebody else: where one is, the
\* queueing discipline stays (plan.py lines 201 to 203).
THEOREM OthersStay == ToolsSpec => OthersKept
  <1>1. HostInv /\ [ToolsNext]_toolsVars => [tool = "host" => others' = others]_hostVars
    BY HostInductive
  <1> QED
    BY <1>1, HostHolds, PTL DEF ToolsSpec, OthersKept, toolsVars

-----------------------------------------------------------------------------
(***************************************************************************)
(* The multi-block kernel.                                                 *)
(***************************************************************************)

KernelInv == tool = "kernel" => K!MBInv

LEMMA KernelSame == ASSUME K!MBInv, UNCHANGED kernelVars PROVE K!MBInv'
  <1>1. UNCHANGED K!vars
    BY DEF kernelVars, K!vars, K!engineVars, K!kernelVars, K!peerVars
  <1> QED
    BY <1>1, K!MBStep, ToolsAssumption

\* K and M name the same actions.
LEMMA SameKernel == (M!Next => K!Next) /\ (M!PublishedWhole <=> K!PublishedWhole)
  <1>1. M!Submit => K!Submit
    BY DEF M!Submit, K!Submit, M!Stopped, K!Stopped, M!Ids, K!Ids, M!At, K!At,
           M!Phases, K!Phases, M!peerVars, K!peerVars
  <1>2. M!Advance => K!Advance
    BY DEF M!Advance, K!Advance, M!kernelVars, K!kernelVars, M!peerVars, K!peerVars
  <1>3. M!GiveUp => K!GiveUp
    BY DEF M!GiveUp, K!GiveUp, M!kernelVars, K!kernelVars, M!peerVars, K!peerVars
  <1>4. ASSUME NEW b, NEW p, M!Block(b, p) PROVE K!Block(b, p)
    <2>1. M!Write(b, p) => K!Write(b, p)
    BY DEF M!Write, K!Write, M!Go, K!Go, M!At, K!At, M!engineVars, K!engineVars,
           M!peerVars, K!peerVars
    <2>2. M!Arrive(b, p) => K!Arrive(b, p)
    BY DEF M!Arrive, K!Arrive, M!Go, K!Go, M!At, K!At, M!After, K!After, M!Over,
           K!Over, M!Target, K!Target, M!engineVars, K!engineVars, M!peerVars,
           K!peerVars
    <2>3. M!Publish(b, p) => K!Publish(b, p)
    BY DEF M!Publish, K!Publish, M!Go, K!Go, M!At, K!At, M!After, K!After, M!Over,
           K!Over, M!engineVars, K!engineVars, M!peerVars, K!peerVars
    <2>4. M!Wait(b, p) => K!Wait(b, p)
    BY DEF M!Wait, K!Wait, M!Outcome, K!Outcome, M!Released, K!Released, M!Go, K!Go,
           M!At, K!At, M!engineVars, K!engineVars, M!peerVars, K!peerVars
    <2>5. M!Rest(b, p) => K!Rest(b, p)
    BY DEF M!Rest, K!Rest, M!Go, K!Go, M!At, K!At, M!engineVars, K!engineVars,
           M!peerVars, K!peerVars
    <2> QED
      BY <1>4, <2>1, <2>2, <2>3, <2>4, <2>5 DEF M!Block, K!Block
  <1>5. ASSUME NEW p PROVE (M!Ring(p) => K!Ring(p)) /\ (M!PeerAborts(p) => K!PeerAborts(p))
    BY DEF M!Ring, K!Ring, M!PeerAborts, K!PeerAborts, M!engineVars, K!engineVars,
           M!kernelVars, K!kernelVars
  <1>6. M!Finished => K!Finished
    BY DEF M!Finished, K!Finished, M!Stopped, K!Stopped, M!Ids, K!Ids, M!vars,
           K!vars, M!engineVars, K!engineVars, M!kernelVars, K!kernelVars,
           M!peerVars, K!peerVars
  <1>7. M!PublishedWhole <=> K!PublishedWhole
    BY DEF M!PublishedWhole, K!PublishedWhole, M!Phases, K!Phases, M!Ids, K!Ids
  <1> QED
    BY <1>1, <1>2, <1>3, <1>4, <1>5, <1>6, <1>7 DEF M!Next, K!Next, M!Ids, K!Ids, M!Phases,
       K!Phases

\* A word that the kernel published is behind the shards of all its blocks,
\* whatever the numbers of blocks of its ops (ar2_fused_kernel_mb).
THEOREM WordsWhole == ToolsSpec => []PublishedWhole
  <1>1. ToolsInit => KernelInv
    <2>1. ToolsInit /\ tool = "kernel" => K!Init
      BY DEF ToolsInit, M!Init, K!Init, M!Phases, K!Phases, M!Over, K!Over, M!At, K!At
    <2> QED
      BY <2>1, K!InitMB, ToolsAssumption DEF KernelInv
  <1>2. KernelInv /\ [ToolsNext]_toolsVars => KernelInv'
    <2> SUFFICES ASSUME KernelInv, [ToolsNext]_toolsVars, tool = "kernel" PROVE K!MBInv'
      BY DEF KernelInv, ToolsNext, toolsVars
    <2>1. CASE M!Next
      <3>1. K!Next
        BY <2>1, SameKernel
      <3> QED
        BY <3>1, K!MBStep, ToolsAssumption DEF KernelInv
    <2>2. CASE UNCHANGED toolsVars
      BY <2>2, KernelSame DEF KernelInv, toolsVars
    <2> QED
      BY <2>1, <2>2 DEF ToolsNext
  <1>3. KernelInv => PublishedWhole
    BY SameKernel, K!MBWhole DEF KernelInv, PublishedWhole
  <1> QED
    BY <1>1, <1>2, <1>3, PTL DEF ToolsSpec, toolsVars

-----------------------------------------------------------------------------
(***************************************************************************)
(* The patcher.  First what replacing the first occurrence of an element   *)
(* does to a sequence.                                                     *)
(***************************************************************************)

\* The texts of the tree.
Words ==
  {"rest", "pat 6", "pat 6, 2hop 7", "algorithms 7", "algorithms 8", "algo names",
   "algo names, 2hop", "graphs", "graphs, ring", "threads", "2hop threads",
   "namespace end", "run2Hop", "simple", "ll", "ll128"}

Texts == Seq(Words)
Occurs(t, s) == \E i \in DOMAIN s : s[i] = t
Once(s) == \A i, j \in DOMAIN s : s[i] = s[j] => i = j

LEMMA SubSeqIn ==
  ASSUME NEW s, NEW x
  PROVE  x \in T!SubSeqs(s) <=> \E i \in 0..Len(s), j \in 0..Len(s) : x = SubSeq(s, i + 1, j)
  BY DEF T!SubSeqs

LEMMA TextFacts ==
  ASSUME NEW s \in Texts
  PROVE Len(s) \in Nat /\ DOMAIN s = 1 .. Len(s) /\ \A i \in DOMAIN s : s[i] \in Words
  BY DEF Texts

LEMMA Part ==
  ASSUME NEW s \in Texts, NEW m \in 1 .. Len(s) + 1, NEW n \in 0 .. Len(s), m <= n + 1
  PROVE  /\ SubSeq(s, m, n) \in Texts
         /\ Len(SubSeq(s, m, n)) = n - m + 1
         /\ DOMAIN SubSeq(s, m, n) = 1 .. n - m + 1
         /\ \A i \in 1 .. n - m + 1 : SubSeq(s, m, n)[i] = s[m + i - 1]
  <1>1. m \in Int /\ n \in Int /\ \A i \in m .. n : s[i] \in Words
    BY TextFacts
  <1>2. /\ SubSeq(s, m, n) \in Seq(Words)
        /\ Len(SubSeq(s, m, n)) = IF m <= n THEN n - m + 1 ELSE 0
        /\ \A i \in 1 .. n - m + 1 : SubSeq(s, m, n)[i] = s[m + i - 1]
    BY ONLY <1>1, SubSeqProperties
  <1>3. Len(SubSeq(s, m, n)) = n - m + 1
    BY ONLY <1>1, <1>2, m <= n + 1
  <1>4. SubSeq(s, m, n) \in Texts
    BY <1>2 DEF Texts
  <1> QED
    BY <1>2, <1>3, <1>4, TextFacts

LEMMA OneElement == ASSUME NEW S, NEW a \in S PROVE <<a>> \in Seq(S)
  OBVIOUS

LEMMA TwoElements == ASSUME NEW S, NEW a \in S, NEW b \in S PROVE <<a, b>> \in Seq(S)
  OBVIOUS

LEMMA ThreeElements ==
  ASSUME NEW S, NEW a \in S, NEW b \in S, NEW c \in S PROVE <<a, b, c>> \in Seq(S)
  OBVIOUS

LEMMA Single == ASSUME NEW a \in Words PROVE <<a>> \in Texts /\ Len(<<a>>) = 1 /\ <<a>>[1] = a
  BY OneElement DEF Texts

LEMMA Equal ==
  ASSUME NEW s \in Texts, NEW t \in Texts, Len(s) = Len(t), \A i \in 1 .. Len(s) : s[i] = t[i]
  PROVE s = t
  BY SeqEqual DEF Texts

LEMMA OneEqual ==
  ASSUME NEW s \in Texts, NEW t \in Texts, Len(s) = 1, Len(t) = 1, s[1] = t[1]
  PROVE  s = t
  <1>1. \A i \in 1 .. Len(s) : s[i] = t[i]
    OBVIOUS
  <1> QED
    BY <1>1, Equal

LEMMA Singleton ==
  ASSUME NEW s \in Texts, NEW a \in Words PROVE <<a>> \in T!SubSeqs(s) <=> Occurs(a, s)
  <1> DEFINE x == <<a>>
  <1>1. x \in Texts /\ Len(x) = 1 /\ x[1] = a
    BY Single
  <1> HIDE DEF x
  <1>2. ASSUME x \in T!SubSeqs(s) PROVE Occurs(a, s)
    <2>1. PICK i \in 0..Len(s), j \in 0..Len(s) : x = SubSeq(s, i + 1, j)
      BY <1>2, SubSeqIn
    <2>2. i + 1 <= j
      <3>1. CASE j < i + 1
        <4>1. SubSeq(s, i + 1, j) = <<>>
          BY <3>1, TextFacts, SubSeqEmpty
        <4> QED
          BY <1>1, <2>1, <4>1
      <3> QED
        BY <3>1, TextFacts
    <2>3. Len(x) = j - (i + 1) + 1 /\ x[1] = s[i + 1 + 1 - 1]
      BY <2>1, <2>2, Part, TextFacts
    <2>4. i + 1 + 1 - 1 = i + 1 /\ i + 1 \in 1 .. Len(s)
      BY <2>2, TextFacts
    <2>4a. i + 1 \in DOMAIN s /\ s[i + 1] = a
      BY <1>1, <2>3, <2>4, TextFacts
    <2> QED
      BY <2>4a DEF Occurs
  <1>3. ASSUME Occurs(a, s) PROVE x \in T!SubSeqs(s)
    <2>1. PICK i \in DOMAIN s : s[i] = a
      BY <1>3 DEF Occurs
    <2>2. i \in 1 .. Len(s)
      BY TextFacts
    <2> DEFINE y == SubSeq(s, i, i)
    <2>3. y \in Texts /\ Len(y) = 1 /\ y[1] = a
      <3>1. i \in 1 .. Len(s) + 1 /\ i \in 0 .. Len(s) /\ i <= i + 1 /\ i - i + 1 = 1
            /\ i + 1 - 1 = i
        BY <2>2, TextFacts
      <3>2. /\ y \in Texts /\ Len(y) = i - i + 1
            /\ \A k \in 1 .. i - i + 1 : y[k] = s[i + k - 1]
        BY <3>1, Part
      <3>3. y[1] = s[i + 1 - 1]
        BY <3>1, <3>2
      <3> QED
        BY <2>1, <3>1, <3>2, <3>3
    <2>4. y \in T!SubSeqs(s)
      <3>1. i - 1 \in 0..Len(s) /\ i \in 0..Len(s) /\ (i - 1) + 1 = i
        BY <2>2, TextFacts
      <3> QED
        BY <3>1, SubSeqIn
    <2> HIDE DEF y
    <2>5. y = x
      BY <1>1, <2>3, OneEqual
    <2> QED
      BY <2>4, <2>5
  <1> QED
    BY <1>2, <1>3 DEF x

Spliced(r, i, s) == SubSeq(s, 1, i - 1) \o r \o SubSeq(s, i + 1, Len(s))

LEMMA FirstReplaced ==
  ASSUME NEW s \in Texts, NEW r \in Texts, NEW i \in DOMAIN s, Once(s)
  PROVE  T!ReplaceFirstSubSeq(r, <<s[i]>>, s) = Spliced(r, i, s)
  <1> DEFINE x == <<s[i]>>
  <1>1. i \in 1 .. Len(s) /\ s[i] \in Words /\ Len(s) \in Nat
    BY TextFacts
  <1>2. Len(x) = 1 /\ \A t \in Texts : x \in T!SubSeqs(t) <=> Occurs(s[i], t)
    BY <1>1, Single, Singleton
  <1> HIDE DEF x
  <1>3. ASSUME NEW k \in 0 .. Len(s) PROVE x \in T!SubSeqs(SubSeq(s, 1, k)) <=> i <= k
    <2> DEFINE u == SubSeq(s, 1, k)
    <2>1. u \in Texts /\ DOMAIN u = 1..k /\ \A j \in 1..k : u[j] = s[j]
      BY <1>1, Part
    <2> HIDE DEF u
    <2>2. Occurs(s[i], u) <=> i <= k
      BY <1>1, <2>1, TextFacts DEF Occurs, Once
    <2>3. x \in T!SubSeqs(u) <=> i <= k
      BY <1>2, <2>1, <2>2
    <2> QED
      BY <2>3 DEF u
  <1>4. T!IndexFirstSubSeq(x, s) = i
    <2> DEFINE P(k) == /\ x \in T!SubSeqs(SubSeq(s, 1, k))
                       /\ \A j \in 0 .. k - 1 : x \notin T!SubSeqs(SubSeq(s, 1, j))
    <2>1. i \in 0 .. Len(s) /\ P(i)
      BY <1>1, <1>3
    <2>2. \A k \in 0 .. Len(s) : P(k) => k = i
      BY <1>1, <1>3
    <2>3. T!IndexFirstSubSeq(x, s) = (CHOOSE k \in 0 .. Len(s) : P(k)) - (Len(x) - 1)
      BY DEF T!IndexFirstSubSeq
    <2> HIDE DEF P
    <2>4. (CHOOSE k \in 0 .. Len(s) : P(k)) = i
      BY <2>1, <2>2
    <2>5. i - (Len(x) - 1) = i
      BY <1>1, <1>2
    <2> QED
      BY <2>3, <2>4, <2>5
  <1>5. x \in T!SubSeqs(s)
    BY <1>1, <1>2 DEF Occurs
  <1>6. T!ReplaceFirstSubSeq(r, x, s) = Spliced(r, i, s)
    BY <1>2, <1>4, <1>5 DEF T!ReplaceFirstSubSeq, T!ReplaceSubSeqAt, Spliced
  <1> QED
    BY <1>6 DEF x

LEMMA Joined ==
  ASSUME NEW s \in Texts, NEW t \in Texts
  PROVE  /\ s \o t \in Texts
         /\ Len(s \o t) = Len(s) + Len(t)
         /\ \A k \in 1 .. Len(s) : (s \o t)[k] = s[k]
         /\ \A k \in 1 .. Len(t) : (s \o t)[Len(s) + k] = t[k]
  <1>1. s \in Seq(Words) /\ t \in Seq(Words) /\ Len(s) \in Nat /\ Len(t) \in Nat
    BY TextFacts DEF Texts
  <1>2. /\ s \o t \in Seq(Words)
        /\ Len(s \o t) = Len(s) + Len(t)
        /\ \A i \in 1 .. Len(s) + Len(t) : (s \o t)[i] =
                     IF i <= Len(s) THEN s[i] ELSE t[i - Len(s)]
    BY ONLY <1>1, ConcatProperties
  <1>3. ASSUME NEW k \in 1 .. Len(s) PROVE (s \o t)[k] = s[k]
    BY <1>1, <1>2
  <1>4. ASSUME NEW k \in 1 .. Len(t) PROVE (s \o t)[Len(s) + k] = t[k]
    <2>1. /\ Len(s) + k \in 1 .. Len(s) + Len(t) /\ ~(Len(s) + k <= Len(s))
          /\ (Len(s) + k) - Len(s) = k
      BY <1>1
    <2> QED
      BY <1>2, <2>1
  <1> QED
    BY <1>2, <1>3, <1>4 DEF Texts

LEMMA SplicedElements ==
  ASSUME NEW s \in Texts, NEW r \in Texts, NEW i \in DOMAIN s
  PROVE  /\ Spliced(r, i, s) \in Texts
         /\ Len(Spliced(r, i, s)) = (i - 1) + Len(r) + (Len(s) - i)
         /\ \A k \in 1 .. i - 1 : Spliced(r, i, s)[k] = s[k]
         /\ \A k \in 1 .. Len(r) : Spliced(r, i, s)[(i - 1) + k] = r[k]
         /\ \A k \in 1 .. Len(s) - i : Spliced(r, i, s)[(i - 1) + Len(r) + k] = s[i + k]
  <1> DEFINE b == SubSeq(s, 1, i - 1)
             e == SubSeq(s, i + 1, Len(s))
  <1>1. i \in 1 .. Len(s) /\ Len(s) \in Nat /\ Len(r) \in Nat
    BY TextFacts
  <1>2. b \in Texts /\ Len(b) = i - 1 /\ \A k \in 1 .. i - 1 : b[k] = s[k]
    <2>1. /\ 1 \in 1 .. Len(s) + 1 /\ i - 1 \in 0 .. Len(s) /\ 1 <= (i - 1) + 1
          /\ (i - 1) - 1 + 1 = i - 1 /\ \A k \in 1 .. i - 1 : 1 + k - 1 = k
      BY <1>1
    <2>2. /\ b \in Texts /\ Len(b) = (i - 1) - 1 + 1
          /\ \A k \in 1 .. (i - 1) - 1 + 1 : b[k] = s[1 + k - 1]
      BY <2>1, Part
    <2> QED
      BY <2>1, <2>2
  <1>3. e \in Texts /\ Len(e) = Len(s) - i /\ \A k \in 1 .. Len(s) - i : e[k] = s[i + k]
    <2>1. Len(s) - (i + 1) + 1 = Len(s) - i /\ \A k \in 1 .. Len(s) - i : i + 1 + k - 1 = i + k
      BY <1>1
    <2>2. i + 1 \in 1 .. Len(s) + 1 /\ Len(s) \in 0 .. Len(s) /\ i + 1 <= Len(s) + 1
      BY <1>1
    <2>3. /\ e \in Texts /\ Len(e) = Len(s) - (i + 1) + 1
          /\ \A k \in 1 .. Len(s) - (i + 1) + 1 : e[k] = s[i + 1 + k - 1]
      BY <2>2, Part
    <2> QED
      BY <2>1, <2>3
  <1>4. Spliced(r, i, s) = (b \o r) \o e
    BY DEF Spliced
  <1> HIDE DEF b, e
  <1> DEFINE c == b \o r
  <1>5. /\ c \in Texts /\ Len(c) = i - 1 + Len(r)
        /\ \A k \in 1 .. i - 1 : c[k] = s[k]
        /\ \A k \in 1 .. Len(r) : c[(i - 1) + k] = r[k]
    <2>1. /\ c \in Texts /\ Len(c) = Len(b) + Len(r)
          /\ \A k \in 1 .. Len(b) : c[k] = b[k]
          /\ \A k \in 1 .. Len(r) : c[Len(b) + k] = r[k]
      BY <1>2, Joined
    <2> HIDE DEF c
    <2> QED
      BY <1>2, <2>1
  <1>6. Spliced(r, i, s) = c \o e
    BY <1>4
  <1> HIDE DEF c
  <1>7. /\ c \o e \in Texts /\ Len(c \o e) = (i - 1 + Len(r)) + (Len(s) - i)
        /\ \A k \in 1 .. i - 1 + Len(r) : (c \o e)[k] = c[k]
        /\ \A k \in 1 .. Len(s) - i : (c \o e)[(i - 1) + Len(r) + k] = e[k]
    <2> DEFINE f == c \o e
    <2>1. /\ f \in Texts /\ Len(f) = Len(c) + Len(e)
          /\ \A k \in 1 .. Len(c) : f[k] = c[k]
          /\ \A k \in 1 .. Len(e) : f[Len(c) + k] = e[k]
      BY <1>3, <1>5, Joined
    <2> HIDE DEF f
    <2>2. \A k \in 1 .. Len(s) - i : f[(i - 1) + Len(r) + k] = e[k]
      BY <1>3, <1>5, <2>1
    <2>3. f \in Texts /\ Len(f) = (i - 1 + Len(r)) + (Len(s) - i)
          /\ \A k \in 1 .. i - 1 + Len(r) : f[k] = c[k]
      BY <1>3, <1>5, <2>1
    <2> QED
      BY <2>2, <2>3 DEF f
  <1>8. \A k \in 1 .. i - 1 : (c \o e)[k] = s[k]
    BY <1>1, <1>5, <1>7
  <1>9. ASSUME NEW k \in 1 .. Len(r) PROVE (c \o e)[(i - 1) + k] = r[k]
    <2>1. (i - 1) + k \in 1 .. i - 1 + Len(r)
      BY <1>1
    <2> QED
      BY <1>5, <1>7, <2>1
  <1> QED
    BY <1>3, <1>6, <1>7, <1>8, <1>9

\* Each element of the new sequence is one of the old ones or one of r.
LEMMA SplicedFrom ==
  ASSUME NEW s \in Texts, NEW r \in Texts, NEW i \in DOMAIN s
  PROVE  /\ Spliced(r, i, s) \in Texts
         /\ \A m \in DOMAIN Spliced(r, i, s) :
              \/ \E j \in DOMAIN s : /\ j # i /\ Spliced(r, i, s)[m] = s[j]
                                     /\ m = IF j < i THEN j ELSE j + Len(r) - 1
              \/ \E k \in DOMAIN r : Spliced(r, i, s)[m] = r[k] /\ m = i - 1 + k
         /\ \A t : (Occurs(t, s) /\ t # s[i]) \/ Occurs(t, r) => Occurs(t, Spliced(r, i, s))
  <1> DEFINE w == Spliced(r, i, s)
  <1>1. i \in 1 .. Len(s) /\ Len(s) \in Nat /\ Len(r) \in Nat /\ DOMAIN s = 1 .. Len(s)
        /\ DOMAIN r = 1 .. Len(r)
    BY TextFacts
  <1>2. /\ w \in Texts /\ Len(w) = (i - 1) + Len(r) + (Len(s) - i)
        /\ \A k \in 1 .. i - 1 : w[k] = s[k]
        /\ \A k \in 1 .. Len(r) : w[(i - 1) + k] = r[k]
        /\ \A k \in 1 .. Len(s) - i : w[(i - 1) + Len(r) + k] = s[i + k]
    BY SplicedElements
  <1> HIDE DEF w
  <1>3. DOMAIN w = 1 .. (i - 1) + Len(r) + (Len(s) - i)
    BY <1>2, TextFacts
  <1>4. ASSUME NEW m \in DOMAIN w
        PROVE  \/ \E j \in DOMAIN s : /\ j # i /\ w[m] = s[j]
                                      /\ m = IF j < i THEN j ELSE j + Len(r) - 1
               \/ \E k \in DOMAIN r : w[m] = r[k] /\ m = i - 1 + k
    <2>1. CASE m <= i - 1
      <3>1. m \in DOMAIN s /\ m # i /\ m < i /\ w[m] = s[m]
        BY <1>1, <1>2, <1>3, <2>1
      <3> QED
        BY <3>1
    <2>2. CASE m > i - 1 /\ m <= (i - 1) + Len(r)
      <3>1. m - (i - 1) \in DOMAIN r /\ (i - 1) + (m - (i - 1)) = m
        BY <1>1, <1>3, <2>2
      <3>2. w[m] = r[m - (i - 1)]
        BY <1>1, <1>2, <3>1
      <3> QED
        BY <3>1, <3>2
    <2>3. CASE m > (i - 1) + Len(r)
      <3> DEFINE k == m - ((i - 1) + Len(r))
      <3>1. k \in 1 .. Len(s) - i /\ (i - 1) + Len(r) + k = m
        BY <1>1, <1>3, <2>3
      <3>2. w[m] = s[i + k]
        BY <1>2, <3>1
      <3> HIDE DEF k
      <3>3. i + k \in DOMAIN s /\ i + k # i /\ ~(i + k < i) /\ m = (i + k) + Len(r) - 1
        BY <1>1, <3>1
      <3> QED
        BY <3>2, <3>3
    <2> QED
      BY <1>1, <1>3, <2>1, <2>2, <2>3
  <1>5. ASSUME NEW t, (Occurs(t, s) /\ t # s[i]) \/ Occurs(t, r) PROVE Occurs(t, w)
    <2>1. ASSUME NEW k \in DOMAIN r, t = r[k] PROVE Occurs(t, w)
      <3>1. (i - 1) + k \in DOMAIN w /\ w[(i - 1) + k] = t
        BY <1>1, <1>2, <1>3, <2>1
      <3> QED
        BY <3>1 DEF Occurs
    <2>2. ASSUME NEW j \in DOMAIN s, t = s[j], j # i PROVE Occurs(t, w)
      <3>1. CASE j < i
        <4>1. j \in 1 .. i - 1 /\ j \in DOMAIN w
          BY <1>1, <1>3, <3>1
        <4>2. w[j] = t
          BY <1>2, <2>2, <4>1
        <4> QED
          BY <4>1, <4>2 DEF Occurs
      <3>2. CASE j > i
        <4>1. j - i \in 1 .. Len(s) - i /\ i + (j - i) = j
          BY <1>1, <3>2
        <4>2. w[(i - 1) + Len(r) + (j - i)] = t
          BY <1>2, <2>2, <4>1
        <4>3. (i - 1) + Len(r) + (j - i) \in DOMAIN w
          BY <1>1, <1>3, <4>1
        <4> QED
          BY <4>2, <4>3 DEF Occurs
      <3> QED
        BY <1>1, <2>2, <3>1, <3>2
    <2> QED
      BY <1>5, <2>1, <2>2 DEF Occurs
  <1> QED
    BY <1>2, <1>4, <1>5 DEF w

\* A replacement by new texts, or by the old one among new ones, repeats nothing.
LEMMA ReplacedOnce ==
  ASSUME NEW s \in Texts, NEW r \in Texts, NEW a, Once(s), Once(r), Occurs(a, s),
         \A t : Occurs(t, r) /\ t # a => ~Occurs(t, s)
  PROVE  /\ T!ReplaceFirstSubSeq(r, <<a>>, s) \in Texts
         /\ Once(T!ReplaceFirstSubSeq(r, <<a>>, s))
         /\ \A t : Occurs(t, T!ReplaceFirstSubSeq(r, <<a>>, s))
                     <=> (Occurs(t, s) /\ t # a) \/ Occurs(t, r)
  <1>1. PICK i \in DOMAIN s : s[i] = a
    BY DEF Occurs
  <1>2. T!ReplaceFirstSubSeq(r, <<a>>, s) = Spliced(r, i, s)
    BY <1>1, FirstReplaced
  <1> DEFINE w == Spliced(r, i, s)
             Old(m, j) == /\ j # i /\ w[m] = s[j]
                          /\ m = IF j < i THEN j ELSE j + Len(r) - 1
             New(m, k) == w[m] = r[k] /\ m = i - 1 + k
  <1>3. /\ w \in Texts
        /\ \A m \in DOMAIN w : \/ \E j \in DOMAIN s : Old(m, j)
                               \/ \E k \in DOMAIN r : New(m, k)
        /\ \A t : (Occurs(t, s) /\ t # s[i]) \/ Occurs(t, r) => Occurs(t, w)
    BY SplicedFrom
  <1>4. \A m, n, j : Old(m, j) /\ Old(n, j) => m = n
    OBVIOUS
  <1>5. \A m, n, k : New(m, k) /\ New(n, k) => m = n
    OBVIOUS
  <1>6. \A m, j, k : j \in DOMAIN s /\ k \in DOMAIN r /\ Old(m, j) => s[j] # r[k]
    <2> SUFFICES ASSUME NEW j \in DOMAIN s, NEW k \in DOMAIN r, j # i, s[j] = r[k] PROVE FALSE
      OBVIOUS
    <2>1. s[j] # a
      BY <1>1 DEF Once
    <2> QED
      BY <2>1 DEF Occurs
  <1>7. \A m, j : Old(m, j) => w[m] = s[j] /\ j # i
    OBVIOUS
  <1>8. \A m, k : New(m, k) => w[m] = r[k]
    OBVIOUS
  <1> HIDE DEF w, Old, New
  <1>9. Once(w)
    <2> SUFFICES ASSUME NEW m \in DOMAIN w, NEW n \in DOMAIN w, w[m] = w[n] PROVE m = n
      BY DEF Once
    <2>1. CASE \E j \in DOMAIN s : Old(m, j)
      <3>1. PICK j \in DOMAIN s : Old(m, j)
        BY <2>1
      <3>2. ASSUME NEW k \in DOMAIN r, New(n, k) PROVE FALSE
        BY <1>6, <1>7, <1>8, <3>1, <3>2
      <3>3. PICK g \in DOMAIN s : Old(n, g)
        BY <1>3, <3>2
      <3>4. j = g
        BY <1>7, <3>1, <3>3 DEF Once
      <3> QED
        BY <1>4, <3>1, <3>3, <3>4
    <2>2. CASE \E k \in DOMAIN r : New(m, k)
      <3>1. PICK k \in DOMAIN r : New(m, k)
        BY <2>2
      <3>2. ASSUME NEW j \in DOMAIN s, Old(n, j) PROVE FALSE
        BY <1>6, <1>7, <1>8, <3>1, <3>2
      <3>3. PICK g \in DOMAIN r : New(n, g)
        BY <1>3, <3>2
      <3>4. k = g
        BY <1>8, <3>1, <3>3 DEF Once
      <3> QED
        BY <1>5, <3>1, <3>3, <3>4
    <2> QED
      BY <1>3, <2>1, <2>2
  <1>10. ASSUME NEW t, Occurs(t, w) PROVE (Occurs(t, s) /\ t # a) \/ Occurs(t, r)
    <2>1. PICK m \in DOMAIN w : w[m] = t
      BY <1>10 DEF Occurs
    <2>2. CASE \E j \in DOMAIN s : Old(m, j)
      BY <1>1, <1>7, <2>1, <2>2 DEF Occurs, Once
    <2>3. CASE \E k \in DOMAIN r : New(m, k)
      BY <1>8, <2>1, <2>3 DEF Occurs
    <2> QED
      BY <1>3, <2>2, <2>3
  <1> QED
    BY <1>1, <1>2, <1>3, <1>9, <1>10 DEF w

\* A file that was torn: a part of what was written.
LEMMA PrefixOnce ==
  ASSUME NEW s \in Texts, Once(s), NEW n \in 0 .. Len(s)
  PROVE  /\ SubSeq(s, 1, n) \in Texts /\ Once(SubSeq(s, 1, n))
         /\ DOMAIN SubSeq(s, 1, n) = 1 .. n
         /\ \A i \in 1 .. n : SubSeq(s, 1, n)[i] = s[i] /\ i \in DOMAIN s
         /\ \A t : Occurs(t, SubSeq(s, 1, n)) => Occurs(t, s)
  <1> DEFINE w == SubSeq(s, 1, n)
  <1>1. w \in Texts /\ DOMAIN w = 1 .. n /\ \A i \in 1 .. n : w[i] = s[i]
    <2>1. /\ 1 \in 1 .. Len(s) + 1 /\ 1 <= n + 1 /\ n - 1 + 1 = n
          /\ \A i \in 1 .. n : 1 + i - 1 = i
      BY TextFacts
    <2>2. /\ w \in Texts /\ DOMAIN w = 1 .. n - 1 + 1
          /\ \A i \in 1 .. n - 1 + 1 : w[i] = s[1 + i - 1]
      BY <2>1, Part
    <2> QED
      BY <2>1, <2>2
  <1>2. 1 .. n \subseteq DOMAIN s
    BY TextFacts
  <1> HIDE DEF w
  <1>3. Once(w) /\ \A t : Occurs(t, w) => Occurs(t, s)
    BY <1>1, <1>2 DEF Once, Occurs
  <1> QED
    BY <1>1, <1>2, <1>3 DEF w

LEMMA JoinedOnce ==
  ASSUME NEW s \in Texts, NEW r \in Texts, Once(s), Once(r),
         \A t : Occurs(t, r) => ~Occurs(t, s)
  PROVE  /\ s \o r \in Texts /\ Once(s \o r)
         /\ \A t : Occurs(t, s \o r) <=> Occurs(t, s) \/ Occurs(t, r)
  <1> DEFINE w == s \o r
  <1>1. /\ w \in Texts /\ Len(w) = Len(s) + Len(r)
        /\ \A k \in 1 .. Len(s) : w[k] = s[k]
        /\ \A k \in 1 .. Len(r) : w[Len(s) + k] = r[k]
    BY Joined
  <1>2. /\ DOMAIN w = 1 .. Len(s) + Len(r) /\ DOMAIN s = 1 .. Len(s) /\ DOMAIN r = 1 .. Len(r)
        /\ Len(s) \in Nat /\ Len(r) \in Nat
    BY <1>1, TextFacts
  <1> HIDE DEF w
  <1>3. ASSUME NEW m \in DOMAIN w
        PROVE  \/ m \in DOMAIN s /\ w[m] = s[m]
               \/ \E k \in DOMAIN r : m = Len(s) + k /\ w[m] = r[k]
    <2>1. CASE m <= Len(s)
      BY <1>1, <1>2, <2>1
    <2>2. CASE m > Len(s)
      <3>1. m - Len(s) \in DOMAIN r /\ m = Len(s) + (m - Len(s))
        BY <1>2, <2>2
      <3>2. w[m] = r[m - Len(s)]
        BY <1>1, <1>2, <3>1
      <3> QED
        BY <3>1, <3>2
    <2> QED
      BY <1>2, <2>1, <2>2
  <1>4. Once(w)
    BY <1>3 DEF Once, Occurs
  <1>5. \A t : Occurs(t, w) => Occurs(t, s) \/ Occurs(t, r)
    BY <1>3 DEF Occurs
  <1>6. ASSUME NEW k \in DOMAIN s PROVE Occurs(s[k], w)
    BY <1>1, <1>2 DEF Occurs
  <1>7. ASSUME NEW k \in DOMAIN r PROVE Occurs(r[k], w)
    <2>1. Len(s) + k \in DOMAIN w /\ w[Len(s) + k] = r[k]
      BY <1>1, <1>2
    <2> QED
      BY <2>1 DEF Occurs
  <1>8. \A t : Occurs(t, s) \/ Occurs(t, r) => Occurs(t, w)
    BY <1>6, <1>7 DEF Occurs
  <1> QED
    BY <1>1, <1>4, <1>5, <1>8 DEF w

LEMMA Alone ==
  ASSUME NEW a \in Words, NEW s, s = <<a>>
  PROVE  /\ s \in Texts /\ Len(s) = 1 /\ s[1] = a
         /\ Once(s)
         /\ \A t : Occurs(t, s) <=> t \in {a}
  <1>1. s \in Texts /\ Len(s) = 1 /\ s[1] = a
    BY Single
  <1>2. DOMAIN s = {1}
    BY <1>1, TextFacts
  <1>3. Once(s) /\ \A t : Occurs(t, s) <=> t \in {a}
    BY <1>1, <1>2 DEF Once, Occurs
  <1> QED
    BY <1>1, <1>3

LEMMA Pair ==
  ASSUME NEW a \in Words, NEW b \in Words, a # b, NEW s, s = <<a, b>>
  PROVE  /\ s \in Texts /\ Len(s) = 2 /\ s[1] = a /\ s[2] = b
         /\ Once(s)
         /\ \A t : Occurs(t, s) <=> t \in {a, b}
  <1>1. s \in Texts
    BY TwoElements DEF Texts
  <1>2. Len(s) = 2 /\ s[1] = a /\ s[2] = b
    OBVIOUS
  <1>3. DOMAIN s = {1, 2}
    BY <1>1, <1>2, TextFacts
  <1>4. Once(s) /\ \A t : Occurs(t, s) <=> t \in {a, b}
    BY <1>2, <1>3 DEF Once, Occurs
  <1> QED
    BY <1>1, <1>2, <1>4

LEMMA Triple ==
  ASSUME NEW a \in Words, NEW b \in Words, NEW c \in Words, a # b, a # c, b # c,
         NEW s, s = <<a, b, c>>
  PROVE  /\ s \in Texts /\ Len(s) = 3 /\ s[1] = a /\ s[2] = b /\ s[3] = c
         /\ Once(s)
         /\ \A t : Occurs(t, s) <=> t \in {a, b, c}
  <1>1. s \in Texts
    BY ThreeElements DEF Texts
  <1>2. Len(s) = 3 /\ s[1] = a /\ s[2] = b /\ s[3] = c
    OBVIOUS
  <1>3. DOMAIN s = {1, 2, 3}
    BY <1>1, <1>2, TextFacts
  <1>4. Once(s)
    BY <1>2, <1>3 DEF Once
  <1>5. \A t : Occurs(t, s) <=> t \in {a, b, c}
    BY <1>2, <1>3 DEF Occurs
  <1> QED
    BY <1>1, <1>2, <1>4, <1>5

LEMMA Offset ==
  ASSUME NEW m \in Int, NEW a \in Int, NEW b \in Int, m > a, m <= a + b
  PROVE  m - a \in 1 .. b /\ a + (m - a) = m
  OBVIOUS

LEMMA Replaced ==
  ASSUME NEW s \in Texts, NEW r \in Texts, NEW w \in Texts, NEW i \in DOMAIN s, Once(s),
         Len(w) = (i - 1) + Len(r) + (Len(s) - i),
         \A k \in 1 .. i - 1 : w[k] = s[k],
         \A k \in 1 .. Len(r) : w[(i - 1) + k] = r[k],
         \A k \in 1 .. Len(s) - i : w[(i - 1) + Len(r) + k] = s[i + k]
  PROVE  T!ReplaceFirstSubSeq(r, <<s[i]>>, s) = w
  <1> DEFINE v == Spliced(r, i, s)
  <1>1. /\ v \in Texts
        /\ Len(v) = (i - 1) + Len(r) + (Len(s) - i)
        /\ \A k \in 1 .. i - 1 : v[k] = s[k]
        /\ \A k \in 1 .. Len(r) : v[(i - 1) + k] = r[k]
        /\ \A k \in 1 .. Len(s) - i : v[(i - 1) + Len(r) + k] = s[i + k]
    BY SplicedElements
  <1>2. T!ReplaceFirstSubSeq(r, <<s[i]>>, s) = v
    BY FirstReplaced
  <1> HIDE DEF v
  <1>3. i \in 1 .. Len(s) /\ Len(s) \in Nat /\ Len(r) \in Nat
        /\ Len(v) = (i - 1) + Len(r) + (Len(s) - i)
    BY <1>1, TextFacts
  <1>4. ASSUME NEW m \in 1 .. Len(v) PROVE v[m] = w[m]
    <2>0. m \in Int /\ i \in Int /\ Len(r) \in Int /\ Len(s) \in Int
          /\ 1 <= m /\ m <= (i - 1) + Len(r) + (Len(s) - i)
      BY <1>3
    <2>1. CASE m <= i - 1
      <3>1. m \in 1 .. i - 1
        BY <2>0, <2>1
      <3> QED
        BY <1>1, <3>1
    <2>2. CASE m > i - 1 /\ m <= (i - 1) + Len(r)
      <3>0. i - 1 \in Int
        BY <2>0
      <3> DEFINE k == m - (i - 1)
      <3>1. k \in 1 .. Len(r) /\ (i - 1) + k = m
        BY <2>0, <2>2, <3>0, Offset
      <3> HIDE DEF k
      <3>2. v[(i - 1) + k] = r[k] /\ w[(i - 1) + k] = r[k]
        BY <1>1, <3>1
      <3> QED
        BY <3>1, <3>2
    <2>3. CASE m > (i - 1) + Len(r)
      <3> DEFINE k == m - ((i - 1) + Len(r))
      <3>0. (i - 1) + Len(r) \in Int /\ Len(s) - i \in Int
        BY ONLY <2>0
      <3>1. k \in 1 .. Len(s) - i /\ (i - 1) + Len(r) + k = m
        BY <2>0, <2>3, <3>0, Offset
      <3> HIDE DEF k
      <3>2. v[(i - 1) + Len(r) + k] = s[i + k] /\ w[(i - 1) + Len(r) + k] = s[i + k]
        BY <1>1, <3>1
      <3> QED
        BY <3>1, <3>2
    <2> QED
      BY <2>0, <2>1, <2>2, <2>3
  <1>5. v = w
    BY <1>1, <1>4, Equal
  <1> QED
    BY <1>2, <1>5

-----------------------------------------------------------------------------
(***************************************************************************)
(* The files of the tree.                                                  *)
(***************************************************************************)

\* A dispatch comes after the kernel it calls, and the first of them marks them.
Calls(s) ==
  \A d \in {"simple", "ll", "ll128"} :
    Occurs(d, s) => Occurs("simple", s) /\ Occurs("run2Hop", s)

Good(f, s) ==
  /\ s \in Texts /\ Once(s)
  /\ f = "init" => ~(Occurs("graphs", s) /\ Occurs("graphs, ring", s))
  /\ f = "kernels" => Calls(s)

\* A tree with two steps of a file not taken yet, and with one of them.
Named == <<"algo names, 2hop", "graphs", "rest">>
WithKernel == <<"run2Hop", "namespace end", "rest">>

\* As long as nothing was torn: what each step leaves.
WholeInv ==
  ~torn =>
    /\ tree["tuner"] \in {T!Pristine["tuner"], T!Patched["tuner"]}
    /\ tree["tuner_v5"] \in {T!Pristine["tuner_v5"], T!Patched["tuner_v5"]}
    /\ tree["init"] \in {T!Pristine["init"], Named, T!Patched["init"]}
    /\ tree["tuning"] \in {T!Pristine["tuning"], T!Patched["tuning"]}
    /\ tree["kernels"] \in {T!Pristine["kernels"], WithKernel, T!Patched["kernels"]}
    /\ step > 1 => tree["tuner"] = T!Patched["tuner"]
    /\ step > 2 => tree["tuner_v5"] = T!Patched["tuner_v5"]
    /\ step > 3 => tree["init"] # T!Pristine["init"]
    /\ step > 4 => tree["init"] = T!Patched["init"]
    /\ step > 5 => tree["tuning"] = T!Patched["tuning"]
    /\ step > 6 => tree["kernels"] # T!Pristine["kernels"]

Shape ==
  /\ tree \in [T!Files -> Texts] /\ step \in 0..7 /\ torn \in BOOLEAN
  /\ \A f \in T!Files : Good(f, tree[f])
  /\ step = 7 => Occurs("run2Hop", tree["kernels"])

TreeInv ==
  /\ Shape /\ WholeInv /\ T!DoneMeansPatched
  /\ step # 0 => outcome = "none"

LEMMA FilesAre == T!Files = {"tuner", "tuner_v5", "init", "tuning", "kernels"}
  BY DEF T!Files, T!Pristine

LEMMA Final == T!FinalStep = 7
  <1>1. Len(T!Steps) = 6
    BY DEF T!Steps
  <1> QED
    BY <1>1 DEF T!FinalStep

LEMMA StepFacts ==
  /\ T!Steps[1] = T!Replace("tuner", "pat 6", <<"pat 6, 2hop 7">>, "pat 6, 2hop 7")
  /\ T!Steps[2] = T!Replace("tuner_v5", "algorithms 7", <<"algorithms 8">>, "algorithms 8")
  /\ T!Steps[3] = T!Replace("init", "algo names", <<"algo names, 2hop">>, "algo names, 2hop")
  /\ T!Steps[4] = T!Replace("init", "graphs", <<"graphs, ring">>, "aicad 2hop")
  /\ T!Steps[5] = T!Replace("tuning", "threads", <<"threads", "2hop threads">>, "2hop threads")
  /\ T!Steps[6] = T!Replace("kernels", "namespace end", <<"run2Hop", "namespace end">>, "run2Hop")
  BY DEF T!Steps

LEMMA ReplaceFacts ==
  ASSUME NEW f, NEW a, NEW r, NEW m
  PROVE  LET s == T!Replace(f, a, r, m) IN
           s.file = f /\ s.anchor = a /\ s.new = r /\ s.marker = m
  BY DEF T!Replace

LEMMA StepIs ==
  ASSUME NEW f, NEW a, NEW r, NEW m, step \in 1..6, T!Steps[step] = T!Replace(f, a, r, m)
  PROVE  /\ T!Target = f
         /\ T!Applied <=> Occurs(m, tree[f])
         /\ T!Anchored <=> Occurs(a, tree[f])
         /\ T!Written = T!ReplaceFirstSubSeq(r, <<a>>, tree[f])
         /\ T!Advance <=> step' = step + 1 /\ outcome' = outcome
  <1>1. step # T!FinalStep
    BY Final
  <1>2. T!Steps[step].file = f /\ T!Steps[step].anchor = a /\ T!Steps[step].new = r
        /\ T!Steps[step].marker = m
    BY ReplaceFacts
  <1>3. T!Target = f
    BY <1>1, <1>2 DEF T!Target
  <1>4. T!Applied <=> Occurs(m, tree[f])
    BY <1>1, <1>2 DEF T!Applied, T!Has, Occurs
  <1>5. T!Anchored <=> Occurs(a, tree[f])
    BY <1>1, <1>2 DEF T!Anchored, T!Has, Occurs
  <1>6. T!Written = T!ReplaceFirstSubSeq(r, <<a>>, tree[f])
    BY <1>1, <1>2, <1>3 DEF T!Written
  <1>7. T!Advance <=> step' = step + 1 /\ outcome' = outcome
    BY <1>1 DEF T!Advance
  <1> QED
    BY <1>3, <1>4, <1>5, <1>6, <1>7

LEMMA Step1Is ==
  ASSUME step = 1
  PROVE  /\ T!Target = "tuner"
         /\ T!Applied <=> Occurs("pat 6, 2hop 7", tree["tuner"])
         /\ T!Anchored <=> Occurs("pat 6", tree["tuner"])
         /\ T!Written = T!ReplaceFirstSubSeq(<<"pat 6, 2hop 7">>, <<"pat 6">>, tree["tuner"])
         /\ T!Advance <=> step' = step + 1 /\ outcome' = outcome
  <1> DEFINE r == <<"pat 6, 2hop 7">>
             a == "pat 6"
             m == "pat 6, 2hop 7"
             f == "tuner"
  <1>1. step \in 1..6 /\ T!Steps[step] = T!Replace(f, a, r, m)
    <2>1. T!Steps[1] = T!Replace(f, a, r, m)
      BY StepFacts
    <2> HIDE DEF r, a, m, f
    <2>2. step \in 1..6
      OBVIOUS
    <2> QED
      BY <2>1, <2>2
  <1> HIDE DEF r, a, m, f
  <1>2. /\ T!Target = f
        /\ T!Applied <=> Occurs(m, tree[f])
        /\ T!Anchored <=> Occurs(a, tree[f])
        /\ T!Written = T!ReplaceFirstSubSeq(r, <<a>>, tree[f])
        /\ T!Advance <=> step' = step + 1 /\ outcome' = outcome
    BY <1>1, StepIs
  <1> QED
    BY <1>2 DEF r, a, m, f

LEMMA Step2Is ==
  ASSUME step = 2
  PROVE  /\ T!Target = "tuner_v5"
         /\ T!Applied <=> Occurs("algorithms 8", tree["tuner_v5"])
         /\ T!Anchored <=> Occurs("algorithms 7", tree["tuner_v5"])
         /\ T!Written = T!ReplaceFirstSubSeq(<<"algorithms 8">>, <<"algorithms 7">>,
                                              tree["tuner_v5"])
         /\ T!Advance <=> step' = step + 1 /\ outcome' = outcome
  <1> DEFINE r == <<"algorithms 8">>
             a == "algorithms 7"
             m == "algorithms 8"
             f == "tuner_v5"
  <1>1. step \in 1..6 /\ T!Steps[step] = T!Replace(f, a, r, m)
    <2>1. T!Steps[2] = T!Replace(f, a, r, m)
      BY StepFacts
    <2> HIDE DEF r, a, m, f
    <2>2. step \in 1..6
      OBVIOUS
    <2> QED
      BY <2>1, <2>2
  <1> HIDE DEF r, a, m, f
  <1>2. /\ T!Target = f
        /\ T!Applied <=> Occurs(m, tree[f])
        /\ T!Anchored <=> Occurs(a, tree[f])
        /\ T!Written = T!ReplaceFirstSubSeq(r, <<a>>, tree[f])
        /\ T!Advance <=> step' = step + 1 /\ outcome' = outcome
    BY <1>1, StepIs
  <1> QED
    BY <1>2 DEF r, a, m, f

LEMMA Step3Is ==
  ASSUME step = 3
  PROVE  /\ T!Target = "init"
         /\ T!Applied <=> Occurs("algo names, 2hop", tree["init"])
         /\ T!Anchored <=> Occurs("algo names", tree["init"])
         /\ T!Written = T!ReplaceFirstSubSeq(<<"algo names, 2hop">>, <<"algo names">>, tree["init"])
         /\ T!Advance <=> step' = step + 1 /\ outcome' = outcome
  <1> DEFINE r == <<"algo names, 2hop">>
             a == "algo names"
             m == "algo names, 2hop"
             f == "init"
  <1>1. step \in 1..6 /\ T!Steps[step] = T!Replace(f, a, r, m)
    <2>1. T!Steps[3] = T!Replace(f, a, r, m)
      BY StepFacts
    <2> HIDE DEF r, a, m, f
    <2>2. step \in 1..6
      OBVIOUS
    <2> QED
      BY <2>1, <2>2
  <1> HIDE DEF r, a, m, f
  <1>2. /\ T!Target = f
        /\ T!Applied <=> Occurs(m, tree[f])
        /\ T!Anchored <=> Occurs(a, tree[f])
        /\ T!Written = T!ReplaceFirstSubSeq(r, <<a>>, tree[f])
        /\ T!Advance <=> step' = step + 1 /\ outcome' = outcome
    BY <1>1, StepIs
  <1> QED
    BY <1>2 DEF r, a, m, f

LEMMA Step4Is ==
  ASSUME step = 4
  PROVE  /\ T!Target = "init"
         /\ T!Applied <=> Occurs("aicad 2hop", tree["init"])
         /\ T!Anchored <=> Occurs("graphs", tree["init"])
         /\ T!Written = T!ReplaceFirstSubSeq(<<"graphs, ring">>, <<"graphs">>, tree["init"])
         /\ T!Advance <=> step' = step + 1 /\ outcome' = outcome
  <1> DEFINE r == <<"graphs, ring">>
             a == "graphs"
             m == "aicad 2hop"
             f == "init"
  <1>1. step \in 1..6 /\ T!Steps[step] = T!Replace(f, a, r, m)
    <2>1. T!Steps[4] = T!Replace(f, a, r, m)
      BY StepFacts
    <2> HIDE DEF r, a, m, f
    <2>2. step \in 1..6
      OBVIOUS
    <2> QED
      BY <2>1, <2>2
  <1> HIDE DEF r, a, m, f
  <1>2. /\ T!Target = f
        /\ T!Applied <=> Occurs(m, tree[f])
        /\ T!Anchored <=> Occurs(a, tree[f])
        /\ T!Written = T!ReplaceFirstSubSeq(r, <<a>>, tree[f])
        /\ T!Advance <=> step' = step + 1 /\ outcome' = outcome
    BY <1>1, StepIs
  <1> QED
    BY <1>2 DEF r, a, m, f

LEMMA Step5Is ==
  ASSUME step = 5
  PROVE  /\ T!Target = "tuning"
         /\ T!Applied <=> Occurs("2hop threads", tree["tuning"])
         /\ T!Anchored <=> Occurs("threads", tree["tuning"])
         /\ T!Written = T!ReplaceFirstSubSeq(<<"threads", "2hop threads">>, <<"threads">>,
                                              tree["tuning"])
         /\ T!Advance <=> step' = step + 1 /\ outcome' = outcome
  <1> DEFINE r == <<"threads", "2hop threads">>
             a == "threads"
             m == "2hop threads"
             f == "tuning"
  <1>1. step \in 1..6 /\ T!Steps[step] = T!Replace(f, a, r, m)
    <2>1. T!Steps[5] = T!Replace(f, a, r, m)
      BY StepFacts
    <2> HIDE DEF r, a, m, f
    <2>2. step \in 1..6
      OBVIOUS
    <2> QED
      BY <2>1, <2>2
  <1> HIDE DEF r, a, m, f
  <1>2. /\ T!Target = f
        /\ T!Applied <=> Occurs(m, tree[f])
        /\ T!Anchored <=> Occurs(a, tree[f])
        /\ T!Written = T!ReplaceFirstSubSeq(r, <<a>>, tree[f])
        /\ T!Advance <=> step' = step + 1 /\ outcome' = outcome
    BY <1>1, StepIs
  <1> QED
    BY <1>2 DEF r, a, m, f

LEMMA Step6Is ==
  ASSUME step = 6
  PROVE  /\ T!Target = "kernels"
         /\ T!Applied <=> Occurs("run2Hop", tree["kernels"])
         /\ T!Anchored <=> Occurs("namespace end", tree["kernels"])
         /\ T!Written = T!ReplaceFirstSubSeq(<<"run2Hop", "namespace end">>, <<"namespace end">>,
                                              tree["kernels"])
         /\ T!Advance <=> step' = step + 1 /\ outcome' = outcome
  <1> DEFINE r == <<"run2Hop", "namespace end">>
             a == "namespace end"
             m == "run2Hop"
             f == "kernels"
  <1>1. step \in 1..6 /\ T!Steps[step] = T!Replace(f, a, r, m)
    <2>1. T!Steps[6] = T!Replace(f, a, r, m)
      BY StepFacts
    <2> HIDE DEF r, a, m, f
    <2>2. step \in 1..6
      OBVIOUS
    <2> QED
      BY <2>1, <2>2
  <1> HIDE DEF r, a, m, f
  <1>2. /\ T!Target = f
        /\ T!Applied <=> Occurs(m, tree[f])
        /\ T!Anchored <=> Occurs(a, tree[f])
        /\ T!Written = T!ReplaceFirstSubSeq(r, <<a>>, tree[f])
        /\ T!Advance <=> step' = step + 1 /\ outcome' = outcome
    BY <1>1, StepIs
  <1> QED
    BY <1>2 DEF r, a, m, f

LEMMA LastIs ==
  ASSUME step = 7
  PROVE  /\ T!Target = "kernels"
         /\ T!Applied <=> Occurs("simple", tree["kernels"])
         /\ T!Anchored
         /\ T!Written = tree["kernels"] \o T!Dispatch
         /\ T!Advance <=> step' = 0 /\ outcome' = "done"
  <1>1. step = T!FinalStep /\ Head(T!Dispatch) = "simple"
    BY Final DEF T!Dispatch
  <1>2. T!Applied <=> Occurs("simple", tree["kernels"])
    BY <1>1 DEF T!Applied, T!Has, Occurs
  <1> QED
    BY <1>1, <1>2 DEF T!Target, T!Anchored, T!Written, T!Advance

\* One text takes the place of another one.
LEMMA OneForOne ==
  ASSUME NEW s, s \in Texts, Once(s), NEW a, a \in Words, NEW b, b \in Words, a # b,
         NEW r, r \in Texts, Once(r), \A t : Occurs(t, r) <=> t \in {b},
         ~Occurs(b, s), Occurs(a, s),
         NEW w, w = T!ReplaceFirstSubSeq(r, <<a>>, s)
  PROVE  /\ w \in Texts /\ Once(w) /\ ~Occurs(a, w)
         /\ \A t : Occurs(t, w) => Occurs(t, s) \/ t \in {b}
  <1>1. \A t : Occurs(t, r) /\ t # a => ~Occurs(t, s)
    OBVIOUS
  <1>2. /\ w \in Texts /\ Once(w)
        /\ \A t : Occurs(t, w) <=> (Occurs(t, s) /\ t # a) \/ Occurs(t, r)
    BY <1>1, ReplacedOnce
  <1> QED
    BY <1>2

\* A text is put next to another one.
LEMMA OneMore ==
  ASSUME NEW s, s \in Texts, Once(s), NEW a, a \in Words, NEW b, b \in Words,
         NEW r, r \in Texts, Once(r), \A t : Occurs(t, r) <=> t \in {a, b},
         ~Occurs(b, s), Occurs(a, s),
         NEW w, w = T!ReplaceFirstSubSeq(r, <<a>>, s)
  PROVE  /\ w \in Texts /\ Once(w)
         /\ \A t : Occurs(t, w) <=> Occurs(t, s) \/ t = b
  <1>1. \A t : Occurs(t, r) /\ t # a => ~Occurs(t, s)
    OBVIOUS
  <1>2. /\ w \in Texts /\ Once(w)
        /\ \A t : Occurs(t, w) <=> (Occurs(t, s) /\ t # a) \/ Occurs(t, r)
    BY <1>1, ReplacedOnce
  <1>3. \A t : Occurs(t, w) <=> Occurs(t, s) \/ t = b
    BY <1>2
  <1> QED
    BY <1>2, <1>3

LEMMA DispatchFacts ==
  /\ T!Dispatch \in Texts /\ Len(T!Dispatch) = 3 /\ T!Dispatch[1] = "simple"
  /\ T!Dispatch[2] = "ll" /\ T!Dispatch[3] = "ll128"
  /\ Once(T!Dispatch)
  /\ \A t : Occurs(t, T!Dispatch) <=> t \in {"simple", "ll", "ll128"}
  <1> DEFINE a == "simple"
             b == "ll"
             c == "ll128"
             s == T!Dispatch
  <1>1. a \in Words /\ b \in Words /\ c \in Words /\ a # b /\ a # c /\ b # c
    BY DEF Words
  <1>2. s = <<a, b, c>>
    BY DEF T!Dispatch
  <1> HIDE DEF a, b, c, s
  <1>3. /\ s \in Texts /\ Len(s) = 3 /\ s[1] = a /\ s[2] = b /\ s[3] = c /\ Once(s)
        /\ \A t : Occurs(t, s) <=> t \in {a, b, c}
    BY <1>1, <1>2, Triple
  <1> QED
    BY <1>3 DEF a, b, c, s

LEMMA ShapeFacts ==
  ASSUME Shape
  PROVE  /\ \A f \in T!Files : tree[f] \in Texts /\ Once(tree[f])
         /\ ~(Occurs("graphs", tree["init"]) /\ Occurs("graphs, ring", tree["init"]))
         /\ Calls(tree["kernels"])
  BY FilesAre DEF Shape, Good

LEMMA Written1 ==
  ASSUME Shape, step = 1, ~T!Applied, T!Anchored
  PROVE  T!Target = "tuner" /\ Good("tuner", T!Written)
  <1> DEFINE f == "tuner"
             a == "pat 6"
             b == "pat 6, 2hop 7"
             r == <<b>>
             w == T!Written
  <1>1. T!Target = f /\ ~Occurs(b, tree[f]) /\ Occurs(a, tree[f])
    BY Step1Is
  <1>2. w = T!ReplaceFirstSubSeq(r, <<a>>, tree[f])
    BY Step1Is
  <1>3. a \in Words /\ b \in Words /\ a # b
    BY DEF Words
  <1>3b. r = <<b>>
    OBVIOUS
  <1>4. tree[f] \in Texts /\ Once(tree[f])
    BY ShapeFacts, FilesAre
  <1> HIDE DEF a, b, f, r, w
  <1>5. r \in Texts /\ Once(r) /\ \A t : Occurs(t, r) <=> t \in {b}
    BY <1>3, <1>3b, Alone
  <1>6. /\ w \in Texts /\ Once(w) /\ ~Occurs(a, w)
        /\ \A t : Occurs(t, w) => Occurs(t, tree[f]) \/ t \in {b}
    BY <1>1, <1>2, <1>3, <1>4, <1>5, OneForOne
  <1>7. Good(f, w)
    BY <1>6 DEF Good, f
  <1> QED
    BY <1>1, <1>7 DEF f, w

LEMMA Written2 ==
  ASSUME Shape, step = 2, ~T!Applied, T!Anchored
  PROVE  T!Target = "tuner_v5" /\ Good("tuner_v5", T!Written)
  <1> DEFINE f == "tuner_v5"
             a == "algorithms 7"
             b == "algorithms 8"
             r == <<b>>
             w == T!Written
  <1>1. T!Target = f /\ ~Occurs(b, tree[f]) /\ Occurs(a, tree[f])
    BY Step2Is
  <1>2. w = T!ReplaceFirstSubSeq(r, <<a>>, tree[f])
    BY Step2Is
  <1>3. a \in Words /\ b \in Words /\ a # b
    BY DEF Words
  <1>3b. r = <<b>>
    OBVIOUS
  <1>4. tree[f] \in Texts /\ Once(tree[f])
    BY ShapeFacts, FilesAre
  <1> HIDE DEF a, b, f, r, w
  <1>5. r \in Texts /\ Once(r) /\ \A t : Occurs(t, r) <=> t \in {b}
    BY <1>3, <1>3b, Alone
  <1>6. /\ w \in Texts /\ Once(w) /\ ~Occurs(a, w)
        /\ \A t : Occurs(t, w) => Occurs(t, tree[f]) \/ t \in {b}
    BY <1>1, <1>2, <1>3, <1>4, <1>5, OneForOne
  <1>7. Good(f, w)
    BY <1>6 DEF Good, f
  <1> QED
    BY <1>1, <1>7 DEF f, w

LEMMA Written3 ==
  ASSUME Shape, step = 3, ~T!Applied, T!Anchored
  PROVE  T!Target = "init" /\ Good("init", T!Written)
  <1> DEFINE f == "init"
             a == "algo names"
             b == "algo names, 2hop"
             r == <<b>>
             w == T!Written
  <1>1. T!Target = f /\ ~Occurs(b, tree[f]) /\ Occurs(a, tree[f])
    BY Step3Is
  <1>2. w = T!ReplaceFirstSubSeq(r, <<a>>, tree[f])
    BY Step3Is
  <1>3. a \in Words /\ b \in Words /\ a # b
    BY DEF Words
  <1>3b. r = <<b>>
    OBVIOUS
  <1>4. tree[f] \in Texts /\ Once(tree[f])
    BY ShapeFacts, FilesAre
  <1> HIDE DEF a, b, f, r, w
  <1>5. r \in Texts /\ Once(r) /\ \A t : Occurs(t, r) <=> t \in {b}
    BY <1>3, <1>3b, Alone
  <1>6. /\ w \in Texts /\ Once(w) /\ ~Occurs(a, w)
        /\ \A t : Occurs(t, w) => Occurs(t, tree[f]) \/ t \in {b}
    BY <1>1, <1>2, <1>3, <1>4, <1>5, OneForOne
  <1>7. ~(Occurs("graphs", w) /\ Occurs("graphs, ring", w))
    <2>1. "graphs" \notin {b} /\ "graphs, ring" \notin {b}
      BY DEF b
    <2>2. ~(Occurs("graphs", tree[f]) /\ Occurs("graphs, ring", tree[f]))
      BY ShapeFacts DEF f
    <2> QED
      BY <1>6, <2>1, <2>2
  <1>8. Good(f, w)
    BY <1>6, <1>7 DEF Good, f
  <1> QED
    BY <1>1, <1>8 DEF f, w

LEMMA Written4 ==
  ASSUME Shape, step = 4, ~T!Applied, T!Anchored
  PROVE  T!Target = "init" /\ Good("init", T!Written)
  <1> DEFINE f == "init"
             a == "graphs"
             b == "graphs, ring"
             r == <<b>>
             w == T!Written
  <1>1. T!Target = f /\ Occurs(a, tree[f])
    BY Step4Is
  <1>2. w = T!ReplaceFirstSubSeq(r, <<a>>, tree[f])
    BY Step4Is
  <1>3. a \in Words /\ b \in Words /\ a # b
    BY DEF Words
  <1>3b. r = <<b>>
    OBVIOUS
  <1>3a. ~Occurs(b, tree[f])
    BY <1>1, ShapeFacts
  <1>4. tree[f] \in Texts /\ Once(tree[f])
    BY ShapeFacts, FilesAre
  <1> HIDE DEF a, b, f, r, w
  <1>5. r \in Texts /\ Once(r) /\ \A t : Occurs(t, r) <=> t \in {b}
    BY <1>3, <1>3b, Alone
  <1>6. /\ w \in Texts /\ Once(w) /\ ~Occurs(a, w)
        /\ \A t : Occurs(t, w) => Occurs(t, tree[f]) \/ t \in {b}
    BY <1>1, <1>2, <1>3, <1>3a, <1>4, <1>5, OneForOne
  <1>7. Good(f, w)
    BY <1>6, ShapeFacts DEF Good, f, a, b
  <1> QED
    BY <1>1, <1>7 DEF f, w

LEMMA Written5 ==
  ASSUME Shape, step = 5, ~T!Applied, T!Anchored
  PROVE  T!Target = "tuning" /\ Good("tuning", T!Written)
  <1> DEFINE f == "tuning"
             a == "threads"
             b == "2hop threads"
             r == <<a, b>>
             w == T!Written
  <1>1. T!Target = f /\ ~Occurs(b, tree[f]) /\ Occurs(a, tree[f])
    BY Step5Is
  <1>2. w = T!ReplaceFirstSubSeq(r, <<a>>, tree[f])
    BY Step5Is
  <1>3. a \in Words /\ b \in Words /\ a # b /\ r = <<a, b>>
    BY DEF Words
  <1>4. tree[f] \in Texts /\ Once(tree[f])
    BY ShapeFacts, FilesAre
  <1> HIDE DEF a, b, f, r, w
  <1>5. r \in Texts /\ Once(r) /\ \A t : Occurs(t, r) <=> t \in {a, b}
    BY <1>3, Pair
  <1>6. /\ w \in Texts /\ Once(w)
        /\ \A t : Occurs(t, w) <=> Occurs(t, tree[f]) \/ t = b
    BY <1>1, <1>2, <1>3, <1>4, <1>5, OneMore
  <1>7. Good(f, w)
    BY <1>6 DEF Good, f
  <1> QED
    BY <1>1, <1>7 DEF f, w

LEMMA Written6 ==
  ASSUME Shape, step = 6, ~T!Applied, T!Anchored
  PROVE  /\ T!Target = "kernels" /\ Good("kernels", T!Written)
         /\ Occurs("run2Hop", T!Written)
         /\ \A d \in {"simple", "ll", "ll128"} : ~Occurs(d, T!Written)
  <1> DEFINE f == "kernels"
             a == "namespace end"
             b == "run2Hop"
             r == <<b, a>>
             w == T!Written
  <1>1. T!Target = f /\ ~Occurs(b, tree[f]) /\ Occurs(a, tree[f])
    BY Step6Is
  <1>2. w = T!ReplaceFirstSubSeq(r, <<a>>, tree[f])
    BY Step6Is
  <1>3. a \in Words /\ b \in Words /\ a # b /\ r = <<b, a>>
    BY DEF Words
  <1>4. tree[f] \in Texts /\ Once(tree[f])
    BY ShapeFacts, FilesAre
  <1> HIDE DEF a, b, f, r, w
  <1>5. r \in Texts /\ Once(r) /\ \A t : Occurs(t, r) <=> t \in {a, b}
    BY <1>3, Pair
  <1>6. /\ w \in Texts /\ Once(w)
        /\ \A t : Occurs(t, w) <=> Occurs(t, tree[f]) \/ t = b
    BY <1>1, <1>2, <1>3, <1>4, <1>5, OneMore
  <1>7. \A d \in {"simple", "ll", "ll128"} : ~Occurs(d, w)
    BY <1>1, <1>6, ShapeFacts DEF Calls, f, b
  <1>8. Good(f, w)
    BY <1>6, <1>7 DEF Good, Calls, f
  <1> QED
    BY <1>1, <1>6, <1>7, <1>8 DEF f, b, w

LEMMA Written7 ==
  ASSUME Shape, step = 7, ~T!Applied
  PROVE  T!Target = "kernels" /\ Good("kernels", T!Written)
  <1> DEFINE s == tree["kernels"]
             r == T!Dispatch
             w == T!Written
  <1>1. /\ r \in Texts /\ Once(r)
        /\ \A t : Occurs(t, r) <=> t \in {"simple", "ll", "ll128"}
    BY DispatchFacts
  <1>2. T!Target = "kernels" /\ ~Occurs("simple", s) /\ w = s \o r
    BY LastIs
  <1>3. s \in Texts /\ Once(s) /\ Calls(s) /\ Occurs("run2Hop", s)
    BY ShapeFacts, FilesAre DEF Shape
  <1> HIDE DEF s, r, w
  <1>4. \A t : Occurs(t, r) => ~Occurs(t, s)
    BY <1>1, <1>2, <1>3 DEF Calls
  <1>5. w \in Texts /\ Once(w) /\ \A t : Occurs(t, w) <=> Occurs(t, s) \/ Occurs(t, r)
    BY <1>1, <1>2, <1>3, <1>4, JoinedOnce
  <1>6. Good("kernels", w)
    BY <1>1, <1>3, <1>5 DEF Good, Calls
  <1> QED
    BY <1>2, <1>6 DEF w

\* What a step writes is a good file.
LEMMA WrittenGood ==
  ASSUME Shape, step # 0, ~T!Applied, T!Anchored
  PROVE  T!Target \in T!Files /\ Good(T!Target, T!Written)
  <1>1. step \in {1, 2, 3, 4, 5, 6, 7}
    BY DEF Shape
  <1> QED
    BY <1>1, FilesAre, Written1, Written2, Written3, Written4, Written5, Written6, Written7

\* Nor is what a crash leaves of it a bad one.
LEMMA TornGood ==
  ASSUME Shape, step # 0, ~T!Applied, T!Anchored, NEW n \in 0 .. Len(T!Written) - 1,
         step = T!FinalStep => n >= Len(tree[T!Target])
  PROVE  Good(T!Target, SubSeq(T!Written, 1, n))
  <1> DEFINE w == T!Written
             v == SubSeq(w, 1, n)
  <1>1. T!Target \in T!Files /\ Good(T!Target, w)
    BY WrittenGood
  <1>2. step = 6 => \A d \in {"simple", "ll", "ll128"} : ~Occurs(d, w)
    BY Written6
  <1>3. step = 7 => T!Target = "kernels" /\ w = tree["kernels"] \o T!Dispatch
                    /\ ~Occurs("simple", tree["kernels"])
    BY LastIs
  <1>4. n \in 0 .. Len(w) /\ w \in Texts /\ Once(w)
    <2>1. w \in Texts /\ Once(w)
      BY <1>1 DEF Good
    <2>2. Len(w) \in Nat /\ n \in 0 .. Len(w) - 1
      BY <2>1, TextFacts
    <2> HIDE DEF w
    <2> QED
      BY <2>1, <2>2
  <1> HIDE DEF w
  <1>5. /\ v \in Texts /\ Once(v) /\ DOMAIN v = 1 .. n
        /\ \A i \in 1 .. n : v[i] = w[i] /\ i \in DOMAIN w
        /\ \A t : Occurs(t, v) => Occurs(t, w)
    BY <1>4, PrefixOnce
  <1> HIDE DEF v
  <1>6. T!Target = "init" => ~(Occurs("graphs", v) /\ Occurs("graphs, ring", v))
    BY <1>1, <1>5 DEF Good
  <1>7. CASE step \in 1..5
    <2>1. step \in {1, 2, 3, 4, 5}
      BY <1>7
    <2>2. T!Target # "kernels"
      BY <2>1, Written1, Written2, Written3, Written4, Written5
    <2> QED
      BY <1>5, <1>6, <2>2 DEF Good, v, w
  <1>8. CASE step = 6
    <2>1. \A d \in {"simple", "ll", "ll128"} : ~Occurs(d, v)
      BY <1>2, <1>5, <1>8
    <2> QED
      BY <1>5, <1>6, <2>1 DEF Good, Calls, v, w
  <1>9. CASE step = 7
    <2> DEFINE s == tree["kernels"]
    <2>1. s \in Texts /\ Calls(s) /\ Occurs("run2Hop", s)
      BY <1>9, FilesAre DEF Shape, Good
    <2>2. n >= Len(s)
      BY <1>3, <1>9, Final
    <2> DEFINE e == T!Dispatch
    <2>3. e \in Texts /\ Len(e) = 3 /\ e[1] = "simple"
      BY DispatchFacts
    <2> HIDE DEF e
    <2>4. /\ Len(w) = Len(s) + Len(e)
          /\ \A k \in 1 .. Len(s) : w[k] = s[k]
          /\ \A k \in 1 .. Len(e) : w[Len(s) + k] = e[k]
      <3>1. w = s \o e
        BY <1>3, <1>9 DEF e
      <3> HIDE DEF s
      <3> QED
        BY <2>1, <2>3, <3>1, Joined
    <2>5. DOMAIN s = 1 .. Len(s) /\ Len(s) \in Nat /\ n \in Nat
      BY <1>4, <2>1, TextFacts
    <2>6. \A k \in 1 .. Len(s) : k \in 1 .. n /\ v[k] = s[k]
      BY <1>5, <2>2, <2>4, <2>5
    <2>7. \A t : Occurs(t, s) => Occurs(t, v)
      BY <1>5, <2>5, <2>6 DEF Occurs
    <2>8. ASSUME NEW d \in {"simple", "ll", "ll128"}, Occurs(d, v) PROVE Occurs("simple", v)
      <3>1. PICK i \in 1 .. n : v[i] = d
        BY <1>5, <2>8 DEF Occurs
      <3>2. ~Occurs(d, s)
        BY <1>3, <1>9, <2>1 DEF Calls
      <3>3. i > Len(s)
        BY <2>5, <2>6, <3>1, <3>2 DEF Occurs
      <3>4. Len(s) + 1 \in 1 .. n
        BY <2>5, <3>1, <3>3
      <3>5. v[Len(s) + 1] = "simple"
        BY <1>5, <2>3, <2>4, <3>4
      <3> QED
        BY <1>5, <3>4, <3>5 DEF Occurs
    <2>9. Calls(v)
      BY <2>1, <2>7, <2>8 DEF Calls
    <2> QED
      BY <1>5, <1>6, <2>9 DEF Good, v, w
  <1> QED
    BY <1>7, <1>8, <1>9 DEF Shape

-----------------------------------------------------------------------------
(***************************************************************************)
(* What each step leaves as long as nothing was torn.                      *)
(***************************************************************************)

LEMMA PristineFacts ==
  /\ T!Pristine["tuner"] = <<"pat 6", "rest">>
  /\ T!Pristine["tuner_v5"] = <<"algorithms 7", "rest">>
  /\ T!Pristine["init"] = <<"algo names", "graphs", "rest">>
  /\ T!Pristine["tuning"] = <<"threads", "rest">>
  /\ T!Pristine["kernels"] = <<"namespace end", "rest">>
  BY DEF T!Pristine

LEMMA PatchedFacts ==
  /\ T!Patched["tuner"] = <<"pat 6, 2hop 7", "rest">>
  /\ T!Patched["tuner_v5"] = <<"algorithms 8", "rest">>
  /\ T!Patched["init"] = <<"algo names, 2hop", "graphs, ring", "rest">>
  /\ T!Patched["tuning"] = <<"threads", "2hop threads", "rest">>
  /\ T!Patched["kernels"] = WithKernel \o T!Dispatch
  BY DEF T!Patched, WithKernel

\* The texts of a file before and after each step.
LEMMA TunerBefore ==
  LET s == T!Pristine["tuner"] IN
  /\ s \in Texts /\ Len(s) = 2 /\ s[1] = "pat 6" /\ s[2] = "rest"
  /\ Once(s)
  /\ \A t : Occurs(t, s) <=> t \in {"pat 6", "rest"}
  <1> DEFINE s == T!Pristine["tuner"]
             a == "pat 6"
             b == "rest"
  <1>1. a \in Words /\ b \in Words /\ a # b
    BY DEF Words
  <1>2. s = <<a, b>>
    BY PristineFacts
  <1> HIDE DEF s, a, b
  <1>3. /\ s \in Texts /\ Len(s) = 2 /\ s[1] = a /\ s[2] = b
        /\ Once(s)
        /\ \A t : Occurs(t, s) <=> t \in {a, b}
    BY <1>1, <1>2, Pair
  <1> QED
    BY <1>3 DEF s, a, b

LEMMA TunerAfter ==
  LET s == T!Patched["tuner"] IN
  /\ s \in Texts /\ Len(s) = 2 /\ s[1] = "pat 6, 2hop 7" /\ s[2] = "rest"
  /\ Once(s)
  /\ \A t : Occurs(t, s) <=> t \in {"pat 6, 2hop 7", "rest"}
  <1> DEFINE s == T!Patched["tuner"]
             a == "pat 6, 2hop 7"
             b == "rest"
  <1>1. a \in Words /\ b \in Words /\ a # b
    BY DEF Words
  <1>2. s = <<a, b>>
    BY PatchedFacts
  <1> HIDE DEF s, a, b
  <1>3. /\ s \in Texts /\ Len(s) = 2 /\ s[1] = a /\ s[2] = b
        /\ Once(s)
        /\ \A t : Occurs(t, s) <=> t \in {a, b}
    BY <1>1, <1>2, Pair
  <1> QED
    BY <1>3 DEF s, a, b

LEMMA TunerV5Before ==
  LET s == T!Pristine["tuner_v5"] IN
  /\ s \in Texts /\ Len(s) = 2 /\ s[1] = "algorithms 7" /\ s[2] = "rest"
  /\ Once(s)
  /\ \A t : Occurs(t, s) <=> t \in {"algorithms 7", "rest"}
  <1> DEFINE s == T!Pristine["tuner_v5"]
             a == "algorithms 7"
             b == "rest"
  <1>1. a \in Words /\ b \in Words /\ a # b
    BY DEF Words
  <1>2. s = <<a, b>>
    BY PristineFacts
  <1> HIDE DEF s, a, b
  <1>3. /\ s \in Texts /\ Len(s) = 2 /\ s[1] = a /\ s[2] = b
        /\ Once(s)
        /\ \A t : Occurs(t, s) <=> t \in {a, b}
    BY <1>1, <1>2, Pair
  <1> QED
    BY <1>3 DEF s, a, b

LEMMA TunerV5After ==
  LET s == T!Patched["tuner_v5"] IN
  /\ s \in Texts /\ Len(s) = 2 /\ s[1] = "algorithms 8" /\ s[2] = "rest"
  /\ Once(s)
  /\ \A t : Occurs(t, s) <=> t \in {"algorithms 8", "rest"}
  <1> DEFINE s == T!Patched["tuner_v5"]
             a == "algorithms 8"
             b == "rest"
  <1>1. a \in Words /\ b \in Words /\ a # b
    BY DEF Words
  <1>2. s = <<a, b>>
    BY PatchedFacts
  <1> HIDE DEF s, a, b
  <1>3. /\ s \in Texts /\ Len(s) = 2 /\ s[1] = a /\ s[2] = b
        /\ Once(s)
        /\ \A t : Occurs(t, s) <=> t \in {a, b}
    BY <1>1, <1>2, Pair
  <1> QED
    BY <1>3 DEF s, a, b

LEMMA InitBefore ==
  LET s == T!Pristine["init"] IN
  /\ s \in Texts /\ Len(s) = 3 /\ s[1] = "algo names" /\ s[2] = "graphs" /\ s[3] = "rest"
  /\ Once(s)
  /\ \A t : Occurs(t, s) <=> t \in {"algo names", "graphs", "rest"}
  <1> DEFINE s == T!Pristine["init"]
             a == "algo names"
             b == "graphs"
             c == "rest"
  <1>1. a \in Words /\ b \in Words /\ c \in Words /\ a # b /\ a # c /\ b # c
    BY DEF Words
  <1>2. s = <<a, b, c>>
    BY PristineFacts
  <1> HIDE DEF s, a, b, c
  <1>3. /\ s \in Texts /\ Len(s) = 3 /\ s[1] = a /\ s[2] = b /\ s[3] = c
        /\ Once(s)
        /\ \A t : Occurs(t, s) <=> t \in {a, b, c}
    BY <1>1, <1>2, Triple
  <1> QED
    BY <1>3 DEF s, a, b, c

LEMMA InitBetween ==
  LET s == Named IN
  /\ s \in Texts /\ Len(s) = 3 /\ s[1] = "algo names, 2hop" /\ s[2] = "graphs" /\ s[3] = "rest"
  /\ Once(s)
  /\ \A t : Occurs(t, s) <=> t \in {"algo names, 2hop", "graphs", "rest"}
  <1> DEFINE s == Named
             a == "algo names, 2hop"
             b == "graphs"
             c == "rest"
  <1>1. a \in Words /\ b \in Words /\ c \in Words /\ a # b /\ a # c /\ b # c
    BY DEF Words
  <1>2. s = <<a, b, c>>
    BY DEF Named
  <1> HIDE DEF s, a, b, c
  <1>3. /\ s \in Texts /\ Len(s) = 3 /\ s[1] = a /\ s[2] = b /\ s[3] = c
        /\ Once(s)
        /\ \A t : Occurs(t, s) <=> t \in {a, b, c}
    BY <1>1, <1>2, Triple
  <1> QED
    BY <1>3 DEF s, a, b, c

LEMMA InitAfter ==
  LET s == T!Patched["init"] IN
  /\ s \in Texts /\ Len(s) = 3
  /\ s[1] = "algo names, 2hop" /\ s[2] = "graphs, ring" /\ s[3] = "rest"
  /\ Once(s)
  /\ \A t : Occurs(t, s) <=> t \in {"algo names, 2hop", "graphs, ring", "rest"}
  <1> DEFINE s == T!Patched["init"]
             a == "algo names, 2hop"
             b == "graphs, ring"
             c == "rest"
  <1>1. a \in Words /\ b \in Words /\ c \in Words /\ a # b /\ a # c /\ b # c
    BY DEF Words
  <1>2. s = <<a, b, c>>
    BY PatchedFacts
  <1> HIDE DEF s, a, b, c
  <1>3. /\ s \in Texts /\ Len(s) = 3 /\ s[1] = a /\ s[2] = b /\ s[3] = c
        /\ Once(s)
        /\ \A t : Occurs(t, s) <=> t \in {a, b, c}
    BY <1>1, <1>2, Triple
  <1> QED
    BY <1>3 DEF s, a, b, c

LEMMA TuningBefore ==
  LET s == T!Pristine["tuning"] IN
  /\ s \in Texts /\ Len(s) = 2 /\ s[1] = "threads" /\ s[2] = "rest"
  /\ Once(s)
  /\ \A t : Occurs(t, s) <=> t \in {"threads", "rest"}
  <1> DEFINE s == T!Pristine["tuning"]
             a == "threads"
             b == "rest"
  <1>1. a \in Words /\ b \in Words /\ a # b
    BY DEF Words
  <1>2. s = <<a, b>>
    BY PristineFacts
  <1> HIDE DEF s, a, b
  <1>3. /\ s \in Texts /\ Len(s) = 2 /\ s[1] = a /\ s[2] = b
        /\ Once(s)
        /\ \A t : Occurs(t, s) <=> t \in {a, b}
    BY <1>1, <1>2, Pair
  <1> QED
    BY <1>3 DEF s, a, b

LEMMA TuningAfter ==
  LET s == T!Patched["tuning"] IN
  /\ s \in Texts /\ Len(s) = 3 /\ s[1] = "threads" /\ s[2] = "2hop threads" /\ s[3] = "rest"
  /\ Once(s)
  /\ \A t : Occurs(t, s) <=> t \in {"threads", "2hop threads", "rest"}
  <1> DEFINE s == T!Patched["tuning"]
             a == "threads"
             b == "2hop threads"
             c == "rest"
  <1>1. a \in Words /\ b \in Words /\ c \in Words /\ a # b /\ a # c /\ b # c
    BY DEF Words
  <1>2. s = <<a, b, c>>
    BY PatchedFacts
  <1> HIDE DEF s, a, b, c
  <1>3. /\ s \in Texts /\ Len(s) = 3 /\ s[1] = a /\ s[2] = b /\ s[3] = c
        /\ Once(s)
        /\ \A t : Occurs(t, s) <=> t \in {a, b, c}
    BY <1>1, <1>2, Triple
  <1> QED
    BY <1>3 DEF s, a, b, c

LEMMA KernelsBefore ==
  LET s == T!Pristine["kernels"] IN
  /\ s \in Texts /\ Len(s) = 2 /\ s[1] = "namespace end" /\ s[2] = "rest"
  /\ Once(s)
  /\ \A t : Occurs(t, s) <=> t \in {"namespace end", "rest"}
  <1> DEFINE s == T!Pristine["kernels"]
             a == "namespace end"
             b == "rest"
  <1>1. a \in Words /\ b \in Words /\ a # b
    BY DEF Words
  <1>2. s = <<a, b>>
    BY PristineFacts
  <1> HIDE DEF s, a, b
  <1>3. /\ s \in Texts /\ Len(s) = 2 /\ s[1] = a /\ s[2] = b
        /\ Once(s)
        /\ \A t : Occurs(t, s) <=> t \in {a, b}
    BY <1>1, <1>2, Pair
  <1> QED
    BY <1>3 DEF s, a, b

LEMMA KernelsBetween ==
  LET s == WithKernel IN
  /\ s \in Texts /\ Len(s) = 3 /\ s[1] = "run2Hop" /\ s[2] = "namespace end" /\ s[3] = "rest"
  /\ Once(s)
  /\ \A t : Occurs(t, s) <=> t \in {"run2Hop", "namespace end", "rest"}
  <1> DEFINE s == WithKernel
             a == "run2Hop"
             b == "namespace end"
             c == "rest"
  <1>1. a \in Words /\ b \in Words /\ c \in Words /\ a # b /\ a # c /\ b # c
    BY DEF Words
  <1>2. s = <<a, b, c>>
    BY DEF WithKernel
  <1> HIDE DEF s, a, b, c
  <1>3. /\ s \in Texts /\ Len(s) = 3 /\ s[1] = a /\ s[2] = b /\ s[3] = c
        /\ Once(s)
        /\ \A t : Occurs(t, s) <=> t \in {a, b, c}
    BY <1>1, <1>2, Triple
  <1> QED
    BY <1>3 DEF s, a, b, c

LEMMA KernelsAfter ==
  Occurs("simple", T!Patched["kernels"]) /\ Occurs("run2Hop", T!Patched["kernels"])
  <1> DEFINE s == WithKernel
             r == T!Dispatch
             w == T!Patched["kernels"]
  <1>1. s \in Texts /\ Once(s) /\ \A t : Occurs(t, s) <=> t \in {"run2Hop", "namespace end", "rest"}
    BY KernelsBetween
  <1>2. r \in Texts /\ Once(r) /\ \A t : Occurs(t, r) <=> t \in {"simple", "ll", "ll128"}
    BY DispatchFacts
  <1>3. w = s \o r
    BY PatchedFacts
  <1> HIDE DEF s, r, w
  <1>4. \A t : Occurs(t, r) => ~Occurs(t, s)
    BY <1>1, <1>2
  <1>5. \A t : Occurs(t, w) <=> Occurs(t, s) \/ Occurs(t, r)
    BY <1>1, <1>2, <1>3, <1>4, JoinedOnce
  <1> QED
    BY <1>1, <1>2, <1>5 DEF w

\* What is not in a file.
LEMMA Missing ==
  /\ ~Occurs("graphs", T!Patched["init"])
  /\ ~Occurs("graphs, ring", T!Pristine["init"])
  /\ ~Occurs("simple", T!Pristine["kernels"])
  /\ ~Occurs("ll", T!Pristine["kernels"])
  /\ ~Occurs("ll128", T!Pristine["kernels"])
  /\ ~Occurs("simple", WithKernel)
  /\ ~Occurs("pat 6, 2hop 7", T!Pristine["tuner"])
  /\ ~Occurs("algorithms 8", T!Pristine["tuner_v5"])
  /\ ~Occurs("algo names, 2hop", T!Pristine["init"])
  /\ ~Occurs("aicad 2hop", T!Pristine["init"])
  /\ ~Occurs("aicad 2hop", Named)
  /\ ~Occurs("aicad 2hop", T!Patched["init"])
  /\ ~Occurs("2hop threads", T!Pristine["tuning"])
  /\ ~Occurs("run2Hop", T!Pristine["kernels"])
  <1>1. ~Occurs("graphs", T!Patched["init"])
    <2> DEFINE s == T!Patched["init"]
               S == {"algo names, 2hop", "graphs, ring", "rest"}
               x == "graphs"
    <2>1. x \notin S
      OBVIOUS
    <2>2. \A t : Occurs(t, s) <=> t \in S
      BY InitAfter
    <2> HIDE DEF s, S, x
    <2>3. ~Occurs(x, s)
      BY <2>1, <2>2
    <2> QED
      BY <2>3 DEF s, x
  <1>2. ~Occurs("graphs, ring", T!Pristine["init"])
    <2> DEFINE s == T!Pristine["init"]
               S == {"algo names", "graphs", "rest"}
               x == "graphs, ring"
    <2>1. x \notin S
      OBVIOUS
    <2>2. \A t : Occurs(t, s) <=> t \in S
      BY InitBefore
    <2> HIDE DEF s, S, x
    <2>3. ~Occurs(x, s)
      BY <2>1, <2>2
    <2> QED
      BY <2>3 DEF s, x
  <1>3. ~Occurs("simple", T!Pristine["kernels"])
    <2> DEFINE s == T!Pristine["kernels"]
               S == {"namespace end", "rest"}
               x == "simple"
    <2>1. x \notin S
      OBVIOUS
    <2>2. \A t : Occurs(t, s) <=> t \in S
      BY KernelsBefore
    <2> HIDE DEF s, S, x
    <2>3. ~Occurs(x, s)
      BY <2>1, <2>2
    <2> QED
      BY <2>3 DEF s, x
  <1>4. ~Occurs("ll", T!Pristine["kernels"])
    <2> DEFINE s == T!Pristine["kernels"]
               S == {"namespace end", "rest"}
               x == "ll"
    <2>1. x \notin S
      OBVIOUS
    <2>2. \A t : Occurs(t, s) <=> t \in S
      BY KernelsBefore
    <2> HIDE DEF s, S, x
    <2>3. ~Occurs(x, s)
      BY <2>1, <2>2
    <2> QED
      BY <2>3 DEF s, x
  <1>5. ~Occurs("ll128", T!Pristine["kernels"])
    <2> DEFINE s == T!Pristine["kernels"]
               S == {"namespace end", "rest"}
               x == "ll128"
    <2>1. x \notin S
      OBVIOUS
    <2>2. \A t : Occurs(t, s) <=> t \in S
      BY KernelsBefore
    <2> HIDE DEF s, S, x
    <2>3. ~Occurs(x, s)
      BY <2>1, <2>2
    <2> QED
      BY <2>3 DEF s, x
  <1>6. ~Occurs("simple", WithKernel)
    <2> DEFINE s == WithKernel
               S == {"run2Hop", "namespace end", "rest"}
               x == "simple"
    <2>1. x \notin S
      OBVIOUS
    <2>2. \A t : Occurs(t, s) <=> t \in S
      BY KernelsBetween
    <2> HIDE DEF s, S, x
    <2>3. ~Occurs(x, s)
      BY <2>1, <2>2
    <2> QED
      BY <2>3 DEF s, x
  <1>7. ~Occurs("pat 6, 2hop 7", T!Pristine["tuner"])
    <2> DEFINE s == T!Pristine["tuner"]
               S == {"pat 6", "rest"}
               x == "pat 6, 2hop 7"
    <2>1. x \notin S
      OBVIOUS
    <2>2. \A t : Occurs(t, s) <=> t \in S
      BY TunerBefore
    <2> HIDE DEF s, S, x
    <2>3. ~Occurs(x, s)
      BY <2>1, <2>2
    <2> QED
      BY <2>3 DEF s, x
  <1>8. ~Occurs("algorithms 8", T!Pristine["tuner_v5"])
    <2> DEFINE s == T!Pristine["tuner_v5"]
               S == {"algorithms 7", "rest"}
               x == "algorithms 8"
    <2>1. x \notin S
      OBVIOUS
    <2>2. \A t : Occurs(t, s) <=> t \in S
      BY TunerV5Before
    <2> HIDE DEF s, S, x
    <2>3. ~Occurs(x, s)
      BY <2>1, <2>2
    <2> QED
      BY <2>3 DEF s, x
  <1>9. ~Occurs("algo names, 2hop", T!Pristine["init"])
    <2> DEFINE s == T!Pristine["init"]
               S == {"algo names", "graphs", "rest"}
               x == "algo names, 2hop"
    <2>1. x \notin S
      OBVIOUS
    <2>2. \A t : Occurs(t, s) <=> t \in S
      BY InitBefore
    <2> HIDE DEF s, S, x
    <2>3. ~Occurs(x, s)
      BY <2>1, <2>2
    <2> QED
      BY <2>3 DEF s, x
  <1>10. ~Occurs("aicad 2hop", T!Pristine["init"])
    <2> DEFINE s == T!Pristine["init"]
               S == {"algo names", "graphs", "rest"}
               x == "aicad 2hop"
    <2>1. x \notin S
      OBVIOUS
    <2>2. \A t : Occurs(t, s) <=> t \in S
      BY InitBefore
    <2> HIDE DEF s, S, x
    <2>3. ~Occurs(x, s)
      BY <2>1, <2>2
    <2> QED
      BY <2>3 DEF s, x
  <1>11. ~Occurs("aicad 2hop", Named)
    <2> DEFINE s == Named
               S == {"algo names, 2hop", "graphs", "rest"}
               x == "aicad 2hop"
    <2>1. x \notin S
      OBVIOUS
    <2>2. \A t : Occurs(t, s) <=> t \in S
      BY InitBetween
    <2> HIDE DEF s, S, x
    <2>3. ~Occurs(x, s)
      BY <2>1, <2>2
    <2> QED
      BY <2>3 DEF s, x
  <1>12. ~Occurs("aicad 2hop", T!Patched["init"])
    <2> DEFINE s == T!Patched["init"]
               S == {"algo names, 2hop", "graphs, ring", "rest"}
               x == "aicad 2hop"
    <2>1. x \notin S
      OBVIOUS
    <2>2. \A t : Occurs(t, s) <=> t \in S
      BY InitAfter
    <2> HIDE DEF s, S, x
    <2>3. ~Occurs(x, s)
      BY <2>1, <2>2
    <2> QED
      BY <2>3 DEF s, x
  <1>13. ~Occurs("2hop threads", T!Pristine["tuning"])
    <2> DEFINE s == T!Pristine["tuning"]
               S == {"threads", "rest"}
               x == "2hop threads"
    <2>1. x \notin S
      OBVIOUS
    <2>2. \A t : Occurs(t, s) <=> t \in S
      BY TuningBefore
    <2> HIDE DEF s, S, x
    <2>3. ~Occurs(x, s)
      BY <2>1, <2>2
    <2> QED
      BY <2>3 DEF s, x
  <1>14. ~Occurs("run2Hop", T!Pristine["kernels"])
    <2> DEFINE s == T!Pristine["kernels"]
               S == {"namespace end", "rest"}
               x == "run2Hop"
    <2>1. x \notin S
      OBVIOUS
    <2>2. \A t : Occurs(t, s) <=> t \in S
      BY KernelsBefore
    <2> HIDE DEF s, S, x
    <2>3. ~Occurs(x, s)
      BY <2>1, <2>2
    <2> QED
      BY <2>3 DEF s, x
  <1> QED
    BY <1>1, <1>2, <1>3, <1>4, <1>5, <1>6, <1>7, <1>8, <1>9, <1>10, <1>11, <1>12, <1>13, <1>14

\* What a replacement makes of a file of two or three texts.
LEMMA OneOfTwo ==
  ASSUME NEW s, s \in Texts, Once(s), Len(s) = 2, NEW a, s[1] = a,
         NEW r, r \in Texts, Len(r) = 1,
         NEW w, w \in Texts, Len(w) = 2, w[1] = r[1], w[2] = s[2]
  PROVE  w = T!ReplaceFirstSubSeq(r, <<a>>, s)
  <1> DEFINE i == 1
  <1>1. i \in DOMAIN s /\ i = 1
    BY TextFacts
  <1> HIDE DEF i
  <1>2. Len(w) = (i - 1) + Len(r) + (Len(s) - i)
    BY <1>1
  <1>3. \A k \in 1 .. i - 1 : w[k] = s[k]
    BY <1>1
  <1>4. \A k \in 1 .. Len(r) : w[(i - 1) + k] = r[k]
    <2>1. \A k \in 1 .. Len(r) : (i - 1) + k = 1 /\ k = 1
      BY <1>1
    <2> QED
      BY <2>1
  <1>5. \A k \in 1 .. Len(s) - i : w[(i - 1) + Len(r) + k] = s[i + k]
    <2>1. \A k \in 1 .. Len(s) - i : (i - 1) + Len(r) + k = 2 /\ i + k = 2
      BY <1>1
    <2> QED
      BY <2>1
  <1>6. T!ReplaceFirstSubSeq(r, <<s[i]>>, s) = w
    BY <1>1, <1>2, <1>3, <1>4, <1>5, Replaced
  <1>7. s[i] = a
    BY <1>1
  <1> QED
    BY <1>6, <1>7

LEMMA TwoOfTwo ==
  ASSUME NEW s, s \in Texts, Once(s), Len(s) = 2, NEW a, s[1] = a,
         NEW r, r \in Texts, Len(r) = 2,
         NEW w, w \in Texts, Len(w) = 3, w[1] = r[1], w[2] = r[2], w[3] = s[2]
  PROVE  w = T!ReplaceFirstSubSeq(r, <<a>>, s)
  <1> DEFINE i == 1
  <1>1. i \in DOMAIN s /\ i = 1
    BY TextFacts
  <1> HIDE DEF i
  <1>2. Len(w) = (i - 1) + Len(r) + (Len(s) - i)
    BY <1>1
  <1>3. \A k \in 1 .. i - 1 : w[k] = s[k]
    BY <1>1
  <1>4. \A k \in 1 .. Len(r) : w[(i - 1) + k] = r[k]
    <2>1. \A k \in 1 .. Len(r) : (i - 1) + k = k /\ k \in {1, 2}
      BY <1>1
    <2> QED
      BY <2>1
  <1>5. \A k \in 1 .. Len(s) - i : w[(i - 1) + Len(r) + k] = s[i + k]
    <2>1. \A k \in 1 .. Len(s) - i : (i - 1) + Len(r) + k = 3 /\ i + k = 2
      BY <1>1
    <2> QED
      BY <2>1
  <1>6. T!ReplaceFirstSubSeq(r, <<s[i]>>, s) = w
    BY <1>1, <1>2, <1>3, <1>4, <1>5, Replaced
  <1>7. s[i] = a
    BY <1>1
  <1> QED
    BY <1>6, <1>7

LEMMA OneOfThree ==
  ASSUME NEW s, s \in Texts, Once(s), Len(s) = 3, NEW i, i \in 1 .. 3, NEW a, s[i] = a,
         NEW r, r \in Texts, Len(r) = 1, NEW w, w \in Texts, Len(w) = 3, w[i] = r[1],
         \A k \in 1 .. 3 : k # i => w[k] = s[k]
  PROVE  w = T!ReplaceFirstSubSeq(r, <<a>>, s)
  <1>1. i \in DOMAIN s
    BY TextFacts
  <1>2. Len(w) = (i - 1) + Len(r) + (Len(s) - i)
    OBVIOUS
  <1>3. \A k \in 1 .. i - 1 : w[k] = s[k]
    OBVIOUS
  <1>4. \A k \in 1 .. Len(r) : w[(i - 1) + k] = r[k]
    <2>1. \A k \in 1 .. Len(r) : (i - 1) + k = i /\ k = 1
      OBVIOUS
    <2> QED
      BY <2>1
  <1>5. \A k \in 1 .. Len(s) - i : w[(i - 1) + Len(r) + k] = s[i + k]
    <2>1. \A k \in 1 .. Len(s) - i : (i - 1) + Len(r) + k = i + k /\ i + k \in 1 .. 3 /\ i + k # i
      OBVIOUS
    <2> QED
      BY <2>1
  <1>6. T!ReplaceFirstSubSeq(r, <<s[i]>>, s) = w
    BY <1>1, <1>2, <1>3, <1>4, <1>5, Replaced
  <1> QED
    BY <1>6

LEMMA Whole1 ==
  ASSUME Shape, WholeInv, ~torn, step = 1, ~T!Applied
  PROVE  T!Written = T!Patched["tuner"]
  <1> DEFINE s == tree["tuner"]
             w == T!Patched["tuner"]
             a == "pat 6"
             b == "pat 6, 2hop 7"
             g == "rest"
             r == <<b>>
  <1>1. ~Occurs(b, s) /\ T!Written = T!ReplaceFirstSubSeq(r, <<a>>, s)
    BY Step1Is
  <1>2. s = T!Pristine["tuner"]
    BY <1>1, TunerAfter DEF WholeInv
  <1>3. s \in Texts /\ Once(s) /\ Len(s) = 2 /\ s[1] = a /\ s[2] = g
    BY <1>2, TunerBefore
  <1>4. w \in Texts /\ Len(w) = 2 /\ w[1] = b /\ w[2] = g
    BY TunerAfter
  <1>5. a \in Words /\ b \in Words /\ r = <<b>>
    BY DEF Words
  <1> HIDE DEF s, w, r, a, b, g
  <1>6. r \in Texts /\ Len(r) = 1 /\ r[1] = b
    BY <1>5, Alone
  <1>7. w = T!ReplaceFirstSubSeq(r, <<a>>, s)
    BY <1>3, <1>4, <1>6, OneOfTwo
  <1> QED
    BY <1>1, <1>7 DEF w

LEMMA Whole2 ==
  ASSUME Shape, WholeInv, ~torn, step = 2, ~T!Applied
  PROVE  T!Written = T!Patched["tuner_v5"]
  <1> DEFINE s == tree["tuner_v5"]
             w == T!Patched["tuner_v5"]
             a == "algorithms 7"
             b == "algorithms 8"
             g == "rest"
             r == <<b>>
  <1>1. ~Occurs(b, s) /\ T!Written = T!ReplaceFirstSubSeq(r, <<a>>, s)
    BY Step2Is
  <1>2. s = T!Pristine["tuner_v5"]
    BY <1>1, TunerV5After DEF WholeInv
  <1>3. s \in Texts /\ Once(s) /\ Len(s) = 2 /\ s[1] = a /\ s[2] = g
    BY <1>2, TunerV5Before
  <1>4. w \in Texts /\ Len(w) = 2 /\ w[1] = b /\ w[2] = g
    BY TunerV5After
  <1>5. a \in Words /\ b \in Words /\ r = <<b>>
    BY DEF Words
  <1> HIDE DEF s, w, r, a, b, g
  <1>6. r \in Texts /\ Len(r) = 1 /\ r[1] = b
    BY <1>5, Alone
  <1>7. w = T!ReplaceFirstSubSeq(r, <<a>>, s)
    BY <1>3, <1>4, <1>6, OneOfTwo
  <1> QED
    BY <1>1, <1>7 DEF w

LEMMA Whole3 ==
  ASSUME Shape, WholeInv, ~torn, step = 3, ~T!Applied
  PROVE  T!Written = Named
  <1> DEFINE s == tree["init"]
             w == Named
             a == "algo names"
             b == "algo names, 2hop"
             g == "rest"
             c == "graphs"
             r == <<b>>
  <1>1. ~Occurs(b, s) /\ T!Written = T!ReplaceFirstSubSeq(r, <<a>>, s)
    BY Step3Is
  <1>2. s = T!Pristine["init"]
    BY <1>1, InitBetween, InitAfter DEF WholeInv
  <1>3. s \in Texts /\ Once(s) /\ Len(s) = 3 /\ s[1] = a /\ s[2] = c /\ s[3] = g
    BY <1>2, InitBefore
  <1>4. w \in Texts /\ Len(w) = 3 /\ w[1] = b /\ w[2] = c /\ w[3] = g
    BY InitBetween
  <1>5. a \in Words /\ b \in Words /\ r = <<b>>
    BY DEF Words
  <1> HIDE DEF s, w, r, a, b, g, c
  <1>6. r \in Texts /\ Len(r) = 1 /\ r[1] = b
    BY <1>5, Alone
  <1>7. w = T!ReplaceFirstSubSeq(r, <<a>>, s)
    <2> DEFINE i == 1
    <2>1. /\ i \in 1 .. 3 /\ s[i] = a /\ w[i] = r[1]
          /\ \A k \in 1 .. 3 : k # i => w[k] = s[k]
      BY <1>3, <1>4, <1>6
    <2> HIDE DEF i
    <2> QED
      BY <1>3, <1>4, <1>6, <2>1, OneOfThree
  <1> QED
    BY <1>1, <1>7 DEF w

LEMMA Whole4 ==
  ASSUME Shape, WholeInv, ~torn, step = 4, T!Anchored
  PROVE  T!Written = T!Patched["init"]
  <1> DEFINE s == tree["init"]
             w == T!Patched["init"]
             a == "graphs"
             b == "graphs, ring"
             g == "rest"
             c == "algo names, 2hop"
             r == <<b>>
  <1>1. Occurs(a, s) /\ T!Written = T!ReplaceFirstSubSeq(r, <<a>>, s)
    BY Step4Is
  <1>2. s = Named
    <2>1. ~Occurs(a, w)
      BY Missing
    <2>2. s \in {Named, w}
      BY DEF WholeInv
    <2> HIDE DEF s, w, a
    <2> QED
      BY <1>1, <2>1, <2>2
  <1>3. s \in Texts /\ Once(s) /\ Len(s) = 3 /\ s[1] = c /\ s[2] = a /\ s[3] = g
    BY <1>2, InitBetween
  <1>4. w \in Texts /\ Len(w) = 3 /\ w[1] = c /\ w[2] = b /\ w[3] = g
    BY InitAfter
  <1>5. a \in Words /\ b \in Words /\ r = <<b>>
    BY DEF Words
  <1> HIDE DEF s, w, r, a, b, g, c
  <1>6. r \in Texts /\ Len(r) = 1 /\ r[1] = b
    BY <1>5, Alone
  <1>7. w = T!ReplaceFirstSubSeq(r, <<a>>, s)
    <2> DEFINE i == 2
    <2>1. /\ i \in 1 .. 3 /\ s[i] = a /\ w[i] = r[1]
          /\ \A k \in 1 .. 3 : k # i => w[k] = s[k]
      BY <1>3, <1>4, <1>6
    <2> HIDE DEF i
    <2> QED
      BY <1>3, <1>4, <1>6, <2>1, OneOfThree
  <1> QED
    BY <1>1, <1>7 DEF w

LEMMA Whole5 ==
  ASSUME Shape, WholeInv, ~torn, step = 5, ~T!Applied
  PROVE  T!Written = T!Patched["tuning"]
  <1> DEFINE s == tree["tuning"]
             w == T!Patched["tuning"]
             a == "threads"
             b == "2hop threads"
             g == "rest"
             r == <<a, b>>
  <1>1. ~Occurs(b, s) /\ T!Written = T!ReplaceFirstSubSeq(r, <<a>>, s)
    BY Step5Is
  <1>2. s = T!Pristine["tuning"]
    BY <1>1, TuningAfter DEF WholeInv
  <1>3. s \in Texts /\ Once(s) /\ Len(s) = 2 /\ s[1] = a /\ s[2] = g
    BY <1>2, TuningBefore
  <1>4. w \in Texts /\ Len(w) = 3 /\ w[1] = a /\ w[2] = b /\ w[3] = g
    BY TuningAfter
  <1>5. a \in Words /\ b \in Words /\ a # b /\ r = <<a, b>>
    BY DEF Words
  <1> HIDE DEF s, w, r, a, b, g
  <1>6. r \in Texts /\ Len(r) = 2 /\ r[1] = a /\ r[2] = b
    BY <1>5, Pair
  <1>7. w = T!ReplaceFirstSubSeq(r, <<a>>, s)
    BY <1>3, <1>4, <1>6, TwoOfTwo
  <1> QED
    BY <1>1, <1>7 DEF w

LEMMA Whole6 ==
  ASSUME Shape, WholeInv, ~torn, step = 6, ~T!Applied
  PROVE  T!Written = WithKernel
  <1> DEFINE s == tree["kernels"]
             w == WithKernel
             a == "namespace end"
             b == "run2Hop"
             g == "rest"
             r == <<b, a>>
  <1>1. ~Occurs(b, s) /\ T!Written = T!ReplaceFirstSubSeq(r, <<a>>, s)
    BY Step6Is
  <1>2. s = T!Pristine["kernels"]
    BY <1>1, KernelsBetween, KernelsAfter DEF WholeInv
  <1>3. s \in Texts /\ Once(s) /\ Len(s) = 2 /\ s[1] = a /\ s[2] = g
    BY <1>2, KernelsBefore
  <1>4. w \in Texts /\ Len(w) = 3 /\ w[1] = b /\ w[2] = a /\ w[3] = g
    BY KernelsBetween
  <1>5. a \in Words /\ b \in Words /\ a # b /\ r = <<b, a>>
    BY DEF Words
  <1> HIDE DEF s, w, r, a, b, g
  <1>6. r \in Texts /\ Len(r) = 2 /\ r[1] = b /\ r[2] = a
    BY <1>5, Pair
  <1>7. w = T!ReplaceFirstSubSeq(r, <<a>>, s)
    BY <1>3, <1>4, <1>6, TwoOfTwo
  <1> QED
    BY <1>1, <1>7 DEF w

LEMMA Whole7 ==
  ASSUME Shape, WholeInv, ~torn, step = 7, ~T!Applied
  PROVE  T!Written = T!Patched["kernels"]
  <1>1. ~Occurs("simple", tree["kernels"]) /\ T!Written = tree["kernels"] \o T!Dispatch
    BY LastIs
  <1>2. tree["kernels"] = WithKernel
    BY <1>1, KernelsAfter DEF WholeInv
  <1> QED
    BY <1>1, <1>2, PatchedFacts

-----------------------------------------------------------------------------
(***************************************************************************)
(* The steps.                                                              *)
(***************************************************************************)

LEMMA PatchedTree ==
  ASSUME NEW t, t \in [T!Files -> Texts],
         t["tuner"] = T!Patched["tuner"], t["tuner_v5"] = T!Patched["tuner_v5"],
         t["init"] = T!Patched["init"], t["tuning"] = T!Patched["tuning"],
         t["kernels"] = T!Patched["kernels"]
  PROVE  t = T!Patched
  <1>1. T!Patched = [f \in T!Files |-> T!Patched[f]]
    BY FilesAre DEF T!Patched
  <1>2. \A f \in T!Files : t[f] = T!Patched[f]
    BY FilesAre
  <1> QED
    BY <1>1, <1>2

LEMMA PristineTree == T!Pristine \in [T!Files -> Texts]
  <1>1. T!Pristine = [f \in T!Files |-> T!Pristine[f]]
    BY FilesAre DEF T!Pristine
  <1>2. \A f \in T!Files : T!Pristine[f] \in Texts
    BY FilesAre, TunerBefore, TunerV5Before, InitBefore, TuningBefore, KernelsBefore
  <1> QED
    BY <1>1, <1>2

LEMMA TreeInit == ASSUME T!Init PROVE TreeInv
  <1>1. tree = T!Pristine /\ step = 0 /\ outcome = "none" /\ torn = FALSE
    BY DEF T!Init
  <1>2. Good("tuner", T!Pristine["tuner"]) /\ Good("tuner_v5", T!Pristine["tuner_v5"])
        /\ Good("tuning", T!Pristine["tuning"])
    BY TunerBefore, TunerV5Before, TuningBefore DEF Good
  <1>3. Good("init", T!Pristine["init"])
    BY InitBefore, Missing DEF Good
  <1>4. Good("kernels", T!Pristine["kernels"])
    BY KernelsBefore, Missing DEF Good, Calls
  <1>5. Shape
    <2>1. \A f \in T!Files : Good(f, T!Pristine[f])
      BY <1>2, <1>3, <1>4, FilesAre
    <2>2. tree \in [T!Files -> Texts] /\ \A f \in T!Files : Good(f, tree[f])
      BY <1>1, <2>1, PristineTree
    <2>3. step \in 0..7 /\ step # 7
      BY <1>1
    <2>4. torn \in BOOLEAN
      BY <1>1
    <2> QED
      BY <2>2, <2>3, <2>4 DEF Shape
  <1>6. WholeInv
    BY <1>1 DEF WholeInv
  <1> QED
    BY <1>1, <1>5, <1>6 DEF TreeInv, T!DoneMeansPatched

LEMMA FileSet ==
  ASSUME Shape, NEW f \in T!Files, NEW w, Good(f, w), tree' = [tree EXCEPT ![f] = w]
  PROVE  /\ tree' \in [T!Files -> Texts]
         /\ \A g \in T!Files : Good(g, tree'[g])
         /\ tree'[f] = w
         /\ \A g \in T!Files : g # f => tree'[g] = tree[g]
  <1>1. tree \in [T!Files -> Texts] /\ w \in Texts /\ \A g \in T!Files : Good(g, tree[g])
    BY DEF Shape, Good
  <1>2. \A g \in T!Files : tree'[g] = IF g = f THEN w ELSE tree[g]
    BY <1>1
  <1>3. tree' \in [T!Files -> Texts]
    BY <1>1
  <1> QED
    BY <1>1, <1>2, <1>3

LEMMA StartKeeps == ASSUME TreeInv, T!Start PROVE TreeInv'
  <1>1. step' = 1 /\ outcome' = "none" /\ tree' = tree /\ torn' = torn
    BY DEF T!Start
  <1>2. Shape'
    BY <1>1 DEF TreeInv, Shape
  <1>3. WholeInv'
    BY <1>1 DEF TreeInv, WholeInv
  <1> QED
    BY <1>1, <1>2, <1>3 DEF TreeInv, T!DoneMeansPatched

\* A run that ended without DONE.
LEMMA EndKeeps ==
  ASSUME TreeInv, step' = 0, outcome' \in {"failed", "crashed"}, tree' = tree, torn' = torn
  PROVE  TreeInv'
  <1>2. Shape'
    BY DEF TreeInv, Shape
  <1>3. WholeInv'
    BY DEF TreeInv, WholeInv
  <1> QED
    BY <1>2, <1>3 DEF TreeInv, T!DoneMeansPatched

\* What a marker that is found says of a file.
LEMMA MarkerFound ==
  ASSUME Shape, WholeInv, ~torn, T!Applied
  PROVE  /\ step = 1 => tree["tuner"] = T!Patched["tuner"]
         /\ step = 2 => tree["tuner_v5"] = T!Patched["tuner_v5"]
         /\ step = 3 => tree["init"] # T!Pristine["init"]
         /\ step # 4
         /\ step = 5 => tree["tuning"] = T!Patched["tuning"]
         /\ step = 6 => tree["kernels"] # T!Pristine["kernels"]
         /\ step = 7 => tree["kernels"] = T!Patched["kernels"]
  <1>1. ASSUME step = 1 PROVE tree["tuner"] = T!Patched["tuner"]
    BY <1>1, Step1Is, Missing DEF WholeInv
  <1>2. ASSUME step = 2 PROVE tree["tuner_v5"] = T!Patched["tuner_v5"]
    BY <1>2, Step2Is, Missing DEF WholeInv
  <1>3. ASSUME step = 3 PROVE tree["init"] # T!Pristine["init"]
    BY <1>3, Step3Is, Missing
  <1>4. ASSUME step = 4 PROVE FALSE
    <2>1. Occurs("aicad 2hop", tree["init"])
      BY <1>4, Step4Is
    <2>2. ~Occurs("aicad 2hop", T!Pristine["init"])
      BY Missing
    <2>3. ~Occurs("aicad 2hop", Named)
      BY Missing
    <2>4. ~Occurs("aicad 2hop", T!Patched["init"])
      BY Missing
    <2> QED
      BY <2>1, <2>2, <2>3, <2>4 DEF WholeInv
  <1>5. ASSUME step = 5 PROVE tree["tuning"] = T!Patched["tuning"]
    BY <1>5, Step5Is, Missing DEF WholeInv
  <1>6. ASSUME step = 6 PROVE tree["kernels"] # T!Pristine["kernels"]
    BY <1>6, Step6Is, Missing
  <1>7. ASSUME step = 7 PROVE tree["kernels"] = T!Patched["kernels"]
    <2>1. Occurs("simple", tree["kernels"])
      BY <1>7, LastIs
    <2>2. ~Occurs("simple", T!Pristine["kernels"])
      BY Missing
    <2>3. ~Occurs("simple", WithKernel)
      BY Missing
    <2> QED
      BY <2>1, <2>2, <2>3 DEF WholeInv
  <1> QED
    BY <1>1, <1>2, <1>3, <1>4, <1>5, <1>6, <1>7

LEMMA AdvanceIs ==
  ASSUME Shape, step # 0, T!Advance
  PROVE  \/ step \in 1..6 /\ step' = step + 1 /\ outcome' = outcome
         \/ step = 7 /\ step' = 0 /\ outcome' = "done"
  <1>1. step \in 1..6 \/ step = 7
    BY DEF Shape
  <1> QED
    BY <1>1, Final DEF T!Advance

LEMMA SkipKeeps == ASSUME TreeInv, T!Skip PROVE TreeInv'
  <1>1. step # 0 /\ T!Applied /\ T!Advance /\ tree' = tree /\ torn' = torn
    BY DEF T!Skip
  <1>2. Shape /\ WholeInv /\ outcome = "none"
    BY <1>1 DEF TreeInv
  <1>3. \/ step \in 1..6 /\ step' = step + 1 /\ outcome' = outcome
        \/ step = 7 /\ step' = 0 /\ outcome' = "done"
    BY <1>1, <1>2, AdvanceIs
  <1>4. step = 6 => Occurs("run2Hop", tree["kernels"])
    BY <1>1, Step6Is
  <1>5. Shape'
    <2>1. step' \in 0..7 /\ (step' = 7 => step = 6)
      BY <1>3
    <2> QED
      BY <1>1, <1>2, <1>4, <2>1 DEF Shape
  <1>6. ASSUME ~torn PROVE WholeInv' /\ (outcome' = "done" => tree = T!Patched)
    <2>1. /\ step = 1 => tree["tuner"] = T!Patched["tuner"]
          /\ step = 2 => tree["tuner_v5"] = T!Patched["tuner_v5"]
          /\ step = 3 => tree["init"] # T!Pristine["init"]
          /\ step # 4
          /\ step = 5 => tree["tuning"] = T!Patched["tuning"]
          /\ step = 6 => tree["kernels"] # T!Pristine["kernels"]
          /\ step = 7 => tree["kernels"] = T!Patched["kernels"]
      BY <1>1, <1>2, <1>6, MarkerFound
    <2>2. WholeInv'
      BY <1>1, <1>2, <1>3, <1>6, <2>1 DEF WholeInv
    <2>3. ASSUME outcome' = "done" PROVE tree = T!Patched
      <3>1. step = 7
        BY <1>2, <1>3, <2>3
      <3>2. tree \in [T!Files -> Texts]
        BY <1>2 DEF Shape
      <3>3. /\ tree["tuner"] = T!Patched["tuner"] /\ tree["tuner_v5"] = T!Patched["tuner_v5"]
            /\ tree["init"] = T!Patched["init"] /\ tree["tuning"] = T!Patched["tuning"]
            /\ tree["kernels"] = T!Patched["kernels"]
        BY <1>2, <1>6, <2>1, <3>1 DEF WholeInv
      <3> QED
        BY <3>2, <3>3, PatchedTree
    <2> QED
      BY <2>2, <2>3
  <1>7. WholeInv'
    BY <1>1, <1>6 DEF WholeInv
  <1>8. T!DoneMeansPatched'
    BY <1>1, <1>6 DEF T!DoneMeansPatched
  <1>9. step' # 0 => outcome' = "none"
    BY <1>2, <1>3
  <1> QED
    BY <1>5, <1>7, <1>8, <1>9 DEF TreeInv

LEMMA FailKeeps == ASSUME TreeInv, T!Fail PROVE TreeInv'
  BY EndKeeps DEF T!Fail

LEMMA WriteKeeps == ASSUME TreeInv, T!Write PROVE TreeInv'
  <1>1. /\ step # 0 /\ ~T!Applied /\ T!Anchored /\ T!Advance
        /\ tree' = [tree EXCEPT ![T!Target] = T!Written] /\ torn' = torn
    BY DEF T!Write
  <1>2. Shape /\ WholeInv /\ outcome = "none"
    BY <1>1 DEF TreeInv
  <1>3. \/ step \in 1..6 /\ step' = step + 1 /\ outcome' = outcome
        \/ step = 7 /\ step' = 0 /\ outcome' = "done"
    BY <1>1, <1>2, AdvanceIs
  <1>4. T!Target \in T!Files /\ Good(T!Target, T!Written)
    BY <1>1, <1>2, WrittenGood
  <1>5. /\ tree' \in [T!Files -> Texts]
        /\ \A g \in T!Files : Good(g, tree'[g])
        /\ tree'[T!Target] = T!Written
        /\ \A g \in T!Files : g # T!Target => tree'[g] = tree[g]
    BY <1>1, <1>2, <1>4, FileSet
  <1>6. Shape'
    <2>1. step' \in 0..7 /\ (step' = 7 => step = 6) /\ torn' \in BOOLEAN
      BY <1>1, <1>2, <1>3 DEF Shape
    <2>2. ASSUME step = 6 PROVE Occurs("run2Hop", tree'["kernels"])
      BY <1>1, <1>2, <1>5, <2>2, Written6
    <2> QED
      BY <1>5, <2>1, <2>2 DEF Shape
  <1>7. ASSUME ~torn PROVE WholeInv' /\ (outcome' = "done" => tree' = T!Patched)
    <2>1. /\ step = 1 => T!Target = "tuner" /\ T!Written = T!Patched["tuner"]
          /\ step = 2 => T!Target = "tuner_v5" /\ T!Written = T!Patched["tuner_v5"]
          /\ step = 3 => T!Target = "init" /\ T!Written = Named
          /\ step = 4 => T!Target = "init" /\ T!Written = T!Patched["init"]
          /\ step = 5 => T!Target = "tuning" /\ T!Written = T!Patched["tuning"]
          /\ step = 6 => T!Target = "kernels" /\ T!Written = WithKernel
          /\ step = 7 => T!Target = "kernels" /\ T!Written = T!Patched["kernels"]
      <3>1. /\ step = 1 => T!Target = "tuner" /\ T!Written = T!Patched["tuner"]
            /\ step = 2 => T!Target = "tuner_v5" /\ T!Written = T!Patched["tuner_v5"]
            /\ step = 3 => T!Target = "init" /\ T!Written = Named
        BY <1>1, <1>2, <1>7, Written1, Written2, Written3, Whole1, Whole2, Whole3
      <3>2. /\ step = 4 => T!Target = "init" /\ T!Written = T!Patched["init"]
            /\ step = 5 => T!Target = "tuning" /\ T!Written = T!Patched["tuning"]
        BY <1>1, <1>2, <1>7, Written4, Written5, Whole4, Whole5
      <3>3. /\ step = 6 => T!Target = "kernels" /\ T!Written = WithKernel
            /\ step = 7 => T!Target = "kernels" /\ T!Written = T!Patched["kernels"]
        BY <1>1, <1>2, <1>7, Written6, Written7, Whole6, Whole7
      <3> QED
        BY <3>1, <3>2, <3>3
    <2>2. /\ tree'["tuner"] = IF step = 1 THEN T!Patched["tuner"] ELSE tree["tuner"]
          /\ tree'["tuner_v5"] = IF step = 2 THEN T!Patched["tuner_v5"] ELSE tree["tuner_v5"]
          /\ tree'["init"] = IF step = 3 THEN Named
                             ELSE IF step = 4 THEN T!Patched["init"] ELSE tree["init"]
          /\ tree'["tuning"] = IF step = 5 THEN T!Patched["tuning"] ELSE tree["tuning"]
          /\ tree'["kernels"] = IF step = 6 THEN WithKernel
                                ELSE IF step = 7 THEN T!Patched["kernels"] ELSE tree["kernels"]
      <3>1. step \in {1, 2, 3, 4, 5, 6, 7}
        BY <1>3
      <3> QED
        BY <1>5, <2>1, <3>1, FilesAre
    <2>3. Named # T!Pristine["init"]
      BY Missing, InitBetween
    <2>4. WithKernel # T!Pristine["kernels"]
      BY Missing, KernelsBetween
    <2>5. WholeInv'
      <3>1. ~torn
        BY <1>7
      <3> DEFINE ta == tree'["tuner"]
                 tb == tree'["tuner_v5"]
                 tc == tree'["init"]
                 td == tree'["tuning"]
                 te == tree'["kernels"]
                 n == step'
      <3>2. /\ ta \in {T!Pristine["tuner"], T!Patched["tuner"]}
            /\ tb \in {T!Pristine["tuner_v5"], T!Patched["tuner_v5"]}
            /\ tc \in {T!Pristine["init"], Named, T!Patched["init"]}
            /\ td \in {T!Pristine["tuning"], T!Patched["tuning"]}
            /\ te \in {T!Pristine["kernels"], WithKernel, T!Patched["kernels"]}
        BY <1>2, <2>2, <3>1 DEF WholeInv
      <3>3. /\ n > 1 => ta = T!Patched["tuner"]
            /\ n > 2 => tb = T!Patched["tuner_v5"]
        BY <1>2, <1>3, <2>2, <3>1 DEF WholeInv
      <3>4. n > 3 => tc # T!Pristine["init"]
        <4>1. T!Patched["init"] # T!Pristine["init"]
          BY Missing, InitAfter
        <4>2. CASE step \in {3, 4}
          BY <2>2, <2>3, <4>1, <4>2
        <4>3. CASE step > 4
          BY <1>2, <2>2, <3>1, <4>1, <4>3 DEF WholeInv
        <4> QED
          BY <1>3, <4>2, <4>3
      <3>5. n > 4 => tc = T!Patched["init"]
        BY <1>2, <1>3, <2>2, <3>1 DEF WholeInv
      <3>6. n > 5 => td = T!Patched["tuning"]
        BY <1>2, <1>3, <2>2, <3>1 DEF WholeInv
      <3>7. n > 6 => te # T!Pristine["kernels"]
        BY <1>2, <1>3, <2>2, <2>4, <3>1 DEF WholeInv
      <3> HIDE DEF ta, tb, tc, td, te, n
      <3> QED
        BY <3>2, <3>3, <3>4, <3>5, <3>6, <3>7 DEF WholeInv, ta, tb, tc, td, te, n
    <2>6. ASSUME outcome' = "done" PROVE tree' = T!Patched
      <3>1. step = 7
        BY <1>2, <1>3, <2>6
      <3>2. /\ tree'["tuner"] = T!Patched["tuner"] /\ tree'["tuner_v5"] = T!Patched["tuner_v5"]
            /\ tree'["init"] = T!Patched["init"] /\ tree'["tuning"] = T!Patched["tuning"]
            /\ tree'["kernels"] = T!Patched["kernels"]
        BY <1>2, <1>7, <2>2, <3>1 DEF WholeInv
      <3> DEFINE t == tree'
      <3> HIDE DEF t
      <3> QED
        BY <1>5, <3>2, PatchedTree
    <2> QED
      BY <2>5, <2>6
  <1>8. WholeInv'
    BY <1>1, <1>7 DEF WholeInv
  <1>9. T!DoneMeansPatched'
    BY <1>1, <1>7 DEF T!DoneMeansPatched
  <1>10. step' # 0 => outcome' = "none"
    BY <1>2, <1>3
  <1> QED
    BY <1>6, <1>8, <1>9, <1>10 DEF TreeInv

LEMMA CrashKeeps == ASSUME TreeInv, T!Crash PROVE TreeInv'
  <1>1. step # 0 /\ step' = 0 /\ outcome' = "crashed"
    BY DEF T!Crash
  <1>2. CASE tree' = tree /\ torn' = torn
    BY <1>1, <1>2, EndKeeps
  <1>3. CASE /\ ~T!Applied /\ T!Anchored /\ torn' = TRUE
             /\ \E n \in 0 .. Len(T!Written) - 1 :
                  /\ step = T!FinalStep => n >= Len(tree[T!Target])
                  /\ tree' = [tree EXCEPT ![T!Target] = SubSeq(T!Written, 1, n)]
    <2>1. PICK n \in 0 .. Len(T!Written) - 1 :
            /\ step = T!FinalStep => n >= Len(tree[T!Target])
            /\ tree' = [tree EXCEPT ![T!Target] = SubSeq(T!Written, 1, n)]
      BY <1>3
    <2>2. Shape
      BY DEF TreeInv
    <2> DEFINE w == SubSeq(T!Written, 1, n)
    <2>3. T!Target \in T!Files /\ Good(T!Target, w)
      BY <1>1, <1>3, <2>1, <2>2, WrittenGood, TornGood
    <2>4. tree' = [tree EXCEPT ![T!Target] = w]
      BY <2>1
    <2> HIDE DEF w
    <2>5. tree' \in [T!Files -> Texts] /\ \A g \in T!Files : Good(g, tree'[g])
      BY <2>2, <2>3, <2>4, FileSet
    <2>6. Shape'
      BY <1>1, <1>3, <2>5 DEF Shape
    <2>7. WholeInv' /\ T!DoneMeansPatched'
      BY <1>3 DEF WholeInv, T!DoneMeansPatched
    <2> QED
      BY <1>1, <2>6, <2>7 DEF TreeInv
  <1> QED
    BY <1>2, <1>3 DEF T!Crash

LEMMA TreeSame ==
  ASSUME TreeInv, UNCHANGED <<tree, run, step, outcome, torn>> PROVE TreeInv'
  <1>1. Shape' /\ WholeInv'
    BY DEF TreeInv, Shape, WholeInv
  <1> QED
    BY <1>1 DEF TreeInv, T!DoneMeansPatched

LEMMA TreeNext == ASSUME TreeInv, T!Next PROVE TreeInv'
  <1>1. CASE T!Stop
    BY <1>1, TreeSame DEF T!Stop, T!vars
  <1> QED
    BY <1>1, StartKeeps, SkipKeeps, FailKeeps, WriteKeeps, CrashKeeps DEF T!Next

LEMMA TreeGood == ASSUME TreeInv PROVE T!NothingTwice /\ T!DoneMeansPatched
  <1>1. \A f \in T!Files : Once(tree[f])
    BY DEF TreeInv, Shape, Good
  <1> QED
    BY <1>1 DEF TreeInv, T!NothingTwice, Once

TreeHolds == tool = "tree" => TreeInv

LEMMA TreeInductive == ToolsSpec => []TreeHolds
  <1>1. ToolsInit => TreeHolds
    BY TreeInit DEF ToolsInit, TreeHolds
  <1>2. TreeHolds /\ [ToolsNext]_<<tool, ringVars, hostVars, mapVars, treeVars, kernelVars, vars>>
          => TreeHolds'
    <2> SUFFICES ASSUME TreeHolds, tool' = "tree",
                   [ToolsNext]_<<tool, ringVars, hostVars, mapVars, treeVars, kernelVars, vars>>
                 PROVE  TreeInv'
      BY DEF TreeHolds
    <2>1. CASE ToolsNext
      <3>1. tool = "tree" /\ T!Next
        BY <2>1 DEF ToolsNext
      <3> QED
        BY <3>1, TreeNext DEF TreeHolds
    <2>2. CASE UNCHANGED <<tool, ringVars, hostVars, mapVars, treeVars, kernelVars, vars>>
      BY <2>2, TreeSame DEF TreeHolds, treeVars
    <2> QED
      BY <2>1, <2>2
  <1> QED
    BY <1>1, <1>2, PTL DEF ToolsSpec

\* apply_2hop_patch.py: however often the script is run, failed or killed, even in
\* the middle of a file, no change is in the tree twice.
THEOREM NeverTwice == ToolsSpec => []NothingTwice
  <1>1. TreeHolds => NothingTwice
    BY TreeGood DEF TreeHolds, NothingTwice
  <1> QED
    BY <1>1, TreeInductive, PTL

\* apply_2hop_patch.py: a run that reports DONE on a tree of which no file was
\* torn leaves all seven changes in it.
THEOREM DonePatched == ToolsSpec => []DoneMeansPatched
  <1>1. TreeHolds => DoneMeansPatched
    BY TreeGood DEF TreeHolds, DoneMeansPatched
  <1> QED
    BY <1>1, TreeInductive, PTL

-----------------------------------------------------------------------------
(***************************************************************************)
(* The cables of the ring planner.                                         *)
(***************************************************************************)

LEMMA Coded ==
  \A a, d \in 0..3 : \A b, c, e, g \in {0, 1} :
    4 * a + 2 * b + c = 4 * d + 2 * e + g => a = d /\ b = e /\ c = g
  OBVIOUS

LEMMA PortsFinite == IsFiniteSet(R!Ports)
  <1> DEFINE f == [p \in R!Ports |-> 4 * p[1] + 2 * p[2] + p[3]]
  <1>1. f \in Injection(R!Ports, 0..15)
    <2>1. f \in [R!Ports -> 0..15]
      BY DEF R!Ports, R!Hosts, R!Domains
    <2>2. ASSUME NEW p, p \in R!Ports, NEW q, q \in R!Ports, f[p] = f[q] PROVE p = q
      <3>1. f[p] = 4 * p[1] + 2 * p[2] + p[3] /\ f[q] = 4 * q[1] + 2 * q[2] + q[3]
        BY <2>2
      <3>2. /\ p[1] \in 0..3 /\ p[2] \in {0, 1} /\ p[3] \in {0, 1} /\ p = <<p[1], p[2], p[3]>>
            /\ q[1] \in 0..3 /\ q[2] \in {0, 1} /\ q[3] \in {0, 1} /\ q = <<q[1], q[2], q[3]>>
        BY <2>2 DEF R!Ports, R!Hosts, R!Domains
      <3>3. p[1] = q[1] /\ p[2] = q[2] /\ p[3] = q[3]
        <4>1. /\ p[1] \in 0..3 /\ p[2] \in {0, 1} /\ p[3] \in {0, 1}
              /\ q[1] \in 0..3 /\ q[2] \in {0, 1} /\ q[3] \in {0, 1}
          BY <3>2
        <4>2. 4 * p[1] + 2 * p[2] + p[3] = 4 * q[1] + 2 * q[2] + q[3]
          BY <2>2, <3>1
        <4> HIDE DEF f
        <4> QED
          BY <4>1, <4>2, Coded
      <3> QED
        BY <3>2, <3>3
    <2> QED
      BY <2>1, <2>2 DEF Injection, IsInjective
  <1>2. IsFiniteSet(0..15)
    <2>1. 0 \in Int /\ 15 \in Int
      OBVIOUS
    <2> QED
      BY <2>1, FS_Interval
  <1> HIDE DEF f
  <1> QED
    BY <1>1, <1>2, FS_Injection

LEMMA TwoEnds ==
  ASSUME NEW n, IsFiniteSet(n), Cardinality(n) = 2
  PROVE  \E a, b : a # b /\ n = {a, b}
  <1>1. PICK a : a \in n
    BY FS_EmptySet
  <1>2. IsFiniteSet(n \ {a}) /\ Cardinality(n \ {a}) = 1
    BY <1>1, FS_RemoveElement
  <1>3. PICK b : n \ {a} = {b}
    BY <1>2, FS_Singleton
  <1> QED
    BY <1>1, <1>3

LEMMA AllDifferent ==
  ASSUME NEW a, NEW b, NEW c, NEW d, {a, b, c, d} = R!Hosts
  PROVE  a # b /\ a # c /\ a # d /\ b # c /\ b # d /\ c # d
  <1>1. 0 \in R!Hosts /\ 1 \in R!Hosts /\ 2 \in R!Hosts /\ 3 \in R!Hosts
    BY DEF R!Hosts
  <1>2. \A h \in R!Hosts : h = a \/ h = b \/ h = c \/ h = d
    OBVIOUS
  <1>3. /\ 0 = a \/ 0 = b \/ 0 = c \/ 0 = d
        /\ 1 = a \/ 1 = b \/ 1 = c \/ 1 = d
        /\ 2 = a \/ 2 = b \/ 2 = c \/ 2 = d
        /\ 3 = a \/ 3 = b \/ 3 = c \/ 3 = d
    BY <1>1, <1>2
  <1>4. a \in R!Hosts /\ b \in R!Hosts /\ c \in R!Hosts /\ d \in R!Hosts
    OBVIOUS
  <1>5. a \in 0..3 /\ b \in 0..3 /\ c \in 0..3 /\ d \in 0..3
    BY <1>4 DEF R!Hosts
  <1> QED
    BY <1>3, <1>5

LEMMA TwoOfThem ==
  ASSUME NEW a, NEW b, a # b
  PROVE  Cardinality({a, b}) = 2
  <1>1. IsFiniteSet({a}) /\ Cardinality({a}) = 1
    BY FS_Singleton
  <1>2. Cardinality({a} \cup {b}) = 2
    BY <1>1, FS_AddElement
  <1>3. {a} \cup {b} = {a, b}
    OBVIOUS
  <1> QED
    BY <1>2, <1>3

LEMMA SameCount == \A S : R!Cardinality(S) = Cardinality(S)
  BY DEF R!Cardinality, Cardinality

\* A cabling that _fabric_graph takes.
Cabled(w) == R!EachPortOnce(w) /\ R!OneDacPerSubnet(w)

\* The other end of the other end of a cable is the port.
LEMMA Cables ==
  ASSUME NEW w, Cabled(w), NEW p, p \in R!Ports
  PROVE  /\ R!Peer(w, p) \in R!Ports /\ R!Peer(w, p) # p
         /\ R!Peer(w, R!Peer(w, p)) = p
  <1>1. PICK n \in w : p \in n
    <2>1. p \in UNION w
      BY DEF Cabled, R!EachPortOnce
    <2> QED
      BY <2>1
  <1>2. n \subseteq R!Ports /\ Cardinality(n) = 2
    <2>1. UNION w = R!Ports /\ \A m \in w : Cardinality(m) = 2
      BY SameCount DEF Cabled, R!EachPortOnce, R!OneDacPerSubnet
    <2>2. n \subseteq UNION w
      BY <1>1
    <2>3. n \subseteq R!Ports
      BY <2>1, <2>2
    <2>4. Cardinality(n) = 2
      BY <1>1, <2>1
    <2> QED
      BY <2>3, <2>4
  <1>3. IsFiniteSet(n)
    BY <1>2, PortsFinite, FS_Subset
  <1>4. PICK q : q \in R!Ports /\ q # p /\ n = {p, q}
    BY <1>1, <1>2, <1>3, TwoEnds
  <1>5. {p, q} \in w /\ {q, p} \in w
    BY <1>1, <1>4
  <1>6. \A r \in R!Ports : r # p /\ {p, r} \in w => r = q
    BY <1>4, <1>5 DEF Cabled, R!EachPortOnce
  <1>7. \A r \in R!Ports : r # q /\ {q, r} \in w => r = p
    BY <1>4, <1>5 DEF Cabled, R!EachPortOnce
  <1>8. R!Peer(w, p) = q
    BY <1>4, <1>5, <1>6 DEF R!Peer
  <1>9. R!Peer(w, q) = p
    BY <1>4, <1>5, <1>7 DEF R!Peer
  <1> QED
    BY <1>4, <1>8, <1>9

-----------------------------------------------------------------------------
(***************************************************************************)
(* The walks.                                                              *)
(***************************************************************************)

Labels == R!Hosts \X R!Directions \X R!Domains
Sides == [Labels -> R!Ports]

\* The clockwise port of the next host, for the clockwise port of a host.
Ahead(w, f, p) == R!OtherPort(R!HostOf(R!Peer(w, p)), f, R!Peer(w, p))

LEMMA WalkSteps ==
  ASSUME NEW w, NEW f, NEW start
  PROVE  LET walk == R!Walk(w, f, start) IN
         /\ walk[0] = [cur |-> 0, order |-> <<>>, port |-> start]
         /\ walk[1] = R!Follow(w, f, walk[0]) /\ walk[2] = R!Follow(w, f, walk[1])
         /\ walk[3] = R!Follow(w, f, walk[2]) /\ walk[4] = R!Follow(w, f, walk[3])
  <1> DEFINE s0 == [cur |-> 0, order |-> <<>>, port |-> start]
             s1 == R!Follow(w, f, s0)
             s2 == R!Follow(w, f, s1)
             s3 == R!Follow(w, f, s2)
             s4 == R!Follow(w, f, s3)
             g == [i \in 0..4 |-> IF i = 0 THEN s0 ELSE IF i = 1 THEN s1 ELSE IF i = 2 THEN s2
                                  ELSE IF i = 3 THEN s3 ELSE s4]
             Eq(h) == h = [i \in 0..4 |-> IF i = 0 THEN s0 ELSE R!Follow(w, f, h[i - 1])]
  <1>1. Eq(g)
    <2> HIDE DEF s0
    <2>1. g[0] = s0 /\ g[1] = s1 /\ g[2] = s2 /\ g[3] = s3 /\ g[4] = s4
      OBVIOUS
    <2>2. \A i \in 0..4 : g[i] = IF i = 0 THEN s0 ELSE R!Follow(w, f, g[i - 1])
      <3> HIDE DEF g
      <3> TAKE i \in 0..4
      <3>1. i = 0 \/ i = 1 \/ i = 2 \/ i = 3 \/ i = 4
        OBVIOUS
      <3> QED
        BY <2>1, <3>1
    <2>3. g = [i \in 0..4 |-> g[i]]
      OBVIOUS
    <2> HIDE DEF g
    <2> QED
      BY <2>2, <2>3
  <1>2. R!Walk(w, f, start) = CHOOSE h : Eq(h)
    BY DEF R!Walk
  <1>3. Eq(R!Walk(w, f, start))
    <2> HIDE DEF Eq, g
    <2> QED
      BY <1>1, <1>2
  <1> HIDE DEF s0
  <1> DEFINE W == R!Walk(w, f, start)
  <1>4. W = [i \in 0..4 |-> IF i = 0 THEN s0 ELSE R!Follow(w, f, W[i - 1])]
    BY <1>3
  <1> HIDE DEF W
  <1>5. /\ W[0] = s0 /\ W[1] = R!Follow(w, f, W[0]) /\ W[2] = R!Follow(w, f, W[1])
        /\ W[3] = R!Follow(w, f, W[2]) /\ W[4] = R!Follow(w, f, W[3])
    BY <1>4
  <1> QED
    BY <1>5 DEF W, s0

LEMMA AheadFacts ==
  ASSUME NEW w, Cabled(w), NEW f, f \in R!Domains, NEW p, p \in R!Ports
  PROVE  /\ Ahead(w, f, p) \in R!Ports /\ R!DomainOf(Ahead(w, f, p)) = f
         /\ Ahead(w, f, p) # R!Peer(w, p)
         /\ R!HostOf(Ahead(w, f, p)) = R!HostOf(R!Peer(w, p))
         /\ R!HostOf(Ahead(w, f, p)) \in R!Hosts
  <1> DEFINE q == R!Peer(w, p)
  <1>1. q \in R!Ports
    BY Cables
  <1>2. q[1] \in R!Hosts
    BY <1>1 DEF R!Ports
  <1> HIDE DEF q
  <1>3. Ahead(w, f, p) = IF q = <<q[1], f, 0>> THEN <<q[1], f, 1>> ELSE <<q[1], f, 0>>
    BY DEF Ahead, R!OtherPort, R!HostOf, q
  <1>4. /\ Ahead(w, f, p) \in R!Ports /\ Ahead(w, f, p)[2] = f
        /\ Ahead(w, f, p) # q /\ Ahead(w, f, p)[1] = q[1]
    BY <1>2, <1>3 DEF R!Ports
  <1> QED
    BY <1>2, <1>4 DEF R!HostOf, R!DomainOf, q

\* One step of a walk, from a host whose clockwise port is c.
LEMMA FollowStep ==
  ASSUME NEW w, Cabled(w), NEW f, f \in R!Domains,
         NEW s, s.cur \in R!Hosts, s.port \in Sides,
         NEW c, c = s.port[<<s.cur, "clockwise", f>>]
  PROVE  LET t == R!Follow(w, f, s)
             d == Ahead(w, f, c)
             h == R!HostOf(d)
         IN  /\ c \in R!Ports /\ d \in R!Ports /\ h \in R!Hosts
             /\ t.cur = h /\ t.order = Append(s.order, s.cur) /\ t.port \in Sides
             /\ t.port[<<h, "clockwise", f>>] = d
             /\ t.port[<<h, "counter_clockwise", f>>] = R!Peer(w, c)
             /\ \A l \in Labels : l[1] # h \/ l[3] # f => t.port[l] = s.port[l]
  <1> DEFINE t == R!Follow(w, f, s)
             d == Ahead(w, f, c)
             h == R!HostOf(d)
             q == R!Peer(w, c)
             a == <<h, "counter_clockwise", f>>
             b == <<h, "clockwise", f>>
  <1>1. <<s.cur, "clockwise", f>> \in Labels
    BY DEF Labels, R!Directions
  <1>2. c \in R!Ports
    BY <1>1 DEF Sides
  <1>3. d \in R!Ports /\ h \in R!Hosts /\ q \in R!Ports /\ h = R!HostOf(q)
    BY <1>2, AheadFacts, Cables
  <1>4. t = [cur |-> h, order |-> Append(s.order, s.cur),
             port |-> [s.port EXCEPT ![a] = q, ![b] = d]]
    BY <1>3 DEF R!Follow, Ahead
  <1>5. a \in Labels /\ b \in Labels /\ a # b
    BY <1>3 DEF Labels, R!Directions
  <1>6. \A l \in Labels : l[1] # h \/ l[3] # f => l # a /\ l # b
    OBVIOUS
  <1> HIDE DEF a, b, d, h, q, t
  <1>7. t.cur = h /\ t.order = Append(s.order, s.cur) /\ t.port = [s.port EXCEPT ![a] = q, ![b] = d]
    BY <1>4
  <1>8. /\ t.port \in Sides /\ t.port[b] = d /\ t.port[a] = q
        /\ \A l \in Labels : l # a /\ l # b => t.port[l] = s.port[l]
    BY <1>3, <1>5, <1>7 DEF Sides
  <1> QED
    BY <1>2, <1>3, <1>6, <1>7, <1>8 DEF a, b, d, h, q, t

LEMMA FourLong ==
  ASSUME NEW S, NEW u \in Seq(S), Len(u) = 4
  PROVE  u = <<u[1], u[2], u[3], u[4]>>
  OBVIOUS

\* The hosts and labels of a walk that leaves host 0 by port c1, and the next
\* hosts by c2 to c5.
Walked(w, f, start, c1, c2, c3, c4, c5) ==
  LET walk == R!Walk(w, f, start)
      last == walk[4].port
      h2 == R!HostOf(c2)
      h3 == R!HostOf(c3)
      h4 == R!HostOf(c4)
      h5 == R!HostOf(c5)
  IN  /\ walk[1].cur = h2 /\ walk[2].cur = h3 /\ walk[3].cur = h4 /\ walk[4].cur = h5
      /\ walk[4].order = <<0, h2, h3, h4>>
      /\ {c1, c2, c3, c4, c5} \subseteq R!Ports /\ last \in Sides
      /\ \A l \in Labels : l[3] # f => last[l] = start[l]
      /\ h5 = 0 /\ {0, h2, h3, h4} = R!Hosts =>
           /\ last[<<0, "clockwise", f>>] = c5
           /\ last[<<0, "counter_clockwise", f>>] = R!Peer(w, c4)
           /\ last[<<h2, "clockwise", f>>] = c2
           /\ last[<<h2, "counter_clockwise", f>>] = R!Peer(w, c1)
           /\ last[<<h3, "clockwise", f>>] = c3
           /\ last[<<h3, "counter_clockwise", f>>] = R!Peer(w, c2)
           /\ last[<<h4, "clockwise", f>>] = c4
           /\ last[<<h4, "counter_clockwise", f>>] = R!Peer(w, c3)

Chain(w, f, c1, c2, c3, c4, c5) ==
  c2 = Ahead(w, f, c1) /\ c3 = Ahead(w, f, c2) /\ c4 = Ahead(w, f, c3) /\ c5 = Ahead(w, f, c4)

LEMMA WalkPorts ==
  ASSUME NEW w, Cabled(w), NEW f, f \in R!Domains, NEW start, start \in Sides,
         NEW c1, NEW c2, NEW c3, NEW c4, NEW c5,
         c1 = start[<<0, "clockwise", f>>], Chain(w, f, c1, c2, c3, c4, c5)
  PROVE  Walked(w, f, start, c1, c2, c3, c4, c5)
  <1> USE DEF Chain
  <1> DEFINE walk == R!Walk(w, f, start)
             h2 == R!HostOf(c2)
             h3 == R!HostOf(c3)
             h4 == R!HostOf(c4)
             h5 == R!HostOf(c5)
             s1 == walk[1]
             s2 == walk[2]
             s3 == walk[3]
             s4 == walk[4]
             Still(s, t, h) == \A l \in Labels : l[1] # h \/ l[3] # f => t.port[l] = s.port[l]
  <1> HIDE DEF walk
  <1>0. /\ walk[0] = [cur |-> 0, order |-> <<>>, port |-> start]
        /\ s1 = R!Follow(w, f, walk[0]) /\ s2 = R!Follow(w, f, s1)
        /\ s3 = R!Follow(w, f, s2) /\ s4 = R!Follow(w, f, s3)
    BY WalkSteps DEF walk
  <1> HIDE DEF h2, h3, h4, h5, s1, s2, s3, s4
  <1>1. /\ c1 \in R!Ports /\ c2 \in R!Ports /\ h2 \in R!Hosts
        /\ s1.cur = h2 /\ s1.order = <<0>> /\ s1.port \in Sides
        /\ s1.port[<<h2, "clockwise", f>>] = c2
        /\ s1.port[<<h2, "counter_clockwise", f>>] = R!Peer(w, c1)
        /\ Still(walk[0], s1, h2)
    <2>1. /\ walk[0].cur = 0 /\ walk[0].port = start /\ walk[0].order = <<>>
          /\ walk[0].cur \in R!Hosts
      BY <1>0 DEF R!Hosts
    <2>2. Append(<<>>, 0) = <<0>>
      OBVIOUS
    <2> QED
      BY <1>0, <2>1, <2>2, FollowStep DEF h2
  <1>2. /\ c3 \in R!Ports /\ h3 \in R!Hosts
        /\ s2.cur = h3 /\ s2.order = Append(s1.order, h2) /\ s2.port \in Sides
        /\ s2.port[<<h3, "clockwise", f>>] = c3
        /\ s2.port[<<h3, "counter_clockwise", f>>] = R!Peer(w, c2)
        /\ Still(s1, s2, h3)
    <2>1. s1.cur \in R!Hosts /\ s1.port \in Sides /\ c2 = s1.port[<<s1.cur, "clockwise", f>>]
      BY <1>1
    <2>2. s1.cur = h2 /\ s2 = R!Follow(w, f, s1)
      BY <1>0, <1>1
    <2> QED
      BY <2>1, <2>2, FollowStep DEF h3
  <1>3. /\ c4 \in R!Ports /\ h4 \in R!Hosts
        /\ s3.cur = h4 /\ s3.order = Append(s2.order, h3) /\ s3.port \in Sides
        /\ s3.port[<<h4, "clockwise", f>>] = c4
        /\ s3.port[<<h4, "counter_clockwise", f>>] = R!Peer(w, c3)
        /\ Still(s2, s3, h4)
    <2>1. s2.cur \in R!Hosts /\ s2.port \in Sides /\ c3 = s2.port[<<s2.cur, "clockwise", f>>]
      BY <1>2
    <2>2. s2.cur = h3 /\ s3 = R!Follow(w, f, s2)
      BY <1>0, <1>2
    <2>3. R!HostOf(Ahead(w, f, c3)) = h4
      BY DEF h4
    <2> QED
      BY <2>1, <2>2, <2>3, FollowStep
  <1>4. /\ c5 \in R!Ports /\ h5 \in R!Hosts
        /\ s4.cur = h5 /\ s4.order = Append(s3.order, h4) /\ s4.port \in Sides
        /\ s4.port[<<h5, "clockwise", f>>] = c5
        /\ s4.port[<<h5, "counter_clockwise", f>>] = R!Peer(w, c4)
        /\ Still(s3, s4, h5)
    <2>1. s3.cur \in R!Hosts /\ s3.port \in Sides /\ c4 = s3.port[<<s3.cur, "clockwise", f>>]
      BY <1>3
    <2>2. s3.cur = h4 /\ s4 = R!Follow(w, f, s3)
      BY <1>0, <1>3
    <2> QED
      BY <2>1, <2>2, FollowStep DEF h5
  <1>5. s4.order = <<0, h2, h3, h4>>
    <2>1. s1.order = <<0>> /\ s2.order = Append(s1.order, h2)
          /\ s3.order = Append(s2.order, h3) /\ s4.order = Append(s3.order, h4)
      BY <1>1, <1>2, <1>3, <1>4
    <2>2. 0 \in R!Hosts /\ h2 \in R!Hosts /\ h3 \in R!Hosts /\ h4 \in R!Hosts
      BY <1>1, <1>2, <1>3 DEF R!Hosts
    <2>3. s1.order \in Seq(R!Hosts) /\ Len(s1.order) = 1 /\ s1.order[1] = 0
      BY <2>1, <2>2
    <2>4. s2.order \in Seq(R!Hosts) /\ Len(s2.order) = 2 /\ s2.order[1] = 0 /\ s2.order[2] = h2
      BY <2>1, <2>2, <2>3
    <2>5. /\ s3.order \in Seq(R!Hosts) /\ Len(s3.order) = 3
          /\ s3.order[1] = 0 /\ s3.order[2] = h2 /\ s3.order[3] = h3
      BY <2>1, <2>2, <2>4
    <2>6. /\ s4.order \in Seq(R!Hosts) /\ Len(s4.order) = 4
          /\ s4.order[1] = 0 /\ s4.order[2] = h2 /\ s4.order[3] = h3 /\ s4.order[4] = h4
      BY <2>1, <2>2, <2>5
    <2> QED
      BY <2>6, FourLong
  <1>6. \A l \in Labels : l[3] # f => s4.port[l] = start[l]
    BY <1>0, <1>1, <1>2, <1>3, <1>4
  <1>7. ASSUME h5 = 0, {0, h2, h3, h4} = R!Hosts
        PROVE  /\ s4.port[<<0, "clockwise", f>>] = c5
               /\ s4.port[<<0, "counter_clockwise", f>>] = R!Peer(w, c4)
               /\ s4.port[<<h2, "clockwise", f>>] = c2
               /\ s4.port[<<h2, "counter_clockwise", f>>] = R!Peer(w, c1)
               /\ s4.port[<<h3, "clockwise", f>>] = c3
               /\ s4.port[<<h3, "counter_clockwise", f>>] = R!Peer(w, c2)
               /\ s4.port[<<h4, "clockwise", f>>] = c4
               /\ s4.port[<<h4, "counter_clockwise", f>>] = R!Peer(w, c3)
    <2>1. /\ 0 # h2 /\ 0 # h3 /\ 0 # h4 /\ h2 # h3 /\ h2 # h4 /\ h3 # h4
      BY <1>7 DEF R!Hosts
    <2>2. ASSUME NEW h, h \in R!Hosts, NEW d, d \in R!Directions
          PROVE  /\ <<h, d, f>> \in Labels /\ <<h, d, f>>[1] = h
      BY <2>2 DEF Labels
    <2>3. "clockwise" \in R!Directions /\ "counter_clockwise" \in R!Directions
      BY DEF R!Directions
    <2>4. \A d \in R!Directions : s4.port[<<h2, d, f>>] = s1.port[<<h2, d, f>>]
      BY <1>1, <1>2, <1>3, <1>4, <1>7, <2>1, <2>2
    <2>5. \A d \in R!Directions : s4.port[<<h3, d, f>>] = s2.port[<<h3, d, f>>]
      BY <1>2, <1>3, <1>4, <1>7, <2>1, <2>2
    <2>6. \A d \in R!Directions : s4.port[<<h4, d, f>>] = s3.port[<<h4, d, f>>]
      BY <1>3, <1>4, <1>7, <2>1, <2>2
    <2> QED
      BY <1>1, <1>2, <1>3, <1>4, <1>7, <2>3, <2>4, <2>5, <2>6
  <1> QED
    BY <1>1, <1>2, <1>3, <1>4, <1>5, <1>6, <1>7 DEF Walked, walk, h2, h3, h4, h5, s1, s2, s3, s4

-----------------------------------------------------------------------------
(***************************************************************************)
(* What a plan says.                                                       *)
(***************************************************************************)

StraightCables(w) == \A p \in R!Ports : R!DomainOf(R!Peer(w, p)) = R!DomainOf(p)

Fits(w, order, doc, r, d, f) ==
  LET e == doc[r][d][f] IN
  /\ R!HostOf(e.port) = order[r + 1]
  /\ R!Peer(w, e.port) = doc[e.peerRank][e.peerDirection][e.peerFunction].port
  /\ \A c \in R!Directions, g \in R!Domains :
       doc[r][c][g].port = e.port => c = d /\ g = f
  /\ StraightCables(w) => R!DomainOf(e.port) = f

Describes(w, order, doc) ==
  /\ {order[i] : i \in 1..4} = R!Hosts
  /\ \A r \in 0..3, d \in R!Directions, f \in R!Domains : Fits(w, order, doc, r, d, f)

Before(r) == IF r = 0 THEN 3 ELSE r - 1
After(r) == IF r = 3 THEN 0 ELSE r + 1

LEMMA RanksAround ==
  \A r \in 0..3 :
    /\ Before(r) \in 0..3 /\ After(r) \in 0..3 /\ Before(r) # After(r)
    /\ After(Before(r)) = r /\ Before(After(r)) = r
    /\ (r + 1) % 4 = After(r) /\ (r + -1) % 4 = Before(r)
  BY DEF Before, After

\* C[f][r] is the port of rank r of the ring from which a cable leads to the next
\* rank in function f.
Charted(w, o, C) ==
  /\ {o.order[i] : i \in 1..4} = R!Hosts
  /\ \A i, j \in 1..4 : o.order[i] = o.order[j] => i = j
  /\ \A f \in R!Domains, r \in 0..3 :
       /\ C[f][r] \in R!Ports /\ R!DomainOf(C[f][r]) = f
       /\ R!HostOf(C[f][r]) = o.order[r + 1]
       /\ R!HostOf(R!Peer(w, C[f][r])) = o.order[After(r) + 1]
       /\ o.port[<<o.order[r + 1], "clockwise", f>>] = C[f][r]
       /\ o.port[<<o.order[r + 1], "counter_clockwise", f>>] = R!Peer(w, C[f][Before(r)])

LEMMA Described ==
  ASSUME NEW w, Cabled(w), NEW o, NEW C, Charted(w, o, C)
  PROVE  Describes(w, o.order, R!Topology(o))
  <1>a. ASSUME NEW f, f \in R!Domains, NEW r, r \in 0..3
        PROVE  /\ C[f][r] \in R!Ports /\ R!DomainOf(C[f][r]) = f
               /\ R!HostOf(C[f][r]) = o.order[r + 1]
               /\ R!HostOf(R!Peer(w, C[f][r])) = o.order[After(r) + 1]
    BY <1>a DEF Charted
  <1>b. ASSUME NEW f, f \in R!Domains, NEW r, r \in 0..3
        PROVE  /\ o.port[<<o.order[r + 1], "clockwise", f>>] = C[f][r]
               /\ o.port[<<o.order[r + 1], "counter_clockwise", f>>] = R!Peer(w, C[f][Before(r)])
    BY <1>b DEF Charted
  <1>c. \A i, j \in 1..4 : o.order[i] = o.order[j] => i = j
    BY DEF Charted
  <1> DEFINE doc == R!Topology(o)
             E(r, f) == R!Peer(w, C[f][Before(r)])
  <1>2. R!Directions = {"clockwise", "counter_clockwise"}
    BY DEF R!Directions
  <1>1. ASSUME NEW r, r \in 0..3, NEW f, f \in R!Domains
        PROVE  /\ doc[r]["clockwise"][f]
                    = [port |-> C[f][r], peerRank |-> After(r),
                       peerDirection |-> "counter_clockwise", peerFunction |-> f]
               /\ doc[r]["counter_clockwise"][f]
                    = [port |-> E(r, f), peerRank |-> Before(r),
                       peerDirection |-> "clockwise", peerFunction |-> f]
    <2>1. (r + 1) % 4 = After(r) /\ (r + -1) % 4 = Before(r)
      BY <1>1, RanksAround
    <2>2. /\ "clockwise" \in R!Directions /\ "counter_clockwise" \in R!Directions
      BY <1>2
    <2> QED
      BY <1>1, <1>b, <2>1, <2>2 DEF R!Topology
  <1> HIDE DEF doc, E
  <1>3. ASSUME NEW r, r \in 0..3, NEW f, f \in R!Domains
        PROVE  /\ doc[r]["clockwise"][f].port = C[f][r]
               /\ doc[r]["counter_clockwise"][f].port = E(r, f)
               /\ doc[r]["clockwise"][f].peerRank = After(r)
               /\ doc[r]["counter_clockwise"][f].peerRank = Before(r)
               /\ doc[r]["clockwise"][f].peerDirection = "counter_clockwise"
               /\ doc[r]["counter_clockwise"][f].peerDirection = "clockwise"
               /\ doc[r]["clockwise"][f].peerFunction = f
               /\ doc[r]["counter_clockwise"][f].peerFunction = f
    <2>1. doc[r]["clockwise"][f] = [port |-> C[f][r], peerRank |-> After(r),
                                  peerDirection |-> "counter_clockwise", peerFunction |-> f]
      BY <1>1, <1>3
    <2>2. doc[r]["counter_clockwise"][f] = [port |-> E(r, f), peerRank |-> Before(r),
                                          peerDirection |-> "clockwise", peerFunction |-> f]
      BY <1>1, <1>3
    <2> QED
      BY <2>1, <2>2
  <1> USE DEF E
  <1>4. ASSUME NEW r, r \in 0..3, NEW f, f \in R!Domains
        PROVE  /\ E(r, f) \in R!Ports
               /\ R!HostOf(E(r, f)) = o.order[r + 1]
               /\ R!Peer(w, E(r, f)) = C[f][Before(r)]
               /\ R!HostOf(C[f][Before(r)]) = o.order[Before(r) + 1]
               /\ StraightCables(w) => R!DomainOf(E(r, f)) = f
    <2>1. Before(r) \in 0..3 /\ After(Before(r)) = r
      BY <1>4, RanksAround
    <2> QED
      BY <1>4, <2>1, <1>a, Cables DEF StraightCables
  <1>5. ASSUME NEW r, r \in 0..3, NEW f, f \in R!Domains, NEW g, g \in R!Domains
        PROVE  C[f][r] # E(r, g)
    <2>1. /\ R!HostOf(R!Peer(w, C[f][r])) = o.order[After(r) + 1]
          /\ R!HostOf(R!Peer(w, E(r, g))) = o.order[Before(r) + 1]
      BY <1>4, <1>5, <1>a
    <2>2. After(r) + 1 \in 1..4 /\ Before(r) + 1 \in 1..4 /\ After(r) + 1 # Before(r) + 1
      BY <1>5, RanksAround
    <2>3. o.order[After(r) + 1] # o.order[Before(r) + 1]
      BY <2>2, <1>c
    <2> QED
      BY <2>1, <2>3
  <1>6. ASSUME NEW r, r \in 0..3, NEW f, f \in R!Domains, NEW g, g \in R!Domains
        PROVE  /\ C[f][r] = C[g][r] => f = g
               /\ E(r, f) = E(r, g) => f = g
    <2>1. Before(r) \in 0..3
      BY <1>6, RanksAround
    <2>2. R!DomainOf(C[f][Before(r)]) = f /\ R!DomainOf(C[g][Before(r)]) = g
      BY <1>6, <2>1, <1>a
    <2>3. E(r, f) = E(r, g) => C[f][Before(r)] = C[g][Before(r)]
      BY <1>4, <1>6
    <2>4. C[f][r] = C[g][r] => f = g
      BY <1>6, <1>a
    <2> QED
      BY <2>2, <2>3, <2>4
  <1> HIDE DEF E
  <1>7. ASSUME NEW r, r \in 0..3, NEW d, d \in R!Directions, NEW f, f \in R!Domains
        PROVE  Fits(w, o.order, doc, r, d, f)
    <2>1. CASE d = "clockwise"
      <3>1. doc[r][d][f].port = C[f][r]
        BY <1>3, <1>7, <2>1
      <3>2. /\ doc[r][d][f].peerRank = After(r) /\ doc[r][d][f].peerFunction = f
            /\ doc[r][d][f].peerDirection = "counter_clockwise"
        BY <1>3, <1>7, <2>1
      <3>3. doc[After(r)]["counter_clockwise"][f].port = R!Peer(w, C[f][r])
        BY <1>3, <1>7, RanksAround DEF E
      <3>4. \A c \in R!Directions, g \in R!Domains : doc[r][c][g].port = C[f][r] => c = d /\ g = f
        BY <1>2, <1>3, <1>5, <1>6, <1>7, <2>1
      <3> QED
        BY <1>7, <1>a, <3>1, <3>2, <3>3, <3>4 DEF Fits
    <2>2. CASE d = "counter_clockwise"
      <3>1. doc[r][d][f].port = E(r, f)
        BY <1>3, <1>7, <2>2
      <3>2. /\ doc[r][d][f].peerRank = Before(r) /\ doc[r][d][f].peerFunction = f
            /\ doc[r][d][f].peerDirection = "clockwise"
        BY <1>3, <1>7, <2>2
      <3>3. doc[Before(r)]["clockwise"][f].port = R!Peer(w, E(r, f))
        BY <1>3, <1>4, <1>7, RanksAround
      <3>4. \A c \in R!Directions, g \in R!Domains : doc[r][c][g].port = E(r, f) => c = d /\ g = f
        BY <1>2, <1>3, <1>5, <1>6, <1>7, <2>2
      <3> QED
        BY <1>4, <1>7, <3>1, <3>2, <3>3, <3>4 DEF Fits
    <2> QED
      BY <1>2, <1>7, <2>1, <2>2
  <1>8. {o.order[i] : i \in 1..4} = R!Hosts
    BY DEF Charted
  <1> HIDE DEF E
  <1>9. Describes(w, o.order, doc)
    <2>1. \A r \in 0..3, d \in R!Directions, f \in R!Domains : Fits(w, o.order, doc, r, d, f)
      BY <1>7
    <2> QED
      BY <1>8, <2>1 DEF Describes
  <1> QED
    BY <1>9 DEF doc

\* The ports that a circuit of one domain leaves its hosts by, and what the walk
\* has labelled.
Circuit(w, f, order, port, way) ==
  \A r \in 0..3 :
    /\ way[r] \in R!Ports /\ R!DomainOf(way[r]) = f
    /\ R!HostOf(way[r]) = order[r + 1]
    /\ R!HostOf(R!Peer(w, way[r])) = order[After(r) + 1]
    /\ port[<<order[r + 1], "clockwise", f>>] = way[r]
    /\ port[<<order[r + 1], "counter_clockwise", f>>] = R!Peer(w, way[Before(r)])

\* A walk of domain f leaves the labels of the other domain alone.
Apart(f, start, port) == \A l \in Labels : l[3] # f => port[l] = start[l]

Round(w, f, start, c1, c2, c3, c4, port) ==
  /\ port \in Sides /\ Apart(f, start, port)
  /\ Circuit(w, f, <<0, R!HostOf(c2), R!HostOf(c3), R!HostOf(c4)>>, port,
             [r \in 0..3 |-> <<c1, c2, c3, c4>>[r + 1]])

\* A walk that came round, and that is given the port it started by.
LEMMA CircuitWalked ==
  ASSUME NEW w, Cabled(w), NEW f, f \in R!Domains, NEW start, start \in Sides,
         NEW c1, NEW c2, NEW c3, NEW c4, NEW c5,
         c1 = start[<<0, "clockwise", f>>], Chain(w, f, c1, c2, c3, c4, c5),
         R!HostOf(c1) = 0, R!DomainOf(c1) = f, R!HostOf(c5) = 0,
         {0, R!HostOf(c2), R!HostOf(c3), R!HostOf(c4)} = R!Hosts,
         NEW port, port = [R!Walk(w, f, start)[4].port EXCEPT ![<<0, "clockwise", f>>] = c1]
  PROVE  Round(w, f, start, c1, c2, c3, c4, port)
  <1> DEFINE h2 == R!HostOf(c2)
             h3 == R!HostOf(c3)
             h4 == R!HostOf(c4)
             last == R!Walk(w, f, start)[4].port
             order == <<0, h2, h3, h4>>
             way == [r \in 0..3 |-> <<c1, c2, c3, c4>>[r + 1]]
  <1>1. /\ {c1, c2, c3, c4, c5} \subseteq R!Ports /\ last \in Sides
        /\ \A l \in Labels : l[3] # f => last[l] = start[l]
        /\ last[<<0, "counter_clockwise", f>>] = R!Peer(w, c4)
        /\ last[<<h2, "clockwise", f>>] = c2 /\ last[<<h3, "clockwise", f>>] = c3
        /\ last[<<h4, "clockwise", f>>] = c4
        /\ last[<<h2, "counter_clockwise", f>>] = R!Peer(w, c1)
        /\ last[<<h3, "counter_clockwise", f>>] = R!Peer(w, c2)
        /\ last[<<h4, "counter_clockwise", f>>] = R!Peer(w, c3)
    <2>1. Walked(w, f, start, c1, c2, c3, c4, c5)
      BY WalkPorts
    <2> QED
      BY <2>1 DEF Walked
  <1>2. 0 # h2 /\ 0 # h3 /\ 0 # h4 /\ {0, h2, h3, h4} = R!Hosts
    BY DEF R!Hosts
  <1>3. /\ R!HostOf(R!Peer(w, c1)) = h2 /\ R!DomainOf(c2) = f
        /\ R!HostOf(R!Peer(w, c2)) = h3 /\ R!DomainOf(c3) = f
        /\ R!HostOf(R!Peer(w, c3)) = h4 /\ R!DomainOf(c4) = f
        /\ R!HostOf(R!Peer(w, c4)) = 0
    BY <1>1, AheadFacts DEF Chain
  <1> DEFINE a == <<0, "clockwise", f>>
  <1>4. a \in Labels
    BY <1>2 DEF Labels, R!Directions
  <1>5. /\ port \in Sides /\ port[a] = c1
        /\ \A l \in Labels : l # a => port[l] = last[l]
    <2> HIDE DEF a, last
    <2>1. port = [last EXCEPT ![a] = c1]
      BY DEF last, a
    <2> QED
      BY <1>1, <1>4, <2>1 DEF Sides
  <1>6. \A h \in {h2, h3, h4} : <<h, "clockwise", f>> \in Labels /\ <<h, "clockwise", f>> # a
    BY <1>2 DEF Labels, R!Directions
  <1>7. \A h \in {0, h2, h3, h4} :
          <<h, "counter_clockwise", f>> \in Labels /\ <<h, "counter_clockwise", f>> # a
    BY <1>2 DEF Labels, R!Directions
  <1>8. \A l \in Labels : l[3] # f => l # a
    OBVIOUS
  <1> HIDE DEF a, last, h2, h3, h4
  <1>9. /\ way[0] = c1 /\ way[1] = c2 /\ way[2] = c3 /\ way[3] = c4
        /\ order[1] = 0 /\ order[2] = h2 /\ order[3] = h3 /\ order[4] = h4
    OBVIOUS
  <1>10. /\ port[<<h2, "clockwise", f>>] = c2 /\ port[<<h3, "clockwise", f>>] = c3
         /\ port[<<h4, "clockwise", f>>] = c4
         /\ port[<<0, "counter_clockwise", f>>] = R!Peer(w, c4)
         /\ port[<<h2, "counter_clockwise", f>>] = R!Peer(w, c1)
         /\ port[<<h3, "counter_clockwise", f>>] = R!Peer(w, c2)
         /\ port[<<h4, "counter_clockwise", f>>] = R!Peer(w, c3)
    BY <1>1, <1>5, <1>6, <1>7
  <1> HIDE DEF way, order
  <1>11. ASSUME NEW r, r \in 0..3
         PROVE  /\ way[r] \in R!Ports /\ R!DomainOf(way[r]) = f
                /\ R!HostOf(way[r]) = order[r + 1]
                /\ R!HostOf(R!Peer(w, way[r])) = order[After(r) + 1]
                /\ port[<<order[r + 1], "clockwise", f>>] = way[r]
                /\ port[<<order[r + 1], "counter_clockwise", f>>] = R!Peer(w, way[Before(r)])
    <2>1. CASE r = 0
      BY <2>1, <1>1, <1>3, <1>5, <1>9, <1>10 DEF After, Before, a
    <2>2. CASE r = 1
      BY <2>2, <1>1, <1>3, <1>9, <1>10 DEF After, Before, h2
    <2>3. CASE r = 2
      BY <2>3, <1>1, <1>3, <1>9, <1>10 DEF After, Before, h3
    <2>4. CASE r = 3
      BY <2>4, <1>1, <1>3, <1>9, <1>10 DEF After, Before, h4
    <2> QED
      BY <1>11, <2>1, <2>2, <2>3, <2>4
  <1>12. Circuit(w, f, order, port, way)
    BY <1>11 DEF Circuit
  <1>13. Apart(f, start, port)
    BY <1>1, <1>5, <1>8 DEF Apart
  <1> QED
    BY <1>5, <1>12, <1>13 DEF Round, way, order, h2, h3, h4

-----------------------------------------------------------------------------
(***************************************************************************)
(* ring_order.                                                             *)
(***************************************************************************)

\* What the planner starts its second walk with.
Second(port, p) ==
  [port EXCEPT ![<<0, "clockwise", 1>>] = p,
               ![<<0, "counter_clockwise", 1>>] = R!OtherPort(0, 1, p)]

Candidates(w, h) == {i \in {0, 1} : R!HostOf(R!Peer(w, <<0, 1, i>>)) = h}

\* What it makes of its two walks, when every cable has two ends.
Outcome(first, cands, p, walk) ==
  IF first.cur # 0 \/ {first.order[i] : i \in 1..4} # R!Hosts THEN R!Refused
  ELSE IF Cardinality(cands) # 1 THEN R!Refused
  ELSE IF ~R!SameRing(walk, first.order) THEN R!Refused
  ELSE [ok |-> TRUE, order |-> first.order,
        port |-> [walk[4].port EXCEPT ![<<0, "clockwise", 1>>] = p]]

LEMMA OrderIs ==
  ASSUME NEW w, Cabled(w),
         NEW first, first = R!Walk(w, 0, R!Unlabelled)[4],
         NEW cands, cands = Candidates(w, first.order[2]),
         NEW p, p = <<0, 1, CHOOSE i \in cands : TRUE>>,
         NEW walk, walk = R!Walk(w, 1, Second(first.port, p))
  PROVE  R!RingOrder(w) = Outcome(first, cands, p, walk)
  <1>1. R!OneDacPerSubnet(w)
    BY DEF Cabled
  <1>2. R!Cardinality(cands) = Cardinality(cands)
    BY SameCount
  <1> QED
    BY <1>1, <1>2 DEF R!RingOrder, Outcome, Second, Candidates

LEMMA StartFacts ==
  /\ R!Unlabelled \in Sides
  /\ R!Unlabelled[<<0, "clockwise", 0>>] = <<0, 0, 0>>
  /\ <<0, 0, 0>> \in R!Ports /\ R!HostOf(<<0, 0, 0>>) = 0 /\ R!DomainOf(<<0, 0, 0>>) = 0
  <1>1. 0 \in R!Hosts /\ 0 \in R!Domains
    BY DEF R!Hosts, R!Domains
  <1>2. <<0, "clockwise", 0>> \in Labels
    BY <1>1 DEF Labels, R!Directions
  <1>3. ASSUME NEW l, l \in Labels
        PROVE  <<l[1], l[3], IF l[2] = "clockwise" THEN 0 ELSE 1>> \in R!Ports
    BY <1>3 DEF Labels, R!Ports
  <1>4. R!Unlabelled = [l \in Labels |-> <<l[1], l[3], IF l[2] = "clockwise" THEN 0 ELSE 1>>]
    BY DEF R!Unlabelled, Labels
  <1>5. R!Unlabelled \in Sides
    BY <1>3, <1>4 DEF Sides
  <1>6. R!Unlabelled[<<0, "clockwise", 0>>] = <<0, 0, 0>>
    BY <1>2, <1>4
  <1> QED
    BY <1>1, <1>5, <1>6 DEF R!Ports, R!HostOf, R!DomainOf

LEMMA SecondFacts ==
  ASSUME NEW port, port \in Sides, NEW i, i \in {0, 1}, NEW p, p = <<0, 1, i>>
  PROVE  /\ Second(port, p) \in Sides /\ Second(port, p)[<<0, "clockwise", 1>>] = p
         /\ p \in R!Ports /\ R!HostOf(p) = 0 /\ R!DomainOf(p) = 1
         /\ \A l \in Labels : l[3] = 0 => Second(port, p)[l] = port[l]
  <1> DEFINE q == R!OtherPort(0, 1, p)
             a == <<0, "clockwise", 1>>
             b == <<0, "counter_clockwise", 1>>
  <1>1. 0 \in R!Hosts /\ 1 \in R!Domains
    BY DEF R!Hosts, R!Domains
  <1>2. p \in R!Ports /\ q \in R!Ports /\ R!HostOf(p) = 0 /\ R!DomainOf(p) = 1
    BY <1>1 DEF R!OtherPort, R!Ports, R!HostOf, R!DomainOf
  <1>3. a \in Labels /\ b \in Labels /\ a # b
    BY <1>1 DEF Labels, R!Directions
  <1>4. \A l \in Labels : l[3] = 0 => l # a /\ l # b
    OBVIOUS
  <1>5. Second(port, p) = [port EXCEPT ![a] = p, ![b] = q]
    BY DEF Second
  <1> HIDE DEF a, b, q
  <1>6. /\ Second(port, p) \in Sides /\ Second(port, p)[a] = p
        /\ \A l \in Labels : l # a /\ l # b => Second(port, p)[l] = port[l]
    BY <1>2, <1>3, <1>5 DEF Sides
  <1> QED
    BY <1>2, <1>4, <1>6 DEF a

\* What ring_order returns describes the cabling.
LEMMA OrderDescribes ==
  ASSUME NEW w, R!EachPortOnce(w), NEW o, o = R!RingOrder(w), o.ok
  PROVE  Describes(w, o.order, R!Topology(o))
  <1>1. Cabled(w)
    BY DEF R!RingOrder, R!Refused, Cabled
  <1> DEFINE first == R!Walk(w, 0, R!Unlabelled)[4]
             cands == Candidates(w, first.order[2])
             i0 == CHOOSE i \in cands : TRUE
             p == <<0, 1, i0>>
             start == Second(first.port, p)
             walk == R!Walk(w, 1, start)
             c1 == <<0, 0, 0>>
             c2 == Ahead(w, 0, c1)
             c3 == Ahead(w, 0, c2)
             c4 == Ahead(w, 0, c3)
             c5 == Ahead(w, 0, c4)
             d2 == Ahead(w, 1, p)
             d3 == Ahead(w, 1, d2)
             d4 == Ahead(w, 1, d3)
             d5 == Ahead(w, 1, d4)
             h2 == R!HostOf(c2)
             h3 == R!HostOf(c3)
             h4 == R!HostOf(c4)
  <1>2. Walked(w, 0, R!Unlabelled, c1, c2, c3, c4, c5)
    <2>1. Chain(w, 0, c1, c2, c3, c4, c5)
      BY DEF Chain
    <2>2. 0 \in R!Domains
      BY DEF R!Domains
    <2> HIDE DEF c2, c3, c4, c5
    <2> QED
      BY <1>1, <2>1, <2>2, StartFacts, WalkPorts
  <1> HIDE DEF first, cands, i0, p, start, walk, c1, c2, c3, c4, c5, d2, d3, d4, d5
  <1>3. /\ first.cur = 0 /\ {first.order[i] : i \in 1..4} = R!Hosts /\ Cardinality(cands) = 1
        /\ R!SameRing(walk, first.order)
        /\ o = [ok |-> TRUE, order |-> first.order,
                port |-> [walk[4].port EXCEPT ![<<0, "clockwise", 1>>] = p]]
    <2>1. R!RingOrder(w) = Outcome(first, cands, p, walk)
      BY <1>1, OrderIs DEF first, cands, i0, p, start, walk
    <2>2. ~R!Refused.ok
      BY DEF R!Refused
    <2> QED
      BY <2>1, <2>2 DEF Outcome
  <1>4. /\ first.order = <<0, h2, h3, h4>> /\ R!HostOf(c5) = 0
        /\ first.order[1] = 0 /\ first.order[2] = h2 /\ first.order[3] = h3
        /\ first.order[4] = h4 /\ first.port \in Sides
        /\ {c1, c2, c3, c4, c5} \subseteq R!Ports
    BY <1>2, <1>3 DEF Walked, first
  <1>5. {0, h2, h3, h4} = R!Hosts
    BY <1>3, <1>4
  <1>6. i0 \in {0, 1} /\ R!HostOf(R!Peer(w, p)) = h2
    <2>1. cands # {}
      BY <1>3, FS_EmptySet
    <2>2. i0 \in cands
      BY <2>1 DEF i0
    <2> QED
      BY <2>2, <1>4 DEF cands, Candidates, p
  <1>7. /\ start \in Sides /\ start[<<0, "clockwise", 1>>] = p
        /\ p \in R!Ports /\ R!HostOf(p) = 0 /\ R!DomainOf(p) = 1
        /\ \A l \in Labels : l[3] = 0 => start[l] = first.port[l]
    <2>1. p = <<0, 1, i0>>
      BY DEF p
    <2> QED
      BY <1>4, <1>6, <2>1, SecondFacts DEF start
  <1>8. /\ Walked(w, 1, start, p, d2, d3, d4, d5) /\ Chain(w, 1, p, d2, d3, d4, d5)
    <2>1. Chain(w, 1, p, d2, d3, d4, d5)
      BY DEF Chain, d2, d3, d4, d5
    <2>2. 1 \in R!Domains
      BY DEF R!Domains
    <2> QED
      BY <1>1, <1>7, <2>1, <2>2, WalkPorts
  <1>9. R!HostOf(d2) = h2 /\ R!HostOf(d3) = h3 /\ R!HostOf(d4) = h4 /\ R!HostOf(d5) = 0
    <2>1. /\ walk[1].cur = first.order[2] /\ walk[2].cur = first.order[3]
          /\ walk[3].cur = first.order[4] /\ walk[4].cur = first.order[1]
      BY <1>3 DEF R!SameRing
    <2> QED
      BY <1>4, <1>8, <2>1 DEF Walked, walk
  <1>10. c5 = c1
    <2>1. /\ R!HostOf(R!Peer(w, c4)) = 0 /\ R!HostOf(R!Peer(w, c1)) = h2
          /\ R!Peer(w, R!Peer(w, c4)) = c4
      BY <1>1, <1>4, AheadFacts, Cables DEF c2, c5, R!Domains
    <2>2. h2 # h4
      BY <1>5, AllDifferent
    <2>3. R!Peer(w, c4) # c1
      BY <2>1, <2>2
    <2>4. c5 = R!OtherPort(0, 0, R!Peer(w, c4))
      BY <2>1 DEF c5, Ahead
    <2> QED
      BY <2>3, <2>4 DEF R!OtherPort, c1
  <1> DEFINE a0 == <<0, "clockwise", 0>>
             a1 == <<0, "clockwise", 1>>
             order == <<0, h2, h3, h4>>
             D0 == [r \in 0..3 |-> <<c1, c2, c3, c4>>[r + 1]]
             D1 == [r \in 0..3 |-> <<p, d2, d3, d4>>[r + 1]]
             C == [f \in R!Domains |-> IF f = 0 THEN D0 ELSE D1]
  <1>11. Circuit(w, 0, order, first.port, D0)
    <2>1. first.port[a0] = c1
      BY <1>2, <1>4, <1>5, <1>10 DEF Walked, first
    <2>2. first.port = [first.port EXCEPT ![a0] = c1]
      <3> HIDE DEF a0
      <3> QED
        BY <1>4, <2>1 DEF Sides
    <2>3. Chain(w, 0, c1, c2, c3, c4, c5) /\ 0 \in R!Domains
      BY DEF Chain, c2, c3, c4, c5, R!Domains
    <2>4. c1 = R!Unlabelled[<<0, "clockwise", 0>>] /\ R!HostOf(c1) = 0 /\ R!DomainOf(c1) = 0
      BY StartFacts DEF c1
    <2>5. first.port = [R!Walk(w, 0, R!Unlabelled)[4].port EXCEPT ![<<0, "clockwise", 0>>] = c1]
      BY <2>2 DEF first
    <2>6. R!Unlabelled \in Sides
      BY StartFacts
    <2>7. {0, R!HostOf(c2), R!HostOf(c3), R!HostOf(c4)} = R!Hosts
      BY <1>5
    <2>8. R!HostOf(c5) = 0
      BY <1>4
    <2>9. Round(w, 0, R!Unlabelled, c1, c2, c3, c4, first.port)
      BY <1>1, <2>3, <2>4, <2>5, <2>6, <2>7, <2>8, CircuitWalked
    <2> QED
      BY <2>9 DEF Round
  <1>12. /\ Circuit(w, 1, order, o.port, D1)
         /\ \A l \in Labels : l[3] # 1 => o.port[l] = start[l]
    <2>1. o.port = [R!Walk(w, 1, start)[4].port EXCEPT ![<<0, "clockwise", 1>>] = p]
      BY <1>3 DEF walk
    <2>2. 1 \in R!Domains
      BY DEF R!Domains
    <2>3. {0, R!HostOf(d2), R!HostOf(d3), R!HostOf(d4)} = R!Hosts
      BY <1>5, <1>9
    <2>4. Round(w, 1, start, p, d2, d3, d4, o.port)
      BY <1>1, <1>7, <1>8, <1>9, <2>1, <2>2, <2>3, CircuitWalked
    <2>5. /\ Circuit(w, 1, <<0, R!HostOf(d2), R!HostOf(d3), R!HostOf(d4)>>, o.port, D1)
          /\ Apart(1, start, o.port)
      BY <2>4 DEF Round
    <2> QED
      BY <1>9, <2>5 DEF Apart
  <1>13. Circuit(w, 0, order, o.port, D0)
    <2>1. \A l \in Labels : l[3] = 0 => o.port[l] = first.port[l]
      BY <1>7, <1>12
    <2>2. \A r \in 0..3 : order[r + 1] \in R!Hosts
      <3>1. order[1] = 0 /\ order[2] = h2 /\ order[3] = h3 /\ order[4] = h4
        OBVIOUS
      <3>2. \A r \in 0..3 : r = 0 \/ r = 1 \/ r = 2 \/ r = 3
        OBVIOUS
      <3> HIDE DEF order
      <3> QED
        BY <1>5, <3>1, <3>2
    <2>3. \A h \in R!Hosts, d \in R!Directions : <<h, d, 0>> \in Labels /\ <<h, d, 0>>[3] = 0
      BY DEF Labels, R!Domains
    <2>4. "clockwise" \in R!Directions /\ "counter_clockwise" \in R!Directions
      BY DEF R!Directions
    <2>5. \A h \in R!Hosts : /\ o.port[<<h, "clockwise", 0>>] = first.port[<<h, "clockwise", 0>>]
                             /\ o.port[<<h, "counter_clockwise", 0>>]
                                  = first.port[<<h, "counter_clockwise", 0>>]
      BY <2>1, <2>3, <2>4
    <2> HIDE DEF order, D0
    <2> QED
      BY <1>11, <2>2, <2>5 DEF Circuit
  <1>14. o.order = order
    BY <1>3, <1>4
  <1>15. Charted(w, o, C)
    <2>1. {o.order[i] : i \in 1..4} = R!Hosts
      BY <1>3
    <2>2. \A i, j \in 1..4 : o.order[i] = o.order[j] => i = j
      <3>1. 0 # h2 /\ 0 # h3 /\ 0 # h4 /\ h2 # h3 /\ h2 # h4 /\ h3 # h4
        BY <1>5, AllDifferent
      <3>2. o.order[1] = 0 /\ o.order[2] = h2 /\ o.order[3] = h3 /\ o.order[4] = h4
        BY <1>14
      <3>3. \A i \in 1..4 : i = 1 \/ i = 2 \/ i = 3 \/ i = 4
        OBVIOUS
      <3> HIDE DEF h2, h3, h4
      <3> QED
        BY <3>1, <3>2, <3>3
    <2>3. C[0] = D0 /\ C[1] = D1 /\ \A f \in R!Domains : f = 0 \/ f = 1
      BY DEF R!Domains
    <2>4. \A f \in R!Domains : Circuit(w, f, o.order, o.port, C[f])
      <3> HIDE DEF C, D0, D1, order
      <3> QED
        BY <1>12, <1>13, <1>14, <2>3
    <2> HIDE DEF C
    <2>5. ASSUME NEW f \in R!Domains, NEW r \in 0..3
          PROVE  /\ C[f][r] \in R!Ports /\ R!DomainOf(C[f][r]) = f
                 /\ R!HostOf(C[f][r]) = o.order[r + 1]
                 /\ R!HostOf(R!Peer(w, C[f][r])) = o.order[After(r) + 1]
                 /\ o.port[<<o.order[r + 1], "clockwise", f>>] = C[f][r]
                 /\ o.port[<<o.order[r + 1], "counter_clockwise", f>>]
                      = R!Peer(w, C[f][Before(r)])
      BY <2>4 DEF Circuit
    <2> QED
      BY <2>1, <2>2, <2>5 DEF Charted
  <1> HIDE DEF C
  <1> QED
    BY <1>1, <1>15, Described

-----------------------------------------------------------------------------
(***************************************************************************)
(* A cabling that is one ring is planned.                                  *)
(***************************************************************************)

NearOf(w, f, h) == {R!HostOf(R!Peer(w, <<h, f, i>>)) : i \in {0, 1}}

\* Both domains close one ring.
OneRingOf(w) ==
  /\ Cabled(w) /\ StraightCables(w)
  /\ \A h \in R!Hosts : /\ NearOf(w, 0, h) = NearOf(w, 1, h)
                        /\ Cardinality(NearOf(w, 0, h) \ {h}) = 2

LEMMA TwoOthers ==
  ASSUME NEW a, NEW b, NEW h, Cardinality({a, b} \ {h}) = 2
  PROVE  a # b /\ a # h /\ b # h
  <1>1. IsFiniteSet({a, b})
    <2>1. IsFiniteSet({a})
      BY FS_Singleton
    <2>2. IsFiniteSet({a} \cup {b})
      BY <2>1, FS_AddElement
    <2>3. {a} \cup {b} = {a, b}
      OBVIOUS
    <2> QED
      BY <2>2, <2>3
  <1>2. IsFiniteSet({a, b} \ {h})
    BY <1>1, FS_Subset
  <1>3. PICK u, v : u # v /\ {a, b} \ {h} = {u, v}
    BY <1>2, TwoEnds
  <1> QED
    BY <1>3

LEMMA TwoNear ==
  ASSUME NEW w, NEW f, NEW h
  PROVE  NearOf(w, f, h) = {R!HostOf(R!Peer(w, <<h, f, 0>>)), R!HostOf(R!Peer(w, <<h, f, 1>>))}
  BY DEF NearOf

\* The two cables of a host in a domain lead to its two neighbours.
LEMMA Neighbours ==
  ASSUME NEW w, OneRingOf(w), NEW f, f \in R!Domains, NEW h, h \in R!Hosts,
         NEW a, a = R!HostOf(R!Peer(w, <<h, f, 0>>)),
         NEW b, b = R!HostOf(R!Peer(w, <<h, f, 1>>))
  PROVE  NearOf(w, 0, h) = {a, b} /\ a # b /\ a # h /\ b # h
  <1>1. f = 0 \/ f = 1
    BY DEF R!Domains
  <1>2. NearOf(w, f, h) = NearOf(w, 0, h)
    BY <1>1 DEF OneRingOf
  <1>3. NearOf(w, f, h) = {a, b}
    BY TwoNear
  <1>4. Cardinality({a, b} \ {h}) = 2
    BY <1>2, <1>3 DEF OneRingOf
  <1> QED
    BY <1>2, <1>3, <1>4, TwoOthers

\* A host that a walk comes to by port p and leaves by port c.
LEMMA Passed ==
  ASSUME NEW w, OneRingOf(w), NEW f, f \in R!Domains,
         NEW p, p \in R!Ports, R!DomainOf(p) = f,
         NEW c, c = Ahead(w, f, p), NEW d, d = Ahead(w, f, c)
  PROVE  /\ NearOf(w, 0, R!HostOf(c)) = {R!HostOf(p), R!HostOf(d)}
         /\ R!HostOf(p) # R!HostOf(d)
         /\ R!HostOf(p) # R!HostOf(c) /\ R!HostOf(d) # R!HostOf(c)
  <1> DEFINE q == R!Peer(w, p)
             h == R!HostOf(c)
  <1>1. Cabled(w) /\ StraightCables(w)
    BY DEF OneRingOf
  <1>2. /\ q \in R!Ports /\ R!Peer(w, q) = p /\ R!DomainOf(q) = f
    BY <1>1, Cables DEF StraightCables
  <1>3. /\ c \in R!Ports /\ R!DomainOf(c) = f /\ c # q
        /\ R!HostOf(q) = h /\ h \in R!Hosts /\ R!HostOf(R!Peer(w, c)) = R!HostOf(d)
    BY <1>1, AheadFacts
  <1> HIDE DEF q, h
  <1>4. \A x \in R!Ports : R!HostOf(x) = h /\ R!DomainOf(x) = f
                             => x = <<h, f, 0>> \/ x = <<h, f, 1>>
    BY DEF R!Ports, R!HostOf, R!DomainOf
  <1>5. \/ q = <<h, f, 0>> /\ c = <<h, f, 1>>
        \/ q = <<h, f, 1>> /\ c = <<h, f, 0>>
    BY <1>2, <1>3, <1>4 DEF h
  <1> DEFINE a == R!HostOf(R!Peer(w, <<h, f, 0>>))
             b == R!HostOf(R!Peer(w, <<h, f, 1>>))
  <1>6. \/ a = R!HostOf(p) /\ b = R!HostOf(d)
        \/ b = R!HostOf(p) /\ a = R!HostOf(d)
    BY <1>2, <1>3, <1>5
  <1>7. NearOf(w, 0, h) = {a, b} /\ a # b /\ a # h /\ b # h
    BY <1>3, Neighbours
  <1> QED
    BY <1>6, <1>7 DEF h

LEMMA Mutual ==
  ASSUME NEW w, OneRingOf(w), NEW g, g \in R!Hosts, NEW h, h \in NearOf(w, 0, g)
  PROVE  h \in R!Hosts /\ h # g /\ g \in NearOf(w, 0, h)
  <1>0. Cabled(w) /\ StraightCables(w) /\ 0 \in R!Domains
    BY DEF OneRingOf, R!Domains
  <1>1. PICK i \in {0, 1} : h = R!HostOf(R!Peer(w, <<g, 0, i>>))
    BY DEF NearOf
  <1> DEFINE p == <<g, 0, i>>
             q == R!Peer(w, p)
  <1>2. p \in R!Ports /\ R!HostOf(p) = g /\ R!DomainOf(p) = 0
    BY <1>0 DEF R!Ports, R!HostOf, R!DomainOf
  <1> HIDE DEF p
  <1>3. q \in R!Ports /\ R!Peer(w, q) = p /\ R!DomainOf(q) = 0 /\ R!HostOf(q) = h
    BY <1>0, <1>1, <1>2, Cables DEF StraightCables, p
  <1> HIDE DEF q
  <1>4. h \in R!Hosts /\ (q = <<h, 0, 0>> \/ q = <<h, 0, 1>>)
    BY <1>3 DEF R!Ports, R!HostOf, R!DomainOf
  <1>5. g \in NearOf(w, 0, h)
    BY <1>2, <1>3, <1>4, TwoNear
  <1>6. h # g
    <2> DEFINE a == R!HostOf(R!Peer(w, <<g, 0, 0>>))
               b == R!HostOf(R!Peer(w, <<g, 0, 1>>))
    <2>1. h = a \/ h = b
      BY <1>1
    <2> HIDE DEF a, b
    <2>2. a # g /\ b # g
      BY <1>0, Neighbours DEF a, b
    <2> QED
      BY <2>1, <2>2
  <1> QED
    BY <1>4, <1>5, <1>6

\* A way along mutual neighbours that does not turn back.
Onward(N, h1, h2, h3, h4, h5) ==
  /\ \A g \in R!Hosts : N[g] # {}
  /\ \A g \in R!Hosts : \A h \in N[g] : h \in R!Hosts /\ h # g /\ g \in N[h]
  /\ h1 \in R!Hosts /\ h2 \in R!Hosts /\ h3 \in R!Hosts /\ h4 \in R!Hosts /\ h5 \in R!Hosts
  /\ N[h2] = {h1, h3} /\ N[h3] = {h2, h4} /\ N[h4] = {h3, h5}
  /\ h1 # h3 /\ h2 # h4 /\ h3 # h5

\* Four hosts with two mutual neighbours each are a ring.
LEMMA FourRing ==
  ASSUME NEW N, NEW h1, NEW h2, NEW h3, NEW h4, NEW h5, Onward(N, h1, h2, h3, h4, h5)
  PROVE  {h1, h2, h3, h4} = R!Hosts /\ h5 = h1
  <1> USE DEF Onward
  <1>1. h1 # h2 /\ h2 # h3 /\ h3 # h4 /\ h4 # h5
    OBVIOUS
  <1>2. h4 # h1
    <2> SUFFICES ASSUME h4 = h1 PROVE FALSE
      OBVIOUS
    <2>1. h2 \in N[h1]
      OBVIOUS
    <2>2. N[h1] = {h2, h3}
      BY <1>1, <2>1
    <2>3. PICK x \in R!Hosts : x # h1 /\ x # h2 /\ x # h3
      <3>1. \A a, b, c \in 0..3 : \E y \in 0..3 : y # a /\ y # b /\ y # c
        <4> TAKE a, b, c \in 0..3
        <4>1. \/ 0 # a /\ 0 # b /\ 0 # c
              \/ 1 # a /\ 1 # b /\ 1 # c
              \/ 2 # a /\ 2 # b /\ 2 # c
              \/ 3 # a /\ 3 # b /\ 3 # c
          OBVIOUS
        <4> QED
          BY <4>1
      <3> QED
        BY <3>1 DEF R!Hosts
    <2>4. PICK y : y \in N[x]
      BY <2>3
    <2>5. y \in R!Hosts /\ y # x /\ x \in N[y]
      BY <2>3, <2>4
    <2>6. y # h1 /\ y # h2 /\ y # h3
      BY <2>2, <2>3, <2>5
    <2>7. \A a, b, c, d, e \in 0..3 :
            ~(/\ a # b /\ a # c /\ a # d /\ a # e /\ b # c /\ b # d /\ b # e
              /\ c # d /\ c # e /\ d # e)
      OBVIOUS
    <2> QED
      BY <1>1, <2>3, <2>5, <2>6, <2>7 DEF R!Hosts
  <1>3. {h1, h2, h3, h4} = R!Hosts
    <2>1. \A a, b, c, d, e \in 0..3 :
            ~(/\ a # b /\ a # c /\ a # d /\ a # e /\ b # c /\ b # d /\ b # e
              /\ c # d /\ c # e /\ d # e)
      OBVIOUS
    <2>2. \A e \in R!Hosts : e \in {h1, h2, h3, h4}
      BY <1>1, <1>2, <2>1 DEF R!Hosts
    <2> QED
      BY <2>2
  <1>4. h5 # h2
    BY <1>1, <1>2
  <1> QED
    BY <1>1, <1>3, <1>4

LEMMA RingSucceeds ==
  ASSUME NEW w, OneRingOf(w)
  PROVE  R!RingOrder(w).ok
  <1>1. /\ Cabled(w) /\ StraightCables(w) /\ 0 \in R!Domains /\ 1 \in R!Domains
        /\ 0 \in R!Hosts
    BY DEF OneRingOf, R!Domains, R!Hosts
  <1> DEFINE first == R!Walk(w, 0, R!Unlabelled)[4]
             cands == Candidates(w, first.order[2])
             i0 == CHOOSE i \in cands : TRUE
             p == <<0, 1, i0>>
             start == Second(first.port, p)
             walk == R!Walk(w, 1, start)
             c1 == <<0, 0, 0>>
             c2 == Ahead(w, 0, c1)
             c3 == Ahead(w, 0, c2)
             c4 == Ahead(w, 0, c3)
             c5 == Ahead(w, 0, c4)
             d2 == Ahead(w, 1, p)
             d3 == Ahead(w, 1, d2)
             d4 == Ahead(w, 1, d3)
             d5 == Ahead(w, 1, d4)
             h2 == R!HostOf(c2)
             h3 == R!HostOf(c3)
             h4 == R!HostOf(c4)
             h5 == R!HostOf(c5)
             N == [h \in R!Hosts |-> NearOf(w, 0, h)]
  <1>2. Walked(w, 0, R!Unlabelled, c1, c2, c3, c4, c5)
    <2>1. Chain(w, 0, c1, c2, c3, c4, c5)
      BY DEF Chain
    <2> HIDE DEF c2, c3, c4, c5
    <2> QED
      BY <1>1, <2>1, StartFacts, WalkPorts
  <1>3. c2 = Ahead(w, 0, c1) /\ c3 = Ahead(w, 0, c2) /\ c4 = Ahead(w, 0, c3) /\ c5 = Ahead(w, 0, c4)
    OBVIOUS
  <1>4. d2 = Ahead(w, 1, p) /\ d3 = Ahead(w, 1, d2) /\ d4 = Ahead(w, 1, d3) /\ d5 = Ahead(w, 1, d4)
    OBVIOUS
  <1>5. c1 \in R!Ports /\ R!HostOf(c1) = 0 /\ R!DomainOf(c1) = 0
    BY StartFacts
  <1> HIDE DEF first, cands, i0, p, start, walk, c1, c2, c3, c4, c5, d2, d3, d4, d5
  <1>6. /\ first.order = <<0, h2, h3, h4>> /\ first.cur = h5
        /\ first.order[2] = h2 /\ first.port \in Sides
    BY <1>2 DEF Walked, first
  <1>7. /\ c2 \in R!Ports /\ R!DomainOf(c2) = 0 /\ c3 \in R!Ports /\ R!DomainOf(c3) = 0
        /\ h2 \in R!Hosts /\ h3 \in R!Hosts /\ h4 \in R!Hosts /\ h5 \in R!Hosts
        /\ R!HostOf(R!Peer(w, c1)) = h2
    <2>1. c2 \in R!Ports /\ R!DomainOf(c2) = 0 /\ h2 \in R!Hosts /\ R!HostOf(R!Peer(w, c1)) = h2
      BY <1>1, <1>3, <1>5, AheadFacts
    <2>2. c3 \in R!Ports /\ R!DomainOf(c3) = 0 /\ h3 \in R!Hosts
      BY <1>1, <1>3, <2>1, AheadFacts
    <2>3. c4 \in R!Ports /\ h4 \in R!Hosts
      BY <1>1, <1>3, <2>2, AheadFacts
    <2>4. h5 \in R!Hosts
      BY <1>1, <1>3, <2>3, AheadFacts
    <2> QED
      BY <2>1, <2>2, <2>3, <2>4
  <1>8. NearOf(w, 0, h2) = {0, h3} /\ 0 # h3
    BY <1>1, <1>3, <1>5, Passed
  <1>9. NearOf(w, 0, h3) = {h2, h4} /\ h2 # h4
    BY <1>1, <1>3, <1>7, Passed
  <1>10. NearOf(w, 0, h4) = {h3, h5} /\ h3 # h5
    BY <1>1, <1>3, <1>7, Passed
  <1> HIDE DEF h2, h3, h4, h5
  <1>11. {0, h2, h3, h4} = R!Hosts /\ h5 = 0
    <2>1. \A g \in R!Hosts : N[g] # {}
      BY TwoNear
    <2>2. \A g \in R!Hosts : \A h \in N[g] : h \in R!Hosts /\ h # g /\ g \in N[h]
      <3> TAKE g \in R!Hosts
      <3> TAKE h \in N[g]
      <3>1. h \in NearOf(w, 0, g)
        OBVIOUS
      <3>2. h \in R!Hosts /\ h # g /\ g \in NearOf(w, 0, h)
        BY <3>1, Mutual
      <3> QED
        BY <3>2
    <2>3. N[h2] = {0, h3} /\ N[h3] = {h2, h4} /\ N[h4] = {h3, h5}
      BY <1>7, <1>8, <1>9, <1>10
    <2> HIDE DEF N
    <2>4. Onward(N, 0, h2, h3, h4, h5)
      BY <1>1, <1>7, <1>8, <1>9, <1>10, <2>1, <2>2, <2>3 DEF Onward
    <2> QED
      BY <2>4, FourRing
  <1> DEFINE a == R!HostOf(R!Peer(w, <<0, 1, 0>>))
             b == R!HostOf(R!Peer(w, <<0, 1, 1>>))
  <1>12. Cardinality(cands) = 1 /\ i0 \in {0, 1} /\ R!HostOf(R!Peer(w, p)) = h2
    <2>1. h2 = a \/ h2 = b
      <3>1. h2 \in NearOf(w, 0, 0)
        BY <1>1, <1>7, <1>8, Mutual
      <3>2. NearOf(w, 0, 0) = {a, b}
        BY <1>1, Neighbours
      <3> HIDE DEF a, b
      <3> QED
        BY <3>1, <3>2
    <2>2. a # b
      BY <1>1, Neighbours
    <2>3. cands = IF h2 = a THEN {0} ELSE {1}
      <3>1. \A i : i \in cands <=> \/ i = 0 /\ a = h2
                                   \/ i = 1 /\ b = h2
        BY <1>6 DEF cands, Candidates
      <3> HIDE DEF a, b
      <3>2. CASE h2 = a
        BY <2>2, <3>1, <3>2
      <3>3. CASE h2 # a
        BY <2>1, <2>2, <3>1, <3>3
      <3> QED
        BY <3>2, <3>3
    <2>4. Cardinality(cands) = 1
      BY <2>3, FS_Singleton
    <2>5. i0 \in cands
      BY <2>3 DEF i0
    <2> QED
      BY <1>6, <2>4, <2>5 DEF cands, Candidates, p
  <1>13. /\ start \in Sides /\ start[<<0, "clockwise", 1>>] = p
         /\ p \in R!Ports /\ R!HostOf(p) = 0 /\ R!DomainOf(p) = 1
    <2>1. p = <<0, 1, i0>>
      BY DEF p
    <2> QED
      BY <1>6, <1>12, <2>1, SecondFacts DEF start
  <1>14. Walked(w, 1, start, p, d2, d3, d4, d5)
    <2>1. Chain(w, 1, p, d2, d3, d4, d5)
      BY <1>4 DEF Chain
    <2> QED
      BY <1>1, <1>13, <2>1, WalkPorts
  <1>15. /\ d2 \in R!Ports /\ R!DomainOf(d2) = 1 /\ R!HostOf(d2) = h2
         /\ d3 \in R!Ports /\ R!DomainOf(d3) = 1
    <2>1. d2 \in R!Ports /\ R!DomainOf(d2) = 1 /\ R!HostOf(d2) = h2
      BY <1>1, <1>4, <1>12, <1>13, AheadFacts
    <2>2. d3 \in R!Ports /\ R!DomainOf(d3) = 1
      BY <1>1, <1>4, <2>1, AheadFacts
    <2> QED
      BY <2>1, <2>2
  <1>16. R!HostOf(d3) = h3
    <2>1. NearOf(w, 0, h2) = {0, R!HostOf(d3)} /\ 0 # R!HostOf(d3)
      BY <1>1, <1>4, <1>13, <1>15, Passed
    <2> QED
      BY <1>8, <2>1
  <1>17. R!HostOf(d4) = h4
    <2>1. NearOf(w, 0, h3) = {h2, R!HostOf(d4)} /\ h2 # R!HostOf(d4)
      BY <1>1, <1>4, <1>15, <1>16, Passed
    <2> QED
      BY <1>9, <2>1
  <1>18. R!HostOf(d5) = 0
    <2>1. NearOf(w, 0, h4) = {h3, R!HostOf(d5)} /\ h3 # R!HostOf(d5)
      BY <1>1, <1>4, <1>15, <1>16, <1>17, Passed
    <2> QED
      BY <1>10, <1>11, <2>1
  <1>19. R!SameRing(walk, first.order)
    <2>1. walk[1].cur = h2 /\ walk[2].cur = h3 /\ walk[3].cur = h4 /\ walk[4].cur = 0
      BY <1>14, <1>15, <1>16, <1>17, <1>18 DEF Walked, walk
    <2>2. /\ first.order[1] = 0 /\ first.order[2] = h2 /\ first.order[3] = h3
          /\ first.order[4] = h4
      BY <1>6
    <2>3. ASSUME NEW i, i \in 1..4 PROVE walk[i].cur = first.order[(i % 4) + 1]
      <3>1. i = 1 \/ i = 2 \/ i = 3 \/ i = 4
        BY <2>3
      <3>2. /\ (1 % 4) + 1 = 2 /\ (2 % 4) + 1 = 3 /\ (3 % 4) + 1 = 4 /\ (4 % 4) + 1 = 1
        OBVIOUS
      <3> QED
        BY <2>1, <2>2, <3>1, <3>2
    <2> QED
      BY <2>3 DEF R!SameRing
  <1>20. {first.order[i] : i \in 1..4} = R!Hosts
    <2>1. /\ first.order[1] = 0 /\ first.order[2] = h2 /\ first.order[3] = h3
          /\ first.order[4] = h4
      BY <1>6
    <2>2. \A i \in 1..4 : i = 1 \/ i = 2 \/ i = 3 \/ i = 4
      OBVIOUS
    <2>3. {first.order[i] : i \in 1..4}
            = {first.order[1], first.order[2], first.order[3], first.order[4]}
      BY <2>2
    <2> QED
      BY <1>11, <2>1, <2>3
  <1>21. R!RingOrder(w) = Outcome(first, cands, p, walk)
    BY <1>1, OrderIs DEF first, cands, i0, p, start, walk
  <1>22. R!RingOrder(w) = [ok |-> TRUE, order |-> first.order,
                           port |-> [walk[4].port EXCEPT ![<<0, "clockwise", 1>>] = p]]
    BY <1>6, <1>11, <1>12, <1>19, <1>20, <1>21 DEF Outcome
  <1> QED
    BY <1>22

-----------------------------------------------------------------------------
(***************************************************************************)
(* The planner.                                                            *)
(***************************************************************************)

\* What the planner makes of a cabling.
PlanOf(w) ==
  LET o == R!RingOrder(w)
  IN  IF o.ok THEN [ok |-> TRUE, order |-> o.order, topology |-> R!Topology(o)] ELSE R!Refused

RingInv == tool = "ring" => /\ wiring \in Wirings
                            /\ ring = R!Idle \/ ring = PlanOf(wiring)

LEMMA RingHolds == ToolsSpec => []RingInv
  <1>1. ToolsInit => RingInv
    BY DEF ToolsInit, RingInv, R!Init
  <1>2. RingInv /\ [ToolsNext]_<<tool, ringVars, hostVars, mapVars, treeVars, kernelVars, vars>>
          => RingInv'
    <2> SUFFICES ASSUME RingInv, tool' = "ring",
                   [ToolsNext]_<<tool, ringVars, hostVars, mapVars, treeVars, kernelVars, vars>>
                 PROVE  wiring' \in Wirings /\ (ring' = R!Idle \/ ring' = PlanOf(wiring'))
      BY DEF RingInv
    <2>1. CASE ToolsNext
      <3>1. tool = "ring" /\ R!Next
        BY <2>1 DEF ToolsNext
      <3>2. CASE R!Plan
        BY <3>1, <3>2 DEF RingInv, R!Plan, PlanOf
      <3>3. CASE R!Done
        BY <3>1, <3>3 DEF RingInv, R!Done, R!vars
      <3> QED
        BY <3>1, <3>2, <3>3 DEF R!Next
    <2>2. CASE UNCHANGED <<tool, ringVars, hostVars, mapVars, treeVars, kernelVars, vars>>
      BY <2>2 DEF RingInv, ringVars
    <2> QED
      BY <2>1, <2>2
  <1> QED
    BY <1>1, <1>2, PTL DEF ToolsSpec

\* plan.py: whatever the cabling, a plan describes it: each entry names a port of
\* its own, whose cable ends at the entry it names as its peer, under the function
\* of its domain unless cables cross the domains.
THEOREM PlanMatches == ToolsSpec => []PlanMatchesCables
  <1>1. RingInv => PlanMatchesCables
    <2> SUFFICES ASSUME RingInv, tool = "ring", ring.ok
                 PROVE  Describes(wiring, ring.order, ring.topology)
      <3> SUFFICES ASSUME RingInv, tool = "ring", ring.ok,
                          Describes(wiring, ring.order, ring.topology)
                   PROVE  R!PlanMatchesCables
        BY DEF PlanMatchesCables, R!PlanMatchesCables
      <3>1. {ring.order[i] : i \in 1..4} = R!Hosts
        BY DEF Describes
      <3>2. R!Straight <=> StraightCables(wiring)
        BY DEF R!Straight, StraightCables
      <3>3. ASSUME NEW r \in 0..3, NEW d \in R!Directions, NEW f \in R!Domains
            PROVE  LET e == ring.topology[r][d][f] IN
                   /\ R!HostOf(e.port) = ring.order[r + 1]
                   /\ R!Peer(wiring, e.port)
                        = ring.topology[e.peerRank][e.peerDirection][e.peerFunction].port
                   /\ \A c \in R!Directions, g \in R!Domains :
                        ring.topology[r][c][g].port = e.port => c = d /\ g = f
                   /\ R!Straight => R!DomainOf(e.port) = f
        <4>1. Fits(wiring, ring.order, ring.topology, r, d, f)
          BY DEF Describes
        <4> QED
          BY <4>1, <3>2 DEF Fits
      <3> QED
        BY <3>1, <3>3 DEF R!PlanMatchesCables
    <2> DEFINE o == R!RingOrder(wiring)
    <2>1. R!EachPortOnce(wiring)
      BY ToolsAssumption DEF RingInv
    <2>2. ring = PlanOf(wiring)
      BY DEF RingInv, R!Idle
    <2>3. o.ok /\ ring = [ok |-> TRUE, order |-> o.order, topology |-> R!Topology(o)]
      BY <2>2 DEF PlanOf, R!Refused
    <2> HIDE DEF o
    <2>4. ring.order = o.order /\ ring.topology = R!Topology(o)
      BY <2>3
    <2>5. Describes(wiring, o.order, R!Topology(o))
      BY <2>1, <2>3, OrderDescribes DEF o
    <2> QED
      BY <2>4, <2>5
  <1> QED
    BY <1>1, RingHolds, PTL

\* plan.py: no cabling that is one ring is refused, whichever port of a host has
\* which leg and in whatever order the hosts are given.
THEOREM RingPlanned == ToolsSpec => []EveryRingIsPlanned
  <1>1. RingInv => EveryRingIsPlanned
    <2> SUFFICES ASSUME RingInv, tool = "ring", R!OneRing, ring # R!Idle PROVE ring.ok
      BY DEF EveryRingIsPlanned, R!EveryRingIsPlanned
    <2>1. R!EachPortOnce(wiring) /\ ring = PlanOf(wiring)
      BY ToolsAssumption DEF RingInv
    <2>2. OneRingOf(wiring)
      <3>1. Cabled(wiring) /\ StraightCables(wiring)
        BY <2>1 DEF R!OneRing, R!Straight, Cabled, StraightCables
      <3>2. ASSUME NEW h, h \in R!Hosts
            PROVE  NearOf(wiring, 0, h) = NearOf(wiring, 1, h)
                   /\ Cardinality(NearOf(wiring, 0, h) \ {h}) = 2
        BY <3>2, SameCount DEF R!OneRing, R!Near, NearOf
      <3> QED
        BY <3>1, <3>2 DEF OneRingOf
    <2>3. R!RingOrder(wiring).ok
      BY <2>2, RingSucceeds
    <2> QED
      BY <2>1, <2>3 DEF PlanOf
  <1> QED
    BY <1>1, RingHolds, PTL

-----------------------------------------------------------------------------
(***************************************************************************)
(* The device map.                                                         *)
(***************************************************************************)

\* The table that the library falls back on is the one that gen_devmap prints.
LEMMA SameDefault == D!LibraryDefault = D!DefaultTable
  <1> DEFINE none == <<>>
             zero == <<0, 0>>
             odd == <<1, 3>>
             even == <<0, 2>>
  <1> DEFINE u == D!BuiltinDefault
             v == << << <<0, 0>>, <<1, 3>>, <<0, 0>>, <<0, 2>> >>,
                     << <<1, 3>>, <<0, 0>>, <<0, 2>>, <<0, 0>> >>,
                     << <<0, 0>>, <<0, 2>>, <<0, 0>>, <<1, 3>> >>,
                     << <<0, 2>>, <<0, 0>>, <<1, 3>>, <<0, 0>> >> >>
             m == [r \in D!Ranks |-> [p \in D!Ranks |-> u[r + 1][p + 1]]]
             A(r) == {q \in D!Ranks \ {r} : v[r + 1][q + 1] # <<0, 0>>}
             B(r) == {q \in D!Ranks : m[r][q] # <<>>}
  <1>1. /\ u[1][1] = none /\ u[1][2] = odd /\ u[1][3] = none /\ u[1][4] = even
        /\ u[2][1] = odd /\ u[2][2] = none /\ u[2][3] = even /\ u[2][4] = none
        /\ u[3][1] = none /\ u[3][2] = even /\ u[3][3] = none /\ u[3][4] = odd
        /\ u[4][1] = even /\ u[4][2] = none /\ u[4][3] = odd /\ u[4][4] = none
    BY DEF D!BuiltinDefault
  <1>2. /\ v[1][1] = zero /\ v[1][2] = odd /\ v[1][3] = zero /\ v[1][4] = even
        /\ v[2][1] = odd /\ v[2][2] = zero /\ v[2][3] = even /\ v[2][4] = zero
        /\ v[3][1] = zero /\ v[3][2] = even /\ v[3][3] = zero /\ v[3][4] = odd
        /\ v[4][1] = even /\ v[4][2] = zero /\ v[4][3] = odd /\ v[4][4] = zero
    OBVIOUS
  <1>3. odd # none /\ even # none /\ odd # zero /\ even # zero
    OBVIOUS
  <1>4. D!LibraryDefault = [r \in D!Ranks |-> [p \in A(r) |-> v[r + 1][p + 1]]]
    BY DEF D!LibraryDefault
  <1>5. D!DefaultTable = [r \in D!Ranks |-> [p \in B(r) |-> m[r][p]]]
    BY DEF D!DefaultTable, D!AsTable
  <1> HIDE DEF u, v, none, zero, odd, even
  <1>6. ASSUME NEW r, r \in D!Ranks, NEW q, q \in D!Ranks
        PROVE  /\ (q # r /\ v[r + 1][q + 1] # zero) <=> m[r][q] # none
               /\ m[r][q] # none => v[r + 1][q + 1] = m[r][q]
    <2>1. m[r][q] = u[r + 1][q + 1]
      BY <1>6
    <2>2. (r = 0 \/ r = 1 \/ r = 2 \/ r = 3) /\ (q = 0 \/ q = 1 \/ q = 2 \/ q = 3)
      BY <1>6 DEF D!Ranks
    <2> HIDE DEF m
    <2>3. CASE r = 0
      BY <1>1, <1>2, <1>3, <2>1, <2>2, <2>3
    <2>4. CASE r = 1
      BY <1>1, <1>2, <1>3, <2>1, <2>2, <2>4
    <2>5. CASE r = 2
      BY <1>1, <1>2, <1>3, <2>1, <2>2, <2>5
    <2>6. CASE r = 3
      BY <1>1, <1>2, <1>3, <2>1, <2>2, <2>6
    <2> QED
      BY <2>2, <2>3, <2>4, <2>5, <2>6
  <1> HIDE DEF m
  <1>7. ASSUME NEW r, r \in D!Ranks
        PROVE  [p \in A(r) |-> v[r + 1][p + 1]] = [p \in B(r) |-> m[r][p]]
    <2>1. A(r) = B(r)
      BY <1>6, <1>7 DEF none, zero
    <2>2. \A p \in A(r) : v[r + 1][p + 1] = m[r][p]
      BY <1>6, <1>7 DEF none, zero
    <2> HIDE DEF A, B
    <2> QED
      BY <2>1, <2>2
  <1> HIDE DEF A, B
  <1> QED
    BY <1>4, <1>5, <1>7

\* FlattenSeq of two to four sequences.
LEMMA Flattened ==
  ASSUME NEW U, NEW s, NEW n, n = Len(s), n = 2 \/ n = 3 \/ n = 4,
         \A i \in 1..n : s[i] \in Seq(U)
  PROVE  /\ D!FlattenSeq(s) \in Seq(U)
         /\ n = 2 => D!FlattenSeq(s) = s[1] \o s[2]
         /\ n = 3 => D!FlattenSeq(s) = (s[1] \o s[2]) \o s[3]
         /\ n = 4 => D!FlattenSeq(s) = ((s[1] \o s[2]) \o s[3]) \o s[4]
  <1> DEFINE g == [i \in 1..n |-> IF i = 1 THEN s[1] ELSE IF i = 2 THEN s[1] \o s[2]
                                  ELSE IF i = 3 THEN (s[1] \o s[2]) \o s[3]
                                  ELSE ((s[1] \o s[2]) \o s[3]) \o s[4]]
             Eq(h) == h = [i \in 1..n |-> IF i = 1 THEN s[i] ELSE h[i - 1] \o s[i]]
             W == CHOOSE h : Eq(h)
  <1>1. Eq(g)
    <2>1. \A i \in 1..n : i = 1 \/ i = 2 \/ i = 3 \/ i = 4
      OBVIOUS
    <2>2. \A i \in 1..n : g[i] = IF i = 1 THEN s[i] ELSE g[i - 1] \o s[i]
      <3> TAKE i \in 1..n
      <3>1. i - 1 \in 1..n \/ i = 1
        OBVIOUS
      <3> QED
        BY <2>1, <3>1
    <2>3. g = [i \in 1..n |-> g[i]]
      OBVIOUS
    <2> HIDE DEF g
    <2> QED
      BY <2>2, <2>3
  <1>2. Eq(W)
    <2> HIDE DEF Eq, g
    <2> QED
      BY <1>1
  <1>3. D!FlattenSeq(s) = W[n]
    BY DEF D!FlattenSeq
  <1> HIDE DEF W, g
  <1>4. W = [i \in 1..n |-> IF i = 1 THEN s[i] ELSE W[i - 1] \o s[i]]
    BY <1>2
  <1>5. /\ 1 \in 1..n /\ 2 \in 1..n
        /\ n # 2 => 3 \in 1..n
        /\ n = 4 => 4 \in 1..n
    OBVIOUS
  <1>6. /\ s[1] \in Seq(U) /\ s[2] \in Seq(U)
        /\ n # 2 => s[3] \in Seq(U)
        /\ n = 4 => s[4] \in Seq(U)
    BY <1>5
  <1> DEFINE J(x, y) == x \o y
  <1>7. \A i \in 1..n : W[i] = IF i = 1 THEN s[i] ELSE J(W[i - 1], s[i])
    BY <1>4
  <1> HIDE DEF J
  <1>8. W[1] = s[1] /\ W[2] = J(s[1], s[2])
    BY <1>5, <1>7
  <1>9. n # 2 => W[3] = J(J(s[1], s[2]), s[3])
    BY <1>5, <1>7, <1>8
  <1>10. n = 4 => W[4] = J(J(J(s[1], s[2]), s[3]), s[4])
    BY <1>5, <1>7, <1>9
  <1>11. J(s[1], s[2]) \in Seq(U)
    BY <1>6, ConcatProperties DEF J
  <1>12. n # 2 => J(J(s[1], s[2]), s[3]) \in Seq(U)
    BY <1>6, <1>11, ConcatProperties DEF J
  <1>13. n = 4 => J(J(J(s[1], s[2]), s[3]), s[4]) \in Seq(U)
    BY <1>6, <1>12, ConcatProperties DEF J
  <1>14. /\ W[n] \in Seq(U)
         /\ n = 2 => W[n] = J(s[1], s[2])
         /\ n = 3 => W[n] = J(J(s[1], s[2]), s[3])
         /\ n = 4 => W[n] = J(J(J(s[1], s[2]), s[3]), s[4])
    <2> HIDE DEF Eq
    <2>1. CASE n = 2
      BY <1>8, <1>11, <2>1
    <2>2. CASE n = 3
      BY <1>9, <1>12, <2>2
    <2>3. CASE n = 4
      BY <1>10, <1>13, <2>3
    <2> QED
      BY <2>1, <2>2, <2>3
  <1> HIDE DEF Eq
  <1> QED
    BY <1>3, <1>14 DEF J

PairSymbols(m) == {<<"pair", p, m[r][p]>> : p \in D!Ranks, r \in D!Ranks}
Symbols(m) == {<<"semicolon">>} \cup {<<"rank", r>> : r \in D!Ranks} \cup PairSymbols(m)

\* Rank r has two neighbours at least.
HasTwo(m, r) == \E p, q \in D!Ranks : p # q /\ m[r][p] # <<>> /\ m[r][q] # <<>>

LEMMA PairsOf ==
  ASSUME NEW m, NEW r, r \in D!Ranks, HasTwo(m, r)
  PROVE  D!Pairs(m, r) \in Seq(PairSymbols(m)) /\ Len(D!Pairs(m, r)) \in 2..4
  <1> DEFINE S == PairSymbols(m)
             f == [i \in 1..4 |-> IF m[r][i - 1] = <<>> THEN <<>>
                                  ELSE << <<"pair", i - 1, m[r][i - 1]>> >>]
  <1>1. \A i \in 1..4 : /\ f[i] \in Seq(S)
                        /\ Len(f[i]) = IF m[r][i - 1] = <<>> THEN 0 ELSE 1
    <2> TAKE i \in 1..4
    <2>1. i - 1 \in D!Ranks
      BY DEF D!Ranks
    <2>2. <<"pair", i - 1, m[r][i - 1]>> \in S
      BY <2>1 DEF PairSymbols
    <2> HIDE DEF S
    <2>3. CASE m[r][i - 1] = <<>>
      BY <2>3
    <2>4. CASE m[r][i - 1] # <<>>
      <3> DEFINE x == <<"pair", i - 1, m[r][i - 1]>>
      <3>1. f[i] = <<x>>
        BY <2>4
      <3> HIDE DEF x, f
      <3> QED
        BY <2>2, <2>4, <3>1 DEF x
    <2> QED
      BY <2>3, <2>4
  <1>2. Len(f) = 4
    OBVIOUS
  <1>3. D!Pairs(m, r) = D!FlattenSeq(f)
    BY DEF D!Pairs
  <1> HIDE DEF f, S
  <1>4. D!FlattenSeq(f) = ((f[1] \o f[2]) \o f[3]) \o f[4] /\ D!FlattenSeq(f) \in Seq(S)
    BY <1>1, <1>2, Flattened
  <1>5. f[1] \in Seq(S) /\ f[2] \in Seq(S) /\ f[3] \in Seq(S) /\ f[4] \in Seq(S)
    BY <1>1
  <1>6. Len(D!FlattenSeq(f)) = Len(f[1]) + Len(f[2]) + Len(f[3]) + Len(f[4])
    <2>1. f[1] \o f[2] \in Seq(S) /\ Len(f[1] \o f[2]) = Len(f[1]) + Len(f[2])
      BY <1>5, ConcatProperties
    <2>2. /\ (f[1] \o f[2]) \o f[3] \in Seq(S)
          /\ Len((f[1] \o f[2]) \o f[3]) = Len(f[1] \o f[2]) + Len(f[3])
      BY <1>5, <2>1, ConcatProperties
    <2>3. Len(((f[1] \o f[2]) \o f[3]) \o f[4]) = Len((f[1] \o f[2]) \o f[3]) + Len(f[4])
      BY <1>5, <2>2, ConcatProperties
    <2> QED
      BY <1>4, <2>1, <2>2, <2>3
  <1>7. PICK p, q \in D!Ranks : p # q /\ m[r][p] # <<>> /\ m[r][q] # <<>>
    BY DEF HasTwo
  <1>8. \A i \in 1..4 : Len(f[i]) = 0 \/ Len(f[i]) = 1
    BY <1>1
  <1>9. /\ p + 1 \in 1..4 /\ q + 1 \in 1..4 /\ p + 1 # q + 1
        /\ Len(f[p + 1]) = 1 /\ Len(f[q + 1]) = 1
    <2>1. /\ p + 1 \in 1..4 /\ q + 1 \in 1..4 /\ p + 1 # q + 1
          /\ (p + 1) - 1 = p /\ (q + 1) - 1 = q
      BY <1>7 DEF D!Ranks
    <2> QED
      BY <1>1, <1>7, <2>1
  <1> DEFINE a == p + 1
             b == q + 1
  <1>10. a \in 1..4 /\ b \in 1..4 /\ a # b /\ Len(f[a]) = 1 /\ Len(f[b]) = 1
    BY <1>9
  <1> HIDE DEF a, b
  <1>11. Len(f[1]) + Len(f[2]) + Len(f[3]) + Len(f[4]) \in 2..4
    <2>1. /\ Len(f[1]) = 0 \/ Len(f[1]) = 1
          /\ Len(f[2]) = 0 \/ Len(f[2]) = 1
          /\ Len(f[3]) = 0 \/ Len(f[3]) = 1
          /\ Len(f[4]) = 0 \/ Len(f[4]) = 1
      BY <1>8
    <2>2. (a = 1 \/ a = 2 \/ a = 3 \/ a = 4) /\ (b = 1 \/ b = 2 \/ b = 3 \/ b = 4)
      BY <1>10
    <2> DEFINE x1 == Len(f[1])
               x2 == Len(f[2])
               x3 == Len(f[3])
               x4 == Len(f[4])
    <2>3. /\ x1 = 0 \/ x1 = 1
          /\ x2 = 0 \/ x2 = 1
          /\ x3 = 0 \/ x3 = 1
          /\ x4 = 0 \/ x4 = 1
      BY <2>1
    <2>4. /\ a = 1 \/ b = 1 => x1 = 1
          /\ a = 2 \/ b = 2 => x2 = 1
          /\ a = 3 \/ b = 3 => x3 = 1
          /\ a = 4 \/ b = 4 => x4 = 1
      BY <1>10
    <2> HIDE DEF x1, x2, x3, x4
    <2>5. a # b
      BY <1>10
    <2>6. x1 + x2 + x3 + x4 \in 2..4
      BY <2>2, <2>3, <2>4, <2>5
    <2> QED
      BY <2>6 DEF x1, x2, x3, x4
  <1> QED
    BY <1>3, <1>4, <1>6, <1>11 DEF S

LEMMA SeparatedOf ==
  ASSUME NEW U, <<"semicolon">> \in U, NEW P, P \in Seq(U), Len(P) \in 2..4
  PROVE  /\ D!Separated(P) \in Seq(U) /\ Len(D!Separated(P)) >= 3
         /\ D!Separated(P)[3] = P[2]
  <1> DEFINE n == Len(P)
             g == [i \in 1..n |-> IF i = 1 THEN <<P[i]>> ELSE << <<"semicolon">>, P[i] >>]
             semi == <<"semicolon">>
             One(x) == <<x>>
             Two(x) == <<semi, x>>
  <1>1. n = 2 \/ n = 3 \/ n = 4
    OBVIOUS
  <1>2. \A i \in 1..n : P[i] \in U
    OBVIOUS
  <1>3. D!Separated(P) = D!FlattenSeq(g)
    <2>1. DOMAIN P = 1..n
      OBVIOUS
    <2> QED
      BY <2>1 DEF D!Separated
  <1>4. Len(g) = n
    <2>1. n \in Nat
      BY <1>1
    <2> HIDE DEF n
    <2> QED
      BY <2>1
  <1>5. \A i \in 1..n : g[i] = IF i = 1 THEN One(P[i]) ELSE Two(P[i])
    OBVIOUS
  <1>6. \A x \in U : /\ One(x) \in Seq(U) /\ Len(One(x)) = 1
                     /\ Two(x) \in Seq(U) /\ Len(Two(x)) = 2 /\ Two(x)[2] = x
    <2>1. semi \in U
      OBVIOUS
    <2> HIDE DEF semi
    <2> QED
      BY <2>1
  <1> HIDE DEF g, semi, n, One, Two
  <1>7. \A i \in 1..n : /\ g[i] \in Seq(U)
                        /\ i = 1 => Len(g[i]) = 1
                        /\ i # 1 => Len(g[i]) = 2
    <2> TAKE i \in 1..n
    <2>1. P[i] \in U
      BY <1>2
    <2>2. CASE i = 1
      BY <1>5, <1>6, <2>1, <2>2
    <2>3. CASE i # 1
      BY <1>5, <1>6, <2>1, <2>3
    <2> QED
      BY <2>2, <2>3
  <1>8. /\ D!FlattenSeq(g) \in Seq(U)
        /\ n = 2 => D!FlattenSeq(g) = g[1] \o g[2]
        /\ n = 3 => D!FlattenSeq(g) = (g[1] \o g[2]) \o g[3]
        /\ n = 4 => D!FlattenSeq(g) = ((g[1] \o g[2]) \o g[3]) \o g[4]
    BY <1>1, <1>4, <1>7, Flattened
  <1>9. 1 \in 1..n /\ 2 \in 1..n
    BY <1>1
  <1>10. g[2][2] = P[2]
    BY <1>2, <1>5, <1>6, <1>9
  <1> DEFINE t == g[1] \o g[2]
             t3 == t \o g[3]
             t4 == t3 \o g[4]
  <1>a. /\ D!Separated(P) \in Seq(U)
        /\ n = 2 => D!Separated(P) = t
        /\ n = 3 => D!Separated(P) = t3
        /\ n = 4 => D!Separated(P) = t4
    BY <1>3, <1>8
  <1>11. t \in Seq(U) /\ Len(t) = 3 /\ t[3] = P[2]
    <2>1. /\ t \in Seq(U) /\ Len(t) = Len(g[1]) + Len(g[2])
          /\ \A i \in 1..(Len(g[1]) + Len(g[2])) :
               t[i] = IF i <= Len(g[1]) THEN g[1][i] ELSE g[2][i - Len(g[1])]
      BY <1>7, <1>9, ConcatProperties
    <2>2. Len(g[1]) = 1 /\ Len(g[2]) = 2
      BY <1>7, <1>9
    <2> HIDE DEF t
    <2>3. 3 \in 1..(Len(g[1]) + Len(g[2])) /\ ~(3 <= Len(g[1])) /\ 3 - Len(g[1]) = 2
      BY <2>2
    <2> QED
      BY <1>10, <2>1, <2>2, <2>3
  <1> HIDE DEF t
  <1>12. n # 2 => t3 \in Seq(U) /\ Len(t3) >= 3 /\ t3[3] = P[2]
    <2> SUFFICES ASSUME n # 2 PROVE t3 \in Seq(U) /\ Len(t3) >= 3 /\ t3[3] = P[2]
      OBVIOUS
    <2>1. g[3] \in Seq(U) /\ Len(g[3]) = 2
      <3>1. 3 \in 1..n /\ 3 # 1
        BY <1>1
      <3> QED
        BY <1>7, <3>1
    <2>2. /\ t3 \in Seq(U) /\ Len(t3) = Len(t) + Len(g[3])
          /\ \A i \in 1..(Len(t) + Len(g[3])) :
               t3[i] = IF i <= Len(t) THEN t[i] ELSE g[3][i - Len(t)]
      BY <1>11, <2>1, ConcatProperties
    <2> QED
      BY <1>11, <2>1, <2>2
  <1> HIDE DEF t3
  <1>13. n = 4 => t4 \in Seq(U) /\ Len(t4) >= 3 /\ t4[3] = P[2]
    <2> SUFFICES ASSUME n = 4 PROVE t4 \in Seq(U) /\ Len(t4) >= 3 /\ t4[3] = P[2]
      OBVIOUS
    <2>1. g[4] \in Seq(U) /\ Len(g[4]) = 2
      <3>1. 4 \in 1..n
        BY <1>1
      <3> QED
        BY <1>7, <3>1
    <2>2. /\ t4 \in Seq(U) /\ Len(t4) = Len(t3) + Len(g[4])
          /\ \A i \in 1..(Len(t3) + Len(g[4])) :
               t4[i] = IF i <= Len(t3) THEN t3[i] ELSE g[4][i - Len(t3)]
      <3>1. t3 \in Seq(U)
        BY <1>12
      <3> QED
        BY <2>1, <3>1, ConcatProperties
    <2>3. Len(t3) \in Nat
      BY <1>12
    <2> QED
      BY <1>12, <2>1, <2>2, <2>3
  <1> HIDE DEF t4
  <1>14. CASE n = 2
    <2>1. D!Separated(P) = t
      BY <1>a, <1>14
    <2>2. t \in Seq(U) /\ Len(t) >= 3 /\ t[3] = P[2]
      BY <1>11
    <2> QED
      BY <2>1, <2>2
  <1>15. CASE n = 3
    BY <1>a, <1>12, <1>15
  <1>16. CASE n = 4
    BY <1>a, <1>13, <1>16
  <1> QED
    BY <1>1, <1>14, <1>15, <1>16

\* What stands in front of something is not changed by it.
LEMMA FourthStays ==
  ASSUME NEW U, NEW a, a \in Seq(U), NEW b, b \in Seq(U), Len(a) >= 4
  PROVE  a \o b \in Seq(U) /\ Len(a \o b) >= 4 /\ (a \o b)[4] = a[4]
  <1>1. /\ a \o b \in Seq(U) /\ Len(a \o b) = Len(a) + Len(b)
        /\ \A i \in 1..(Len(a) + Len(b)) :
             (a \o b)[i] = IF i <= Len(a) THEN a[i] ELSE b[i - Len(a)]
    BY ConcatProperties
  <1>2. Len(a) \in Nat /\ Len(b) \in Nat
    OBVIOUS
  <1> DEFINE c == a \o b
  <1> HIDE DEF c
  <1>3. c \in Seq(U) /\ Len(c) >= 4
    BY <1>1, <1>2 DEF c
  <1>4. 4 \in 1..(Len(a) + Len(b))
    BY <1>2
  <1>5. c[4] = a[4]
    BY <1>1, <1>4 DEF c
  <1> QED
    BY <1>3, <1>5 DEF c

\* And the third symbol behind one symbol is the fourth.
LEMMA FourthBehind ==
  ASSUME NEW U, NEW a, a \in Seq(U), NEW b, b \in Seq(U), Len(a) = 1, Len(b) >= 3
  PROVE  a \o b \in Seq(U) /\ Len(a \o b) >= 4 /\ (a \o b)[4] = b[3]
  <1>1. /\ a \o b \in Seq(U) /\ Len(a \o b) = Len(a) + Len(b)
        /\ \A i \in 1..(Len(a) + Len(b)) :
             (a \o b)[i] = IF i <= Len(a) THEN a[i] ELSE b[i - Len(a)]
    BY ConcatProperties
  <1>2. Len(b) \in Nat
    OBVIOUS
  <1> DEFINE c == a \o b
  <1> HIDE DEF c
  <1>3. c \in Seq(U) /\ Len(c) >= 4
    BY <1>1, <1>2 DEF c
  <1>4. 4 \in 1..(Len(a) + Len(b)) /\ ~(4 <= Len(a)) /\ 4 - Len(a) = 3
    BY <1>2
  <1>5. c[4] = b[3]
    BY <1>1, <1>4 DEF c
  <1> QED
    BY <1>3, <1>5 DEF c

\* The fourth symbol of the string is a pair, where the library wants a rank.
LEMMA StringMalformed ==
  ASSUME NEW m, \A r \in D!Ranks : HasTwo(m, r)
  PROVE  D!ParseString(D!DevMapString(m)) = D!Malformed
  <1> DEFINE U == Symbols(m)
             P(i) == D!Pairs(m, i - 1)
             semi == <<"semicolon">>
             rank(i) == <<"rank", i - 1>>
             pre(i) == (IF i = 1 THEN <<>> ELSE <<semi>>) \o <<rank(i)>>
             h == [i \in 1..4 |-> pre(i) \o D!Separated(P(i))]
             s == D!DevMapString(m)
  <1>1. semi \in U /\ \A i \in 1..4 : rank(i) \in U /\ i - 1 \in D!Ranks
    BY DEF Symbols, D!Ranks
  <1>2. PairSymbols(m) \subseteq U
    BY DEF Symbols
  <1>3. \A x \in PairSymbols(m) : x[1] = "pair"
    BY DEF PairSymbols
  <1> HIDE DEF U, semi, rank
  <1>4. \A i \in 1..4 : /\ pre(i) \in Seq(U)
                        /\ i = 1 => Len(pre(i)) = 1
    <2> TAKE i \in 1..4
    <2>1. rank(i) \in U
      BY <1>1
    <2>2. <<>> \in Seq(U) /\ <<semi>> \in Seq(U) /\ <<rank(i)>> \in Seq(U) /\ Len(<<rank(i)>>) = 1
      BY <1>1, <2>1
    <2>3. CASE i = 1
      <3>1. pre(i) = <<>> \o <<rank(i)>>
        BY <2>3
      <3>2. <<>> \o <<rank(i)>> \in Seq(U) /\ Len(<<>> \o <<rank(i)>>) = Len(<<>>) + Len(<<rank(i)>>)
        BY <2>2, ConcatProperties
      <3> QED
        BY <2>2, <2>3, <3>1, <3>2
    <2>4. CASE i # 1
      <3>1. pre(i) = <<semi>> \o <<rank(i)>>
        BY <2>4
      <3>2. <<semi>> \o <<rank(i)>> \in Seq(U)
        BY <2>2, ConcatProperties
      <3> QED
        BY <2>4, <3>1, <3>2
    <2> QED
      BY <2>3, <2>4
  <1> HIDE DEF pre
  <1>5. \A i \in 1..4 : /\ D!Separated(P(i)) \in Seq(U) /\ Len(D!Separated(P(i))) >= 3
                        /\ D!Separated(P(i))[3][1] = "pair"
    <2> TAKE i \in 1..4
    <2>1. P(i) \in Seq(PairSymbols(m)) /\ Len(P(i)) \in 2..4
      BY <1>1, PairsOf
    <2>2. P(i) \in Seq(U)
      BY <1>2, <2>1, SeqMonotonic
    <2>3. P(i)[2] \in PairSymbols(m)
      <3>1. 2 \in 1..Len(P(i))
        BY <2>1
      <3> HIDE DEF P
      <3> QED
        BY <2>1, <3>1, ElementOfSeq
    <2>4. <<"semicolon">> \in U
      BY <1>1 DEF semi
    <2>5. /\ D!Separated(P(i)) \in Seq(U) /\ Len(D!Separated(P(i))) >= 3
          /\ D!Separated(P(i))[3] = P(i)[2]
      BY <2>1, <2>2, <2>4, SeparatedOf
    <2> QED
      BY <1>3, <2>3, <2>5
  <1> HIDE DEF P
  <1> DEFINE q(i) == D!Separated(P(i))
  <1>6. \A i \in 1..4 : h[i] = pre(i) \o q(i)
    OBVIOUS
  <1>7. Len(h) = 4
    OBVIOUS
  <1>8. s = D!FlattenSeq(h)
    BY DEF D!DevMapString, pre, rank, semi, P
  <1> HIDE DEF h, q, s
  <1>9. /\ \A i \in 1..4 : h[i] \in Seq(U)
        /\ Len(h[1]) >= 4 /\ h[1][4][1] = "pair"
    <2>1. \A i \in 1..4 : h[i] \in Seq(U)
      <3> TAKE i \in 1..4
      <3>1. pre(i) \in Seq(U) /\ q(i) \in Seq(U) /\ h[i] = pre(i) \o q(i)
        BY <1>4, <1>5, <1>6 DEF q
      <3> QED
        BY <3>1, ConcatProperties
    <2>2. 1 \in 1..4
      OBVIOUS
    <2>3. pre(1) \in Seq(U) /\ Len(pre(1)) = 1
      BY <1>4, <2>2
    <2>4. q(1) \in Seq(U) /\ Len(q(1)) >= 3 /\ q(1)[3][1] = "pair"
      BY <1>5, <2>2 DEF q
    <2>5. h[1] = pre(1) \o q(1)
      BY <1>6, <2>2
    <2>6. Len(h[1]) >= 4 /\ h[1][4] = q(1)[3]
      BY <2>3, <2>4, <2>5, FourthBehind
    <2> QED
      BY <2>1, <2>4, <2>6
  <1>10. s = ((h[1] \o h[2]) \o h[3]) \o h[4]
    BY <1>7, <1>8, <1>9, Flattened
  <1>11. s[4][1] = "pair"
    <2> DEFINE t2 == h[1] \o h[2]
               t3 == t2 \o h[3]
               t4 == t3 \o h[4]
    <2>1. h[1] \in Seq(U) /\ h[2] \in Seq(U) /\ h[3] \in Seq(U) /\ h[4] \in Seq(U)
      BY <1>9
    <2>0. s = t4
      BY <1>10
    <2>a. Len(h[1]) >= 4
      BY <1>9
    <2>2. t2 \in Seq(U) /\ Len(t2) >= 4 /\ t2[4] = h[1][4]
      <3> DEFINE x == h[1]
                 y == h[2]
      <3>1. x \in Seq(U) /\ y \in Seq(U) /\ Len(x) >= 4
        BY <2>1, <2>a
      <3> HIDE DEF x, y
      <3>2. x \o y \in Seq(U) /\ Len(x \o y) >= 4 /\ (x \o y)[4] = x[4]
        BY <3>1, FourthStays
      <3> QED
        BY <3>2 DEF x, y
    <2> HIDE DEF t2
    <2>3. t3 \in Seq(U) /\ Len(t3) >= 4 /\ t3[4] = t2[4]
      BY <2>1, <2>2, FourthStays
    <2> HIDE DEF t3
    <2>4. t4[4] = t3[4]
      BY <2>1, <2>3, FourthStays
    <2> HIDE DEF t4
    <2> QED
      BY <1>9, <2>0, <2>2, <2>3, <2>4
  <1>12. "pair" # "rank"
    OBVIOUS
  <1>13. ASSUME (Len(s) + 1) \div 3 = 4,
                \A k \in 1..((Len(s) + 1) \div 3) : s[3 * k - 2][1] = "rank"
         PROVE  FALSE
    <2>1. 2 \in 1..((Len(s) + 1) \div 3) /\ 3 * 2 - 2 = 4
      BY <1>13
    <2> QED
      BY <1>11, <1>12, <1>13, <2>1
  <1>14. D!ParseString(s) = D!Malformed
    BY <1>13 DEF D!ParseString
  <1> QED
    BY <1>14 DEF s

\* A list of the file is spread over lines, where the library wants five symbols.
LEMMA FileMalformed ==
  ASSUME NEW m, \A r \in D!Ranks : HasTwo(m, r)
  PROVE  D!ParseFile(D!DevMapFile(m)) = D!Malformed
  <1> DEFINE f == D!DevMapFile(m)
  <1>1. 0 \in D!Ranks
    BY DEF D!Ranks
  <1>2. PICK p \in D!Ranks : m[0][p] # <<>>
    BY <1>1 DEF HasTwo
  <1>3. p \in DOMAIN f[0] /\ f[0][p] = D!IndentedList(m[0][p])
    BY <1>1, <1>2 DEF D!DevMapFile
  <1>4. Len(D!IndentedList(m[0][p])) = 8
    BY DEF D!IndentedList
  <1> HIDE DEF f
  <1>5. ~ \A r \in D!Ranks : \A q \in DOMAIN f[r] :
            Len(f[r][q]) = 5 /\ f[r][q][3] = "comma" /\ q # r
    BY <1>1, <1>3, <1>4
  <1>6. D!ParseFile(f) = D!Malformed
    BY <1>5 DEF D!ParseFile
  <1> QED
    BY <1>6 DEF f

LEMMA RanksDiffer ==
  ASSUME NEW a, NEW b, NEW c, NEW d, {a, b, c, d} = D!Ranks
  PROVE  a # b /\ a # c /\ a # d /\ b # c /\ b # d /\ c # d
  BY AllDifferent DEF R!Hosts, D!Ranks

\* On a topology that is valid every rank has its two neighbours on the ring.
LEMMA ValidJoins ==
  ASSUME topology \in Topologies, D!Valid
  PROVE  \A r \in D!Ranks : HasTwo(D!Build, r)
  <1> DEFINE c == topology.ring
  <1>1. Len(c) = 4 /\ DOMAIN c = 1..4 /\ {c[i] : i \in DOMAIN c} = D!Ranks
    <2>1. c \in Seq(Int)
      BY ToolsAssumption
    <2>2. Len(c) = 4 /\ D!ToSet(c) = D!Ranks
      BY DEF D!Valid
    <2> HIDE DEF c
    <2>3. DOMAIN c = 1..4
      BY <2>1, <2>2
    <2> QED
      BY <2>2, <2>3 DEF D!ToSet
  <1>2. ASSUME NEW r, r \in D!Ranks, NEW p, p \in D!Ranks, {r, p} \in D!RingPairs
        PROVE  D!Build[r][p] # <<>>
    <2>1. {D!Ends(e) : e \in D!Edges} = D!RingPairs
      BY DEF D!Valid
    <2>2. \E x \in D!Edges : D!Ends(x) = {r, p}
      BY <1>2, <2>1
    <2> DEFINE e == CHOOSE x \in D!Edges : D!Ends(x) = {r, p}
    <2>3. e \in D!Edges
      BY <2>2
    <2>4. D!IsPair(e.pa) /\ D!IsPair(e.pb)
      BY <2>3 DEF D!Valid
    <2>5. Len(e.pa) = 2 /\ Len(e.pb) = 2
      BY <2>4 DEF D!IsPair
    <2>6. D!Build[r][p] = IF e.a = r THEN e.pa ELSE e.pb
      BY <1>2, <2>2 DEF D!Build
    <2> HIDE DEF e
    <2>7. Len(D!Build[r][p]) = 2
      BY <2>5, <2>6
    <2> QED
      BY <2>7
  <1>3. \A i \in 1..4 : {c[i], c[(i % 4) + 1]} \in D!RingPairs
    BY DEF D!RingPairs
  <1> HIDE DEF c
  <1>4. {c[1], c[2], c[3], c[4]} = D!Ranks
    <2>1. \A i \in DOMAIN c : i = 1 \/ i = 2 \/ i = 3 \/ i = 4
      BY <1>1
    <2>2. 1 \in DOMAIN c /\ 2 \in DOMAIN c /\ 3 \in DOMAIN c /\ 4 \in DOMAIN c
      BY <1>1
    <2> QED
      BY <1>1, <2>1, <2>2
  <1>5. /\ {c[1], c[2]} \in D!RingPairs /\ {c[2], c[3]} \in D!RingPairs
        /\ {c[3], c[4]} \in D!RingPairs /\ {c[4], c[1]} \in D!RingPairs
    <2>1. (1 % 4) + 1 = 2 /\ (2 % 4) + 1 = 3 /\ (3 % 4) + 1 = 4 /\ (4 % 4) + 1 = 1
      OBVIOUS
    <2>2. 1 \in 1..4 /\ 2 \in 1..4 /\ 3 \in 1..4 /\ 4 \in 1..4
      OBVIOUS
    <2> QED
      BY <1>3, <2>1, <2>2
  <1>6. ASSUME NEW r, r \in D!Ranks, NEW p, p \in D!Ranks, NEW q, q \in D!Ranks, p # q,
               {r, p} \in D!RingPairs, {r, q} \in D!RingPairs
        PROVE  HasTwo(D!Build, r)
    BY <1>2, <1>6 DEF HasTwo
  <1>7. c[1] # c[3] /\ c[2] # c[4]
    BY <1>4, RanksDiffer
  <1>8. c[1] \in D!Ranks /\ c[2] \in D!Ranks /\ c[3] \in D!Ranks /\ c[4] \in D!Ranks
    BY <1>4
  <1>9. \A a, b : {a, b} = {b, a}
    OBVIOUS
  <1>10. HasTwo(D!Build, c[1])
    BY <1>5, <1>6, <1>7, <1>8, <1>9
  <1>11. HasTwo(D!Build, c[2])
    BY <1>5, <1>6, <1>7, <1>8, <1>9
  <1>12. HasTwo(D!Build, c[3])
    BY <1>5, <1>6, <1>7, <1>8, <1>9
  <1>13. HasTwo(D!Build, c[4])
    BY <1>5, <1>6, <1>7, <1>8, <1>9
  <1> QED
    BY <1>4, <1>10, <1>11, <1>12, <1>13

\* What the library finds is malformed, so that it takes its own table.
MapInv ==
  tool = "map" =>
    /\ topology \in Topologies
    /\ verdict = "valid" /\ form = "string" => D!ParseString(env) = D!Malformed
    /\ verdict = "valid" /\ form = "file" => D!ParseFile(env) = D!Malformed
    /\ table # <<>> => table = D!DefaultTable

LEMMA MapHolds == ToolsSpec => []MapInv
  <1>1. ToolsInit => MapInv
    BY DEF ToolsInit, MapInv, D!Init
  <1>2. MapInv /\ [ToolsNext]_<<tool, ringVars, hostVars, mapVars, treeVars, kernelVars, vars>>
          => MapInv'
    <2> SUFFICES ASSUME MapInv, tool' = "map",
                   [ToolsNext]_<<tool, ringVars, hostVars, mapVars, treeVars, kernelVars, vars>>
                 PROVE  MapInv'
      BY DEF MapInv
    <2>1. CASE ToolsNext
      <3>1. tool = "map" /\ D!Next
        BY <2>1 DEF ToolsNext
      <3>2. CASE D!Generate
        <4>1. /\ topology' = topology /\ form' = form /\ table' = table
              /\ verdict' = IF D!Valid THEN "valid" ELSE "invalid"
              /\ env' = IF ~D!Valid \/ form = "none" THEN <<>>
                        ELSE IF form = "string" THEN D!DevMapString(D!Build)
                        ELSE D!DevMapFile(D!Build)
          BY <3>2 DEF D!Generate
        <4>2. CASE D!Valid
          <5>1. \A r \in D!Ranks : HasTwo(D!Build, r)
            BY <3>1, <4>2, ValidJoins DEF MapInv
          <5>2. form = "string" => D!ParseString(env') = D!Malformed
            BY <4>1, <4>2, <5>1, StringMalformed
          <5>3. form = "file" => D!ParseFile(env') = D!Malformed
            BY <4>1, <4>2, <5>1, FileMalformed
          <5> QED
            BY <3>1, <4>1, <5>2, <5>3 DEF MapInv
        <4>3. CASE ~D!Valid
          <5>1. verdict' # "valid"
            BY <4>1, <4>3
          <5> QED
            BY <3>1, <4>1, <5>1 DEF MapInv
        <4> QED
          BY <4>2, <4>3
      <3>3. CASE D!Load
        <4>1. D!LoadMap = D!LibraryDefault
          BY <3>1, <3>3 DEF D!Load, D!LoadMap, MapInv
        <4> QED
          BY <3>1, <3>3, <4>1, SameDefault DEF MapInv, D!Load
      <3>4. CASE D!Stop
        BY <3>1, <3>4 DEF MapInv, D!Stop, D!vars
      <3> QED
        BY <3>1, <3>2, <3>3, <3>4 DEF D!Next
    <2>2. CASE UNCHANGED <<tool, ringVars, hostVars, mapVars, treeVars, kernelVars, vars>>
      BY <2>2 DEF MapInv, mapVars
    <2> QED
      BY <2>1, <2>2
  <1> QED
    BY <1>1, <1>2, PTL DEF ToolsSpec

\* ncclRingMapLoad: whatever the topology and however the table is handed over, the
\* library never uses half of a table.
THEOREM MapWhole == ToolsSpec => []TableIsWhole
  <1>1. MapInv => TableIsWhole
    BY DEF MapInv, TableIsWhole, D!TableIsWhole
  <1> QED
    BY <1>1, MapHolds, PTL
=============================================================================
