----------------------------- MODULE MeshHost -----------------------------
(***************************************************************************)
(* The scripts that host_scripts of src/mesh-fabric/plan.py writes for one *)
(* host, mesh-up (set -e, every line guarded by a look at what is there)   *)
(* and mesh-down (no line stops it), run again and again, killed at any    *)
(* line, and left over from an earlier plan.                               *)
(***************************************************************************)
EXTENDS Integers, Sequences, FiniteSets

CONSTANTS
  Plans,    \* the plans made so far: 1..Plans, each new one replaces the last
  MaxRuns   \* times a script is started; bounds the model

Devices == {"in0", "in1"}      \* the ingress ports of the rules
Rules == {"rule0", "rule1"}    \* the traffic this host forwards
Routes == {"route0", "route1"} \* to the opposite host, one per domain
Device(x) == IF x = "rule0" THEN "in0" ELSE "in1"

VARIABLES
  clsact,   \* clsact[d]:  device d has the queueing discipline
  others,   \* others[d]:  somebody else has a filter on it
  plan,     \* plan[x]:    the plan whose rule or route x is installed, 0: none
  hard,     \* hard[x]:    rule x is in hardware
  markers,  \* the marker services run
  script,   \* the script that runs: "up", "down" or "none"
  using,    \* the plan it was written for
  line,     \* the line it is at
  ended,    \* how the last one ended: "ok", "failed", "down" or "none"
  found,    \* what was installed when it started
  runs      \* scripts started

vars == <<clsact, others, plan, hard, markers, script, using, line, ended, found, runs>>

UpLines ==
  << <<"clsact", "in0">>, <<"clsact", "in1">>,
     <<"rule", "rule0">>, <<"in_hw", "rule0">>, <<"rule", "rule1">>, <<"in_hw", "rule1">>,
     <<"route", "route0">>, <<"route", "route1">>, <<"markers", "">>, <<"active", "">> >>

DownLines ==
  << <<"markers", "">>, <<"rule", "rule0">>, <<"rule", "rule1">>,
     <<"clsact", "in0">>, <<"clsact", "in1">>, <<"route", "route0">>, <<"route", "route1">> >>

Init ==
  /\ others \in [Devices -> BOOLEAN]
  /\ clsact = others
  /\ plan = [x \in Rules \cup Routes |-> 0]
  /\ hard = [x \in Rules |-> FALSE]
  /\ markers = FALSE
  /\ script = "none"
  /\ using = 1
  /\ line = 0
  /\ ended = "none"
  /\ found = plan
  /\ runs = 0

\* Somebody starts mesh-up or mesh-down, of this plan or of a newer one.
Start(s) ==
  /\ script = "none" /\ runs < MaxRuns
  /\ script' = s
  /\ using' \in using..Plans
  /\ line' = 1
  /\ ended' = "none"
  /\ found' = plan
  /\ runs' = runs + 1
  /\ UNCHANGED <<clsact, others, plan, hard, markers>>

Leave(how) == script' = "none" /\ line' = 0 /\ ended' = how

Ran(lines, how) ==
  IF line = Len(lines) THEN Leave(how)
                       ELSE line' = line + 1 /\ UNCHANGED <<script, ended>>

At(s, lines, command) == script = s /\ lines[line][1] = command

\* mesh-up: the queueing discipline, unless it is there.
AddClsact ==
  /\ At("up", UpLines, "clsact")
  /\ clsact' = [clsact EXCEPT ![UpLines[line][2]] = TRUE]
  /\ Ran(UpLines, "ok")
  /\ UNCHANGED <<others, plan, hard, markers, using, found, runs>>

\* A rule, unless one with its preference is there. The driver takes it into
\* hardware or not.
AddRule ==
  LET x == UpLines[line][2] IN
  /\ At("up", UpLines, "rule")
  /\ IF plan[x] # 0 THEN UNCHANGED <<plan, hard>>
     ELSE /\ plan' = [plan EXCEPT ![x] = using]
          /\ \E h \in BOOLEAN : hard' = [hard EXCEPT ![x] = h]
  /\ Ran(UpLines, "ok")
  /\ UNCHANGED <<clsact, others, markers, using, found, runs>>

\* Variant for a mutant: a rule that is not in hardware is only reported.
LooseCheckRule ==
  /\ At("up", UpLines, "in_hw")
  /\ Ran(UpLines, "ok")
  /\ UNCHANGED <<clsact, others, plan, hard, markers, using, found, runs>>

\* A rule that is not in hardware ends the script (exit 3) and stays.
CheckRule ==
  /\ At("up", UpLines, "in_hw")
  /\ IF hard[UpLines[line][2]] THEN Ran(UpLines, "ok") ELSE Leave("failed")
  /\ UNCHANGED <<clsact, others, plan, hard, markers, using, found, runs>>

AddRoute ==
  LET x == UpLines[line][2] IN
  /\ At("up", UpLines, "route")
  /\ plan' = [plan EXCEPT ![x] = IF @ = 0 THEN using ELSE @]
  /\ Ran(UpLines, "ok")
  /\ UNCHANGED <<clsact, others, hard, markers, using, found, runs>>

\* The services are started again; they may die before the script looks.
RestartMarkers ==
  /\ At("up", UpLines, "markers")
  /\ markers' \in BOOLEAN
  /\ Ran(UpLines, "ok")
  /\ UNCHANGED <<clsact, others, plan, hard, using, found, runs>>

CheckMarkers ==
  /\ At("up", UpLines, "active")
  /\ IF markers THEN Ran(UpLines, "ok") ELSE Leave("failed")
  /\ UNCHANGED <<clsact, others, plan, hard, markers, using, found, runs>>

\* mesh-down.
StopMarkers ==
  /\ At("down", DownLines, "markers")
  /\ markers' = FALSE
  /\ Ran(DownLines, "down")
  /\ UNCHANGED <<clsact, others, plan, hard, using, found, runs>>

\* Variant for a mutant: with set -e, as mesh-up: nothing to delete is an error.
StrictDelete(command) ==
  LET x == DownLines[line][2] IN
  /\ At("down", DownLines, command)
  /\ plan' = [plan EXCEPT ![x] = 0]
  /\ hard' = IF x \in Rules THEN [hard EXCEPT ![x] = FALSE] ELSE hard
  /\ IF plan[x] = 0 THEN Leave("down") ELSE Ran(DownLines, "down")
  /\ UNCHANGED <<clsact, others, markers, using, found, runs>>

\* A rule or a route goes, whichever plan it is of.
Delete(command) ==
  LET x == DownLines[line][2] IN
  /\ At("down", DownLines, command)
  /\ plan' = [plan EXCEPT ![x] = 0]
  /\ hard' = IF x \in Rules THEN [hard EXCEPT ![x] = FALSE] ELSE hard
  /\ Ran(DownLines, "down")
  /\ UNCHANGED <<clsact, others, markers, using, found, runs>>

Filters(d) == {x \in Rules : Device(x) = d /\ plan[x] # 0}

\* Variant for a mutant: the discipline goes when no rule of the mesh is left.
EagerDelClsact ==
  LET d == DownLines[line][2] IN
  /\ At("down", DownLines, "clsact")
  /\ clsact' = [clsact EXCEPT ![d] = @ /\ Filters(d) # {}]
  /\ others' = [others EXCEPT ![d] = @ /\ clsact'[d]]
  /\ Ran(DownLines, "down")
  /\ UNCHANGED <<plan, hard, markers, using, found, runs>>

\* The discipline goes when no filter is left on it, and takes them all along.
DelClsact ==
  LET d == DownLines[line][2] IN
  /\ At("down", DownLines, "clsact")
  /\ clsact' = [clsact EXCEPT ![d] = @ /\ (Filters(d) # {} \/ others[d])]
  /\ others' = [others EXCEPT ![d] = @ /\ clsact'[d]]
  /\ Ran(DownLines, "down")
  /\ UNCHANGED <<plan, hard, markers, using, found, runs>>

Kill ==
  /\ script # "none"
  /\ Leave("failed")
  /\ UNCHANGED <<clsact, others, plan, hard, markers, using, found, runs>>

Stop == script = "none" /\ runs = MaxRuns /\ UNCHANGED vars

Next ==
  \/ \E s \in {"up", "down"} : Start(s)
  \/ AddClsact \/ AddRule \/ CheckRule \/ AddRoute \/ RestartMarkers \/ CheckMarkers
  \/ StopMarkers \/ Delete("rule") \/ Delete("route") \/ DelClsact
  \/ Kill \/ Stop

Spec == Init /\ [][Next]_vars

-----------------------------------------------------------------------------
(***************************************************************************)
(* Properties.                                                             *)
(***************************************************************************)

\* mesh-up that says OK, after whatever was left of earlier runs, leaves every
\* rule in hardware, every route and the markers. A rule or a route of another
\* plan is left only if it was there before: nothing looks at its content, so
\* after a new plan mesh-down has to come first.
OkMeansUp ==
  ended = "ok" =>
    /\ markers
    /\ \A x \in Rules : hard[x] /\ clsact[Device(x)]
    /\ \A x \in Rules \cup Routes : plan[x] # 0 /\ plan[x] \in {using, found[x]}

\* mesh-down that ran to its end leaves nothing of the mesh, wherever the
\* scripts before it were killed.
DownLeavesNothing ==
  ended = "down" =>
    /\ ~markers
    /\ \A x \in Rules \cup Routes : plan[x] = 0
    /\ clsact = others

\* Neither script takes away a filter that somebody else has on the same
\* device: a step never changes what the others have.
OthersKept == [][others' = others]_vars
=============================================================================
