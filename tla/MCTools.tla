------------------------------ MODULE MCTools ------------------------------
(***************************************************************************)
(* Parts of the repository that work on their own, each by itself (the     *)
(* initial state chooses): the ring planner, the scripts it writes for a   *)
(* host, the device map, the patcher of the NCCL tree, the benchmark of    *)
(* the serving engine, and the multi-block kernel on one rank.  TLC's      *)
(* instances of them.                                                      *)
(***************************************************************************)
EXTENDS BenchV2

CONSTANTS
  Tools,       \* the tools that run
  Runs,        \* how often a script is started; bounds the model
  Wirings,     \* the cablings the planner is tried on
  Topologies,  \* the topology documents the device map is made of
  Plans,       \* the plans made for a host
  Blocks       \* the blocks of each op of the kernel

VARIABLES
  tool,                                               \* the tool that runs
  wiring, ring,                                       \* RingPlan
  clsact, others, plan, hard, markers, script, using, \* MeshHost
  line, ended, found, runs,
  topology, form, verdict, env, table,                \* DevMap
  tree, run, step, outcome, torn,                     \* PatchTree
  op, beat, failed, total, arr, word, blk, shards, spoiled, bell, aborted \* MultiBlock

ringVars == <<wiring, ring>>
hostVars == <<clsact, others, plan, hard, markers, script, using, line, ended, found, runs>>
mapVars == <<topology, form, verdict, env, table>>
treeVars == <<tree, run, step, outcome, torn>>
kernelVars == <<op, beat, failed, total, arr, word, blk, shards, spoiled, bell, aborted>>

-----------------------------------------------------------------------------
(***************************************************************************)
(* Cablings: every way to cable the ports within the two PCIe domains, a   *)
(* ring of which two cables cross the domains, and a subnet of four ports. *)
(***************************************************************************)
DomainPorts(f) == (0..3) \X {f} \X {0, 1}

Matchings(S) ==
  LET pairUp[X \in SUBSET S] ==
        IF X = {} THEN {{}}
        ELSE LET p == CHOOSE x \in X : TRUE IN
             UNION {{{{p, q}} \cup m : m \in pairUp[X \ {p, q}]} : q \in X \ {p}}
  IN  pairUp[S]

Straight == {a \cup b : a \in Matchings(DomainPorts(0)), b \in Matchings(DomainPorts(1))}

Circle == {{<<h, 0, 0>>, <<(h + 1) % 4, 0, 1>>} : h \in 0..3}

\* The ports of two cables, joined in the other ways.
Rejoined(m, n) == Matchings(m \cup n) \ {{m, n}}

Crossed == UNION {UNION {{((Circle \cup b) \ {m, n}) \cup c : c \in Rejoined(m, n)} :
                    m \in Circle, n \in b} : b \in Matchings(DomainPorts(1))}

Merged == {((Circle \cup b) \ {m, n}) \cup {m \cup n} :
             m \in Circle, n \in {CHOOSE n \in Circle : TRUE},
             b \in {CHOOSE b \in Matchings(DomainPorts(1)) : TRUE}}

Cablings == Straight \cup Crossed \cup {w \in Merged : UNION w = UNION Circle \cup DomainPorts(1)}

\* Topology documents: any ports on the legs of the ring 0-1-2-3 (one leg named
\* from its other end), and rings and legs that do not fit.
Document(circle, legs, ports) ==
  [ring |-> circle,
   edges |-> [i \in 1..4 |-> [a |-> legs[i][1], b |-> legs[i][2],
                              pa |-> ports[i], pb |-> ports[i + 4]]]]

Legs == {<< <<0, 1>>, <<1, 2>>, <<3, 2>>, <<3, 0>> >>,
         << <<0, 1>>, <<1, 0>>, <<2, 3>>, <<3, 0>> >>,
         << <<0, 2>>, <<2, 1>>, <<1, 3>>, <<3, 0>> >>}

Usual == << <<1, 3>>, <<0, 2>>, <<1, 3>>, <<0, 2>>, <<1, 3>>, <<0, 2>>, <<0, 2>>, <<0, 2>> >>

Documents ==
  {Document(<<0, 1, 2, 3>>, << <<0, 1>>, <<1, 2>>, <<3, 2>>, <<3, 0>> >>, p) :
     p \in [1..8 -> {<<1, 3>>, <<0, 2>>, <<3, 1>>}]}
  \cup {Document(c, l, Usual) :
          c \in {<<0, 1, 2, 3>>, <<0, 2, 1, 3>>, <<0, 1, 1, 3>>}, l \in Legs}

-----------------------------------------------------------------------------
\* A batch with a group of two requests and one of one; a request fails at any
\* place, with a status that all of them can give.
TwoThenOne == <<2, 1>>
OneKind == <<"de">>

\* A kernel of two blocks, then one of three.
TwoThenThree == <<2, 3>>

R == INSTANCE RingPlan WITH plan <- ring
H == INSTANCE MeshHost WITH MaxRuns <- Runs
D == INSTANCE DevMap
T == INSTANCE PatchTree WITH MaxRuns <- Runs, ended <- outcome
M == INSTANCE MultiBlock

ASSUME ToolsAssumption ==
  /\ \A w \in Wirings : R!EachPortOnce(w)
  /\ \A t \in Topologies : t.ring \in Seq(Int)
  /\ Plans \in Nat \ {0}
  /\ Blocks \in Seq(Nat)

-----------------------------------------------------------------------------
(***************************************************************************)
(* The variables of a tool that does not run.                              *)
(***************************************************************************)

NoRing == wiring = "-" /\ ring = "-"

NoHost ==
  /\ clsact = "-" /\ others = "-" /\ plan = "-" /\ hard = "-"
  /\ markers = "-" /\ script = "-" /\ using = "-" /\ line = "-"
  /\ ended = "-" /\ found = "-" /\ runs = "-"

NoMap == topology = "-" /\ form = "-" /\ verdict = "-" /\ env = "-" /\ table = "-"

NoTree == tree = "-" /\ run = "-" /\ step = "-" /\ outcome = "-" /\ torn = "-"

NoKernel ==
  /\ op = "-" /\ beat = "-" /\ failed = "-" /\ total = "-" /\ arr = "-"
  /\ word = "-" /\ blk = "-" /\ shards = "-" /\ spoiled = "-"
  /\ bell = "-" /\ aborted = "-"

NoBatch ==
  /\ pc = "-" /\ tier = "-" /\ wave = "-" /\ req = "-" /\ orphans = "-"
  /\ counters = "-" /\ mon = "-" /\ peak = "-" /\ rows = <<>> /\ disk = 0
  /\ summaries = <<>> /\ out = [f \in {"summary", "manifest"} |-> Absent]
  /\ sig = "-" /\ signals = "-" /\ over = "-" /\ seen = <<>>

ToolsInit ==
  /\ tool \in Tools
  /\ IF tool = "ring" THEN R!Init ELSE NoRing
  /\ IF tool = "host" THEN H!Init ELSE NoHost
  /\ IF tool = "map" THEN D!Init ELSE NoMap
  /\ IF tool = "tree" THEN T!Init ELSE NoTree
  /\ IF tool = "kernel" THEN M!Init ELSE NoKernel
  /\ IF tool = "batch" THEN Init ELSE NoBatch

ToolsNext ==
  /\ UNCHANGED tool
  /\ \/ tool = "ring" /\ R!Next
        /\ UNCHANGED <<hostVars, mapVars, treeVars, kernelVars, vars>>
     \/ tool = "host" /\ H!Next
        /\ UNCHANGED <<ringVars, mapVars, treeVars, kernelVars, vars>>
     \/ tool = "map" /\ D!Next
        /\ UNCHANGED <<ringVars, hostVars, treeVars, kernelVars, vars>>
     \/ tool = "tree" /\ T!Next
        /\ UNCHANGED <<ringVars, hostVars, mapVars, kernelVars, vars>>
     \/ tool = "kernel" /\ M!Next
        /\ UNCHANGED <<ringVars, hostVars, mapVars, treeVars, vars>>
     \/ tool = "batch" /\ Next
        /\ UNCHANGED <<ringVars, hostVars, mapVars, treeVars, kernelVars>>

ToolsSpec ==
  ToolsInit /\ [][ToolsNext]_<<tool, ringVars, hostVars, mapVars, treeVars, kernelVars, vars>>

FairToolsSpec == ToolsSpec /\ Fairness

-----------------------------------------------------------------------------
(***************************************************************************)
(* The properties of the other modules, each of the tool it is about; those *)
(* of BenchV2 hold of a batch that is not there.                           *)
(***************************************************************************)

\* A plan describes the cabling: see RingPlan.
PlanMatchesCables == tool = "ring" => R!PlanMatchesCables

\* Every cabling that is one ring is planned: see RingPlan.
EveryRingIsPlanned == tool = "ring" => R!EveryRingIsPlanned

\* mesh-up that says OK has everything up: see MeshHost.
OkMeansUp == tool = "host" => H!OkMeansUp

\* mesh-down that ended leaves nothing: see MeshHost.
DownLeavesNothing == tool = "host" => H!DownLeavesNothing

\* Neither script takes away a filter of somebody else: see MeshHost.
OthersKept == [][tool = "host" => others' = others]_hostVars

\* The library never uses half of a table: see DevMap.
TableIsWhole == tool = "map" => D!TableIsWhole

\* No change is in the NCCL tree twice: see PatchTree.
NothingTwice == tool = "tree" => T!NothingTwice

\* DONE means the whole patch: see PatchTree.
DoneMeansPatched == tool = "tree" => T!DoneMeansPatched

\* A published word is behind the shards of all blocks: see MultiBlock.
PublishedWhole == tool = "kernel" => M!PublishedWhole

\* A failed op has not been written back: see MultiBlock. It may have been.
FailedKeepsInput == tool = "kernel" => M!FailedKeepsInput
=============================================================================
