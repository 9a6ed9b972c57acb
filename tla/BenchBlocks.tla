---------------------------- MODULE BenchBlocks ----------------------------
(***************************************************************************)
(* The main loops of src/src/twohop_bench.py and bilateral_micro.py: four  *)
(* ranks measure one block per message size.  In a block every rank makes  *)
(* the same collective calls on one communicator, under a timer of its     *)
(* own (SIGALRM).  A rank whose timer expires skips the rest of its block, *)
(* meets the others at the barrier that ends the block and goes on.        *)
(*                                                                         *)
(* The n-th call of a rank on the communicator meets the n-th call of each *)
(* other rank, whatever the calls are.  The handler of the timer runs in   *)
(* the interpreter, so never while the rank is blocked inside a call.  One *)
(* call stands for all the collectives of one bench function.              *)
(***************************************************************************)
EXTENDS Integers, Sequences, FiniteSets

CONSTANTS
  Scripts,    \* the scripts that are run: "twohop" and "bilateral"
  Blocks,     \* number of message sizes
  MaxAlarms,  \* timers that expire, over all ranks; bounds the model
  BadSets     \* the sets of <<rank, block>> whose result is wrong, to choose from

Ranks == 0..3

ASSUME BlocksAssumption ==
  /\ Scripts \subseteq {"twohop", "bilateral"}
  /\ Blocks \in Nat \ {0}
  /\ MaxAlarms \in Nat
  /\ BadSets \subseteq SUBSET (Ranks \X (1..Blocks))

VARIABLES
  script,   \* the script that is run
  bad,      \* where the library under test gives a wrong result
  block,    \* block[r]: the block rank r is in
  next,     \* next[r]:  the call of the block it makes next
  pc,       \* pc[r]:    where it is
  log,      \* log[r]:   the calls it has made on the communicator
  late,     \* late[r]:  the blocks that its timer cut short
  rows,     \* rows[r]:  its list of results
  code      \* code[r]:  its exit code, -1 while it runs

vars == <<script, bad, block, next, pc, log, late, rows, code>>

\* The calls of one block.
TwoHopCalls == <<"ring", "manual", "twohop", "pair", "twohop_nobar", "manual_nobar">>
BilateralCalls == <<"right", "left", "both">>
Calls == IF script = "twohop" THEN TwoHopCalls ELSE BilateralCalls

CallNames == {"ring", "manual", "twohop", "pair", "twohop_nobar", "manual_nobar",
              "right", "left", "both", "barrier", "last"}

\* dist.all_reduce returns when the work is queued; the others synchronise.
Async == {"ring"}

\* A call is over when every rank has made as many calls.
Over(r) == \A q \in Ranks : Len(log[q]) >= Len(log[r])

Make(r, c) == log' = [log EXCEPT ![r] = Append(@, <<block[r], c>>)]

Row(b, ok) == [block |-> b, ok |-> ok]
Good(r) == <<r, block[r]>> \notin bad /\ block[r] \notin late[r]

Init ==
  /\ script \in Scripts
  /\ bad \in BadSets
  /\ block = [r \in Ranks |-> 1]
  /\ next = [r \in Ranks |-> 1]
  /\ pc = [r \in Ranks |-> "armed"]
  /\ log = [r \in Ranks |-> <<>>]
  /\ late = [r \in Ranks |-> {}]
  /\ rows = [r \in Ranks |-> <<>>]
  /\ code = [r \in Ranks |-> -1]

\* The next bench function of the block.
Call(r) ==
  /\ pc[r] = "armed" /\ next[r] <= Len(Calls)
  /\ Make(r, Calls[next[r]])
  /\ next' = [next EXCEPT ![r] = @ + 1]
  /\ pc' = [pc EXCEPT ![r] = IF Calls[next[r]] \in Async THEN "armed" ELSE "called"]
  /\ UNCHANGED <<script, bad, block, late, rows, code>>

Return(r) ==
  /\ pc[r] = "called"
  /\ Over(r)
  /\ pc' = [pc EXCEPT ![r] = "armed"]
  /\ UNCHANGED <<script, bad, block, next, log, late, rows, code>>

\* Variant for a mutant: both scripts append inside the try.
RowInTry(r) ==
  /\ pc[r] = "armed" /\ next[r] = Len(Calls) + 1
  /\ rows' = [rows EXCEPT ![r] = Append(@, Row(block[r], Good(r)))]
  /\ pc' = [pc EXCEPT ![r] = "measured"]
  /\ UNCHANGED <<script, bad, block, next, log, late, code>>

\* The last statement of the try: bilateral_micro appends its row there.
Measured(r) ==
  /\ pc[r] = "armed" /\ next[r] = Len(Calls) + 1
  /\ rows' = IF script = "bilateral"
             THEN [rows EXCEPT ![r] = Append(@, Row(block[r], Good(r)))] ELSE rows
  /\ pc' = [pc EXCEPT ![r] = "measured"]
  /\ UNCHANGED <<script, bad, block, next, log, late, code>>

Alarms == {a \in Ranks \X (1..Blocks) : a[2] \in late[a[1]]}

\* Variant for a mutant: the expired timer is printed and not kept.
SilentAlarm(r) ==
  /\ pc[r] \in {"armed", "measured"}
  /\ Cardinality(Alarms) < MaxAlarms
  /\ pc' = [pc EXCEPT ![r] = "late"]
  /\ UNCHANGED <<script, bad, block, next, log, late, rows, code>>

\* The timer expires before it is disarmed: BlockTimeout.
Alarm(r) ==
  /\ pc[r] \in {"armed", "measured"}
  /\ Cardinality(Alarms) < MaxAlarms
  /\ late' = [late EXCEPT ![r] = @ \cup {block[r]}]
  /\ rows' = IF script = "bilateral"
             THEN [rows EXCEPT ![r] = Append(@, Row(block[r], FALSE))] ELSE rows
  /\ pc' = [pc EXCEPT ![r] = "late"]
  /\ UNCHANGED <<script, bad, block, next, log, code>>

\* The timer is disarmed; the barrier that ends the block.
Barrier(r) ==
  /\ pc[r] \in {"measured", "late"}
  /\ Make(r, "barrier")
  /\ pc' = [pc EXCEPT ![r] = "barrier"]
  /\ UNCHANGED <<script, bad, block, next, late, rows, code>>

\* twohop_bench appends its row here, then both take the next size.
EndBlock(r) ==
  /\ pc[r] = "barrier"
  /\ Over(r)
  /\ rows' = IF script = "twohop"
             THEN [rows EXCEPT ![r] = Append(@, Row(block[r], Good(r)))] ELSE rows
  /\ IF block[r] < Blocks
     THEN /\ block' = [block EXCEPT ![r] = @ + 1]
          /\ next' = [next EXCEPT ![r] = 1]
          /\ pc' = [pc EXCEPT ![r] = "armed"]
     ELSE /\ pc' = [pc EXCEPT ![r] = IF script = "twohop" THEN "last" ELSE "end"]
          /\ UNCHANGED <<block, next>>
  /\ UNCHANGED <<script, bad, log, late, code>>

\* Variant for a mutant: only rank 0, which prints the summary, waits.
RootLastBarrier(r) ==
  /\ pc[r] = "last"
  /\ IF r = 0 THEN Make(r, "last") ELSE UNCHANGED log
  /\ pc' = [pc EXCEPT ![r] = IF r = 0 THEN "closing" ELSE "end"]
  /\ UNCHANGED <<script, bad, block, next, late, rows, code>>

\* twohop_bench has one more barrier before the summary.
LastBarrier(r) ==
  /\ pc[r] = "last"
  /\ Make(r, "last")
  /\ pc' = [pc EXCEPT ![r] = "closing"]
  /\ UNCHANGED <<script, bad, block, next, late, rows, code>>

Close(r) ==
  /\ pc[r] = "closing"
  /\ Over(r)
  /\ pc' = [pc EXCEPT ![r] = "end"]
  /\ UNCHANGED <<script, bad, block, next, log, late, rows, code>>

RowsOk(r) == \A i \in DOMAIN rows[r] : rows[r][i].ok

\* twohop_bench tests the dict views r["ok"].values(), which are true whatever
\* the flags in them are: only the expired timers count.
TwoHopCode(r) == IF late[r] = {} THEN 0 ELSE 2
BilateralCode(r) == IF RowsOk(r) THEN 0 ELSE 2

Exit(r) ==
  /\ pc[r] = "end"
  /\ code' = [code EXCEPT ![r] =
                IF script = "twohop" THEN TwoHopCode(r) ELSE BilateralCode(r)]
  /\ pc' = [pc EXCEPT ![r] = "exited"]
  /\ UNCHANGED <<script, bad, block, next, log, late, rows>>

Progress(r) ==
  Call(r) \/ Return(r) \/ Measured(r) \/ Barrier(r) \/ EndBlock(r)
    \/ LastBarrier(r) \/ Close(r) \/ Exit(r)

Next == \E r \in Ranks : Progress(r) \/ Alarm(r)

Spec == Init /\ [][Next]_vars

\* Every rank keeps running; a timer need not expire.
FairSpec == Spec /\ \A r \in Ranks : WF_vars(Progress(r))

-----------------------------------------------------------------------------
(***************************************************************************)
(* Properties.                                                             *)
(***************************************************************************)

\* Types of the variables.
TypeOK ==
  /\ script \in Scripts
  /\ bad \in BadSets
  /\ block \in [Ranks -> 1..Blocks]
  /\ next \in [Ranks -> 1 .. Len(TwoHopCalls) + 1]
  /\ pc \in [Ranks -> {"armed", "called", "measured", "late", "barrier", "last",
                        "closing", "end", "exited"}]
  /\ log \in [Ranks -> Seq((1..Blocks) \X CallNames)]
  /\ late \in [Ranks -> SUBSET (1..Blocks)]
  /\ rows \in [Ranks -> Seq([block : 1..Blocks, ok : BOOLEAN])]
  /\ code \in [Ranks -> {-1, 0, 2}]

Met(r, q) == 1 .. (IF Len(log[r]) < Len(log[q]) THEN Len(log[r]) ELSE Len(log[q]))

\* Two ranks met in different calls: what they then measured, and the sums they
\* checked, are worth nothing.
Mismatch == \E r, q \in Ranks : \E i \in Met(r, q) : log[r][i] # log[q][i]

\* The exit code of a single rank vouches for the calls of all four: a rank
\* that ends with 0 skipped nothing, and since its last barrier opened the other
\* three made as many calls as it did, so they skipped nothing either.
CleanMeansMatched == \A r \in Ranks : code[r] = 0 => ~Mismatch

\* A rank ends with a row for every size, and a size that its timer cut short
\* ends with a row that says so; twohop_bench never has two rows for a size
\* (the timer of bilateral_micro can expire after the row was appended).
RowsComplete ==
  \A r \in Ranks : pc[r] \in {"end", "exited"} =>
    /\ {rows[r][i].block : i \in DOMAIN rows[r]} = 1..Blocks
    /\ \A b \in late[r] : \E i \in DOMAIN rows[r] :
         /\ rows[r][i] = Row(b, FALSE)
         /\ \A j \in DOMAIN rows[r] : rows[r][j].block = b => j <= i
    /\ script = "twohop" => Len(rows[r]) = Blocks

\* As long as no timer expires, all four ranks get to their exit.
UntimedCompletes ==
  [](Alarms = {}) => <>(\A r \in Ranks : pc[r] = "exited")
=============================================================================
