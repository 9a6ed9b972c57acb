------------------------------- MODULE V5Hook -------------------------------
(***************************************************************************)
(* The hook of src/patches/nccl-ringonly-v5-hook.patch on four ranks that  *)
(* make the same calls, with the fence of ar2_core.cpp (ctrl_arm_fence)    *)
(* that arms it: which all-reduce goes to ar2 and which to native NCCL.    *)
(*                                                                         *)
(* Before it is armed a rank runs everything natively.  It enters the      *)
(* fence at the first large all-reduce that comes 10 s or more after its   *)
(* last capture, by its own clock.  Workers send F to rank 0, which waits  *)
(* for three of them and answers G, or N when it gives up.  An armed rank  *)
(* sends the small all-reduces to ar2 and waits for each; one that fails   *)
(* disarms it for good and is done again natively.                         *)
(*                                                                         *)
(* ar2 and native NCCL are external here.  The n-th ar2 call of a rank     *)
(* meets the n-th of the others, and returns when the kernels of all four  *)
(* can run (AllReduce).  Native operations return at once and meet on the  *)
(* stream, in the order in which they were launched.                       *)
(***************************************************************************)
EXTENDS Integers, Sequences

CONSTANTS
  Programs,   \* sequences of calls, to choose from; the ranks share one
  Fragile     \* the workers whose control connection may break

World == 4
Ranks == 0 .. World - 1
Workers == Ranks \ {0}

\* A captured, a large and a small all-reduce, ncclGroupStart and ncclGroupEnd.
Calls == {"capture", "large", "small", "start", "end"}

ASSUME ProgramsAssumption ==
  Programs \subseteq Seq(Calls) /\ Fragile \subseteq Workers

\* No group of a program is within another one: between two starts is an end.
FlatGroups ==
  \A p \in Programs : \A i, j \in DOMAIN p :
    i < j /\ p[i] = "start" /\ p[j] = "start" =>
      \E k \in DOMAIN p : i < k /\ k < j /\ p[k] = "end"

VARIABLES
  program,   \* the calls of every rank
  pos,       \* pos[r]:      the call rank r is at
  pc,        \* pc[r]:       where it is in that call
  next,      \* the worker that rank 0 is at in the fence
  saw,       \* saw[r]:      v5SawCapture
  arm,       \* arm[r]:      "no", "armed" or "dead" (v5Armed, v5ArmDead)
  disabled,  \* disabled[r]: g_v5Disabled
  depth,     \* depth[r]:    ncclV5GroupDepth
  ops,       \* ops[r]:      ncclV5GroupOps, which a nested start also resets
  open,      \* open[w]:     the control connection of worker w is up
  up,        \* up[w]:       what worker w has sent to rank 0 on it
  down,      \* down[w]:     what rank 0 has sent to worker w
  ar2,       \* ar2[r]:      the calls that rank r has made to ar2, in order
  queue,     \* queue[r]:    native operations of an open group
  stream     \* stream[r]:   native operations launched

vars == <<program, pos, pc, next, saw, arm, disabled, depth, ops, open,
          up, down, ar2, queue, stream>>

hook == <<saw, arm, disabled, depth, ops>>
wires == <<open, up, down>>
launched == <<ar2, queue, stream>>

-----------------------------------------------------------------------------
Init ==
  /\ program \in Programs
  /\ pos = [r \in Ranks |-> 1]
  /\ pc = [r \in Ranks |-> "run"]
  /\ next = 1
  /\ saw = [r \in Ranks |-> FALSE]
  /\ arm = [r \in Ranks |-> "no"]
  /\ disabled = [r \in Ranks |-> FALSE]
  /\ depth = [r \in Ranks |-> 0]
  /\ ops = [r \in Ranks |-> 0]
  /\ open = [w \in Workers |-> TRUE]
  /\ up = [w \in Workers |-> <<>>]
  /\ down = [w \in Workers |-> <<>>]
  /\ ar2 = [r \in Ranks |-> <<>>]
  /\ queue = [r \in Ranks |-> <<>>]
  /\ stream = [r \in Ranks |-> <<>>]

At(r, call) == pc[r] = "run" /\ pos[r] \in DOMAIN program /\ program[pos[r]] = call

Small(r) == At(r, "small")
Large(r) == At(r, "large")

\* The all-reduce goes to NCCL: in a group it waits for the end of the group.
\* The hook and ncclEnqueueCheck both count it.
Native(r) ==
  /\ IF depth[r] = 0
     THEN stream' = [stream EXCEPT ![r] = Append(@, pos[r])] /\ UNCHANGED queue
     ELSE queue' = [queue EXCEPT ![r] = Append(@, pos[r])] /\ UNCHANGED stream
  /\ ops' = [ops EXCEPT ![r] = @ + 2]
  /\ pos' = [pos EXCEPT ![r] = @ + 1]
  /\ pc' = [pc EXCEPT ![r] = "run"]

-----------------------------------------------------------------------------
(***************************************************************************)
(* Calls.                                                                  *)
(***************************************************************************)

\* Recorded into a graph. A hook that is disabled does not look any more.
Capture(r) ==
  /\ At(r, "capture")
  /\ saw' = [saw EXCEPT ![r] = @ \/ ~disabled[r]]
  /\ ops' = [ops EXCEPT ![r] = @ + 2]
  /\ pos' = [pos EXCEPT ![r] = @ + 1]
  /\ UNCHANGED <<program, pc, next, arm, disabled, depth, wires, launched>>

GroupStart(r) ==
  /\ At(r, "start")
  /\ depth' = [depth EXCEPT ![r] = @ + 1]
  /\ ops' = [ops EXCEPT ![r] = 0]
  /\ pos' = [pos EXCEPT ![r] = @ + 1]
  /\ UNCHANGED <<program, pc, next, saw, arm, disabled, wires, launched>>

\* The outermost end launches what the group has queued.
GroupEnd(r) ==
  /\ At(r, "end")
  /\ depth' = [depth EXCEPT ![r] = IF @ > 0 THEN @ - 1 ELSE @]
  /\ pos' = [pos EXCEPT ![r] = @ + 1]
  /\ IF depth'[r] # 0 THEN UNCHANGED <<queue, stream>>
     ELSE /\ stream' = [stream EXCEPT ![r] = @ \o queue[r]]
          /\ queue' = [queue EXCEPT ![r] = <<>>]
  /\ UNCHANGED <<program, pc, next, saw, arm, disabled, ops, wires, ar2>>

\* A large all-reduce of a rank that has not come to the fence. It enters it if 10 s
\* have passed on its clock since its last capture, and goes on natively if not.
Trigger(r) == Large(r) /\ ~disabled[r] /\ arm[r] = "no" /\ saw[r]

\* Variant for a mutant: the rule for groups is not there.
AnyPlace(r) == ~disabled[r] /\ arm[r] = "armed"

\* A group sends at most its first operation to ar2.
Eligible(r) == ~disabled[r] /\ arm[r] = "armed" /\ ~ (depth[r] >= 1 /\ ops[r] # 0)

CallNative(r) ==
  /\ \/ Large(r)
     \/ Small(r) /\ ~Eligible(r)
  /\ Native(r)
  /\ UNCHANGED <<program, next, saw, arm, disabled, depth, wires, ar2>>

-----------------------------------------------------------------------------
(***************************************************************************)
(* The fence.                                                              *)
(***************************************************************************)

\* A byte on a connection that broke is lost, and the send may or may not say so.
Sent(w, ok) == open[w] => ok

\* The trigger goes native, whatever became of the fence.
Leave(r, verdict) ==
  /\ arm' = [arm EXCEPT ![r] = verdict]
  /\ Native(r)

WorkerEnter(w) ==
  /\ w \in Workers /\ Trigger(w)
  /\ \E ok \in BOOLEAN :
       /\ Sent(w, ok)
       /\ up' = [up EXCEPT ![w] = IF open[w] THEN Append(@, "F") ELSE @]
       /\ IF ok THEN pc' = [pc EXCEPT ![w] = "fence"] /\ UNCHANGED <<arm, pos, ops, queue, stream>>
                ELSE Leave(w, "dead")
  /\ UNCHANGED <<program, next, saw, disabled, depth, open, down, ar2>>

\* One byte, whatever it is.
WorkerAnswer(w) ==
  /\ w \in Workers /\ pc[w] = "fence" /\ down[w] # <<>>
  /\ down' = [down EXCEPT ![w] = Tail(@)]
  /\ Leave(w, IF Head(down[w]) = "G" THEN "armed" ELSE "dead")
  /\ UNCHANGED <<program, next, saw, disabled, depth, open, up, ar2>>

\* Variant for a mutant: a worker that gave up tries again at its next trigger.
WorkerRetries(w) ==
  /\ w \in Workers /\ pc[w] = "fence" /\ down[w] = <<>>
  /\ Leave(w, "no")
  /\ UNCHANGED <<program, next, saw, disabled, depth, wires, ar2>>

\* Its 40 s are over, or the connection broke.
WorkerGiveUp(w) ==
  /\ w \in Workers /\ pc[w] = "fence" /\ down[w] = <<>>
  /\ Leave(w, "dead")
  /\ UNCHANGED <<program, next, saw, disabled, depth, wires, ar2>>

RootEnter ==
  /\ Trigger(0)
  /\ pc' = [pc EXCEPT ![0] = "collect"]
  /\ next' = 1
  /\ UNCHANGED <<program, pos, hook, wires, launched>>

\* Variant for a mutant: rank 0 does not wait for the last worker.
ShortCollect ==
  /\ pc[0] = "collect" /\ up[next] # <<>> /\ Head(up[next]) = "F"
  /\ up' = [up EXCEPT ![next] = Tail(@)]
  /\ IF next < World - 2 THEN next' = next + 1 /\ UNCHANGED pc
                         ELSE next' = 1 /\ pc' = [pc EXCEPT ![0] = "grant"]
  /\ UNCHANGED <<program, pos, hook, open, down, launched>>

\* The F of the worker that rank 0 is at.
Collect ==
  /\ pc[0] = "collect" /\ up[next] # <<>> /\ Head(up[next]) = "F"
  /\ up' = [up EXCEPT ![next] = Tail(@)]
  /\ IF next < World - 1 THEN next' = next + 1 /\ UNCHANGED pc
                         ELSE next' = 1 /\ pc' = [pc EXCEPT ![0] = "grant"]
  /\ UNCHANGED <<program, pos, hook, open, down, launched>>

\* The 10 s are over, the connection broke, or the byte is another one: N to all.
Refuse ==
  /\ pc[0] = "collect"
  /\ up[next] # <<>> => Head(up[next]) # "F"
  /\ up' = [up EXCEPT ![next] = IF @ = <<>> THEN @ ELSE Tail(@)]
  /\ down' = [w \in Workers |-> IF open[w] THEN Append(down[w], "N") ELSE down[w]]
  /\ Leave(0, "dead")
  /\ UNCHANGED <<program, next, saw, disabled, depth, open, ar2>>

\* G to one worker after the other; a send that fails ends it, and nobody else
\* is told.
Grant ==
  /\ pc[0] = "grant"
  /\ \E ok \in BOOLEAN :
       /\ Sent(next, ok)
       /\ down' = [down EXCEPT ![next] = IF open[next] THEN Append(@, "G") ELSE @]
       /\ IF ok /\ next < World - 1
          THEN next' = next + 1 /\ UNCHANGED <<arm, pos, pc, ops, queue, stream>>
          ELSE Leave(0, IF ok THEN "armed" ELSE "dead") /\ UNCHANGED next
  /\ UNCHANGED <<program, saw, disabled, depth, open, up, ar2>>

\* A control connection breaks; what was on its way is lost.
Break(w) ==
  /\ w \in Fragile /\ open[w]
  /\ open' = [open EXCEPT ![w] = FALSE]
  /\ up' = [up EXCEPT ![w] = <<>>]
  /\ down' = [down EXCEPT ![w] = <<>>]
  /\ UNCHANGED <<program, pos, pc, next, hook, launched>>

-----------------------------------------------------------------------------
(***************************************************************************)
(* Small all-reduces through ar2.                                          *)
(***************************************************************************)

Dispatch(r) ==
  /\ Small(r) /\ Eligible(r)
  /\ ar2' = [ar2 EXCEPT ![r] = Append(@, pos[r])]
  /\ pc' = [pc EXCEPT ![r] = "ar2"]
  /\ UNCHANGED <<program, pos, next, hook, wires, queue, stream>>

\* Variant for a mutant: ar2 has a stream of its own.
OtherStream(r) == TRUE

\* The kernel of rank r is behind the native operations of its stream, each of
\* which waits for those of the others.
KernelRuns(r) == \A q \in Ranks : Len(stream[q]) >= Len(stream[r])

\* Each rank is in its n-th call to ar2, and its kernel can run.
AllMeet ==
  \A r, q \in Ranks : pc[r] = "ar2" /\ KernelRuns(r) /\ Len(ar2[r]) = Len(ar2[q])

\* The four kernels run: the sum is in every buffer, and the calls return.
Meet ==
  /\ AllMeet
  /\ pos' = [r \in Ranks |-> pos[r] + 1]
  /\ pc' = [r \in Ranks |-> "run"]
  /\ ops' = [r \in Ranks |-> ops[r] + 1]
  /\ UNCHANGED <<program, next, saw, arm, disabled, depth, wires, launched>>

\* The abort frame of a rank, to rank 0 or to all workers.
Announce(r, upNow, downNow) ==
  /\ up' = [w \in Workers |-> IF w = r /\ open[w] THEN Append(upNow[w], "abort") ELSE upNow[w]]
  /\ down' = [w \in Workers |-> IF r = 0 /\ open[w] THEN Append(downNow[w], "abort") ELSE downNow[w]]

\* The call fails: never again, and this one natively.
Degrade(r) ==
  /\ disabled' = [disabled EXCEPT ![r] = TRUE]
  /\ Native(r)
  /\ UNCHANGED <<program, next, saw, arm, depth, open, ar2>>

\* Variant for a mutant: engine_wait has no deadline and waits for an abort.
Patient(r) ==
  /\ pc[r] = "ar2" /\ ~AllMeet
  /\ \E q \in Ranks : disabled[q]
  /\ Announce(r, up, down)
  /\ Degrade(r)

\* The 5 s of engine_wait are over, or an ABORT doorbell is there.
GiveUp(r) ==
  /\ pc[r] = "ar2" /\ ~AllMeet
  /\ Announce(r, up, down)
  /\ Degrade(r)

\* engine_wait polls an abort frame off a connection.
Notice(r) ==
  /\ pc[r] = "ar2" /\ ~AllMeet
  /\ \/ /\ r \in Workers /\ down[r] # <<>> /\ Head(down[r]) = "abort"
        /\ Announce(r, up, [down EXCEPT ![r] = Tail(@)])
     \/ /\ r = 0
        /\ \E w \in Workers : /\ up[w] # <<>> /\ Head(up[w]) = "abort"
                              /\ Announce(r, [up EXCEPT ![w] = Tail(@)], down)
  /\ Degrade(r)

-----------------------------------------------------------------------------
Ended == \A r \in Ranks : pos[r] > Len(program)
Stop == Ended /\ UNCHANGED vars

Rank(r) ==
  \/ Capture(r) \/ GroupStart(r) \/ GroupEnd(r) \/ CallNative(r)
  \/ WorkerEnter(r) \/ WorkerAnswer(r) \/ WorkerGiveUp(r)
  \/ r = 0 /\ (RootEnter \/ Collect \/ Refuse \/ Grant)
  \/ Dispatch(r) \/ GiveUp(r) \/ Notice(r)

Next ==
  \/ \E r \in Ranks : Rank(r)
  \/ \E w \in Workers : Break(w)
  \/ Meet \/ Stop

Spec == Init /\ [][Next]_vars

\* Every rank goes on, and its deadlines expire; kernels that can run do.
FairSpec == Spec /\ (\A r \in Ranks : WF_vars(Rank(r))) /\ WF_vars(Meet)

-----------------------------------------------------------------------------
(***************************************************************************)
(* Properties.                                                             *)
(***************************************************************************)

\* No rank sends anything to ar2 before every rank has come to its fence, that
\* is, has seen its captures and ten quiet seconds: whatever connections break
\* and whoever gives up. It is what the fence is for.
Fenced(r) == arm[r] # "no" \/ pc[r] \in {"fence", "collect", "grant"}
DispatchAfterFence == (\E r \in Ranks : ar2[r] # <<>>) => \A q \in Ranks : Fenced(q)

\* While a rank polls its connections for abort frames of eight bytes, none of
\* the single bytes of the fence is on them: neither a worker that came late nor
\* one that gave up can put the frames out of step.
Frames(bytes) == \A i \in DOMAIN bytes : bytes[i] = "abort"
FramesAligned ==
  \A w \in Workers :
    /\ pc[w] = "ar2" => Frames(down[w])
    /\ pc[0] = "ar2" => Frames(up[w])

\* The calls that meet in ar2 are the same all-reduce, and so are the native ones
\* that meet on the streams, even when the ranks take an all-reduce different
\* ways: the stream keeps a rank's kernel behind what it ran natively.
SameCallMeets ==
  /\ AllMeet => \A r, q \in Ranks : pos[r] = pos[q]
  /\ \A r, q \in Ranks : \A n \in DOMAIN stream[r] \cap DOMAIN stream[q] :
       stream[r][n] = stream[q][n]

\* In a group ar2 only gets what comes first: nothing is queued behind which it
\* would have had to wait. Groups that nest are outside the instances: there a
\* second ncclGroupStart makes the hook forget what the outer group has queued.
GroupOrderKept == \A r \in Ranks : pc[r] = "ar2" => queue[r] = <<>>

\* All ranks make all their calls, and every native all-reduce of one rank meets
\* those of the others: a rank that is not armed, or was disarmed, makes the
\* others follow (ERROR-MODEL.md section 7.2).
CallsEnd == <>(Ended /\ \A r, q \in Ranks : stream[r] = stream[q])

\* The key invariant of ARCHITECTURE.md section 11: the ranks decide alike about
\* each all-reduce. They do not: each measures its own ten seconds, so that two
\* ranks can come to the fence at different calls.
Decided(r, i) == pos[r] > i \/ (pos[r] = i /\ pc[r] = "ar2")
ToAr2(r, i) == \E n \in DOMAIN ar2[r] : ar2[r][n] = i
DecisionsAgree ==
  Fragile = {} /\ (\A r \in Ranks : arm[r] = "armed") =>
    \A i \in DOMAIN program : \A r, q \in Ranks :
      Decided(r, i) /\ Decided(q, i) => (ToAr2(r, i) <=> ToAr2(q, i))
=============================================================================
