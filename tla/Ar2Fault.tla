------------------------------ MODULE Ar2Fault ------------------------------
(***************************************************************************)
(* The failure path of the ar2 engine and of the NCCL hook above it.       *)
(* Ar2Core shows that a fault-free op computes the sum; here links go      *)
(* down, processes die, deadlines expire and another thread calls          *)
(* ar2_abort, and the questions are who notices, what is in the caller's   *)
(* buffer, and which op the ranks end up redoing natively.                 *)
(*                                                                         *)
(* The hook only sends small ops (decoupled, single-block kernel), so slots*)
(* and values are left out: an op is its number, the buffer is untouched   *)
(* or written by the kernel. A burst and its doorbell are one message that *)
(* is there when it is posted, unless it is lost: whoever polls a doorbell *)
(* may look at any later time, which covers what the wire delays.          *)
(***************************************************************************)
EXTENDS Integers

CONSTANTS
  MaxOps,     \* ops the application sends to ar2 on every rank; a bound
  Faults,     \* the kinds of faults that may happen
  Faulty,     \* the ranks at which one of them strikes, cut links apart
  MaxFaults   \* how many of them; bounds the model

ASSUME FaultConstants ==
  /\ MaxOps \in Nat
  /\ Faults \subseteq {"link", "crash", "abort", "post"}
  /\ Faulty \subseteq 0..3
  /\ MaxFaults \in Nat

VARIABLES
  epc,        \* epc[r]: the beat the engine of rank r is at
  op,         \* Comm.seq_: ops admitted by the entry checks
  completed,  \* ops whose call returned AR2_OK
  failedAt,   \* the op whose call failed (then g_v5Disabled), 0 = none
  kpc,        \* kpc[r]: where the kernel of op kop[r] is
  kop,        \* ops whose kernel has staged its input
  abort,      \* abort[r]: the links whose Ar2Ctl.abort is set (poisoned)
  posted,     \* posted[r][l]: bursts posted on link l, send_done released
  rung,       \* rung[r][l]: the last of them that reached the peer
  bell,       \* bell[r][l]: so did the ABORT doorbell, and is still there
  up,         \* up[r][l]: link l carries what rank r sends
  faults      \* faults so far

engineVars == <<epc, op, completed, failedAt>>
kernelVars == <<kpc, kop>>
wireVars == <<posted, rung, bell>>
vars == <<epc, op, completed, failedAt, kpc, kop, abort,
          posted, rung, bell, up, faults>>

Ranks == 0..3
Links == {"A", "B"}

\* rank ^ 1 on link A, rank ^ 3 on link B.
PeerOf(r, l) ==
  IF l = "A" THEN (IF r \in {0, 2} THEN r + 1 ELSE r - 1) ELSE 3 - r

Alive(r) == epc[r] # "dead"

\* Rank r gets the acknowledgements of what it sends on link l.
Usable(r, l) == up[r][l] /\ up[PeerOf(r, l)][l] /\ Alive(PeerOf(r, l))

----------------------------------------------------------------------------
(* What the engine and the kernel of a rank see. *)

\* An ABORT doorbell has overwritten the doorbell word of link l.
AbortBell(r, l) == bell[PeerOf(r, l)][l]

\* ctrl_broadcast_abort: a worker that aborts sends a frame to rank 0, rank 0
\* to all the workers. It stays on the connection until it is polled.
AbortFrame(r) ==
  IF r = 0 THEN \E q \in Ranks : q # 0 /\ abort[q] # {} ELSE abort[0] # {}

\* Ar2Ctl.arm1 and Ar2Ctl.done (producer is kop), and the ops whose buffer
\* the kernel has at least begun to write.
Arm1(r) == IF kpc[r] \in {"waitA", "errA"} THEN kop[r] - 1 ELSE kop[r]
Done(r) == IF kpc[r] = "idle" THEN kop[r] ELSE kop[r] - 1
Written(r) == IF kpc[r] \in {"final", "idle"} THEN kop[r] ELSE kop[r] - 1

Waiting == {"producer", "arm1", "done"}

\* The word the engine waits for.
Awaited(r) ==
  IF epc[r] = "producer" THEN kop[r]
  ELSE IF epc[r] = "arm1" THEN Arm1(r) ELSE Done(r)

\* Variants for mutants: an op returns on the doorbell of the previous one;
\* the kernel does not wait for send_done.
StaleKernelWait(r, l) ==
  LET d == rung[PeerOf(r, l)][l] IN
  IF AbortBell(r, l) THEN "abort"
  ELSE IF d >= kop[r] - 1 /\ posted[r][l] >= kop[r] THEN "ok"
  ELSE IF l \in abort[r] THEN "abort" ELSE "spin"

UnreleasedKernelWait(r, l) ==
  LET d == rung[PeerOf(r, l)][l] IN
  IF AbortBell(r, l) THEN "abort"
  ELSE IF d >= kop[r] THEN "ok"
  ELSE IF l \in abort[r] THEN "abort" ELSE "spin"

\* wait_two: the doorbell word first, this rank's abort word only while
\* there is nothing to go on with. It has no deadline of its own.
KernelWait(r, l) ==
  LET d == rung[PeerOf(r, l)][l] IN
  IF AbortBell(r, l) THEN "abort"
  ELSE IF d > kop[r] + 1 THEN "protocol"
  ELSE IF d >= kop[r] /\ posted[r][l] >= kop[r] THEN "ok"
  ELSE IF l \in abort[r] THEN "abort" ELSE "spin"

\* engine_wait gives up for another reason than its deadline.
Alarm(r) ==
  \/ abort[r] # {}
  \/ kpc[r] \in {"errA", "errB"}
  \/ \E l \in Links : AbortBell(r, l)
  \/ AbortFrame(r)

----------------------------------------------------------------------------
(* Engine and hook: the calls of one rank. *)

\* Variants for mutants: only the abort word of link A is set; the ABORT
\* doorbell goes out on link A only.
HalfPoison(r) == abort' = [abort EXCEPT ![r] = {"A"}]

HalfAnnounce(r) == bell' = [bell EXCEPT ![r]["A"] = up[r]["A"]]

\* abort_path, first half: the session is poisoned, both abort words are set.
Poison(r) == abort' = [abort EXCEPT ![r] = Links]

\* Second half: ABORT doorbells on both links, best effort, and AbortFrame.
Announce(r) == bell' = [bell EXCEPT ![r] = up[r]]

\* The call of op m fails: abort_path, once per session; the hook disables
\* ar2 for good and redoes the op natively.
Fail(r, m) ==
  /\ epc' = [epc EXCEPT ![r] = "native"]
  /\ failedAt' = [failedAt EXCEPT ![r] = m]
  /\ Poison(r)
  /\ IF abort[r] = {} THEN Announce(r) ELSE UNCHANGED bell
  /\ UNCHANGED <<op, completed>>

\* allreduce_one is entered: refused in a poisoned session or when an ABORT
\* doorbell is there, else the kernel is launched.
Call(r) ==
  /\ epc[r] = "idle"
  /\ completed[r] < MaxOps
  /\ IF abort[r] # {} \/ \E l \in Links : AbortBell(r, l)
     THEN Fail(r, op[r] + 1)
     ELSE /\ epc' = [epc EXCEPT ![r] = "producer"]
          /\ op' = [op EXCEPT ![r] = @ + 1]
          /\ UNCHANGED <<completed, failedAt, abort, bell>>
  /\ UNCHANGED <<kernelVars, posted, rung, up, faults>>

BeatOf(l) == IF l = "A" THEN "producer" ELSE "arm1"

\* The awaited word has come: post the burst, release send_done. After an
\* ar2_abort from another thread the doorbell overwrites its ABORT.
Post(r, l) ==
  /\ epc[r] = BeatOf(l)
  /\ Awaited(r) = op[r]
  /\ posted' = [posted EXCEPT ![r][l] = op[r]]
  /\ rung' = [rung EXCEPT ![r][l] = IF up[r][l] THEN op[r] ELSE @]
  /\ bell' = [bell EXCEPT ![r][l] = @ /\ ~up[r][l]]
  /\ epc' = [epc EXCEPT ![r] = IF l = "A" THEN "arm1" ELSE "done"]
  /\ UNCHANGED <<op, completed, failedAt, kernelVars, abort, up, faults>>

\* engine_wait returns an error. For the last word done_wait looks on for
\* another 100 ms, in which SeeDone may still come first; a kernel that
\* passes its last wait between that and the abort words writes back later.
GiveUp(r) ==
  /\ epc[r] \in Waiting
  /\ Awaited(r) # op[r]
  /\ Fail(r, op[r])
  /\ UNCHANGED <<kernelVars, posted, rung, up>>

\* On an abort word, an ABORT doorbell, a dev_err or an abort frame ...
Notice(r) ==
  /\ Alarm(r)
  /\ GiveUp(r)
  /\ UNCHANGED faults

\* ... or when timeout_ms have passed: without a fault before it, this
\* deadline is the first (a peer that did not call, a stalled stream).
Deadline(r) ==
  /\ GiveUp(r)
  /\ faults' = IF faults = 0 THEN 1 ELSE faults
  /\ faults' <= MaxFaults

\* Variant for a mutant: an alarm ends the wait as if done had come.
HastySeeDone(r) ==
  /\ epc[r] = "done"
  /\ Done(r) = op[r] \/ Alarm(r)
  /\ epc' = [epc EXCEPT ![r] = "reap"]
  /\ UNCHANGED <<op, completed, failedAt, kernelVars, abort, wireVars, up, faults>>

\* done_wait returns AR2_OK.
SeeDone(r) ==
  /\ epc[r] = "done"
  /\ Done(r) = op[r]
  /\ epc' = [epc EXCEPT ![r] = "reap"]
  /\ UNCHANGED <<op, completed, failedAt, kernelVars, abort, wireVars, up, faults>>

\* The two reap_bell: the op succeeds with both completions, and fails on
\* an error completion or after AR2_QP_TIMEOUT_S.
Reap(r) ==
  /\ epc[r] = "reap"
  /\ \/ /\ \A l \in Links : rung[r][l] = op[r]
        /\ completed' = [completed EXCEPT ![r] = op[r]]
        /\ epc' = [epc EXCEPT ![r] = "idle"]
        /\ UNCHANGED <<op, failedAt, abort, bell>>
     \/ /\ \E l \in Links : ~Usable(r, l)
        /\ Fail(r, op[r])
  /\ UNCHANGED <<kernelVars, posted, rung, up, faults>>

----------------------------------------------------------------------------
(* Kernel: no deadline, stops on abort. *)

Stage(r) ==
  /\ Alive(r)
  /\ kpc[r] = "idle"
  /\ kop[r] < op[r]
  /\ kop' = [kop EXCEPT ![r] = @ + 1]
  /\ kpc' = [kpc EXCEPT ![r] = "waitA"]
  /\ UNCHANGED <<engineVars, abort, wireVars, up, faults>>

\* A wait ends: reduce and publish arm1 (A), start the write-back (B), or
\* report dev_err and return.
Arrive(r, l) ==
  LET outcome == KernelWait(r, l) IN
  /\ Alive(r)
  /\ kpc[r] = IF l = "A" THEN "waitA" ELSE "waitB"
  /\ outcome # "spin"
  /\ kpc' = [kpc EXCEPT ![r] =
               IF outcome = "ok" THEN (IF l = "A" THEN "waitB" ELSE "final")
               ELSE (IF l = "A" THEN "errA" ELSE "errB")]
  /\ UNCHANGED <<engineVars, kop, abort, wireVars, up, faults>>

\* The buffer is written, done is published.
WriteBack(r) ==
  /\ Alive(r)
  /\ kpc[r] = "final"
  /\ kpc' = [kpc EXCEPT ![r] = "idle"]
  /\ UNCHANGED <<engineVars, kop, abort, wireVars, up, faults>>

----------------------------------------------------------------------------
(* Faults *)

Fault(kind) ==
  /\ kind \in Faults
  /\ faults < MaxFaults
  /\ faults' = faults + 1

\* Link l stops carrying what rank r sends: data, doorbells, and the
\* acknowledgements of what its peer sends.
CutLink(r, l) ==
  /\ Fault("link")
  /\ up[r][l]
  /\ up' = [up EXCEPT ![r][l] = FALSE]
  /\ UNCHANGED <<engineVars, kernelVars, abort, wireVars>>

\* The process dies. What it has sent and not delivered is a cut before it.
Crash(r) ==
  /\ Fault("crash")
  /\ Alive(r)
  /\ epc' = [epc EXCEPT ![r] = "dead"]
  /\ UNCHANGED <<op, completed, failedAt, kernelVars, abort, wireVars, up>>

\* ar2_abort from any other thread.
ExternalAbort(r) ==
  /\ Fault("abort")
  /\ Alive(r)
  /\ abort[r] = {}
  /\ Poison(r)
  /\ Announce(r)
  /\ UNCHANGED <<engineVars, kernelVars, posted, rung, up>>

\* op_submit or ibv_post_send fails: the beat ends in abort_path.
PostFails(r) ==
  /\ Fault("post")
  /\ epc[r] \in {"producer", "arm1"}
  /\ Fail(r, op[r])
  /\ UNCHANGED <<kernelVars, posted, rung, up>>

----------------------------------------------------------------------------

Init ==
  /\ epc = [r \in Ranks |-> "idle"]
  /\ op = [r \in Ranks |-> 0]
  /\ completed = [r \in Ranks |-> 0]
  /\ failedAt = [r \in Ranks |-> 0]
  /\ kpc = [r \in Ranks |-> "idle"]
  /\ kop = [r \in Ranks |-> 0]
  /\ abort = [r \in Ranks |-> {}]
  /\ posted = [r \in Ranks |-> [l \in Links |-> 0]]
  /\ rung = [r \in Ranks |-> [l \in Links |-> 0]]
  /\ bell = [r \in Ranks |-> [l \in Links |-> FALSE]]
  /\ up = [r \in Ranks |-> [l \in Links |-> TRUE]]
  /\ faults = 0

\* What a rank's engine does on its own, its deadline apart.
Engine(r) ==
  \/ \E l \in Links : Post(r, l)
  \/ Notice(r)
  \/ SeeDone(r)
  \/ Reap(r)

Kernel(r) ==
  \/ Stage(r)
  \/ \E l \in Links : Arrive(r, l)
  \/ WriteBack(r)

Environment ==
  \/ \E r \in Ranks, l \in Links : CutLink(r, l)
  \/ \E r \in Faulty : Crash(r) \/ ExternalAbort(r) \/ PostFails(r)

\* Every rank is through with its calls, degraded or dead.
Finished ==
  /\ \A r \in Ranks : \/ epc[r] \in {"native", "dead"}
                      \/ epc[r] = "idle" /\ completed[r] = MaxOps
  /\ UNCHANGED vars

Next ==
  \/ \E r \in Ranks : Call(r) \/ Engine(r) \/ Deadline(r) \/ Kernel(r)
  \/ Environment
  \/ Finished

Spec == Init /\ [][Next]_vars

\* The engine polls and the stream runs the kernel. No deadline is fair:
\* what is shown below does not rest on one expiring.
Fairness == \A r \in Ranks : WF_vars(Engine(r)) /\ WF_vars(Kernel(r))

FairSpec == Spec /\ Fairness

----------------------------------------------------------------------------
(* Properties *)

TypeOK ==
  /\ epc \in [Ranks -> Waiting \cup {"idle", "reap", "native", "dead"}]
  /\ op \in [Ranks -> 0..MaxOps]
  /\ completed \in [Ranks -> 0..MaxOps]
  /\ failedAt \in [Ranks -> 0..MaxOps]
  /\ kpc \in [Ranks -> {"idle", "waitA", "waitB", "final", "errA", "errB"}]
  /\ kop \in [Ranks -> 0..MaxOps]
  /\ abort \in [Ranks -> SUBSET Links]
  /\ posted \in [Ranks -> [Links -> 0..MaxOps]]
  /\ rung \in [Ranks -> [Links -> 0..MaxOps]]
  /\ bell \in [Ranks -> [Links -> BOOLEAN]]
  /\ up \in [Ranks -> [Links -> BOOLEAN]]
  /\ faults \in 0..MaxFaults

\* What a rank has gone through: its call in progress is op completed + 1,
\* posted after the word it takes; a failure is the end of its calls.
CallInv(r) ==
  /\ op[r] \in {completed[r], completed[r] + 1}
  /\ epc[r] = "idle" => op[r] = completed[r]
  /\ epc[r] \in Waiting \cup {"reap"} => op[r] = completed[r] + 1
  /\ epc[r] \in Waiting \cup {"idle", "reap"} => failedAt[r] = 0
  /\ failedAt[r] # 0 => failedAt[r] = completed[r] + 1
  /\ epc[r] = "native" => failedAt[r] # 0
  /\ epc[r] = "reap" => Done(r) = op[r]
  /\ kop[r] <= op[r]
  /\ kpc[r] # "idle" => kop[r] > 0
  /\ completed[r] <= Done(r)

\* What a word or a doorbell stands for: no reduction without the burst of
\* the peer, no write-back without both own bursts, burst B after burst A.
WireInv(r) ==
  /\ posted[r]["A"] <= kop[r]
  /\ posted[r]["B"] <= Arm1(r)
  /\ posted[r]["B"] <= posted[r]["A"]
  /\ epc[r] \in {"arm1", "done", "reap"} => posted[r]["A"] = op[r]
  /\ Arm1(r) <= rung[PeerOf(r, "A")]["A"]
  /\ Arm1(r) <= posted[r]["A"]
  /\ Written(r) <= rung[PeerOf(r, "B")]["B"]
  /\ Written(r) <= posted[r]["B"]
  /\ \A l \in Links : rung[r][l] <= posted[r][l]

\* The inductive invariant of the proofs, from the words the engine and the
\* kernel of a rank exchange (engine_wait, wait_two, dev_pub) to what a
\* doorbell says of a peer (post_burst).
FaultInv == TypeOK /\ \A r \in Ranks : CallInv(r) /\ WireInv(r)

\* An error is contained (hook and abort_path): when op m fails on one rank,
\* no rank gets AR2_OK for a later op, nor for op m itself if the failed rank
\* never posted its burst A. No rank consumes a sum that lacks a peer.
ErrorContained ==
  \A r, q \in Ranks :
    failedAt[r] # 0 =>
      /\ completed[q] <= failedAt[r]
      /\ completed[q] = failedAt[r] => posted[r]["A"] = failedAt[r]

\* An op that fails before its burst B is posted never gets written back, not
\* even by a kernel that is still on the stream (wait_two waits for
\* send_done): redoing it natively reads the caller's input.
EarlyErrorKeepsInput ==
  \A r \in Ranks :
    failedAt[r] # 0 /\ posted[r]["B"] < failedAt[r] => Written(r) < failedAt[r]

\* AR2_OK is returned for written buffers only, through the grace of
\* done_wait and the completions too; and after a failure the session stays
\* shut: nothing is posted for a later op.
OkMeansWritten ==
  \A r \in Ranks :
    /\ completed[r] <= Written(r)
    /\ failedAt[r] # 0 => \A l \in Links : posted[r][l] <= failedAt[r]

\* What the hook and ERROR-MODEL.md section 7.1 rest the native redo on: when
\* an op fails, its result has not been written back (done is published after
\* the write), so that the redo reads the caller's input.
RedoReadsInput ==
  [][\A r \in Ranks :
       epc[r] # "native" /\ epc'[r] = "native" => Done(r) < failedAt'[r]]_vars

\* A kernel never outlives the failure of its op: it stops, although it has
\* no deadline (wait_two), also when its peers cannot reach it any more. The
\* native redo is queued behind it on the same stream.
KernelStops ==
  <>[]\A r \in Ranks :
        Alive(r) /\ failedAt[r] # 0 =>
          kop[r] = op[r] /\ kpc[r] \in {"idle", "errA", "errB"}

\* An aborting rank frees both its neighbours for good, whatever they wait
\* for and without their deadlines, as long as the link carries the ABORT;
\* and if it is rank 0, or the waiting one is, its diagonal too.
AbortReaches ==
  <>[]\A r \in Ranks :
        abort[r] # {} =>
          /\ \A l \in Links : up[r][l] => epc[PeerOf(r, l)] \notin Waiting
          /\ r = 0 => \A q \in Ranks : epc[q] \notin Waiting
          /\ r # 0 => epc[0] \notin Waiting
=============================================================================
