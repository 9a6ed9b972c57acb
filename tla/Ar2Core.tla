------------------------------ MODULE Ar2Core ------------------------------
(***************************************************************************)
(* The fault-free data path of the ar2 engine on a ring of four ranks:     *)
(* host engine, device kernel and NIC of every rank, and the control words *)
(* they hand the operation over with.                                      *)
(*                                                                         *)
(*   engine  allreduce_one (M1) and layer_replay/layer_drive (M2):         *)
(*           submit, wait producer, post burst A, wait arm1, post burst B, *)
(*           wait done, collect the completions;                           *)
(*   kernel  ar2_fused_kernel (single block, claims its sequence number)   *)
(*           and ar2_fused_kernel_mb (sequence number from the host):      *)
(*           stage, wait for link A, sB = sA + rA, wait for link B,        *)
(*           x = sB + rB;                                                  *)
(*   NIC     one reliable connection per link and queue pair: the data     *)
(*           segment of a burst is placed before its doorbell or flag.     *)
(*                                                                         *)
(* Values are sets of contributions <<rank, op>>, as in AllReduce. The     *)
(* empty set is content that is no sum of distinct contributions.          *)
(***************************************************************************)
EXTENDS Integers

CONSTANTS
  MaxOps,        \* all-reduces every rank performs; bounds the model
  NSlots,        \* ar2_config.nslots
  NQP,           \* ar2_config.nqp
  SeqMod,        \* sequence numbers a doorbell tells apart: 2^32 in the code
  DecoupledOps,  \* ops of less than 256 KiB: completions collected at the end
  MultiOps,      \* ops of more than 16 KiB: multi-block kernel in M1
  Layers,        \* <<first, last>>: ops the application calls as one layer
  Captured       \* the ranks whose capture of those layers succeeded (M2)

ASSUME ConstantsAssumption ==
  /\ MaxOps \in Nat
  /\ NSlots \in 1..8
  /\ NQP \in 1..4
  /\ SeqMod \in Nat /\ SeqMod >= 3
  /\ DecoupledOps \subseteq 1..MaxOps
  /\ MultiOps \subseteq 1..MaxOps
  /\ Layers \subseteq (1..MaxOps) \X (1..MaxOps)
  /\ \A i \in Layers : i[1] <= i[2]
  /\ Captured \subseteq 0..3

VARIABLES
  epc,        \* epc[r]: the beat the engine of rank r is at
  cur,        \* the op it drives
  last,       \* Comm.seq_: the last op of the current call
  layer,      \* TRUE while the current call is a layer replay
  completed,  \* Comm.completed_
  kpc,        \* kpc[r]: where the kernel at the head of the stream is
  kop,        \* ops whose kernel has started: op kop[r] owns the buffer
  kseq,       \* the sequence number that kernel works under
  claim,      \* word 0 of the sequence area: the device's claim counter
  producer, arm1, done,  \* the words of Ar2Ctl the kernel publishes
  sendDone,   \* sendDone[r][l]: Ar2Ctl.send_done of link l
  posted,     \* posted[r][l]: bursts posted on link l (Link.sent_seq)
  placed,     \* placed[r][l][q]: data segments placed in the peer's slot
  rung,       \* rung[r][l][q]: doorbells (q = 0) and flags placed
  reaped,     \* reaped[r][l]: bursts whose completions were collected
  send,       \* send[r][l][s]: the send slots
  recv,       \* recv[r][l][s][q]: the receive slots, one stripe per QP
  buf         \* buf[r][m]: the caller's buffer of op m

engineVars == <<epc, cur, last, layer, completed>>
kernelVars == <<kpc, kop, kseq, claim, producer, arm1, done>>
linkVars == <<sendDone, posted, placed, rung, reaped>>
dataVars == <<send, recv, buf>>
vars == <<epc, cur, last, layer, completed,
          kpc, kop, kseq, claim, producer, arm1, done,
          sendDone, posted, placed, rung, reaped, send, recv, buf>>

Ranks == 0..3
Links == {"A", "B"}
QPs == 0..(NQP - 1)
Slots == 0..(NSlots - 1)

\* rank ^ 1 on link A, rank ^ 3 on link B.
PeerOf(r, l) ==
  IF l = "A" THEN (IF r \in {0, 2} THEN r + 1 ELSE r - 1) ELSE 3 - r

\* Variant for a mutant: every op in the same slot.
FixedSlot(seq) == 0

SlotOf(seq) == (seq - 1) % NSlots

----------------------------------------------------------------------------
(* Values *)

Contributions == Ranks \X (1..MaxOps)
Own(r, m) == {<<r, m>>}
Total(m) == Ranks \X {m}

\* The sum of two values: content that is no sum stays none, and a
\* contribution counted twice is no sum of distinct contributions.
Add(a, b) == IF a = {} \/ b = {} \/ a \cap b # {} THEN {} ELSE a \cup b

\* What a reader of all the stripes of a slot sees.
Gather(stripes) ==
  IF \A q \in QPs : stripes[q] = stripes[0] THEN stripes[0] ELSE {}

----------------------------------------------------------------------------
(* Waiting *)

\* The doorbell (q = 0) or the arrival flag that rank r polls on link l
\* holds the number of the last one its peer's NIC placed; 0 = none yet.
Bell(r, l, q) == rung[PeerOf(r, l)][l][q]

\* Variants for mutants: an early doorbell is not tolerated; it is ignored;
\* the doorbell of the previous op is taken for this one's.
StrictBellState(d, seq) ==
  LET diff == (d - seq) % SeqMod IN
  IF d = 0 \/ diff = SeqMod - 1 THEN "spin"
  ELSE IF diff = 0 THEN "ok" ELSE "protocol"

ExactBellState(d, seq) ==
  IF d # 0 /\ (d - seq) % SeqMod = 0 THEN "ok" ELSE "spin"

StaleBellState(d, seq) ==
  LET diff == (d - seq) % SeqMod IN
  IF d = 0 THEN "spin"
  ELSE IF diff \in {0, 1, SeqMod - 1} THEN "ok" ELSE "protocol"

\* wait_two and wait_flag on one word: not arrived, arrived (possibly one
\* op early), or out of the tolerated skew.
BellState(d, seq) ==
  LET diff == (d - seq) % SeqMod IN
  IF d = 0 \/ diff = SeqMod - 1 THEN "spin"
  ELSE IF diff <= 1 THEN "ok" ELSE "protocol"

\* Variant for a mutant: send_done is not awaited.
UnreleasedWait(r, l) ==
  LET state == [q \in QPs |-> BellState(Bell(r, l, q), kseq[r])]
  IN IF \E q \in QPs : state[q] = "protocol" THEN "protocol"
     ELSE IF \A q \in QPs : state[q] = "ok" THEN "ok" ELSE "spin"

\* The whole wait of a round: the doorbell and send_done, then the flags.
KernelWait(r, l) ==
  LET seq == kseq[r]
      state == [q \in QPs |-> BellState(Bell(r, l, q), seq)]
  IN IF \E q \in QPs : state[q] = "protocol" THEN "protocol"
     ELSE IF (\A q \in QPs : state[q] = "ok") /\ sendDone[r][l] >= seq
          THEN "ok" ELSE "spin"

\* engine_wait on a word of this rank: exact match, overshoot is an error,
\* and so is a kernel that reported one (dev_err).
EngineWait(r, word, expect) ==
  IF word = expect THEN "ok"
  ELSE IF word > expect \/ kpc[r] = "err" THEN "protocol" ELSE "spin"

Blocking(r) == layer[r] \/ cur[r] \notin DecoupledOps

----------------------------------------------------------------------------
(* Engine *)

InLayer(m) == \E i \in Layers : i[1] <= m /\ m <= i[2]

\* One allreduce_one: sequence number, then op_submit launches its kernel.
\* Without a matching graph a layer is a loop of these.
Submit(r) ==
  /\ epc[r] = "idle"
  /\ last[r] < MaxOps
  /\ r \in Captured => ~InLayer(last[r] + 1)
  /\ epc' = [epc EXCEPT ![r] = "producer"]
  /\ cur' = [cur EXCEPT ![r] = last[r] + 1]
  /\ last' = [last EXCEPT ![r] = @ + 1]
  /\ UNCHANGED <<layer, completed, kernelVars, linkVars, dataVars>>

\* Variant for a mutant: the sequence number runs one past the layer.
OverrunReplay(r) ==
  /\ epc[r] = "idle"
  /\ r \in Captured
  /\ \E i \in Layers :
       /\ i[1] = last[r] + 1
       /\ last' = [last EXCEPT ![r] = i[2] + 1]
  /\ epc' = [epc EXCEPT ![r] = "producer"]
  /\ cur' = [cur EXCEPT ![r] = last[r] + 1]
  /\ layer' = [layer EXCEPT ![r] = TRUE]
  /\ UNCHANGED <<completed, kernelVars, linkVars, dataVars>>

\* layer_replay: one graph launch enqueues the kernels of the whole layer.
Replay(r) ==
  /\ epc[r] = "idle"
  /\ r \in Captured
  /\ \E i \in Layers :
       /\ i[1] = last[r] + 1
       /\ last' = [last EXCEPT ![r] = i[2]]
  /\ epc' = [epc EXCEPT ![r] = "producer"]
  /\ cur' = [cur EXCEPT ![r] = last[r] + 1]
  /\ layer' = [layer EXCEPT ![r] = TRUE]
  /\ UNCHANGED <<completed, kernelVars, linkVars, dataVars>>

WaitBeat(l) == IF l = "A" THEN "producer" ELSE "arm1"
PostedBeat(l) == IF l = "A" THEN "postedA" ELSE "postedB"
NextBeat(l) == IF l = "A" THEN "arm1" ELSE "done"
WaitWord(r, l) == IF l = "A" THEN producer[r] ELSE arm1[r]

\* The awaited word has come: post the burst of link l.
Post(r, l) ==
  LET outcome == EngineWait(r, WaitWord(r, l), cur[r]) IN
  /\ epc[r] = WaitBeat(l)
  /\ outcome # "spin"
  /\ IF outcome = "ok"
     THEN /\ posted' = [posted EXCEPT ![r][l] = cur[r]]
          /\ epc' = [epc EXCEPT ![r] = PostedBeat(l)]
     ELSE /\ epc' = [epc EXCEPT ![r] = "err"]
          /\ UNCHANGED posted
  /\ UNCHANGED <<cur, last, layer, completed, kernelVars,
                 sendDone, placed, rung, reaped, dataVars>>

\* Every QP has signalled its tail of burst cur[r] on link l.
Signalled(r, l) == \A q \in QPs : rung[r][l][q] >= cur[r]

\* Variant for a mutant: a blocking op releases send_done at once and counts
\* its completions as collected.
EagerRelease(r, l) ==
  /\ epc[r] = PostedBeat(l)
  /\ epc' = [epc EXCEPT ![r] = NextBeat(l)]
  /\ sendDone' = [sendDone EXCEPT ![r][l] = cur[r]]
  /\ reaped' = [reaped EXCEPT ![r][l] = IF Blocking(r) THEN cur[r] ELSE @]
  /\ UNCHANGED <<cur, last, layer, completed, kernelVars,
                 posted, placed, rung, dataVars>>

\* send_done: at once when decoupled, after the completions when blocking.
\* A completion left over by an earlier op fails the wr_id check.
Release(r, l) ==
  /\ epc[r] = PostedBeat(l)
  /\ Blocking(r) => Signalled(r, l)
  /\ IF Blocking(r) /\ reaped[r][l] # cur[r] - 1
     THEN /\ epc' = [epc EXCEPT ![r] = "err"]
          /\ UNCHANGED <<sendDone, reaped>>
     ELSE /\ epc' = [epc EXCEPT ![r] = NextBeat(l)]
          /\ sendDone' = [sendDone EXCEPT ![r][l] = cur[r]]
          /\ reaped' = [reaped EXCEPT ![r][l] = IF Blocking(r) THEN cur[r] ELSE @]
  /\ UNCHANGED <<cur, last, layer, completed, kernelVars,
                 posted, placed, rung, dataVars>>

\* The op is complete: the layer goes on with its next op, or the call
\* returns.
FinishOp(r) ==
  /\ completed' = [completed EXCEPT ![r] = @ + 1]
  /\ IF cur[r] < last[r]
     THEN /\ cur' = [cur EXCEPT ![r] = @ + 1]
          /\ epc' = [epc EXCEPT ![r] = "producer"]
          /\ UNCHANGED layer
     ELSE /\ epc' = [epc EXCEPT ![r] = "idle"]
          /\ layer' = [layer EXCEPT ![r] = FALSE]
          /\ UNCHANGED cur

\* done_wait returns: a decoupled op still has its completions to collect.
SeeDone(r) ==
  LET outcome == EngineWait(r, done[r], cur[r]) IN
  /\ epc[r] = "done"
  /\ outcome # "spin"
  /\ IF outcome = "ok" /\ Blocking(r) THEN FinishOp(r)
     ELSE /\ epc' = [epc EXCEPT ![r] = IF outcome = "ok" THEN "reap" ELSE "err"]
          /\ UNCHANGED <<cur, layer, completed>>
  /\ UNCHANGED <<last, kernelVars, linkVars, dataVars>>

\* The two reap_bell at the end of a decoupled op.
ReapTail(r) ==
  /\ epc[r] = "reap"
  /\ \A l \in Links : Signalled(r, l)
  /\ IF \A l \in Links : reaped[r][l] = cur[r] - 1
     THEN /\ reaped' = [reaped EXCEPT ![r] = [l \in Links |-> cur[r]]]
          /\ FinishOp(r)
     ELSE /\ epc' = [epc EXCEPT ![r] = "err"]
          /\ UNCHANGED <<reaped, cur, layer, completed>>
  /\ UNCHANGED <<last, kernelVars, sendDone, posted, placed, rung, dataVars>>

----------------------------------------------------------------------------
(* Kernel: the kernels of a rank run one after the other on its stream. *)

\* The sequence number of the next kernel: the host's in the multi-block
\* variant, which leaves the claim counter alone; else a claim.
FromHost(r) == ~layer[r] /\ kop[r] + 1 \in MultiOps

Stage(r) ==
  LET op == kop[r] + 1
      seq == IF FromHost(r) THEN op ELSE claim[r] + 1
  IN
  /\ kpc[r] = "idle"
  /\ op <= last[r]
  /\ kop' = [kop EXCEPT ![r] = op]
  /\ claim' = [claim EXCEPT ![r] = IF FromHost(r) THEN @ ELSE seq]
  /\ kseq' = [kseq EXCEPT ![r] = seq]
  /\ send' = [send EXCEPT ![r]["A"][SlotOf(seq)] = buf[r][op]]
  /\ producer' = [producer EXCEPT ![r] = seq]
  /\ kpc' = [kpc EXCEPT ![r] = "waitA"]
  /\ UNCHANGED <<engineVars, linkVars, arm1, done, recv, buf>>

\* The wait of a round ends: go on to reduce, or report dev_err and stop.
Arrive(r, l) ==
  LET outcome == KernelWait(r, l) IN
  /\ kpc[r] = IF l = "A" THEN "waitA" ELSE "waitB"
  /\ outcome # "spin"
  /\ kpc' = [kpc EXCEPT ![r] = IF outcome = "protocol" THEN "err"
                               ELSE IF l = "A" THEN "addA" ELSE "addB"]
  /\ UNCHANGED <<engineVars, linkVars, dataVars,
                 kop, kseq, claim, producer, arm1, done>>

\* sB = sA + rA, then arm1.
ReduceA(r) ==
  LET s == SlotOf(kseq[r]) IN
  /\ kpc[r] = "addA"
  /\ send' = [send EXCEPT ![r]["B"][s] =
                Add(send[r]["A"][s], Gather(recv[r]["A"][s]))]
  /\ arm1' = [arm1 EXCEPT ![r] = kseq[r]]
  /\ kpc' = [kpc EXCEPT ![r] = "waitB"]
  /\ UNCHANGED <<engineVars, linkVars, kop, kseq, claim, producer, done, recv, buf>>

\* x = sB + rB, then done.
ReduceB(r) ==
  LET s == SlotOf(kseq[r]) IN
  /\ kpc[r] = "addB"
  /\ buf' = [buf EXCEPT ![r][kop[r]] =
               Add(send[r]["B"][s], Gather(recv[r]["B"][s]))]
  /\ done' = [done EXCEPT ![r] = kseq[r]]
  /\ kpc' = [kpc EXCEPT ![r] = "idle"]
  /\ UNCHANGED <<engineVars, linkVars, kop, kseq, claim, producer, arm1, send, recv>>

----------------------------------------------------------------------------
(* NIC: in-order placement on every queue pair. The send slot is read when *)
(* the segment is sent, not when it is posted.                             *)

Place(r, l, q) ==
  LET seq == placed[r][l][q] + 1
      s == SlotOf(seq)
  IN
  /\ placed[r][l][q] < posted[r][l]
  /\ placed[r][l][q] = rung[r][l][q]
  /\ recv' = [recv EXCEPT ![PeerOf(r, l)][l][s][q] = send[r][l][s]]
  /\ placed' = [placed EXCEPT ![r][l][q] = seq]
  /\ UNCHANGED <<engineVars, kernelVars, sendDone, posted, rung, reaped, send, buf>>

\* Variant for a mutant: the doorbell does not wait for the data segment.
EagerRing(r, l, q) ==
  /\ rung[r][l][q] < posted[r][l]
  /\ rung' = [rung EXCEPT ![r][l][q] = @ + 1]
  /\ UNCHANGED <<engineVars, kernelVars, sendDone, posted, placed, reaped, dataVars>>

Ring(r, l, q) ==
  /\ rung[r][l][q] < placed[r][l][q]
  /\ rung' = [rung EXCEPT ![r][l][q] = @ + 1]
  /\ UNCHANGED <<engineVars, kernelVars, sendDone, posted, placed, reaped, dataVars>>

----------------------------------------------------------------------------

Init ==
  /\ epc = [r \in Ranks |-> "idle"]
  /\ cur = [r \in Ranks |-> 0]
  /\ last = [r \in Ranks |-> 0]
  /\ layer = [r \in Ranks |-> FALSE]
  /\ completed = [r \in Ranks |-> 0]
  /\ kpc = [r \in Ranks |-> "idle"]
  /\ kop = [r \in Ranks |-> 0]
  /\ kseq = [r \in Ranks |-> 0]
  /\ claim = [r \in Ranks |-> 0]
  /\ producer = [r \in Ranks |-> 0]
  /\ arm1 = [r \in Ranks |-> 0]
  /\ done = [r \in Ranks |-> 0]
  /\ sendDone = [r \in Ranks |-> [l \in Links |-> 0]]
  /\ posted = [r \in Ranks |-> [l \in Links |-> 0]]
  /\ placed = [r \in Ranks |-> [l \in Links |-> [q \in QPs |-> 0]]]
  /\ rung = [r \in Ranks |-> [l \in Links |-> [q \in QPs |-> 0]]]
  /\ reaped = [r \in Ranks |-> [l \in Links |-> 0]]
  /\ send = [r \in Ranks |-> [l \in Links |-> [s \in Slots |-> {}]]]
  /\ recv = [r \in Ranks |-> [l \in Links |-> [s \in Slots |-> [q \in QPs |-> {}]]]]
  /\ buf = [r \in Ranks |-> [m \in 1..MaxOps |-> Own(r, m)]]

Call(r) == Submit(r) \/ Replay(r)

Engine(r) ==
  \/ \E l \in Links : Post(r, l) \/ Release(r, l)
  \/ SeeDone(r)
  \/ ReapTail(r)

Kernel(r) ==
  \/ Stage(r)
  \/ \E l \in Links : Arrive(r, l)
  \/ ReduceA(r)
  \/ ReduceB(r)

Nic(r, l, q) == Place(r, l, q) \/ Ring(r, l, q)

\* The workload is over: the only way the system may stop.
Finished ==
  /\ \A r \in Ranks : epc[r] = "idle" /\ last[r] = MaxOps
  /\ UNCHANGED vars

Next ==
  \/ \E r \in Ranks : Call(r) \/ Engine(r) \/ Kernel(r)
  \/ \E r \in Ranks, l \in Links, q \in QPs : Nic(r, l, q)
  \/ Finished

Spec == Init /\ [][Next]_vars

\* The engine polls, the stream runs its kernels and the NIC transmits on
\* their own; whether a rank calls is the application's business.
Fairness ==
  /\ \A r \in Ranks : WF_vars(Engine(r)) /\ WF_vars(Kernel(r))
  /\ \A r \in Ranks, l \in Links, q \in QPs : WF_vars(Nic(r, l, q))

FairSpec == Spec /\ Fairness

----------------------------------------------------------------------------
(* Properties *)

EngineType ==
  /\ epc \in [Ranks -> {"idle", "producer", "postedA", "arm1", "postedB",
                        "done", "reap", "err"}]
  /\ cur \in [Ranks -> Nat]
  /\ last \in [Ranks -> 0..MaxOps]
  /\ layer \in [Ranks -> BOOLEAN]
  /\ completed \in [Ranks -> Nat]

KernelType ==
  /\ kpc \in [Ranks -> {"idle", "waitA", "addA", "waitB", "addB", "err"}]
  /\ kop \in [Ranks -> 0..MaxOps]
  /\ kseq \in [Ranks -> Nat]
  /\ claim \in [Ranks -> Nat]
  /\ producer \in [Ranks -> Nat]
  /\ arm1 \in [Ranks -> Nat]
  /\ done \in [Ranks -> Nat]

LinkType ==
  /\ sendDone \in [Ranks -> [Links -> Nat]]
  /\ posted \in [Ranks -> [Links -> Nat]]
  /\ placed \in [Ranks -> [Links -> [QPs -> Nat]]]
  /\ rung \in [Ranks -> [Links -> [QPs -> Nat]]]
  /\ reaped \in [Ranks -> [Links -> Nat]]

DataType ==
  /\ send \in [Ranks -> [Links -> [Slots -> SUBSET Contributions]]]
  /\ recv \in [Ranks -> [Links -> [Slots -> [QPs -> SUBSET Contributions]]]]
  /\ buf \in [Ranks -> [1..MaxOps -> SUBSET Contributions]]

\* Every variable stays in its type; seq_ never runs past the ops the
\* application called (allreduce_one, layer_drive).
TypeOK == EngineType /\ KernelType /\ LinkType /\ DataType

\* What rank r sends on link l for op m.
Partial(r, l, m) ==
  IF l = "A" THEN Own(r, m) ELSE Own(r, m) \cup Own(PeerOf(r, "A"), m)

\* No interleaving of the four ranks makes a kernel or an engine report a
\* protocol error: a doorbell is never more than one op ahead of the wait
\* (wait_two, wait_flag), a word of the own rank never overshoots
\* (engine_wait), no completion is left over for a later op (reap_bell).
NoProtocolError == \A r \in Ranks : epc[r] # "err" /\ kpc[r] # "err"

\* A caller's buffer holds its input or the sum over all the ranks, nothing
\* in between and nothing else, and the sum once the call has returned.
BufInputOrSum ==
  \A r \in Ranks, m \in 1..MaxOps :
    /\ buf[r][m] \in {Own(r, m), Total(m)}
    /\ m <= completed[r] => buf[r][m] = Total(m)

\* A send slot keeps the data of a posted burst until the NIC has read it,
\* although later ops reuse the slot.
SendSlotsIntact ==
  \A r \in Ranks, l \in Links, q \in QPs :
    \A m \in (placed[r][l][q] + 1)..posted[r][l] :
      send[r][l][SlotOf(m)] = Partial(r, l, m)

\* While the kernel reduces, the receive slot it reads holds its peer's data
\* of the same op: the peer, one op ahead at most, never overwrites it.
RecvSlotsIntact ==
  \A r \in Ranks :
    LET s == SlotOf(kseq[r])
        Reads(l) == Gather(recv[r][l][s]) = Partial(PeerOf(r, l), l, kseq[r])
    IN /\ kpc[r] = "addA" => Reads("A")
       /\ kpc[r] = "addB" => Reads("B")

SlotsIntact == SendSlotsIntact /\ RecvSlotsIntact

\* The kernel writes the caller's buffer only after this rank's engine has
\* posted both bursts of that op and released send_done: an engine that
\* fails before the release of link B returns an untouched buffer.
WriteBackLast ==
  [][\A r \in Ranks, m \in 1..MaxOps :
       buf'[r][m] # buf[r][m] =>
         /\ \A l \in Links : posted[r][l] >= m /\ sendDone[r][l] >= m
         /\ epc[r] = "done" /\ cur[r] = m]_vars

\* The engine implements the abstract all-reduce: an op is entered when its
\* kernel stages the input and reduced when its kernel publishes done.
AR == INSTANCE AllReduce WITH entered <- kop, reduced <- done

ImplementsAllReduce == AR!Spec

\* An op that every rank calls returns on every rank.
OpsComplete ==
  \A m \in 1..MaxOps :
    (\A r \in Ranks : last[r] >= m) ~> (\A r \in Ranks : completed[r] >= m)
=============================================================================
