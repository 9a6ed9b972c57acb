---------------------------- MODULE MultiBlock -----------------------------
(***************************************************************************)
(* The multi-block kernel of src/src/ar2-engine/ar2_dev_cuda.cu            *)
(* (ar2_fused_kernel_mb, launch_multi) on one rank, with the engine that   *)
(* launches it and the doorbells of its two peers.                         *)
(*                                                                         *)
(* The blocks of a kernel share an op: each copies or reduces its shard,   *)
(* counts itself at the arrival counter of the phase, and the one that     *)
(* counts to the target publishes the word the engine waits for.  Nothing  *)
(* holds the blocks together: each waits for the doorbell on its own.  The *)
(* counters are never reset; the host moves the target by the number of    *)
(* blocks of each op it launches.                                          *)
(*                                                                         *)
(* Phase 1 stages the input (word producer), phase 2 reduces what link A   *)
(* brought (word arm1), phase 3 what link B brought, into the caller's     *)
(* buffer (word done).                                                     *)
(*                                                                         *)
(* Only the first thread of a block waits, and what it finds (err_sh) is   *)
(* a variable of its own: when it leaves with an error, the other threads  *)
(* of the block go on and wait for nothing.                                *)
(***************************************************************************)
EXTENDS Integers, Sequences, FiniteSets

CONSTANT Blocks   \* Blocks[m]: the number of blocks of op m, nblk_for

Phases == 1..3

VARIABLES
  op,       \* the op the engine is at
  beat,     \* the phase whose word it waits for, 0 between ops
  failed,   \* the op failed: both abort words are set
  total,    \* arr_total: the arrivals of all the kernels launched
  arr,      \* arr[p]:  the arrival counter of phase p
  word,     \* word[p]: producer, arm1, done
  blk,      \* blk[b]:  where block b is, in which phase
  shards,   \* shards[p]: the blocks that have written their shard of this op
  spoiled,  \* the blocks whose other threads wrote the buffer after an error
  bell,     \* bell[p]: the doorbell awaited in phase 2 (link A) and 3 (link B)
  aborted   \* the doorbell words a peer has overwritten with ABORT

engineVars == <<op, beat, failed, total>>
kernelVars == <<arr, word, blk, shards, spoiled>>
peerVars == <<bell, aborted>>
vars == <<engineVars, kernelVars, peerVars>>

At(p, step) == [phase |-> p, step |-> step]
Over == At(4, "over")

\* Every block has ended, or left with a dev_err.
Ids == DOMAIN blk
Stopped == \A b \in Ids : blk[b].step \in {"over", "left"}

Init ==
  /\ op = 0 /\ beat = 0 /\ failed = FALSE /\ total = 0
  /\ arr = [p \in Phases |-> 0]
  /\ word = [p \in Phases |-> 0]
  /\ blk = [b \in {} |-> Over]
  /\ shards = [p \in Phases |-> {}]
  /\ spoiled = {}
  /\ bell = [p \in {2, 3} |-> 0]
  /\ aborted = {}

-----------------------------------------------------------------------------
(* The engine. *)

\* launch_multi: the kernel follows the last one on its stream.
Submit ==
  /\ beat = 0 /\ ~failed /\ Stopped
  /\ op < Len(Blocks)
  /\ op' = op + 1
  /\ beat' = 1
  /\ total' = total + Blocks[op + 1]
  /\ blk' = [b \in 1 .. Blocks[op + 1] |-> At(1, "write")]
  /\ shards' = [p \in Phases |-> {}]
  /\ spoiled' = {}
  /\ UNCHANGED <<failed, arr, word, peerVars>>

\* The awaited word has come: the engine posts the burst and releases
\* send_done, or the op is done.
Advance ==
  /\ beat # 0 /\ ~failed
  /\ word[beat] = op
  /\ beat' = IF beat = 3 THEN 0 ELSE beat + 1
  /\ UNCHANGED <<op, failed, total, kernelVars, peerVars>>

\* engine_wait gives up, for whatever reason; abort_path. The kernel runs on.
GiveUp ==
  /\ beat # 0 /\ ~failed
  /\ word[beat] # op
  /\ failed' = TRUE
  /\ UNCHANGED <<op, beat, total, kernelVars, peerVars>>

\* send_done of the link that is awaited in phase p.
Released(p) == beat = 0 \/ beat >= p

-----------------------------------------------------------------------------
(* The blocks. *)

Go(b, place) == blk' = [blk EXCEPT ![b] = place]
After(p) == IF p = 3 THEN Over ELSE At(p + 1, "wait")

\* Stage, reduce or write back the shard.
Write(b, p) ==
  /\ blk[b] = At(p, "write")
  /\ shards' = [shards EXCEPT ![p] = @ \cup {b}]
  /\ Go(b, At(p, "arrive"))
  /\ UNCHANGED <<engineVars, arr, word, spoiled, peerVars>>

\* Variant for a mutant: the target of a kernel of two blocks.
FixedTarget == total - Blocks[op] + 2

\* The count at which every block of this kernel has arrived.
Target == total

\* atomicAdd_system: the last one to arrive publishes.
Arrive(b, p) ==
  /\ blk[b] = At(p, "arrive")
  /\ arr' = [arr EXCEPT ![p] = @ + 1]
  /\ Go(b, IF arr[p] + 1 = Target THEN At(p, "publish") ELSE After(p))
  /\ UNCHANGED <<engineVars, word, shards, spoiled, peerVars>>

Publish(b, p) ==
  /\ blk[b] = At(p, "publish")
  /\ word' = [word EXCEPT ![p] = op]
  /\ Go(b, After(p))
  /\ UNCHANGED <<engineVars, arr, shards, spoiled, peerVars>>

\* wait_two: the doorbell first, the abort word only while there is nothing
\* to go on with.
Outcome(p) ==
  IF p \in aborted THEN "abort"
  ELSE IF bell[p] >= op /\ Released(p) THEN "ok"
  ELSE IF failed THEN "abort" ELSE "spin"

Wait(b, p) ==
  /\ blk[b] = At(p, "wait")
  /\ Outcome(p) # "spin"
  /\ Go(b, At(p, IF Outcome(p) = "ok" THEN "write" ELSE "rest"))
  /\ UNCHANGED <<engineVars, arr, word, shards, spoiled, peerVars>>

\* The first thread has set dev_err and returned; the others, whose err_sh is
\* still 0, pass the barriers without it and write sB and the buffer.
Rest(b, p) ==
  /\ blk[b] = At(p, "rest")
  /\ spoiled' = spoiled \cup {b}
  /\ Go(b, At(p, "left"))
  /\ UNCHANGED <<engineVars, arr, word, shards, peerVars>>

Block(b, p) ==
  Write(b, p) \/ Arrive(b, p) \/ Publish(b, p) \/ Wait(b, p) \/ Rest(b, p)

-----------------------------------------------------------------------------
(* The peers. *)

\* A peer rings for its next op. It is never more than one op ahead, and not
\* even that before the burst it needs from this rank: see Ar2Core.
Ring(p) ==
  /\ p \notin aborted
  /\ bell[p] <= op
  /\ bell' = [bell EXCEPT ![p] = @ + 1]
  /\ UNCHANGED <<engineVars, kernelVars, aborted>>

PeerAborts(p) ==
  /\ p \notin aborted
  /\ aborted' = aborted \cup {p}
  /\ UNCHANGED <<engineVars, kernelVars, bell>>

\* Nothing is left to do on this rank.
Finished ==
  /\ Stopped
  /\ ~failed => beat = 0 /\ op = Len(Blocks)
  /\ UNCHANGED vars

Next ==
  \/ Submit \/ Advance \/ GiveUp
  \/ \E b \in Ids, p \in Phases : Block(b, p)
  \/ \E p \in {2, 3} : Ring(p) \/ PeerAborts(p)
  \/ Finished

Spec == Init /\ [][Next]_vars

-----------------------------------------------------------------------------
(* Properties. *)

\* What the engine sends and returns is whole: a published word is behind the
\* shards of all the blocks of its op, and no block that met no error writes
\* into the caller's buffer before all of them have staged and reduced what was
\* in it. The counters of ops with different numbers of blocks follow on one
\* another.
PublishedWhole ==
  /\ \A p \in Phases : op > 0 /\ word[p] = op => shards[p] = Ids
  /\ shards[3] # {} => shards[1] = Ids /\ shards[2] = Ids

\* A failed op has not been written back, so that it can be run again on the
\* same buffer once its kernel has ended: what the hook does (ERROR-MODEL.md,
\* section 7.1). It does not hold: the other threads of a block that was told
\* to stop write the buffer.
FailedKeepsInput == failed /\ Stopped => shards[3] = {} /\ spoiled = {}
=============================================================================
