----------------------------- MODULE Ar2CoreInv -----------------------------
(***************************************************************************)
(* The inductive invariant behind the safety properties of Ar2Core: what   *)
(* every counter of a rank says of the counters of its neighbours. It      *)
(* holds of the supported configurations: two slots at least, and no op    *)
(* that claims its sequence number after one that has it from the host.    *)
(***************************************************************************)
EXTENDS Ar2Core

\* Small ops never follow multi-block ones, and layers are not mixed with
\* multi-block ops.
Supported ==
  /\ NSlots >= 2
  /\ \A m \in MultiOps, n \in 1..MaxOps : m <= n => n \in MultiOps
  /\ MultiOps = {} \/ Captured = {}

----------------------------------------------------------------------------
(* The inductive invariant *)

\* Sequence numbers: host, claim counter and op agree; the kernel has
\* published exactly the words of the rounds it is past.
KernelInv(r) ==
  /\ kseq[r] = kop[r]
  /\ kop[r] \in MultiOps \/ claim[r] = kop[r]
  /\ kop[r] <= last[r]
  /\ producer[r] = kop[r]
  /\ kpc[r] \in {"idle", "waitA", "addA", "waitB", "addB"}
  /\ kpc[r] = "idle" => arm1[r] = kop[r] /\ done[r] = kop[r]
  /\ kpc[r] \in {"waitA", "addA"} => arm1[r] = kop[r] - 1 /\ done[r] = kop[r] - 1
  /\ kpc[r] \in {"waitB", "addB"} => arm1[r] = kop[r] /\ done[r] = kop[r] - 1

Reaped(r) == IF Blocking(r) THEN cur[r] ELSE cur[r] - 1

\* What the engine has posted, released and collected at each beat.
EngineInv(r) ==
  /\ layer[r] => r \in Captured
  /\ cur[r] <= last[r]
  /\ ~layer[r] => cur[r] = last[r]
  /\ epc[r] # "err"
  /\ epc[r] = "idle" =>
       /\ cur[r] = last[r] /\ completed[r] = cur[r] /\ done[r] >= cur[r]
       /\ \A l \in Links : posted[r][l] = cur[r] /\ sendDone[r][l] = cur[r]
                           /\ reaped[r][l] = cur[r]
  /\ epc[r] # "idle" =>
       /\ cur[r] >= 1 /\ completed[r] = cur[r] - 1 /\ done[r] >= cur[r] - 1
  /\ epc[r] = "producer" =>
       \A l \in Links : posted[r][l] = cur[r] - 1 /\ sendDone[r][l] = cur[r] - 1
                        /\ reaped[r][l] = cur[r] - 1
  /\ epc[r] \in {"postedA", "arm1"} =>
       /\ producer[r] >= cur[r]
       /\ posted[r]["A"] = cur[r] /\ posted[r]["B"] = cur[r] - 1
       /\ sendDone[r]["B"] = cur[r] - 1 /\ reaped[r]["B"] = cur[r] - 1
  /\ epc[r] = "postedA" =>
       sendDone[r]["A"] = cur[r] - 1 /\ reaped[r]["A"] = cur[r] - 1
  /\ epc[r] \in {"arm1", "postedB", "done"} =>
       sendDone[r]["A"] = cur[r] /\ reaped[r]["A"] = Reaped(r)
  /\ epc[r] \in {"postedB", "done"} =>
       /\ arm1[r] >= cur[r]
       /\ posted[r]["A"] = cur[r] /\ posted[r]["B"] = cur[r]
  /\ epc[r] = "postedB" =>
       sendDone[r]["B"] = cur[r] - 1 /\ reaped[r]["B"] = cur[r] - 1
  /\ epc[r] = "done" =>
       sendDone[r]["B"] = cur[r] /\ reaped[r]["B"] = Reaped(r)
  /\ epc[r] = "reap" =>
       /\ ~Blocking(r) /\ done[r] >= cur[r]
       /\ \A l \in Links : posted[r][l] = cur[r] /\ sendDone[r][l] = cur[r]
                           /\ reaped[r][l] = cur[r] - 1

\* The kernel passes a round only after send_done, and never starts an op
\* before the bursts of the previous one have left the send slots.
GateInv(r) ==
  /\ arm1[r] <= sendDone[r]["A"]
  /\ done[r] <= sendDone[r]["B"]
  /\ kpc[r] = "addA" => kop[r] <= sendDone[r]["A"]
  /\ kpc[r] = "addB" => kop[r] <= sendDone[r]["B"]
  /\ \A l \in Links : reaped[r][l] >= kop[r] - 1

\* The word the peer's doorbell on link l has let rank r publish.
Passed(r, l) == IF l = "A" THEN arm1[r] ELSE done[r]
Adding(r, l) == kpc[r] = IF l = "A" THEN "addA" ELSE "addB"

\* The life of a burst: posted, placed, rung, reaped; and what its doorbell
\* has let the peer do.
LinkInv(r, l, q) ==
  /\ reaped[r][l] <= rung[r][l][q]
  /\ rung[r][l][q] <= placed[r][l][q]
  /\ placed[r][l][q] <= rung[r][l][q] + 1
  /\ placed[r][l][q] <= posted[r][l]
  /\ Passed(PeerOf(r, l), l) <= rung[r][l][q]
  /\ Adding(PeerOf(r, l), l) => kop[PeerOf(r, l)] <= rung[r][l][q]

ControlInv ==
  \A r \in Ranks :
    /\ KernelInv(r) /\ EngineInv(r) /\ GateInv(r)
    /\ \A l \in Links, q \in QPs : LinkInv(r, l, q)

SendInv(r) ==
  /\ kop[r] >= 1 => send[r]["A"][SlotOf(kop[r])] = Partial(r, "A", kop[r])
  /\ arm1[r] >= 1 => send[r]["B"][SlotOf(arm1[r])] = Partial(r, "B", arm1[r])

\* Every segment rank r has placed and its peer has not reduced yet is whole.
RecvInv(r, l, q) ==
  \A m \in 1..MaxOps :
    Passed(PeerOf(r, l), l) < m /\ m <= placed[r][l][q] =>
      recv[PeerOf(r, l)][l][SlotOf(m)][q] = Partial(r, l, m)

BufInv(r) ==
  \A m \in 1..MaxOps : buf[r][m] = IF m <= done[r] THEN Total(m) ELSE Own(r, m)

DataInv ==
  \A r \in Ranks :
    /\ SendInv(r) /\ BufInv(r)
    /\ \A l \in Links, q \in QPs : RecvInv(r, l, q)

IInv == TypeOK /\ ControlInv /\ DataInv
=============================================================================
