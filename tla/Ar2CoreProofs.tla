--------------------------- MODULE Ar2CoreProofs ---------------------------
(***************************************************************************)
(* Proofs about Ar2Core, in three parts.  It is type correct for every     *)
(* value of its constants; the inductive invariant of Ar2CoreInv is one in *)
(* every supported configuration, and the safety properties follow from    *)
(* it; the engine implements the abstract all-reduce of AllReduce and      *)
(* writes a caller's buffer only at the very end of the op.                *)
(***************************************************************************)
EXTENDS Ar2CoreInv, TLAPS

----------------------------------------------------------------------------
(* Helpers *)

LEMMA PeerFacts ==
  /\ \A r \in Ranks, l \in Links : PeerOf(r, l) \in Ranks
  /\ \A r \in Ranks, l \in Links : PeerOf(PeerOf(r, l), l) = r
  /\ \A r \in Ranks : PeerOf(r, "A") # PeerOf(r, "B")
BY DEF Ranks, Links, PeerOf

LEMMA SlotType == \A m \in Nat : SlotOf(m) \in Slots
BY ConstantsAssumption DEF SlotOf, Slots

LEMMA GatherType ==
  ASSUME NEW stripes \in [QPs -> SUBSET Contributions]
  PROVE  Gather(stripes) \in SUBSET Contributions
<1>1. 0 \in QPs
  BY ConstantsAssumption DEF QPs
<1> QED
  BY <1>1 DEF Gather

LEMMA AddType ==
  ASSUME NEW a \in SUBSET Contributions, NEW b \in SUBSET Contributions
  PROVE  Add(a, b) \in SUBSET Contributions
BY DEF Add

LEMMA OwnType == \A r \in Ranks, m \in 1..MaxOps : Own(r, m) \in SUBSET Contributions
BY DEF Own, Contributions

----------------------------------------------------------------------------
(* Every action keeps every variable in its type *)

LEMMA TypeInit == Init => TypeOK
BY OwnType, ConstantsAssumption DEF Init, TypeOK, EngineType, KernelType, LinkType, DataType

LEMMA FinishType ==
  ASSUME EngineType, NEW r \in Ranks, FinishOp(r), last' = last
  PROVE  EngineType'
<1>1. completed' \in [Ranks -> Nat]
  BY DEF EngineType, FinishOp
<1>2. CASE cur[r] < last[r]
  BY <1>1, <1>2 DEF EngineType, FinishOp
<1>3. CASE ~(cur[r] < last[r])
  BY <1>1, <1>3 DEF EngineType, FinishOp
<1> QED
  BY <1>2, <1>3

LEMMA TypeNext == TypeOK /\ [Next]_vars => TypeOK'
<1> SUFFICES ASSUME TypeOK, [Next]_vars
             PROVE  TypeOK'
  OBVIOUS
<1> USE DEF TypeOK
<1>1. ASSUME NEW r \in Ranks, Submit(r)
      PROVE  TypeOK'
  <2>1. EngineType'
    BY <1>1, ConstantsAssumption DEF EngineType, Submit
  <2>2. KernelType'
    BY <1>1 DEF KernelType, Submit, kernelVars, linkVars, dataVars
  <2>3. LinkType'
    BY <1>1 DEF LinkType, Submit, kernelVars, linkVars, dataVars
  <2>4. DataType'
    BY <1>1 DEF DataType, Submit, kernelVars, linkVars, dataVars
  <2> QED
    BY <2>1, <2>2, <2>3, <2>4 DEF TypeOK
<1>2. ASSUME NEW r \in Ranks, Replay(r)
      PROVE  TypeOK'
  <2>1. EngineType'
    BY <1>2, ConstantsAssumption DEF EngineType, Replay
  <2>2. KernelType'
    BY <1>2 DEF KernelType, Replay, kernelVars, linkVars, dataVars
  <2>3. LinkType'
    BY <1>2 DEF LinkType, Replay, kernelVars, linkVars, dataVars
  <2>4. DataType'
    BY <1>2 DEF DataType, Replay, kernelVars, linkVars, dataVars
  <2> QED
    BY <2>1, <2>2, <2>3, <2>4 DEF TypeOK
<1>3. ASSUME NEW r \in Ranks, NEW l \in Links, Post(r, l)
      PROVE  TypeOK'
  <2>1. EngineType'
    BY <1>3 DEF EngineType, Post, PostedBeat, kernelVars, dataVars
  <2>2. KernelType'
    BY <1>3 DEF KernelType, Post, PostedBeat, kernelVars, dataVars
  <2>3. LinkType'
    <3>1. posted' \in {posted, [posted EXCEPT ![r][l] = cur[r]]}
      BY <1>3 DEF Post
    <3>2. posted \in [Ranks -> [Links -> Nat]] /\ cur[r] \in Nat
      BY DEF LinkType, EngineType
    <3>3. posted' \in [Ranks -> [Links -> Nat]]
      BY <3>1, <3>2
    <3> QED
      BY <1>3, <3>3 DEF LinkType, Post
  <2>4. DataType'
    BY <1>3 DEF DataType, Post, PostedBeat, kernelVars, dataVars
  <2> QED
    BY <2>1, <2>2, <2>3, <2>4 DEF TypeOK
<1>4. ASSUME NEW r \in Ranks, NEW l \in Links, Release(r, l)
      PROVE  TypeOK'
  <2>1. EngineType'
    BY <1>4 DEF EngineType, Release, NextBeat, kernelVars, dataVars
  <2>2. KernelType'
    BY <1>4 DEF KernelType, Release, NextBeat, kernelVars, dataVars
  <2>3. LinkType'
    <3>1. /\ sendDone' \in {sendDone, [sendDone EXCEPT ![r][l] = cur[r]]}
          /\ reaped' \in {reaped, [reaped EXCEPT ![r][l] = cur[r]],
                          [reaped EXCEPT ![r][l] = reaped[r][l]]}
          /\ UNCHANGED <<posted, placed, rung>>
      BY <1>4 DEF Release
    <3>2. /\ sendDone \in [Ranks -> [Links -> Nat]]
          /\ reaped \in [Ranks -> [Links -> Nat]]
          /\ cur[r] \in Nat
      BY DEF LinkType, EngineType
    <3>3. sendDone' \in [Ranks -> [Links -> Nat]]
      BY <3>1, <3>2
    <3>4. reaped' \in [Ranks -> [Links -> Nat]]
      BY <3>1, <3>2
    <3> QED
      BY <3>1, <3>3, <3>4 DEF LinkType
  <2>4. DataType'
    BY <1>4 DEF DataType, Release, NextBeat, kernelVars, dataVars
  <2> QED
    BY <2>1, <2>2, <2>3, <2>4 DEF TypeOK
<1>5. ASSUME NEW r \in Ranks, SeeDone(r)
      PROVE  TypeOK'
  <2>1. EngineType'
    <3>1. \/ FinishOp(r)
          \/ epc' = [epc EXCEPT ![r] = "err"] /\ UNCHANGED <<cur, layer, completed>>
          \/ epc' = [epc EXCEPT ![r] = "reap"] /\ UNCHANGED <<cur, layer, completed>>
      BY <1>5 DEF SeeDone
    <3>2. last' = last
      BY <1>5 DEF SeeDone
    <3> QED
      BY <3>1, <3>2, FinishType DEF EngineType
  <2>2. KernelType'
    BY <1>5 DEF KernelType, SeeDone, FinishOp, kernelVars, linkVars, dataVars
  <2>3. LinkType'
    BY <1>5 DEF LinkType, SeeDone, FinishOp, kernelVars, linkVars, dataVars
  <2>4. DataType'
    BY <1>5 DEF DataType, SeeDone, FinishOp, kernelVars, linkVars, dataVars
  <2> QED
    BY <2>1, <2>2, <2>3, <2>4 DEF TypeOK
<1>6. ASSUME NEW r \in Ranks, ReapTail(r)
      PROVE  TypeOK'
  <2>1. EngineType'
    <3>1. \/ FinishOp(r)
          \/ epc' = [epc EXCEPT ![r] = "err"] /\ UNCHANGED <<cur, layer, completed>>
      <4>1. CASE \A l \in Links : reaped[r][l] = cur[r] - 1
        BY <1>6, <4>1 DEF ReapTail
      <4>2. CASE ~(\A l \in Links : reaped[r][l] = cur[r] - 1)
        BY <1>6, <4>2 DEF ReapTail
      <4> QED
        BY <4>1, <4>2
    <3>2. last' = last
      BY <1>6 DEF ReapTail
    <3> QED
      BY <3>1, <3>2, FinishType DEF EngineType
  <2>2. KernelType'
    BY <1>6 DEF KernelType, ReapTail, FinishOp, kernelVars, dataVars
  <2>3. LinkType'
    <3>1. /\ reaped' \in {reaped, [reaped EXCEPT ![r] = [l \in Links |-> cur[r]]]}
          /\ UNCHANGED <<sendDone, posted, placed, rung>>
      BY <1>6 DEF ReapTail
    <3>2. reaped \in [Ranks -> [Links -> Nat]] /\ cur[r] \in Nat
      BY DEF LinkType, EngineType
    <3>3. reaped' \in [Ranks -> [Links -> Nat]]
      BY <3>1, <3>2
    <3> QED
      BY <3>1, <3>3 DEF LinkType
  <2>4. DataType'
    BY <1>6 DEF DataType, ReapTail, FinishOp, kernelVars, dataVars
  <2> QED
    BY <2>1, <2>2, <2>3, <2>4 DEF TypeOK
<1>7. ASSUME NEW r \in Ranks, Stage(r)
      PROVE  TypeOK'
  <2>1. EngineType'
    BY <1>7, SlotType DEF EngineType, Stage, engineVars, linkVars, Links
  <2>2. KernelType'
    BY <1>7, ConstantsAssumption DEF EngineType, KernelType, Stage
  <2>3. LinkType'
    BY <1>7, SlotType DEF LinkType, Stage, engineVars, linkVars, Links
  <2>4. DataType'
    <3> DEFINE op == kop[r] + 1
               seq == IF FromHost(r) THEN op ELSE claim[r] + 1
    <3>1. op \in 1..MaxOps /\ seq \in Nat
      BY <1>7, ConstantsAssumption DEF Stage, KernelType, EngineType
    <3>2. buf[r][op] \in SUBSET Contributions /\ SlotOf(seq) \in Slots
      BY <3>1, SlotType DEF DataType
    <3>3. /\ send' = [send EXCEPT ![r]["A"][SlotOf(seq)] = buf[r][op]]
          /\ recv' = recv /\ buf' = buf
      BY <1>7 DEF Stage
    <3> HIDE DEF op, seq
    <3> QED
      BY <3>2, <3>3 DEF DataType, Links
  <2> QED
    BY <2>1, <2>2, <2>3, <2>4 DEF TypeOK
<1>8. ASSUME NEW r \in Ranks, NEW l \in Links, Arrive(r, l)
      PROVE  TypeOK'
  <2>1. EngineType'
    BY <1>8 DEF EngineType, Arrive, engineVars, linkVars, dataVars
  <2>2. KernelType'
    BY <1>8 DEF KernelType, Arrive, engineVars, linkVars, dataVars
  <2>3. LinkType'
    BY <1>8 DEF LinkType, Arrive, engineVars, linkVars, dataVars
  <2>4. DataType'
    BY <1>8 DEF DataType, Arrive, engineVars, linkVars, dataVars
  <2> QED
    BY <2>1, <2>2, <2>3, <2>4 DEF TypeOK
<1>9. ASSUME NEW r \in Ranks, ReduceA(r)
      PROVE  TypeOK'
  <2>1. EngineType'
    BY <1>9 DEF EngineType, ReduceA, engineVars, linkVars
  <2>2. KernelType'
    BY <1>9 DEF KernelType, ReduceA, engineVars, linkVars
  <2>3. LinkType'
    BY <1>9 DEF LinkType, ReduceA, engineVars, linkVars
  <2>4. DataType'
    <3> DEFINE a == send[r]["A"][SlotOf(kseq[r])]
               stripes == recv[r]["A"][SlotOf(kseq[r])]
               b == Gather(stripes)
    <3>1. a \in SUBSET Contributions /\ b \in SUBSET Contributions
      <4>1. SlotOf(kseq[r]) \in Slots /\ "A" \in Links
        BY SlotType DEF KernelType, Links
      <4>2. a \in SUBSET Contributions /\ stripes \in [QPs -> SUBSET Contributions]
        BY <4>1 DEF DataType
      <4> HIDE DEF stripes
      <4> QED
        BY <4>2, GatherType
    <3>2. Add(a, b) \in SUBSET Contributions
      BY <3>1, AddType
    <3>3. /\ send' = [send EXCEPT ![r]["B"][SlotOf(kseq[r])] = Add(a, b)]
          /\ recv' = recv /\ buf' = buf
      BY <1>9 DEF ReduceA
    <3> HIDE DEF a, b
    <3> QED
      BY <3>2, <3>3 DEF DataType, Links
  <2> QED
    BY <2>1, <2>2, <2>3, <2>4 DEF TypeOK
<1>10. ASSUME NEW r \in Ranks, ReduceB(r)
      PROVE  TypeOK'
  <2>1. EngineType'
    BY <1>10 DEF EngineType, ReduceB, engineVars, linkVars
  <2>2. KernelType'
    BY <1>10 DEF KernelType, ReduceB, engineVars, linkVars
  <2>3. LinkType'
    BY <1>10 DEF LinkType, ReduceB, engineVars, linkVars
  <2>4. DataType'
    <3> DEFINE a == send[r]["B"][SlotOf(kseq[r])]
               stripes == recv[r]["B"][SlotOf(kseq[r])]
               b == Gather(stripes)
    <3>1. a \in SUBSET Contributions /\ b \in SUBSET Contributions
      <4>1. SlotOf(kseq[r]) \in Slots /\ "B" \in Links
        BY SlotType DEF KernelType, Links
      <4>2. a \in SUBSET Contributions /\ stripes \in [QPs -> SUBSET Contributions]
        BY <4>1 DEF DataType
      <4> HIDE DEF stripes
      <4> QED
        BY <4>2, GatherType
    <3>2. Add(a, b) \in SUBSET Contributions
      BY <3>1, AddType
    <3>3. /\ buf' = [buf EXCEPT ![r][kop[r]] = Add(a, b)]
          /\ recv' = recv /\ send' = send
      BY <1>10 DEF ReduceB
    <3> HIDE DEF a, b
    <3> QED
      BY <3>2, <3>3 DEF DataType, Links
  <2> QED
    BY <2>1, <2>2, <2>3, <2>4 DEF TypeOK
<1>11. ASSUME NEW r \in Ranks, NEW l \in Links, NEW q \in QPs, Place(r, l, q)
      PROVE  TypeOK'
  <2>1. EngineType'
    BY <1>11, SlotType, PeerFacts DEF EngineType, Place, engineVars, kernelVars
  <2>2. KernelType'
    BY <1>11, SlotType, PeerFacts DEF KernelType, Place, engineVars, kernelVars
  <2>3. LinkType'
    BY <1>11, SlotType, PeerFacts DEF LinkType, Place, engineVars, kernelVars
  <2>4. DataType'
    <3> DEFINE s == SlotOf(placed[r][l][q] + 1)
               p == PeerOf(r, l)
    <3>1. s \in Slots /\ p \in Ranks
      BY SlotType, PeerFacts DEF LinkType
    <3>2. /\ recv' = [recv EXCEPT ![p][l][s][q] = send[r][l][s]]
          /\ send' = send /\ buf' = buf
      BY <1>11 DEF Place
    <3> HIDE DEF s, p
    <3> QED
      BY <3>1, <3>2 DEF DataType
  <2> QED
    BY <2>1, <2>2, <2>3, <2>4 DEF TypeOK
<1>12. ASSUME NEW r \in Ranks, NEW l \in Links, NEW q \in QPs, Ring(r, l, q)
      PROVE  TypeOK'
  <2>1. EngineType'
    BY <1>12 DEF EngineType, Ring, engineVars, kernelVars, dataVars
  <2>2. KernelType'
    BY <1>12 DEF KernelType, Ring, engineVars, kernelVars, dataVars
  <2>3. LinkType'
    BY <1>12 DEF LinkType, Ring, engineVars, kernelVars, dataVars
  <2>4. DataType'
    BY <1>12 DEF DataType, Ring, engineVars, kernelVars, dataVars
  <2> QED
    BY <2>1, <2>2, <2>3, <2>4 DEF TypeOK
<1>13. CASE UNCHANGED vars
  BY <1>13 DEF vars, EngineType, KernelType, LinkType, DataType
<1> QED
  BY <1>1, <1>2, <1>3, <1>4, <1>5, <1>6, <1>7, <1>8, <1>9, <1>10, <1>11,
     <1>12, <1>13 DEF Next, Call, Engine, Kernel, Nic, Finished

\* Every variable stays in its type, whatever the constants.
THEOREM TypeCorrect == Spec => []TypeOK
BY TypeInit, TypeNext, PTL DEF Spec

----------------------------------------------------------------------------
(***************************************************************************)
(* The inductive invariant.                                                *)
(***************************************************************************)

----------------------------------------------------------------------------
(* What a wait sees *)

LEMMA ModFacts ==
  ASSUME NEW M \in Nat, M >= 3
  PROVE  (-1) % M = M - 1 /\ 0 % M = 0 /\ 1 % M = 1
<1>1. (-1) % M = M - 1
  OBVIOUS
<1>2. 0 % M = 0
  OBVIOUS
<1>3. 1 % M = 1
  OBVIOUS
<1> QED
  BY <1>1, <1>2, <1>3

\* A doorbell at most one op away is classified by its order alone.
LEMMA BellClass ==
  ASSUME NEW d \in Nat, NEW seq \in Nat, seq >= 1, d \in {seq - 1, seq, seq + 1}
  PROVE  BellState(d, seq) = IF d < seq THEN "spin" ELSE "ok"
<1>1. CASE d = seq - 1
  <2>1. d - seq = -1
    BY <1>1
  <2>2. (d - seq) % SeqMod = SeqMod - 1
    BY <2>1, ModFacts, ConstantsAssumption
  <2> QED
    BY <1>1, <2>2 DEF BellState
<1>2. CASE d = seq
  <2>1. d - seq = 0
    BY <1>2
  <2>2. (d - seq) % SeqMod = 0
    BY <2>1, ModFacts, ConstantsAssumption
  <2> QED
    BY <1>2, <2>2, ConstantsAssumption DEF BellState
<1>3. CASE d = seq + 1
  <2>1. d - seq = 1
    BY <1>3
  <2>2. (d - seq) % SeqMod = 1
    BY <2>1, ModFacts, ConstantsAssumption
  <2> QED
    BY <1>3, <2>2, ConstantsAssumption DEF BellState
<1> QED
  BY <1>1, <1>2, <1>3

\* The word whose burst rank r posts on link l.
Published(r, l) == IF l = "A" THEN producer[r] ELSE arm1[r]

LEMMA PostedBound ==
  ASSUME TypeOK, NEW r \in Ranks, KernelInv(r), EngineInv(r), GateInv(r)
  PROVE  /\ posted[r]["A"] <= producer[r] /\ posted[r]["B"] <= arm1[r]
         /\ producer[r] <= arm1[r] + 1 /\ arm1[r] <= done[r] + 1
BY DEF TypeOK, EngineType, KernelType, LinkType, Links, KernelInv, EngineInv, GateInv

\* The skew between neighbours: a doorbell is at most one op ahead of what
\* its receiver has published.
LEMMA BellBound ==
  ASSUME TypeOK, ControlInv, NEW r \in Ranks, NEW l \in Links, NEW q \in QPs
  PROVE  /\ Bell(r, l, q) \in Nat
         /\ Passed(r, l) <= Bell(r, l, q)
         /\ posted[PeerOf(r, l)][l] <= Published(r, l) + 1
         /\ Bell(r, l, q) <= Published(r, l) + 1
<1> DEFINE p == PeerOf(r, l)
<1>1. p \in Ranks /\ PeerOf(p, l) = r
  BY PeerFacts
<1>2. /\ KernelInv(r) /\ EngineInv(r) /\ GateInv(r)
      /\ KernelInv(p) /\ EngineInv(p) /\ GateInv(p)
      /\ LinkInv(r, l, q) /\ LinkInv(p, l, q)
  BY <1>1 DEF ControlInv
<1>3. /\ rung[r][l][q] \in Nat /\ placed[r][l][q] \in Nat /\ posted[r][l] \in Nat
      /\ rung[p][l][q] \in Nat /\ placed[p][l][q] \in Nat /\ posted[p][l] \in Nat
      /\ producer[r] \in Nat /\ arm1[r] \in Nat /\ done[r] \in Nat
      /\ producer[p] \in Nat /\ arm1[p] \in Nat /\ done[p] \in Nat
  BY <1>1 DEF TypeOK, LinkType, KernelType
<1>4. Passed(r, l) <= rung[p][l][q]
  BY <1>1, <1>2 DEF LinkInv
<1>5. posted[p][l] <= Passed(p, l) + 1
  BY <1>1, <1>2, <1>3, PostedBound DEF Passed, Links
<1>6. Passed(p, l) <= rung[r][l][q]
  BY <1>2 DEF LinkInv
<1>7. rung[r][l][q] <= posted[r][l] /\ rung[p][l][q] <= posted[p][l]
  BY <1>2, <1>3 DEF LinkInv
<1>8. posted[r][l] <= Published(r, l)
  BY <1>2, PostedBound DEF Published, Links
<1>9. Passed(p, l) \in Nat /\ Published(r, l) \in Nat /\ Passed(r, l) \in Nat
  BY <1>3 DEF Passed, Published
<1>10. Bell(r, l, q) = rung[p][l][q]
  BY DEF Bell
<1> HIDE DEF p
<1>11. posted[p][l] <= Published(r, l) + 1
  BY <1>3, <1>5, <1>6, <1>7, <1>8, <1>9
<1>12. rung[p][l][q] <= Published(r, l) + 1
  BY <1>3, <1>7, <1>9, <1>11
<1> QED
  BY <1>3, <1>4, <1>10, <1>11, <1>12 DEF p

Waiting(r, l) == kpc[r] = IF l = "A" THEN "waitA" ELSE "waitB"

\* A kernel in a wait never reports an error, and leaves it with the doorbell
\* and every flag of its op in, and its engine's send_done.
LEMMA WaitFacts ==
  ASSUME TypeOK, ControlInv, NEW r \in Ranks, NEW l \in Links, Waiting(r, l)
  PROVE  /\ KernelWait(r, l) # "protocol"
         /\ KernelWait(r, l) # "spin" =>
              /\ sendDone[r][l] >= kop[r]
              /\ \A q \in QPs : Bell(r, l, q) >= kop[r]
<1>1. KernelInv(r) /\ kop[r] \in Nat /\ arm1[r] \in Nat /\ done[r] \in Nat
  BY DEF ControlInv, TypeOK, KernelType
<1>2. /\ kseq[r] = kop[r] /\ kop[r] >= 1
      /\ Published(r, l) = kop[r] /\ Passed(r, l) = kop[r] - 1
  BY <1>1 DEF KernelInv, Waiting, Published, Passed, Links
<1>3. ASSUME NEW q \in QPs
      PROVE  /\ Bell(r, l, q) \in Nat
             /\ BellState(Bell(r, l, q), kseq[r]) = IF Bell(r, l, q) < kop[r] THEN "spin" ELSE "ok"
  <2>1. /\ Bell(r, l, q) \in Nat
        /\ kop[r] - 1 <= Bell(r, l, q) /\ Bell(r, l, q) <= kop[r] + 1
    BY <1>2, BellBound
  <2>2. Bell(r, l, q) \in {kop[r] - 1, kop[r], kop[r] + 1}
    BY <1>1, <2>1
  <2> QED
    BY <1>1, <1>2, <2>1, <2>2, BellClass
<1>4. KernelWait(r, l) # "protocol"
  BY <1>3 DEF KernelWait
<1>5. ASSUME KernelWait(r, l) # "spin"
      PROVE  sendDone[r][l] >= kop[r] /\ \A q \in QPs : Bell(r, l, q) >= kop[r]
  <2>1. /\ \A q \in QPs : BellState(Bell(r, l, q), kseq[r]) = "ok"
        /\ sendDone[r][l] >= kseq[r]
    BY <1>4, <1>5 DEF KernelWait
  <2> QED
    BY <1>1, <1>2, <1>3, <2>1
<1> QED
  BY <1>4, <1>5

LEMMA ArriveFacts ==
  ASSUME TypeOK, ControlInv, NEW r \in Ranks, NEW l \in Links, Arrive(r, l)
  PROVE  /\ Waiting(r, l)
         /\ sendDone[r][l] >= kop[r]
         /\ \A q \in QPs : Bell(r, l, q) >= kop[r]
         /\ kpc' = [kpc EXCEPT ![r] = IF l = "A" THEN "addA" ELSE "addB"]
         /\ UNCHANGED <<engineVars, linkVars, dataVars,
                        kop, kseq, claim, producer, arm1, done>>
<1>1. Waiting(r, l) /\ KernelWait(r, l) # "spin"
  BY DEF Arrive, Waiting
<1> QED
  BY <1>1, WaitFacts DEF Arrive

\* Before an op is staged every completion of the ops before it is collected.
LEMMA NothingPending ==
  ASSUME TypeOK, NEW r \in Ranks, KernelInv(r), EngineInv(r), GateInv(r),
         kpc[r] = "idle", kop[r] < last[r]
  PROVE  \A l \in Links : reaped[r][l] >= kop[r]
BY ConstantsAssumption DEF TypeOK, EngineType, KernelType, LinkType, Links,
  KernelInv, EngineInv, GateInv, Reaped, Blocking

----------------------------------------------------------------------------
(* Control: what a step does to the counters *)

LEMMA KernelNext ==
  ASSUME TypeOK, ControlInv, Supported, [Next]_vars
  PROVE  \A s \in Ranks : KernelInv(s)'
<1> SUFFICES ASSUME NEW s \in Ranks
             PROVE  KernelInv(s)'
  OBVIOUS
<1> USE DEF TypeOK, EngineType, KernelType
<1>1. KernelInv(s) /\ GateInv(s) /\ (layer[s] => s \in Captured)
  BY DEF ControlInv, EngineInv
<1>2. ASSUME UNCHANGED kernelVars, last'[s] >= last[s]
      PROVE  KernelInv(s)'
  <2>1. last'[s] \in Nat
    BY TypeNext, ConstantsAssumption
  <2> QED
    BY <1>1, <1>2, <2>1 DEF KernelInv, kernelVars
<1>3. ASSUME NEW r \in Ranks, Submit(r) \/ Replay(r)
      PROVE  KernelInv(s)'
  <2>1. UNCHANGED kernelVars
    BY <1>3 DEF Submit, Replay
  <2>2. last'[s] >= last[s]
    BY <1>3, ConstantsAssumption DEF Submit, Replay
  <2> QED
    BY <1>2, <2>1, <2>2
<1>4. ASSUME NEW r \in Ranks, Engine(r)
      PROVE  KernelInv(s)'
  <2>1. UNCHANGED kernelVars /\ last' = last
    BY <1>4 DEF Engine, Post, Release, SeeDone, ReapTail
  <2> QED
    BY <1>2, <2>1
<1>5. ASSUME NEW r \in Ranks, NEW l \in Links, NEW q \in QPs, Nic(r, l, q)
      PROVE  KernelInv(s)'
  <2>1. UNCHANGED kernelVars /\ last' = last
    BY <1>5 DEF Nic, Place, Ring, engineVars
  <2> QED
    BY <1>2, <2>1
<1>6. ASSUME NEW r \in Ranks, Stage(r)
      PROVE  KernelInv(s)'
  <2> DEFINE op == kop[r] + 1
             seq == IF FromHost(r) THEN op ELSE claim[r] + 1
  <2>0. KernelInv(r) /\ (layer[r] => r \in Captured)
    BY DEF ControlInv, EngineInv
  <2>1. /\ op \in 1..MaxOps /\ op <= last[r] /\ seq = op
        /\ op \in MultiOps \/ ~FromHost(r)
    <3>1. op \in 1..MaxOps /\ op <= last[r]
      BY <1>6, ConstantsAssumption DEF Stage
    <3>2. CASE FromHost(r)
      BY <3>1, <3>2 DEF FromHost
    <3>3. CASE ~FromHost(r)
      <4>1. kop[r] \notin MultiOps
        <5>1. CASE layer[r]
          BY <5>1, <2>0 DEF Supported
        <5>2. CASE ~layer[r]
          BY <5>2, <3>3, <3>1, ConstantsAssumption DEF FromHost, Supported
        <5> QED
          BY <5>1, <5>2
      <4> QED
        BY <4>1, <3>1, <3>3, <2>0 DEF KernelInv
    <3> QED
      BY <3>1, <3>2, <3>3
  <2>2. /\ kop' = [kop EXCEPT ![r] = op]
        /\ kseq' = [kseq EXCEPT ![r] = seq]
        /\ claim' = [claim EXCEPT ![r] = IF FromHost(r) THEN @ ELSE seq]
        /\ producer' = [producer EXCEPT ![r] = seq]
        /\ kpc' = [kpc EXCEPT ![r] = "waitA"]
        /\ UNCHANGED <<arm1, done, last>> /\ kpc[r] = "idle"
    BY <1>6 DEF Stage, engineVars
  <2> HIDE DEF seq
  <2> QED
    BY <1>1, <2>0, <2>1, <2>2 DEF KernelInv
<1>7. ASSUME NEW r \in Ranks, NEW l \in Links, Arrive(r, l)
      PROVE  KernelInv(s)'
  <2>1. /\ UNCHANGED <<kop, kseq, claim, producer, arm1, done, last>>
        /\ l = "A" => kpc[r] = "waitA" /\ kpc' = [kpc EXCEPT ![r] = "addA"]
        /\ l = "B" => kpc[r] = "waitB" /\ kpc' = [kpc EXCEPT ![r] = "addB"]
    BY <1>7, ArriveFacts DEF Waiting, engineVars
  <2> QED
    BY <1>1, <2>1 DEF KernelInv, Links
<1>8. ASSUME NEW r \in Ranks, ReduceA(r)
      PROVE  KernelInv(s)'
  BY <1>1, <1>8 DEF KernelInv, ReduceA, engineVars
<1>9. ASSUME NEW r \in Ranks, ReduceB(r)
      PROVE  KernelInv(s)'
  BY <1>1, <1>9 DEF KernelInv, ReduceB, engineVars
<1>10. CASE UNCHANGED vars
  BY <1>2, <1>10 DEF vars, kernelVars
<1> QED
  BY <1>3, <1>4, <1>5, <1>6, <1>7, <1>8, <1>9, <1>10
  DEF Next, Call, Kernel, Finished

LEMMA EngineWaitFacts ==
  ASSUME TypeOK, NEW r \in Ranks, KernelInv(r), NEW word \in Nat, word <= cur[r],
         EngineWait(r, word, cur[r]) # "spin"
  PROVE  word = cur[r] /\ EngineWait(r, word, cur[r]) = "ok"
BY DEF TypeOK, EngineType, KernelInv, EngineWait

\* No word the engine waits on can overshoot.
LEMMA WordBound ==
  ASSUME TypeOK, NEW r \in Ranks, KernelInv(r), EngineInv(r), GateInv(r)
  PROVE  /\ epc[r] = "producer" => producer[r] <= cur[r]
         /\ epc[r] = "arm1" => arm1[r] <= cur[r]
         /\ epc[r] = "done" => done[r] <= cur[r]
BY DEF TypeOK, EngineType, KernelType, LinkType, Links, KernelInv, EngineInv, GateInv

LEMMA EngineNext ==
  ASSUME TypeOK, ControlInv, Supported, [Next]_vars
  PROVE  \A s \in Ranks : EngineInv(s)'
<1> SUFFICES ASSUME NEW s \in Ranks
             PROVE  EngineInv(s)'
  OBVIOUS
<1> USE DEF TypeOK, EngineType, KernelType, LinkType
<1>1. KernelInv(s) /\ EngineInv(s) /\ GateInv(s)
  BY DEF ControlInv
<1>2. ASSUME UNCHANGED <<epc[s], cur[s], last[s], layer[s], completed[s],
                         posted[s], sendDone[s], reaped[s]>>,
             producer'[s] >= producer[s], arm1'[s] >= arm1[s], done'[s] >= done[s]
      PROVE  EngineInv(s)'
  <2>1. producer'[s] \in Nat /\ arm1'[s] \in Nat /\ done'[s] \in Nat
    BY TypeNext
  <2>2. Blocking(s)' = Blocking(s)
    BY <1>2 DEF Blocking
  <2> QED
    BY <1>1, <1>2, <2>1, <2>2 DEF EngineInv, Reaped, Links
<1>3. ASSUME NEW r \in Ranks, Submit(r)
      PROVE  EngineInv(s)'
  <2>1. /\ epc[r] = "idle" /\ epc' = [epc EXCEPT ![r] = "producer"]
        /\ cur' = [cur EXCEPT ![r] = last[r] + 1]
        /\ last' = [last EXCEPT ![r] = last[r] + 1]
        /\ UNCHANGED <<layer, completed, producer, arm1, done,
                       posted, sendDone, reaped>>
    BY <1>3 DEF Submit, kernelVars, linkVars
  <2>2. last[r] \in Nat
    BY ConstantsAssumption
  <2>3. CASE s # r
    BY <1>2, <2>1, <2>3
  <2>4. CASE s = r
    <3>1. /\ cur[r] = last[r] /\ completed[r] = last[r] /\ done[r] >= last[r]
          /\ \A l \in Links : posted[r][l] = last[r] /\ sendDone[r][l] = last[r]
                              /\ reaped[r][l] = last[r]
          /\ layer[r] => r \in Captured
      BY <1>1, <2>1, <2>4 DEF EngineInv
    <3>2. epc'[r] = "producer" /\ cur'[r] = last[r] + 1 /\ last'[r] = last[r] + 1
      BY <2>1, <2>2
    <3>3. completed'[r] = cur'[r] - 1
      BY <2>1, <2>2, <3>1, <3>2
    <3>4. done'[r] >= cur'[r] - 1
      BY <2>1, <2>2, <3>1, <3>2
    <3>5. \A l \in Links : posted'[r][l] = cur'[r] - 1
      BY <2>1, <2>2, <3>1, <3>2
    <3>6. \A l \in Links : sendDone'[r][l] = cur'[r] - 1
      BY <2>1, <2>2, <3>1, <3>2
    <3>7. \A l \in Links : reaped'[r][l] = cur'[r] - 1
      BY <2>1, <2>2, <3>1, <3>2
    <3>8. layer'[r] => r \in Captured
      BY <2>1, <2>2, <3>1, <3>2
    <3> QED
      BY <2>2, <2>4, <3>2, <3>3, <3>4, <3>5, <3>6, <3>7, <3>8 DEF EngineInv
  <2> QED
    BY <2>3, <2>4
<1>4. ASSUME NEW r \in Ranks, Replay(r)
      PROVE  EngineInv(s)'
  <2>1. PICK i \in Layers : i[1] = last[r] + 1 /\ last' = [last EXCEPT ![r] = i[2]]
    BY <1>4 DEF Replay
  <2>2. /\ epc[r] = "idle" /\ epc' = [epc EXCEPT ![r] = "producer"]
        /\ r \in Captured
        /\ cur' = [cur EXCEPT ![r] = last[r] + 1]
        /\ layer' = [layer EXCEPT ![r] = TRUE]
        /\ UNCHANGED <<completed, producer, arm1, done, posted, sendDone, reaped>>
    BY <1>4 DEF Replay, kernelVars, linkVars
  <2>3. last[r] \in Nat /\ last[r] + 1 <= i[2] /\ i[2] \in Nat
    BY <2>1, ConstantsAssumption
  <2>4. CASE s # r
    BY <1>2, <2>1, <2>2, <2>4
  <2>5. CASE s = r
    <3>1. /\ cur[r] = last[r] /\ completed[r] = last[r] /\ done[r] >= last[r]
          /\ \A l \in Links : posted[r][l] = last[r] /\ sendDone[r][l] = last[r]
                              /\ reaped[r][l] = last[r]
      BY <1>1, <2>2, <2>5 DEF EngineInv
    <3>2. epc'[r] = "producer" /\ cur'[r] = last[r] + 1 /\ last'[r] = i[2]
      BY <2>1, <2>2
    <3>3. completed'[r] = cur'[r] - 1
      BY <2>1, <2>2, <2>3, <3>1, <3>2
    <3>4. done'[r] >= cur'[r] - 1
      BY <2>1, <2>2, <2>3, <3>1, <3>2
    <3>5. \A l \in Links : posted'[r][l] = cur'[r] - 1
      BY <2>1, <2>2, <2>3, <3>1, <3>2
    <3>6. \A l \in Links : sendDone'[r][l] = cur'[r] - 1
      BY <2>1, <2>2, <2>3, <3>1, <3>2
    <3>7. \A l \in Links : reaped'[r][l] = cur'[r] - 1
      BY <2>1, <2>2, <2>3, <3>1, <3>2
    <3>8. layer'[r] = TRUE
      BY <2>1, <2>2, <2>3, <3>1, <3>2
    <3> QED
      BY <2>2, <2>3, <2>5, <3>2, <3>3, <3>4, <3>5, <3>6, <3>7, <3>8 DEF EngineInv
  <2> QED
    BY <2>4, <2>5
<1>5. ASSUME NEW r \in Ranks, NEW l \in Links, Post(r, l)
      PROVE  EngineInv(s)'
  <2>1. CASE s # r
    BY <1>2, <1>5, <2>1 DEF Post, kernelVars
  <2>2. CASE s = r /\ l = "A"
    <3>1. producer[r] = cur[r] /\ EngineWait(r, producer[r], cur[r]) = "ok"
      BY <1>1, <1>5, <2>2, WordBound, EngineWaitFacts DEF Post, WaitBeat, WaitWord
    <3>2. /\ epc[r] = "producer" /\ epc' = [epc EXCEPT ![r] = "postedA"]
          /\ posted' = [posted EXCEPT ![r]["A"] = cur[r]]
          /\ UNCHANGED <<cur, last, layer, completed, producer, arm1, done,
                         sendDone, reaped>>
      BY <1>5, <2>2, <3>1 DEF Post, WaitBeat, WaitWord, PostedBeat, kernelVars
    <3> QED
      BY <1>1, <2>2, <3>1, <3>2 DEF EngineInv, Links
  <2>3. CASE s = r /\ l = "B"
    <3>1. arm1[r] = cur[r] /\ EngineWait(r, arm1[r], cur[r]) = "ok"
      BY <1>1, <1>5, <2>3, WordBound, EngineWaitFacts DEF Post, WaitBeat, WaitWord
    <3>2. /\ epc[r] = "arm1" /\ epc' = [epc EXCEPT ![r] = "postedB"]
          /\ posted' = [posted EXCEPT ![r]["B"] = cur[r]]
          /\ UNCHANGED <<cur, last, layer, completed, producer, arm1, done,
                         sendDone, reaped>>
      BY <1>5, <2>3, <3>1 DEF Post, WaitBeat, WaitWord, PostedBeat, kernelVars
    <3> QED
      BY <1>1, <2>3, <3>1, <3>2 DEF EngineInv, Links, Reaped, Blocking
  <2> QED
    BY <2>1, <2>2, <2>3 DEF Links
<1>6. ASSUME NEW r \in Ranks, NEW l \in Links, Release(r, l)
      PROVE  EngineInv(s)'
  <2>1. CASE s # r
    BY <1>2, <1>6, <2>1 DEF Release, kernelVars
  <2>2. CASE s = r
    <3>1. reaped[r][l] = cur[r] - 1
      BY <1>1, <1>6, <2>2 DEF Release, PostedBeat, EngineInv, Links
    <3>2. /\ epc' = [epc EXCEPT ![r] = NextBeat(l)]
          /\ sendDone' = [sendDone EXCEPT ![r][l] = cur[r]]
          /\ reaped' = [reaped EXCEPT ![r][l] = IF Blocking(r) THEN cur[r] ELSE @]
          /\ UNCHANGED <<cur, last, layer, completed, producer, arm1, done, posted>>
          /\ epc[r] = PostedBeat(l)
      BY <1>6, <3>1 DEF Release, kernelVars
    <3>3. CASE l = "A"
      BY <1>1, <2>2, <3>1, <3>2, <3>3
      DEF EngineInv, Links, PostedBeat, NextBeat, Reaped, Blocking
    <3>4. CASE l = "B"
      BY <1>1, <2>2, <3>1, <3>2, <3>4
      DEF EngineInv, Links, PostedBeat, NextBeat, Reaped, Blocking
    <3> QED
      BY <3>3, <3>4 DEF Links
  <2> QED
    BY <2>1, <2>2
<1>7. ASSUME NEW r \in Ranks, SeeDone(r)
      PROVE  EngineInv(s)'
  <2>1. CASE s # r
    BY <1>2, <1>7, <2>1 DEF SeeDone, FinishOp, kernelVars, linkVars
  <2>2. CASE s = r
    <3>1. done[r] = cur[r] /\ EngineWait(r, done[r], cur[r]) = "ok"
      BY <1>1, <1>7, <2>2, WordBound, EngineWaitFacts DEF SeeDone
    <3>2. /\ epc[r] = "done"
          /\ UNCHANGED <<last, producer, arm1, done, posted, sendDone, reaped>>
      BY <1>7 DEF SeeDone, kernelVars, linkVars
    <3>3. CASE Blocking(r)
      <4>1. FinishOp(r)
        BY <1>7, <3>1, <3>3 DEF SeeDone
      <4> QED
        BY <1>1, <2>2, <3>1, <3>2, <3>3, <4>1
        DEF FinishOp, EngineInv, Links, Reaped
    <3>4. CASE ~Blocking(r)
      <4>1. epc' = [epc EXCEPT ![r] = "reap"] /\ UNCHANGED <<cur, layer, completed>>
        BY <1>7, <3>1, <3>4 DEF SeeDone
      <4> QED
        BY <1>1, <2>2, <3>1, <3>2, <3>4, <4>1 DEF EngineInv, Links, Reaped, Blocking
    <3> QED
      BY <3>3, <3>4
  <2> QED
    BY <2>1, <2>2
<1>8. ASSUME NEW r \in Ranks, ReapTail(r)
      PROVE  EngineInv(s)'
  <2>1. CASE s # r
    BY <1>2, <1>8, <2>1 DEF ReapTail, FinishOp, kernelVars
  <2>2. CASE s = r
    <3>1. \A l \in Links : reaped[r][l] = cur[r] - 1
      BY <1>1, <1>8, <2>2 DEF ReapTail, EngineInv
    <3>2. /\ epc[r] = "reap" /\ FinishOp(r)
          /\ reaped' = [reaped EXCEPT ![r] = [l \in Links |-> cur[r]]]
          /\ UNCHANGED <<last, producer, arm1, done, posted, sendDone>>
      BY <1>8, <3>1 DEF ReapTail, kernelVars
    <3>3. cur[r] = last[r] /\ ~layer[r]
      BY <1>1, <2>2, <3>2 DEF EngineInv, Blocking
    <3> QED
      BY <1>1, <2>2, <3>2, <3>3 DEF FinishOp, EngineInv, Links
  <2> QED
    BY <2>1, <2>2
<1>9. ASSUME NEW r \in Ranks, Kernel(r)
      PROVE  EngineInv(s)'
  <2>1. UNCHANGED <<engineVars, linkVars>>
    BY <1>9 DEF Kernel, Stage, Arrive, ReduceA, ReduceB
  <2>2. producer'[s] >= producer[s] /\ arm1'[s] >= arm1[s] /\ done'[s] >= done[s]
    <3>1. CASE Stage(r)
      <4>1. KernelInv(s)' /\ kop'[s] >= kop[s]
        BY <3>1, KernelNext, ConstantsAssumption DEF Stage
      <4>2. UNCHANGED <<arm1, done>>
        BY <3>1 DEF Stage
      <4> QED
        BY <1>1, <4>1, <4>2 DEF KernelInv
    <3>2. CASE \E l \in Links : Arrive(r, l)
      BY <3>2 DEF Arrive
    <3>3. CASE ReduceA(r)
      BY <1>1, <3>3 DEF ReduceA, KernelInv
    <3>4. CASE ReduceB(r)
      BY <1>1, <3>4 DEF ReduceB, KernelInv
    <3> QED
      BY <1>9, <3>1, <3>2, <3>3, <3>4 DEF Kernel
  <2> QED
    BY <1>2, <2>1, <2>2 DEF engineVars, linkVars
<1>10. ASSUME NEW r \in Ranks, NEW l \in Links, NEW q \in QPs, Nic(r, l, q)
       PROVE  EngineInv(s)'
  BY <1>2, <1>10 DEF Nic, Place, Ring, engineVars, kernelVars
<1>11. CASE UNCHANGED vars
  BY <1>2, <1>11 DEF vars
<1> QED
  BY <1>3, <1>4, <1>5, <1>6, <1>7, <1>8, <1>9, <1>10, <1>11
  DEF Next, Call, Engine, Finished

LEMMA GateNext ==
  ASSUME TypeOK, ControlInv, Supported, [Next]_vars
  PROVE  \A s \in Ranks : GateInv(s)'
<1> SUFFICES ASSUME NEW s \in Ranks
             PROVE  GateInv(s)'
  OBVIOUS
<1> USE DEF TypeOK, EngineType, KernelType, LinkType
<1>1. KernelInv(s) /\ EngineInv(s) /\ GateInv(s)
  BY DEF ControlInv
<1>2. ASSUME UNCHANGED <<arm1[s], done[s], kpc[s], kop[s], sendDone[s], reaped[s]>>
      PROVE  GateInv(s)'
  BY <1>1, <1>2 DEF GateInv
<1>3. ASSUME NEW r \in Ranks, Call(r) \/ SeeDone(r)
      PROVE  GateInv(s)'
  BY <1>2, <1>3 DEF Call, Submit, Replay, SeeDone, kernelVars, linkVars
<1>4. ASSUME NEW r \in Ranks, NEW l \in Links, Post(r, l)
      PROVE  GateInv(s)'
  BY <1>2, <1>4 DEF Post, kernelVars
<1>5. ASSUME NEW r \in Ranks, NEW l \in Links, Release(r, l)
      PROVE  GateInv(s)'
  <2>1. CASE s # r
    BY <1>2, <1>5, <2>1 DEF Release, kernelVars
  <2>2. CASE s = r
    <3>1. sendDone[r][l] = cur[r] - 1 /\ reaped[r][l] = cur[r] - 1 /\ epc[r] # "err"
      BY <1>1, <1>5, <2>2 DEF Release, PostedBeat, EngineInv, Links
    <3>2. /\ sendDone' = [sendDone EXCEPT ![r][l] = cur[r]]
          /\ reaped' = [reaped EXCEPT ![r][l] = IF Blocking(r) THEN cur[r] ELSE @]
          /\ UNCHANGED <<arm1, done, kpc, kop>>
      BY <1>5, <3>1 DEF Release, kernelVars
    <3>3. \A k \in Links : sendDone'[r][k] >= sendDone[r][k] /\ reaped'[r][k] >= reaped[r][k]
      BY <3>1, <3>2
    <3>4. \A k \in Links : sendDone'[r][k] \in Nat /\ reaped'[r][k] \in Nat
      BY TypeNext
    <3> QED
      BY <1>1, <2>2, <3>2, <3>3, <3>4 DEF GateInv, Links
  <2> QED
    BY <2>1, <2>2
<1>6. ASSUME NEW r \in Ranks, ReapTail(r)
      PROVE  GateInv(s)'
  <2>1. CASE s # r
    BY <1>2, <1>6, <2>1 DEF ReapTail, kernelVars
  <2>2. CASE s = r
    <3>1. \A l \in Links : reaped[r][l] = cur[r] - 1
      BY <1>1, <1>6, <2>2 DEF ReapTail, EngineInv
    <3>2. /\ reaped' = [reaped EXCEPT ![r] = [l \in Links |-> cur[r]]]
          /\ UNCHANGED <<arm1, done, kpc, kop, sendDone>>
      BY <1>6, <3>1 DEF ReapTail, kernelVars
    <3> QED
      BY <1>1, <2>2, <3>1, <3>2 DEF GateInv
  <2> QED
    BY <2>1, <2>2
<1>7. ASSUME NEW r \in Ranks, Stage(r)
      PROVE  GateInv(s)'
  <2>1. CASE s # r
    BY <1>2, <1>7, <2>1 DEF Stage, linkVars
  <2>2. CASE s = r
    <3>1. kpc[r] = "idle" /\ kop[r] < last[r]
      BY <1>7, ConstantsAssumption DEF Stage
    <3>2. \A l \in Links : reaped[r][l] >= kop[r]
      BY <1>1, <2>2, <3>1, NothingPending
    <3>3. /\ kop'[r] = kop[r] + 1 /\ kpc'[r] = "waitA"
          /\ UNCHANGED <<arm1, done, sendDone, reaped>>
      BY <1>7 DEF Stage, linkVars
    <3> QED
      BY <1>1, <2>2, <3>2, <3>3 DEF GateInv
  <2> QED
    BY <2>1, <2>2
<1>8. ASSUME NEW r \in Ranks, NEW l \in Links, Arrive(r, l)
      PROVE  GateInv(s)'
  <2>1. /\ sendDone[r][l] >= kop[r]
        /\ kpc' = [kpc EXCEPT ![r] = IF l = "A" THEN "addA" ELSE "addB"]
        /\ UNCHANGED <<kop, arm1, done, sendDone, reaped>>
    BY <1>8, ArriveFacts DEF linkVars
  <2> QED
    BY <1>1, <2>1 DEF GateInv, Links
<1>9. ASSUME NEW r \in Ranks, ReduceA(r)
      PROVE  GateInv(s)'
  BY <1>1, <1>9 DEF ReduceA, linkVars, GateInv, KernelInv
<1>10. ASSUME NEW r \in Ranks, ReduceB(r)
       PROVE  GateInv(s)'
  BY <1>1, <1>10 DEF ReduceB, linkVars, GateInv, KernelInv
<1>11. ASSUME NEW r \in Ranks, NEW l \in Links, NEW q \in QPs, Nic(r, l, q)
       PROVE  GateInv(s)'
  BY <1>2, <1>11 DEF Nic, Place, Ring, kernelVars
<1>12. CASE UNCHANGED vars
  BY <1>2, <1>12 DEF vars
<1> QED
  BY <1>3, <1>4, <1>5, <1>6, <1>7, <1>8, <1>9, <1>10, <1>11, <1>12
  DEF Next, Call, Engine, Kernel, Finished

LEMMA LinkNext ==
  ASSUME TypeOK, ControlInv, Supported, [Next]_vars
  PROVE  \A s \in Ranks, m \in Links, q \in QPs : LinkInv(s, m, q)'
<1> SUFFICES ASSUME NEW s \in Ranks, NEW m \in Links, NEW q \in QPs
             PROVE  LinkInv(s, m, q)'
  OBVIOUS
<1> USE DEF TypeOK, EngineType, KernelType, LinkType
<1> DEFINE p == PeerOf(s, m)
<1>1. /\ p \in Ranks /\ PeerOf(p, m) = s
      /\ KernelInv(s) /\ EngineInv(s) /\ GateInv(s) /\ LinkInv(s, m, q)
      /\ KernelInv(p)
  BY PeerFacts DEF ControlInv
<1> HIDE DEF p
<1>2. ASSUME UNCHANGED <<reaped[s][m], rung[s][m][q], placed[s][m][q], posted[s][m],
                         arm1[p], done[p], kpc[p], kop[p]>>
      PROVE  LinkInv(s, m, q)'
  BY <1>1, <1>2 DEF LinkInv, Passed, Adding, p
<1>3. ASSUME NEW r \in Ranks, Call(r) \/ SeeDone(r)
      PROVE  LinkInv(s, m, q)'
  BY <1>2, <1>3 DEF Call, Submit, Replay, SeeDone, kernelVars, linkVars
<1>4. ASSUME NEW r \in Ranks, NEW l \in Links, Post(r, l)
      PROVE  LinkInv(s, m, q)'
  <2>1. posted'[s][m] >= posted[s][m] /\ posted'[s][m] \in Nat
    <3>1. CASE r = s /\ l = m
      <4>1. posted[r][l] = cur[r] - 1
        BY <1>1, <1>4, <3>1 DEF Post, WaitBeat, EngineInv, Links
      <4>2. posted'[r][l] = cur[r] \/ posted' = posted
        BY <1>4 DEF Post
      <4> QED
        BY <3>1, <4>1, <4>2
    <3>2. CASE ~(r = s /\ l = m)
      <4>1. posted' = [posted EXCEPT ![r][l] = cur[r]] \/ posted' = posted
        BY <1>4 DEF Post
      <4>2. posted'[s][m] = posted[s][m]
        <5>1. CASE r # s
          BY <4>1, <5>1
        <5>2. CASE r = s /\ l # m
          BY <4>1, <5>2
        <5>3. CASE r = s /\ l = m
          BY <3>2, <4>1, <5>3
        <5> QED
          BY <5>1, <5>2, <5>3
      <4> QED
        BY <4>2
    <3> QED
      BY <3>1, <3>2
  <2>2. UNCHANGED <<reaped, rung, placed, arm1, done, kpc, kop>>
    BY <1>4 DEF Post, kernelVars
  <2> QED
    BY <1>1, <2>1, <2>2 DEF LinkInv, Passed, Adding, p
<1>5. ASSUME NEW r \in Ranks, NEW l \in Links, Release(r, l)
      PROVE  LinkInv(s, m, q)'
  <2>1. UNCHANGED <<rung, placed, posted, arm1, done, kpc, kop>>
    BY <1>5 DEF Release, kernelVars
  <2>2. reaped'[s][m] <= rung[s][m][q]
    <3>1. CASE r = s /\ l = m /\ Blocking(r)
      <4>1. rung[s][m][q] >= cur[r]
        BY <1>5, <3>1 DEF Release, Signalled
      <4>2. reaped'[s][m] = cur[r] \/ reaped' = reaped
        BY <1>5, <3>1 DEF Release
      <4> QED
        BY <1>1, <4>1, <4>2 DEF LinkInv
    <3>2. CASE ~(r = s /\ l = m /\ Blocking(r))
      <4>1. \/ reaped' = reaped
            \/ reaped' = [reaped EXCEPT ![r][l] = IF Blocking(r) THEN cur[r] ELSE reaped[r][l]]
        BY <1>5 DEF Release
      <4>2. reaped'[s][m] = reaped[s][m]
        <5>1. CASE r # s
          BY <4>1, <5>1
        <5>2. CASE r = s /\ l # m
          BY <4>1, <5>2
        <5>3. CASE r = s /\ l = m
          BY <3>2, <4>1, <5>3
        <5> QED
          BY <5>1, <5>2, <5>3
      <4> QED
        BY <1>1, <4>2 DEF LinkInv
    <3> QED
      BY <3>1, <3>2
  <2> QED
    BY <1>1, <2>1, <2>2 DEF LinkInv, Passed, Adding, p
<1>6. ASSUME NEW r \in Ranks, ReapTail(r)
      PROVE  LinkInv(s, m, q)'
  <2>1. UNCHANGED <<rung, placed, posted, arm1, done, kpc, kop>>
    BY <1>6 DEF ReapTail, kernelVars
  <2>2. reaped'[s][m] <= rung[s][m][q]
    <3>1. \/ reaped' = reaped
          \/ reaped' = [reaped EXCEPT ![r] = [l \in Links |-> cur[r]]]
      BY <1>6 DEF ReapTail
    <3>2. r = s => rung[s][m][q] >= cur[r]
      BY <1>6 DEF ReapTail, Signalled
    <3> QED
      BY <1>1, <3>1, <3>2 DEF LinkInv
  <2> QED
    BY <1>1, <2>1, <2>2 DEF LinkInv, Passed, Adding, p
<1>7. ASSUME NEW r \in Ranks, Stage(r)
      PROVE  LinkInv(s, m, q)'
  <2>1. CASE p # r
    BY <1>2, <1>7, <2>1 DEF Stage, linkVars
  <2>2. CASE p = r
    <3>1. UNCHANGED <<reaped, rung, placed, posted, arm1, done>> /\ kpc'[p] = "waitA"
      BY <1>7, <2>2 DEF Stage, linkVars
    <3> QED
      BY <1>1, <3>1 DEF LinkInv, Passed, Adding, p
  <2> QED
    BY <2>1, <2>2
<1>8. ASSUME NEW r \in Ranks, NEW l \in Links, Arrive(r, l)
      PROVE  LinkInv(s, m, q)'
  <2>1. /\ \A i \in QPs : Bell(r, l, i) >= kop[r]
        /\ kpc' = [kpc EXCEPT ![r] = IF l = "A" THEN "addA" ELSE "addB"]
        /\ UNCHANGED <<reaped, rung, placed, posted, kop, arm1, done>>
    BY <1>8, ArriveFacts DEF linkVars
  <2>2. CASE p # r
    BY <1>2, <2>1, <2>2
  <2>3. CASE p = r /\ l = m
    BY <1>1, <2>1, <2>3 DEF LinkInv, Passed, Adding, Bell, p
  <2>4. CASE p = r /\ l # m
    BY <1>1, <2>1, <2>4 DEF LinkInv, Passed, Adding, Links, p
  <2> QED
    BY <2>2, <2>3, <2>4
<1>9. ASSUME NEW r \in Ranks, ReduceA(r)
      PROVE  LinkInv(s, m, q)'
  <2>1. /\ kpc[r] = "addA" /\ kpc' = [kpc EXCEPT ![r] = "waitB"]
        /\ arm1' = [arm1 EXCEPT ![r] = kseq[r]]
        /\ UNCHANGED <<reaped, rung, placed, posted, kop, done>>
    BY <1>9 DEF ReduceA, linkVars
  <2>2. CASE p # r
    BY <1>2, <2>1, <2>2
  <2>3. CASE p = r
    BY <1>1, <2>1, <2>3 DEF LinkInv, Passed, Adding, KernelInv, Links, p
  <2> QED
    BY <2>2, <2>3
<1>10. ASSUME NEW r \in Ranks, ReduceB(r)
       PROVE  LinkInv(s, m, q)'
  <2>1. /\ kpc[r] = "addB" /\ kpc' = [kpc EXCEPT ![r] = "idle"]
        /\ done' = [done EXCEPT ![r] = kseq[r]]
        /\ UNCHANGED <<reaped, rung, placed, posted, kop, arm1>>
    BY <1>10 DEF ReduceB, linkVars
  <2>2. CASE p # r
    BY <1>2, <2>1, <2>2
  <2>3. CASE p = r
    BY <1>1, <2>1, <2>3 DEF LinkInv, Passed, Adding, KernelInv, Links, p
  <2> QED
    BY <2>2, <2>3
<1>11. ASSUME NEW r \in Ranks, NEW l \in Links, NEW i \in QPs, Place(r, l, i)
       PROVE  LinkInv(s, m, q)'
  <2>1. /\ placed[r][l][i] < posted[r][l] /\ placed[r][l][i] = rung[r][l][i]
        /\ placed' = [placed EXCEPT ![r][l][i] = placed[r][l][i] + 1]
        /\ UNCHANGED <<reaped, rung, posted, arm1, done, kpc, kop>>
    BY <1>11 DEF Place, kernelVars
  <2>2. CASE r = s /\ l = m /\ i = q
    <3>1. placed'[s][m][q] = placed[s][m][q] + 1
      BY <2>1, <2>2
    <3> QED
      BY <1>1, <2>1, <2>2, <3>1 DEF LinkInv, Passed, Adding, p
  <2>3. CASE ~(r = s /\ l = m /\ i = q)
    <3>1. placed'[s][m][q] = placed[s][m][q]
      BY <2>1, <2>3
    <3> QED
      BY <1>2, <2>1, <3>1
  <2> QED
    BY <2>2, <2>3
<1>12. ASSUME NEW r \in Ranks, NEW l \in Links, NEW i \in QPs, Ring(r, l, i)
       PROVE  LinkInv(s, m, q)'
  <2>1. /\ rung[r][l][i] < placed[r][l][i]
        /\ rung' = [rung EXCEPT ![r][l][i] = rung[r][l][i] + 1]
        /\ UNCHANGED <<reaped, placed, posted, arm1, done, kpc, kop>>
    BY <1>12 DEF Ring, kernelVars
  <2>2. CASE r = s /\ l = m /\ i = q
    <3>1. rung'[s][m][q] = rung[s][m][q] + 1
      BY <2>1, <2>2
    <3> QED
      BY <1>1, <2>1, <2>2, <3>1 DEF LinkInv, Passed, Adding, p
  <2>3. CASE ~(r = s /\ l = m /\ i = q)
    <3>1. rung'[s][m][q] = rung[s][m][q]
      BY <2>1, <2>3
    <3> QED
      BY <1>2, <2>1, <3>1
  <2> QED
    BY <2>2, <2>3
<1>13. CASE UNCHANGED vars
  BY <1>2, <1>13 DEF vars
<1> QED
  BY <1>3, <1>4, <1>5, <1>6, <1>7, <1>8, <1>9, <1>10, <1>11, <1>12, <1>13
  DEF Next, Call, Engine, Kernel, Nic, Finished

LEMMA ControlInit == Init => ControlInv
<1> SUFFICES ASSUME Init, NEW r \in Ranks
             PROVE  /\ KernelInv(r) /\ EngineInv(r) /\ GateInv(r)
                    /\ \A l \in Links, q \in QPs : LinkInv(r, l, q)
  BY DEF ControlInv
<1>1. KernelInv(r)
  BY DEF Init, KernelInv
<1>2. EngineInv(r)
  BY DEF Init, EngineInv
<1>3. GateInv(r)
  BY DEF Init, GateInv, Links
<1>4. ASSUME NEW l \in Links, NEW q \in QPs
      PROVE  LinkInv(r, l, q)
  <2>1. PeerOf(r, l) \in Ranks
    BY PeerFacts
  <2> QED
    BY <2>1 DEF Init, LinkInv, Passed, Adding
<1> QED
  BY <1>1, <1>2, <1>3, <1>4

LEMMA ControlNext ==
  ASSUME TypeOK, ControlInv, Supported, [Next]_vars
  PROVE  ControlInv'
BY KernelNext, EngineNext, GateNext, LinkNext DEF ControlInv

----------------------------------------------------------------------------
(* Data: what the slots and the buffers hold *)

LEMMA SlotsDiffer ==
  ASSUME Supported, NEW a \in Nat, NEW b \in Nat, b = a + 1
  PROVE  SlotOf(a) # SlotOf(b)
<1>1. NSlots \in 2..8
  BY ConstantsAssumption DEF Supported
<1>2. /\ NSlots = 2 \/ NSlots = 3 \/ NSlots = 4 \/ NSlots = 5
         \/ NSlots = 6 \/ NSlots = 7 \/ NSlots = 8
  BY <1>1
<1> QED
  BY <1>2 DEF SlotOf

LEMMA GatherSame ==
  ASSUME NEW stripes, NEW v, \A q \in QPs : stripes[q] = v
  PROVE  Gather(stripes) = v
<1>1. 0 \in QPs
  BY ConstantsAssumption DEF QPs
<1> QED
  BY <1>1 DEF Gather

LEMMA PartialType ==
  \A r \in Ranks, l \in Links, m \in 1..MaxOps :
    Partial(r, l, m) \in SUBSET Contributions
BY PeerFacts, OwnType DEF Partial, Links

\* Round A adds the two contributions of a pair, round B the two pairs.
LEMMA SumA ==
  ASSUME NEW r \in Ranks, NEW m \in 1..MaxOps
  PROVE  Add(Partial(r, "A", m), Partial(PeerOf(r, "A"), "A", m)) = Partial(r, "B", m)
<1> DEFINE p == PeerOf(r, "A")
<1>1. p # r
  BY DEF PeerOf, Ranks
<1>2. Own(r, m) # {} /\ Own(p, m) # {}
  BY DEF Own
<1>3. Own(r, m) \cap Own(p, m) = {}
  BY <1>1 DEF Own
<1>4. /\ Partial(r, "A", m) = Own(r, m) /\ Partial(p, "A", m) = Own(p, m)
      /\ Partial(r, "B", m) = Own(r, m) \cup Own(p, m)
  BY DEF Partial
<1> QED
  BY <1>2, <1>3, <1>4 DEF Add

LEMMA SumB ==
  ASSUME NEW r \in Ranks, NEW m \in 1..MaxOps
  PROVE  Add(Partial(r, "B", m), Partial(PeerOf(r, "B"), "B", m)) = Total(m)
<1> DEFINE p == PeerOf(r, "B")
           a == PeerOf(r, "A")
           b == PeerOf(p, "A")
<1>1. /\ Ranks = {r, a, p, b}
      /\ r # p /\ r # b /\ a # p /\ a # b
  BY DEF PeerOf, Ranks
<1>2. /\ Partial(r, "B", m) = {<<r, m>>, <<a, m>>}
      /\ Partial(p, "B", m) = {<<p, m>>, <<b, m>>}
  BY DEF Partial, Own
<1> HIDE DEF a, b, p
<1>3. {<<r, m>>, <<a, m>>} \cap {<<p, m>>, <<b, m>>} = {}
  BY <1>1
<1>4. {<<r, m>>, <<a, m>>} \cup {<<p, m>>, <<b, m>>} = Ranks \X {m}
  BY <1>1
<1>5. Add({<<r, m>>, <<a, m>>}, {<<p, m>>, <<b, m>>}) = Ranks \X {m}
  BY <1>3, <1>4 DEF Add
<1> QED
  BY <1>2, <1>5 DEF Total, p

\* The receive slot a kernel reads holds its peer's data of the same op.
LEMMA ReadFacts ==
  ASSUME TypeOK, ControlInv, DataInv, NEW r \in Ranks, NEW l \in Links, Adding(r, l)
  PROVE  /\ kop[r] \in 1..MaxOps /\ kseq[r] = kop[r]
         /\ Gather(recv[r][l][SlotOf(kop[r])]) = Partial(PeerOf(r, l), l, kop[r])
<1> DEFINE p == PeerOf(r, l)
<1>1. p \in Ranks /\ PeerOf(p, l) = r
  BY PeerFacts
<1>2. /\ kop[r] \in 0..MaxOps /\ arm1[r] \in Nat /\ done[r] \in Nat
      /\ KernelInv(r)
  BY DEF TypeOK, KernelType, ControlInv
<1>3. kop[r] \in 1..MaxOps /\ kseq[r] = kop[r] /\ Passed(r, l) < kop[r]
  BY <1>2, ConstantsAssumption DEF KernelInv, Adding, Passed, Links
<1>4. ASSUME NEW q \in QPs
      PROVE  recv[r][l][SlotOf(kop[r])][q] = Partial(p, l, kop[r])
  <2>1. LinkInv(p, l, q) /\ RecvInv(p, l, q)
    BY <1>1 DEF ControlInv, DataInv
  <2>2. rung[p][l][q] \in Nat /\ placed[p][l][q] \in Nat
    BY <1>1 DEF TypeOK, LinkType
  <2>3. kop[r] <= placed[p][l][q]
    BY <1>1, <1>3, <2>1, <2>2 DEF LinkInv
  <2> QED
    BY <1>1, <1>3, <2>1, <2>3 DEF RecvInv
<1> QED
  BY <1>3, <1>4, GatherSame

LEMMA StageFacts ==
  ASSUME TypeOK, ControlInv, DataInv, Supported, [Next]_vars, NEW r \in Ranks, Stage(r)
  PROVE  /\ kop[r] + 1 \in 1..MaxOps
         /\ kop' = [kop EXCEPT ![r] = kop[r] + 1]
         /\ send' = [send EXCEPT ![r]["A"][SlotOf(kop[r] + 1)] = Own(r, kop[r] + 1)]
         /\ UNCHANGED <<engineVars, linkVars, arm1, done, recv, buf>>
<1>1. /\ kop' = [kop EXCEPT ![r] = kop[r] + 1] /\ kop[r] + 1 \in 1..MaxOps
      /\ kseq'[r] = (IF FromHost(r) THEN kop[r] + 1 ELSE claim[r] + 1)
      /\ kpc[r] = "idle"
  BY ConstantsAssumption DEF Stage, TypeOK, KernelType, EngineType
<1>2. KernelInv(r) /\ KernelInv(r)'
  BY KernelNext DEF ControlInv
<1>3. kop[r] \in Nat /\ kop'[r] = kop[r] + 1
  BY <1>1 DEF TypeOK, KernelType
<1>4. (IF FromHost(r) THEN kop[r] + 1 ELSE claim[r] + 1) = kop[r] + 1
  BY <1>1, <1>2, <1>3 DEF KernelInv
<1>5. buf[r][kop[r] + 1] = Own(r, kop[r] + 1)
  BY <1>1, <1>2, <1>3 DEF DataInv, BufInv, KernelInv
<1> QED
  BY <1>1, <1>4, <1>5 DEF Stage

LEMMA ReduceAFacts ==
  ASSUME TypeOK, ControlInv, DataInv, NEW r \in Ranks, ReduceA(r)
  PROVE  /\ kop[r] \in 1..MaxOps
         /\ arm1' = [arm1 EXCEPT ![r] = kop[r]]
         /\ send' = [send EXCEPT ![r]["B"][SlotOf(kop[r])] = Partial(r, "B", kop[r])]
         /\ UNCHANGED <<engineVars, linkVars, kop, done, recv, buf>>
<1>1. Adding(r, "A") /\ "A" \in Links
  BY DEF ReduceA, Adding, Links
<1>2. /\ kop[r] \in 1..MaxOps /\ kseq[r] = kop[r]
      /\ Gather(recv[r]["A"][SlotOf(kop[r])]) = Partial(PeerOf(r, "A"), "A", kop[r])
  BY <1>1, ReadFacts
<1>3. send[r]["A"][SlotOf(kop[r])] = Partial(r, "A", kop[r])
  BY <1>2, ConstantsAssumption DEF DataInv, SendInv
<1>4. Add(send[r]["A"][SlotOf(kop[r])], Gather(recv[r]["A"][SlotOf(kop[r])]))
        = Partial(r, "B", kop[r])
  BY <1>2, <1>3, SumA
<1> QED
  BY <1>2, <1>4 DEF ReduceA

LEMMA ReduceBFacts ==
  ASSUME TypeOK, ControlInv, DataInv, NEW r \in Ranks, ReduceB(r)
  PROVE  /\ kop[r] \in 1..MaxOps /\ done[r] = kop[r] - 1 /\ arm1[r] = kop[r]
         /\ done' = [done EXCEPT ![r] = kop[r]]
         /\ buf' = [buf EXCEPT ![r][kop[r]] = Total(kop[r])]
         /\ UNCHANGED <<engineVars, linkVars, kop, arm1, send, recv>>
<1>1. Adding(r, "B") /\ "B" \in Links
  BY DEF ReduceB, Adding, Links
<1>2. /\ kop[r] \in 1..MaxOps /\ kseq[r] = kop[r]
      /\ Gather(recv[r]["B"][SlotOf(kop[r])]) = Partial(PeerOf(r, "B"), "B", kop[r])
  BY <1>1, ReadFacts
<1>3. arm1[r] = kop[r] /\ done[r] = kop[r] - 1
  BY <1>1 DEF ControlInv, KernelInv, Adding
<1>4. send[r]["B"][SlotOf(kop[r])] = Partial(r, "B", kop[r])
  BY <1>2, <1>3, ConstantsAssumption DEF DataInv, SendInv
<1>5. Add(send[r]["B"][SlotOf(kop[r])], Gather(recv[r]["B"][SlotOf(kop[r])]))
        = Total(kop[r])
  BY <1>2, <1>4, SumB
<1> QED
  BY <1>2, <1>3, <1>5 DEF ReduceB

\* The segment the NIC reads is the one of the op the send slot holds.
LEMMA PlaceFacts ==
  ASSUME TypeOK, ControlInv, DataInv,
         NEW r \in Ranks, NEW l \in Links, NEW q \in QPs, placed[r][l][q] < posted[r][l]
  PROVE  /\ placed[r][l][q] + 1 \in 1..MaxOps
         /\ placed[r][l][q] + 1 = Published(r, l)
         /\ send[r][l][SlotOf(placed[r][l][q] + 1)] = Partial(r, l, placed[r][l][q] + 1)
<1>1. KernelInv(r) /\ EngineInv(r) /\ GateInv(r) /\ LinkInv(r, l, q) /\ SendInv(r)
  BY DEF ControlInv, DataInv
<1>2. /\ kop[r] \in 0..MaxOps /\ arm1[r] \in Nat /\ producer[r] \in Nat
      /\ posted[r][l] \in Nat /\ placed[r][l][q] \in Nat /\ reaped[r][l] \in Nat
      /\ rung[r][l][q] \in Nat
  BY DEF TypeOK, KernelType, LinkType
<1>3. posted[r][l] <= Published(r, l) /\ Published(r, l) <= kop[r] /\ Published(r, l) \in Nat
  BY <1>1, <1>2, PostedBound DEF Published, Links, KernelInv
<1>4. placed[r][l][q] >= kop[r] - 1
  BY <1>1, <1>2 DEF GateInv, LinkInv
<1>5. placed[r][l][q] + 1 = Published(r, l) /\ placed[r][l][q] + 1 = kop[r]
  BY <1>2, <1>3, <1>4
<1>6. kop[r] \in 1..MaxOps
  BY <1>2, <1>5, ConstantsAssumption
<1>7. CASE l = "A"
  BY <1>1, <1>5, <1>6, <1>7, ConstantsAssumption DEF SendInv, Published
<1>8. CASE l = "B"
  BY <1>1, <1>5, <1>6, <1>8, ConstantsAssumption DEF SendInv, Published
<1> QED
  BY <1>5, <1>6, <1>7, <1>8 DEF Links

----------------------------------------------------------------------------
(* Data: every action keeps it *)

LEMMA SendNext ==
  ASSUME TypeOK, ControlInv, DataInv, Supported, [Next]_vars
  PROVE  \A s \in Ranks : SendInv(s)'
<1> SUFFICES ASSUME NEW s \in Ranks
             PROVE  SendInv(s)'
  OBVIOUS
<1>1. SendInv(s) /\ KernelInv(s)
  BY DEF DataInv, ControlInv
<1>2. ASSUME UNCHANGED <<send[s], kop[s], arm1[s]>>
      PROVE  SendInv(s)'
  BY <1>1, <1>2 DEF SendInv
<1>3. ASSUME NEW r \in Ranks, Call(r) \/ Engine(r)
      PROVE  SendInv(s)'
  BY <1>2, <1>3
  DEF Call, Submit, Replay, Engine, Post, Release, SeeDone, ReapTail, kernelVars, dataVars
<1>4. ASSUME NEW r \in Ranks, NEW l \in Links, NEW q \in QPs, Nic(r, l, q)
      PROVE  SendInv(s)'
  BY <1>2, <1>4 DEF Nic, Place, Ring, kernelVars, dataVars
<1>5. ASSUME NEW r \in Ranks, Stage(r)
      PROVE  SendInv(s)'
  <2>1. /\ kop[r] + 1 \in 1..MaxOps
        /\ kop' = [kop EXCEPT ![r] = kop[r] + 1]
        /\ send' = [send EXCEPT ![r]["A"][SlotOf(kop[r] + 1)] = Own(r, kop[r] + 1)]
        /\ arm1' = arm1
    BY <1>5, StageFacts
  <2>2. CASE s # r
    BY <1>2, <2>1, <2>2
  <2>3. CASE s = r
    <3>1. kop'[s] = kop[s] + 1 /\ SlotOf(kop[s] + 1) \in Slots
      BY <2>1, <2>3, SlotType DEF TypeOK, KernelType
    <3>2. send'[s]["A"][SlotOf(kop[s] + 1)] = Own(s, kop[s] + 1)
      BY <2>1, <2>3, <3>1 DEF TypeOK, DataType, Links
    <3>3. send'[s]["B"] = send[s]["B"]
      BY <2>1, <2>3 DEF TypeOK, DataType, Links
    <3> QED
      BY <1>1, <2>1, <3>1, <3>2, <3>3 DEF SendInv, Partial
  <2> QED
    BY <2>2, <2>3
<1>6. ASSUME NEW r \in Ranks, NEW l \in Links, Arrive(r, l)
      PROVE  SendInv(s)'
  BY <1>2, <1>6 DEF Arrive, dataVars
<1>7. ASSUME NEW r \in Ranks, ReduceA(r)
      PROVE  SendInv(s)'
  <2>1. /\ kop[r] \in 1..MaxOps
        /\ arm1' = [arm1 EXCEPT ![r] = kop[r]]
        /\ send' = [send EXCEPT ![r]["B"][SlotOf(kop[r])] = Partial(r, "B", kop[r])]
        /\ kop' = kop
    BY <1>7, ReduceAFacts
  <2>2. CASE s # r
    BY <1>2, <2>1, <2>2
  <2>3. CASE s = r
    <3>1. arm1'[s] = kop[s] /\ SlotOf(kop[s]) \in Slots
      BY <2>1, <2>3, SlotType DEF TypeOK, KernelType
    <3>2. send'[s]["B"][SlotOf(kop[s])] = Partial(s, "B", kop[s])
      BY <2>1, <2>3, <3>1 DEF TypeOK, DataType, Links
    <3>3. send'[s]["A"] = send[s]["A"]
      BY <2>1, <2>3 DEF TypeOK, DataType, Links
    <3> QED
      BY <1>1, <2>1, <3>1, <3>2, <3>3 DEF SendInv
  <2> QED
    BY <2>2, <2>3
<1>8. ASSUME NEW r \in Ranks, ReduceB(r)
      PROVE  SendInv(s)'
  BY <1>2, <1>8 DEF ReduceB
<1>9. CASE UNCHANGED vars
  BY <1>2, <1>9 DEF vars
<1> QED
  BY <1>3, <1>4, <1>5, <1>6, <1>7, <1>8, <1>9 DEF Next, Kernel, Finished

LEMMA BufNext ==
  ASSUME TypeOK, ControlInv, DataInv, Supported, [Next]_vars
  PROVE  \A s \in Ranks : BufInv(s)'
<1> SUFFICES ASSUME NEW s \in Ranks
             PROVE  BufInv(s)'
  OBVIOUS
<1>1. BufInv(s)
  BY DEF DataInv
<1>2. ASSUME UNCHANGED <<buf[s], done[s]>>
      PROVE  BufInv(s)'
  BY <1>1, <1>2 DEF BufInv
<1>3. ASSUME NEW r \in Ranks, Call(r) \/ Engine(r)
      PROVE  BufInv(s)'
  BY <1>2, <1>3
  DEF Call, Submit, Replay, Engine, Post, Release, SeeDone, ReapTail, kernelVars, dataVars
<1>4. ASSUME NEW r \in Ranks, NEW l \in Links, NEW q \in QPs, Nic(r, l, q)
      PROVE  BufInv(s)'
  BY <1>2, <1>4 DEF Nic, Place, Ring, kernelVars, dataVars
<1>5. ASSUME NEW r \in Ranks, Stage(r) \/ ReduceA(r) \/ \E l \in Links : Arrive(r, l)
      PROVE  BufInv(s)'
  BY <1>2, <1>5 DEF Stage, ReduceA, Arrive, dataVars
<1>6. ASSUME NEW r \in Ranks, ReduceB(r)
      PROVE  BufInv(s)'
  <2>1. /\ kop[r] \in 1..MaxOps /\ done[r] = kop[r] - 1
        /\ done' = [done EXCEPT ![r] = kop[r]]
        /\ buf' = [buf EXCEPT ![r][kop[r]] = Total(kop[r])]
    BY <1>6, ReduceBFacts
  <2>2. CASE s # r
    BY <1>2, <2>1, <2>2
  <2>3. CASE s = r
    <3>1. done'[s] = kop[s]
      BY <2>1, <2>3 DEF TypeOK, KernelType
    <3>2. \A m \in 1..MaxOps : buf'[s][m] = IF m = kop[s] THEN Total(m) ELSE buf[s][m]
      BY <2>1, <2>3 DEF TypeOK, DataType
    <3>3. \A m \in 1..MaxOps : m <= kop[s] <=> m = kop[s] \/ m <= done[s]
      BY <2>1, <2>3, ConstantsAssumption
    <3> QED
      BY <1>1, <3>1, <3>2, <3>3 DEF BufInv
  <2> QED
    BY <2>2, <2>3
<1>7. CASE UNCHANGED vars
  BY <1>2, <1>7 DEF vars
<1> QED
  BY <1>3, <1>4, <1>5, <1>6, <1>7 DEF Next, Kernel, Finished

LEMMA RecvNext ==
  ASSUME TypeOK, ControlInv, DataInv, Supported, [Next]_vars
  PROVE  \A s \in Ranks, k \in Links, q \in QPs : RecvInv(s, k, q)'
<1> SUFFICES ASSUME NEW s \in Ranks, NEW k \in Links, NEW q \in QPs
             PROVE  RecvInv(s, k, q)'
  OBVIOUS
<1> DEFINE p == PeerOf(s, k)
<1>1. /\ p \in Ranks /\ PeerOf(p, k) = s
      /\ KernelInv(p) /\ RecvInv(s, k, q)
  BY PeerFacts DEF ControlInv, DataInv
<1> HIDE DEF p
<1>2. ASSUME recv'[p][k] = recv[p][k], placed'[s][k][q] = placed[s][k][q],
             arm1'[p] >= arm1[p], done'[p] >= done[p]
      PROVE  RecvInv(s, k, q)'
  <2>1. /\ arm1'[p] \in Nat /\ done'[p] \in Nat
        /\ arm1[p] \in Nat /\ done[p] \in Nat
    BY <1>1, TypeNext DEF TypeOK, KernelType
  <2>2. ASSUME NEW m \in 1..MaxOps, Passed(p, k)' < m
        PROVE  Passed(p, k) < m
    BY <1>2, <2>1, <2>2, ConstantsAssumption DEF Passed
  <2> QED
    BY <1>1, <1>2, <2>2 DEF RecvInv, Partial, p
<1>3. ASSUME NEW r \in Ranks, Call(r) \/ Engine(r)
      PROVE  RecvInv(s, k, q)'
  <2>1. UNCHANGED <<recv, placed, arm1, done>>
    BY <1>3 DEF Call, Submit, Replay, Engine, Post, Release, SeeDone, ReapTail,
      kernelVars, linkVars, dataVars
  <2> QED
    BY <1>1, <1>2, <2>1 DEF TypeOK, KernelType
<1>4. ASSUME NEW r \in Ranks, Kernel(r)
      PROVE  RecvInv(s, k, q)'
  <2>1. recv' = recv /\ placed' = placed
    BY <1>4 DEF Kernel, Stage, Arrive, ReduceA, ReduceB, linkVars, dataVars
  <2>2. arm1'[p] >= arm1[p] /\ done'[p] >= done[p]
    BY <1>1, <1>4 DEF Kernel, Stage, Arrive, ReduceA, ReduceB, KernelInv, TypeOK, KernelType
  <2> QED
    BY <1>2, <2>1, <2>2
<1>5. ASSUME NEW r \in Ranks, NEW l \in Links, NEW i \in QPs, Ring(r, l, i)
      PROVE  RecvInv(s, k, q)'
  <2>1. UNCHANGED <<recv, placed, arm1, done>>
    BY <1>5 DEF Ring, kernelVars, dataVars
  <2> QED
    BY <1>1, <1>2, <2>1 DEF TypeOK, KernelType
<1>6. ASSUME NEW r \in Ranks, NEW l \in Links, NEW i \in QPs, Place(r, l, i)
      PROVE  RecvInv(s, k, q)'
  <2> DEFINE seq == placed[r][l][i] + 1
             t == PeerOf(r, l)
  <2>1. /\ placed[r][l][i] < posted[r][l]
        /\ placed' = [placed EXCEPT ![r][l][i] = seq]
        /\ recv' = [recv EXCEPT ![t][l][SlotOf(seq)][i] = send[r][l][SlotOf(seq)]]
        /\ UNCHANGED <<arm1, done>>
    BY <1>6 DEF Place, kernelVars
  <2>2. /\ seq \in 1..MaxOps /\ SlotOf(seq) \in Slots /\ t \in Ranks /\ PeerOf(t, l) = r
        /\ send[r][l][SlotOf(seq)] = Partial(r, l, seq)
    BY <2>1, PlaceFacts, SlotType, PeerFacts
  <2> HIDE DEF seq, t
  <2>3. \A m \in 1..MaxOps :
          recv'[p][k][SlotOf(m)][q] =
            IF p = t /\ k = l /\ q = i /\ SlotOf(m) = SlotOf(seq)
            THEN Partial(r, l, seq) ELSE recv[p][k][SlotOf(m)][q]
    <3>1. \A m \in 1..MaxOps : SlotOf(m) \in Slots
      BY SlotType
    <3>2. recv \in [Ranks -> [Links -> [Slots -> [QPs -> SUBSET Contributions]]]]
      BY DEF TypeOK, DataType
    <3> QED
      BY <1>1, <2>1, <2>2, <3>1, <3>2
  <2>4. Passed(p, k)' = Passed(p, k)
    BY <2>1 DEF Passed
  <2>5. CASE ~(s = r /\ k = l /\ q = i)
    <3>1. ~(p = t /\ k = l /\ q = i)
      BY <1>1, <2>2, <2>5
    <3>2. placed'[s][k][q] = placed[s][k][q]
      <4>1. placed \in [Ranks -> [Links -> [QPs -> Nat]]]
        BY DEF TypeOK, LinkType
      <4> QED
        BY <2>1, <2>5, <4>1
    <3> QED
      BY <1>1, <2>3, <2>4, <3>1, <3>2 DEF RecvInv, Partial, p
  <2>6. CASE s = r /\ k = l /\ q = i
    <3>1. p = t /\ placed[s][k][q] \in Nat /\ seq = placed[s][k][q] + 1
          /\ placed'[s][k][q] = seq
      BY <2>1, <2>6 DEF TypeOK, LinkType, p, t, seq
    <3>2. Passed(p, k) \in Nat /\ seq <= Passed(p, k) + 2
      <4>1. /\ KernelInv(s) /\ posted[s][k] \in Nat /\ PeerOf(p, k) = s
            /\ arm1[p] \in Nat /\ done[p] \in Nat /\ producer[p] \in Nat
        BY <1>1 DEF ControlInv, TypeOK, LinkType, KernelType
      <4>2. posted[s][k] <= Published(p, k) + 1
        BY <1>1, <4>1, BellBound
      <4>3. Published(p, k) <= Passed(p, k) + 1
        BY <1>1, <4>1, PostedBound DEF Published, Passed, ControlInv
      <4>4. Passed(p, k) \in Nat /\ Published(p, k) \in Nat
        BY <4>1 DEF Passed, Published
      <4> QED
        BY <2>1, <2>6, <3>1, <4>1, <4>2, <4>3, <4>4
    <3>3. ASSUME NEW m \in 1..MaxOps, Passed(p, k) < m, m <= seq
          PROVE  recv'[p][k][SlotOf(m)][q] = Partial(s, k, m)
      <4>1. CASE m = seq
        BY <2>3, <2>6, <3>1, <4>1
      <4>2. CASE m # seq
        <5>1. seq = m + 1
          BY <2>2, <3>2, <3>3, <4>2, ConstantsAssumption
        <5>2. SlotOf(m) # SlotOf(seq)
          BY <5>1, SlotsDiffer, ConstantsAssumption
        <5>3. m <= placed[s][k][q]
          BY <3>1, <5>1, ConstantsAssumption
        <5>4. recv[p][k][SlotOf(m)][q] = Partial(s, k, m)
          BY <1>1, <3>3, <5>3 DEF RecvInv, p
        <5> QED
          BY <2>3, <5>2, <5>4
      <4> QED
        BY <4>1, <4>2
    <3> QED
      BY <2>4, <3>1, <3>3 DEF RecvInv, Partial, p
  <2> QED
    BY <2>5, <2>6
<1>7. CASE UNCHANGED vars
  <2>1. UNCHANGED <<recv, placed, arm1, done>>
    BY <1>7 DEF vars
  <2> QED
    BY <1>1, <1>2, <2>1 DEF TypeOK, KernelType
<1> QED
  BY <1>3, <1>4, <1>5, <1>6, <1>7 DEF Next, Nic, Finished

LEMMA DataInit == Init => DataInv
<1> SUFFICES ASSUME Init, NEW r \in Ranks
             PROVE  /\ SendInv(r) /\ BufInv(r)
                    /\ \A l \in Links, q \in QPs : RecvInv(r, l, q)
  BY DEF DataInv
<1>1. SendInv(r)
  BY DEF Init, SendInv
<1>2. BufInv(r)
  BY ConstantsAssumption DEF Init, BufInv
<1>3. \A l \in Links, q \in QPs : RecvInv(r, l, q)
  BY PeerFacts, ConstantsAssumption DEF Init, RecvInv, Passed
<1> QED
  BY <1>1, <1>2, <1>3

----------------------------------------------------------------------------
(* Theorems *)

LEMMA IInvInit == Init => IInv
BY TypeInit, ControlInit, DataInit DEF IInv

LEMMA IInvNext == Supported /\ IInv /\ [Next]_vars => IInv'
<1> SUFFICES ASSUME Supported, IInv, [Next]_vars
             PROVE  IInv'
  OBVIOUS
<1>1. TypeOK'
  BY TypeNext DEF IInv
<1>2. ControlInv'
  BY ControlNext DEF IInv
<1>3. DataInv'
  BY SendNext, BufNext, RecvNext DEF IInv, DataInv
<1> QED
  BY <1>1, <1>2, <1>3 DEF IInv

\* The invariant is inductive in every supported configuration.
THEOREM Inductive ==
  ASSUME Supported
  PROVE  Spec => []IInv
<1>1. IInv /\ [Next]_vars => IInv'
  BY IInvNext
<1> QED
  BY IInvInit, <1>1, PTL DEF Spec

LEMMA IInvSafe ==
  ASSUME IInv
  PROVE  NoProtocolError /\ BufInputOrSum /\ SlotsIntact
<1> USE DEF IInv
<1>1. NoProtocolError
  BY DEF ControlInv, KernelInv, EngineInv, NoProtocolError
<1>2. BufInputOrSum
  <2> SUFFICES ASSUME NEW r \in Ranks, NEW m \in 1..MaxOps
               PROVE  /\ buf[r][m] \in {Own(r, m), Total(m)}
                      /\ m <= completed[r] => buf[r][m] = Total(m)
    BY DEF BufInputOrSum
  <2>1. completed[r] <= done[r] /\ completed[r] \in Nat /\ done[r] \in Nat
    BY DEF ControlInv, EngineInv, TypeOK, EngineType, KernelType
  <2>2. buf[r][m] = IF m <= done[r] THEN Total(m) ELSE Own(r, m)
    BY DEF DataInv, BufInv
  <2> QED
    BY <2>1, <2>2, ConstantsAssumption
<1>3. SendSlotsIntact
  <2> SUFFICES ASSUME NEW r \in Ranks, NEW l \in Links, NEW q \in QPs,
                      NEW m \in (placed[r][l][q] + 1)..posted[r][l]
               PROVE  send[r][l][SlotOf(m)] = Partial(r, l, m)
    BY DEF SendSlotsIntact
  <2>1. /\ posted[r][l] \in Nat /\ placed[r][l][q] \in Nat
        /\ arm1[r] \in Nat /\ producer[r] \in Nat
    BY DEF TypeOK, LinkType, KernelType
  <2>2. /\ placed[r][l][q] + 1 = Published(r, l)
        /\ send[r][l][SlotOf(placed[r][l][q] + 1)] = Partial(r, l, placed[r][l][q] + 1)
    BY <2>1, PlaceFacts
  <2>3. posted[r][l] <= Published(r, l)
    BY PostedBound DEF ControlInv, Published, Links
  <2>4. m = placed[r][l][q] + 1
    BY <2>1, <2>2, <2>3
  <2> QED
    BY <2>2, <2>4
<1>4. RecvSlotsIntact
  <2> SUFFICES ASSUME NEW r \in Ranks
               PROVE  /\ kpc[r] = "addA" =>
                           Gather(recv[r]["A"][SlotOf(kseq[r])]) = Partial(PeerOf(r, "A"), "A", kseq[r])
                      /\ kpc[r] = "addB" =>
                           Gather(recv[r]["B"][SlotOf(kseq[r])]) = Partial(PeerOf(r, "B"), "B", kseq[r])
    BY DEF RecvSlotsIntact
  <2> QED
    BY ReadFacts DEF Adding, Links
<1> QED
  BY <1>1, <1>2, <1>3, <1>4 DEF SlotsIntact

\* No kernel and no engine ever reports a protocol error: the tolerance of one
\* op in wait_two is both necessary and enough.
THEOREM NoProtocolErrorHolds ==
  ASSUME Supported
  PROVE  Spec => []NoProtocolError
<1>1. IInv => NoProtocolError
  BY IInvSafe
<1> QED
  BY Inductive, <1>1, PTL

\* Every caller's buffer holds its input or the whole sum, and the sum once the
\* call has returned, for any number of ops, slots and queue pairs.
THEOREM BufferCorrect ==
  ASSUME Supported
  PROVE  Spec => []BufInputOrSum
<1>1. IInv => BufInputOrSum
  BY IInvSafe
<1> QED
  BY Inductive, <1>1, PTL

\* The slots are reused safely: neither the NIC of the sender nor that of the
\* peer ever works on a slot that still holds data of another op in use.
THEOREM SlotReuseSafe ==
  ASSUME Supported
  PROVE  Spec => []SlotsIntact
<1>1. IInv => SlotsIntact
  BY IInvSafe
<1> QED
  BY Inductive, <1>1, PTL

----------------------------------------------------------------------------
(***************************************************************************)
(* The refinement of AllReduce, and the last word on a caller's buffer.    *)
(***************************************************************************)

\* The chain of doorbells behind a result: when rank r reduces op m, every
\* rank has contributed to it.
LEMMA AllEntered ==
  ASSUME TypeOK, ControlInv, NEW r \in Ranks, Adding(r, "B"), NEW s \in Ranks
  PROVE  kop[s] >= kop[r]
<1> DEFINE a == PeerOf(r, "A")
           p == PeerOf(r, "B")
           b == PeerOf(p, "A")
<1>1. /\ Ranks = {r, a, p, b}
      /\ PeerOf(p, "B") = r /\ PeerOf(a, "A") = r /\ PeerOf(b, "A") = p
      /\ a \in Ranks /\ p \in Ranks /\ b \in Ranks /\ "A" \in Links /\ "B" \in Links
  BY DEF PeerOf, Ranks, Links
<1> HIDE DEF a, b, p
<1>2. 0 \in QPs
  BY ConstantsAssumption DEF QPs
<1>3. \A i \in Ranks, l \in Links :
        /\ rung[i][l][0] \in Nat /\ placed[i][l][0] \in Nat /\ posted[i][l] \in Nat
        /\ kop[i] \in Nat /\ arm1[i] \in Nat /\ producer[i] \in Nat /\ done[i] \in Nat
  BY <1>2, ConstantsAssumption DEF TypeOK, LinkType, KernelType
<1>4. \A i \in Ranks, l \in Links : KernelInv(i) /\ LinkInv(i, l, 0)
  BY <1>2 DEF ControlInv
<1>5. \A i \in Ranks : posted[i]["A"] <= producer[i] /\ posted[i]["B"] <= arm1[i]
  BY PostedBound DEF ControlInv
<1>6. \A i \in Ranks : arm1[i] <= kop[i] /\ producer[i] = kop[i]
  BY <1>3, <1>4 DEF KernelInv, Links
<1>7. \A i \in Ranks : arm1[PeerOf(i, "A")] <= rung[i]["A"][0]
  BY <1>1, <1>4 DEF LinkInv, Passed
<1>8. \A i \in Ranks : rung[i]["A"][0] <= kop[i]
  BY <1>1, <1>3, <1>4, <1>5, <1>6 DEF LinkInv
<1>9. kop[r] <= rung[p]["B"][0] /\ arm1[r] = kop[r]
  BY <1>1, <1>4 DEF LinkInv, Adding, KernelInv
<1>10. rung[p]["B"][0] <= arm1[p]
  BY <1>1, <1>3, <1>4, <1>5 DEF LinkInv
<1>11. kop[r] <= arm1[p]
  BY <1>1, <1>3, <1>9, <1>10
<1>12. CASE s = r
  <2>1. kop[r] \in Nat
    BY <1>1, <1>3
  <2> QED
    BY <1>12, <2>1
<1>13. CASE s = a
  BY <1>1, <1>3, <1>7, <1>8, <1>9, <1>13
<1>14. CASE s = p
  BY <1>1, <1>3, <1>6, <1>11, <1>14
<1>15. CASE s = b
  BY <1>1, <1>3, <1>7, <1>8, <1>11, <1>15
<1> QED
  BY <1>1, <1>12, <1>13, <1>14, <1>15

LEMMA FinishReturns ==
  ASSUME IInv, NEW r \in Ranks, FinishOp(r), done[r] >= cur[r], epc[r] # "idle",
         UNCHANGED <<kop, done, buf>>
  PROVE  AR!Return(r)
<1>1. completed[r] = cur[r] - 1 /\ completed[r] \in Nat /\ done[r] \in Nat /\ cur[r] \in Nat
  BY DEF IInv, ControlInv, EngineInv, TypeOK, EngineType, KernelType
<1> QED
  BY <1>1 DEF AR!Return, FinishOp

LEMMA StepSimulation == IInv /\ IInv' /\ Supported /\ [Next]_vars => [AR!Next]_(AR!vars)
<1> SUFFICES ASSUME IInv, Supported, [Next]_vars
             PROVE  AR!Next \/ UNCHANGED <<kop, done, completed, buf>>
  BY DEF AR!vars
<1>0. TypeOK /\ ControlInv /\ DataInv
  BY DEF IInv
<1>1. ASSUME NEW r \in Ranks, Call(r)
      PROVE  UNCHANGED <<kop, done, completed, buf>>
  BY <1>1 DEF Call, Submit, Replay, kernelVars, dataVars
<1>2. ASSUME NEW r \in Ranks, NEW l \in Links, Post(r, l) \/ Release(r, l)
      PROVE  UNCHANGED <<kop, done, completed, buf>>
  BY <1>2 DEF Post, Release, kernelVars, dataVars
<1>3. ASSUME NEW r \in Ranks, SeeDone(r)
      PROVE  AR!Next \/ UNCHANGED <<kop, done, completed, buf>>
  <2>1. UNCHANGED <<kop, done, buf>> /\ epc[r] = "done"
    BY <1>3 DEF SeeDone, kernelVars, dataVars
  <2>2. CASE FinishOp(r)
    <3>1. done[r] = cur[r]
      BY <1>0, <1>3, WordBound, EngineWaitFacts DEF SeeDone, ControlInv, TypeOK, KernelType
    <3>2. done[r] >= cur[r]
      BY <1>0, <3>1 DEF TypeOK, EngineType
    <3> QED
      BY <2>1, <2>2, <3>2, FinishReturns DEF AR!Next
  <2>3. CASE ~FinishOp(r)
    BY <1>3, <2>1, <2>3 DEF SeeDone
  <2> QED
    BY <2>2, <2>3
<1>4. ASSUME NEW r \in Ranks, ReapTail(r)
      PROVE  AR!Next \/ UNCHANGED <<kop, done, completed, buf>>
  <2>1. UNCHANGED <<kop, done, buf>> /\ epc[r] = "reap"
    BY <1>4 DEF ReapTail, kernelVars, dataVars
  <2>2. CASE FinishOp(r)
    <3>1. done[r] >= cur[r]
      BY <1>0, <2>1 DEF ControlInv, EngineInv
    <3> QED
      BY <2>1, <2>2, <3>1, FinishReturns DEF AR!Next
  <2>3. CASE ~FinishOp(r)
    BY <1>4, <2>1, <2>3 DEF ReapTail
  <2> QED
    BY <2>2, <2>3
<1>5. ASSUME NEW r \in Ranks, Stage(r)
      PROVE  AR!Next
  <2>1. /\ kop[r] + 1 \in 1..MaxOps /\ kop' = [kop EXCEPT ![r] = kop[r] + 1]
        /\ UNCHANGED <<done, completed, buf>>
    BY <1>0, <1>5, StageFacts DEF engineVars
  <2>2. kop[r] = done[r] /\ kop[r] \in Nat
    BY <1>0, <1>5 DEF Stage, ControlInv, KernelInv, TypeOK, KernelType
  <2>3. kop[r] < MaxOps
    BY <2>1, <2>2, ConstantsAssumption
  <2>4. AR!Enter(r)
    BY <2>1, <2>2, <2>3 DEF AR!Enter
  <2> QED
    BY <2>4 DEF AR!Next
<1>6. ASSUME NEW r \in Ranks, (\E l \in Links : Arrive(r, l)) \/ ReduceA(r)
      PROVE  UNCHANGED <<kop, done, completed, buf>>
  BY <1>6 DEF Arrive, ReduceA, engineVars, dataVars
<1>7. ASSUME NEW r \in Ranks, ReduceB(r)
      PROVE  AR!Next
  <2>1. /\ kop[r] \in 1..MaxOps /\ done[r] = kop[r] - 1
        /\ done' = [done EXCEPT ![r] = kop[r]]
        /\ buf' = [buf EXCEPT ![r][kop[r]] = Total(kop[r])]
        /\ UNCHANGED <<kop, completed>>
    BY <1>0, <1>7, ReduceBFacts DEF engineVars
  <2>2. Adding(r, "B")
    BY <1>7 DEF ReduceB, Adding
  <2>3. \A s \in Ranks : kop[s] >= kop[r]
    BY <1>0, <2>2, AllEntered
  <2>4. done[r] + 1 = kop[r]
    BY <2>1, ConstantsAssumption
  <2>5. AR!Total(kop[r]) = Total(kop[r])
    BY DEF AR!Total, Total
  <2>6. kop[r] <= kop[r]
    BY <2>1, ConstantsAssumption
  <2>7. AR!Reduce(r)
    BY <2>1, <2>3, <2>4, <2>5, <2>6 DEF AR!Reduce
  <2> QED
    BY <2>7 DEF AR!Next
<1>8. ASSUME NEW r \in Ranks, NEW l \in Links, NEW q \in QPs, Nic(r, l, q)
      PROVE  UNCHANGED <<kop, done, completed, buf>>
  BY <1>8 DEF Nic, Place, Ring, engineVars, kernelVars, dataVars
<1>9. CASE UNCHANGED vars
  BY <1>9 DEF vars
<1> QED
  BY <1>1, <1>2, <1>3, <1>4, <1>5, <1>6, <1>7, <1>8, <1>9
  DEF Next, Engine, Kernel, Finished

\* The engine is a sequence of all-reduces: no rank sees a result before every
\* rank has contributed, and each sees every result once and whole.
THEOREM Implements ==
  ASSUME Supported
  PROVE  Spec => ImplementsAllReduce
<1>1. Init => AR!Init
  BY DEF Init, AR!Init, Own, AR!Own
<1>2. IInv /\ IInv' /\ [Next]_vars => [AR!Next]_(AR!vars)
  BY StepSimulation
<1> QED
  BY <1>1, <1>2, Inductive, PTL DEF Spec, ImplementsAllReduce, AR!Spec

LEMMA WriteBackStep ==
  ASSUME IInv, Supported, [Next]_vars, NEW r \in Ranks, NEW m \in 1..MaxOps,
         buf'[r][m] # buf[r][m]
  PROVE  /\ \A l \in Links : posted[r][l] >= m /\ sendDone[r][l] >= m
         /\ epc[r] = "done" /\ cur[r] = m
<1>0. TypeOK /\ ControlInv /\ DataInv
  BY DEF IInv
<1>1. ReduceB(r)
  <2>1. ASSUME NEW s \in Ranks, ReduceB(s), s # r
        PROVE  FALSE
    <3>1. buf' = [buf EXCEPT ![s][kop[s]] = Total(kop[s])]
      BY <1>0, <2>1, ReduceBFacts
    <3> QED
      BY <1>0, <2>1, <3>1 DEF TypeOK, DataType
  <2>2. CASE \E s \in Ranks : ReduceB(s)
    BY <2>1, <2>2
  <2>3. CASE ~ \E s \in Ranks : ReduceB(s)
    <3>1. ASSUME NEW s \in Ranks, Call(s) \/ Engine(s)
          PROVE  buf' = buf
      BY <3>1 DEF Call, Submit, Replay, Engine, Post, Release, SeeDone, ReapTail, dataVars
    <3>2. ASSUME NEW s \in Ranks, Kernel(s)
          PROVE  buf' = buf
      BY <2>3, <3>2 DEF Kernel, Stage, Arrive, ReduceA, dataVars
    <3>3. ASSUME NEW s \in Ranks, NEW l \in Links, NEW q \in QPs, Nic(s, l, q)
          PROVE  buf' = buf
      BY <3>3 DEF Nic, Place, Ring, dataVars
    <3>4. CASE UNCHANGED vars
      BY <3>4 DEF vars
    <3> QED
      BY <3>1, <3>2, <3>3, <3>4 DEF Next, Finished
  <2> QED
    BY <2>2, <2>3
<1>2. /\ kop[r] \in 1..MaxOps /\ done[r] = kop[r] - 1 /\ arm1[r] = kop[r]
      /\ buf' = [buf EXCEPT ![r][kop[r]] = Total(kop[r])]
  BY <1>0, <1>1, ReduceBFacts
<1>3. m = kop[r]
  BY <1>0, <1>2 DEF TypeOK, DataType
<1>4. kop[r] <= sendDone[r]["A"] /\ kop[r] <= sendDone[r]["B"]
  BY <1>0, <1>1, <1>2 DEF ReduceB, ControlInv, GateInv
<1>5. epc[r] = "done" /\ cur[r] = kop[r]
  <2>1. /\ cur[r] \in Nat /\ done[r] \in Nat /\ kop[r] \in Nat
        /\ sendDone[r]["B"] \in Nat /\ last[r] \in Nat
        /\ EngineInv(r) /\ kop[r] <= last[r]
    BY <1>0, ConstantsAssumption
    DEF ControlInv, KernelInv, TypeOK, EngineType, KernelType, LinkType, Links
  <2>2. epc[r] \notin {"idle", "reap"}
    BY <1>2, <1>4, <2>1 DEF EngineInv, Links
  <2>3. epc[r] \notin {"producer", "postedA", "arm1", "postedB"}
    BY <1>2, <1>4, <2>1 DEF EngineInv, Links
  <2>4. epc[r] = "done"
    BY <1>0, <2>1, <2>2, <2>3 DEF TypeOK, EngineType, EngineInv
  <2> QED
    BY <1>2, <1>4, <2>1, <2>4 DEF EngineInv
<1>6. posted[r]["A"] = cur[r] /\ posted[r]["B"] = cur[r]
  BY <1>0, <1>5 DEF ControlInv, EngineInv
<1> QED
  BY <1>2, <1>3, <1>4, <1>5, <1>6, ConstantsAssumption DEF Links

\* The caller's buffer is written only while its engine is in the last wait of
\* that op, both bursts posted and released: whatever fails earlier leaves the
\* input untouched.
THEOREM WriteBackLastHolds ==
  ASSUME Supported
  PROVE  Spec => WriteBackLast
<1>1. IInv /\ [Next]_vars =>
        [\A r \in Ranks, m \in 1..MaxOps :
           buf'[r][m] # buf[r][m] =>
             /\ \A l \in Links : posted[r][l] >= m /\ sendDone[r][l] >= m
             /\ epc[r] = "done" /\ cur[r] = m]_vars
  BY WriteBackStep
<1> QED
  BY <1>1, Inductive, PTL DEF Spec, WriteBackLast
=============================================================================
