--------------------------- MODULE Ar2FaultProofs ---------------------------
(***************************************************************************)
(* Proofs about the failure path, for any number of ops and faults:        *)
(* FaultInv is inductive, and ErrorContained, EarlyErrorKeepsInput and     *)
(* OkMeansWritten follow from it.                                          *)
(***************************************************************************)
EXTENDS Ar2Fault, TLAPS

LEMMA PeerInRanks == \A r \in Ranks, l \in Links : PeerOf(r, l) \in Ranks
  BY DEF PeerOf, Ranks, Links

LEMMA InitFaultInv == Init => FaultInv
  <1> SUFFICES ASSUME Init PROVE FaultInv
    OBVIOUS
  <1> USE FaultConstants
  <1>1. TypeOK
    BY DEF Init, TypeOK, Waiting, Links
  <1>2. ASSUME NEW r \in Ranks PROVE CallInv(r)
    BY <1>2 DEF Init, CallInv, Waiting, Done
  <1>3. ASSUME NEW r \in Ranks PROVE WireInv(r)
    BY <1>3, PeerInRanks DEF Init, WireInv, Arm1, Written, Links
  <1> QED
    BY <1>1, <1>2, <1>3 DEF FaultInv

\* abort_path and the hook's fallback: whatever made the call of the next op
\* fail, the invariant holds afterwards.
LEMMA FailKeeps ==
  ASSUME FaultInv, NEW r \in Ranks, epc[r] \in Waiting \cup {"idle", "reap"},
         completed[r] < MaxOps, Fail(r, completed[r] + 1),
         UNCHANGED <<kernelVars, posted, rung, up>>, faults' \in 0..MaxFaults
  PROVE  FaultInv'
  <1> USE FaultConstants
  <1>1. TypeOK'
    <2>1. completed[r] + 1 \in 0..MaxOps
      BY DEF FaultInv, TypeOK
    <2>2. /\ epc' \in [Ranks -> Waiting \cup {"idle", "reap", "native", "dead"}]
          /\ failedAt' \in [Ranks -> 0..MaxOps]
          /\ abort' \in [Ranks -> SUBSET Links]
      BY <2>1 DEF FaultInv, TypeOK, Fail, Poison
    <2>3. bell' \in [Ranks -> [Links -> BOOLEAN]]
      BY DEF FaultInv, TypeOK, Fail, Announce
    <2> QED
      BY <2>2, <2>3 DEF FaultInv, TypeOK, Fail, kernelVars
  <1>2. ASSUME NEW q \in Ranks PROVE CallInv(q)'
    BY <1>2 DEF FaultInv, TypeOK, CallInv, Fail, kernelVars, Waiting, Done
  <1>3. ASSUME NEW q \in Ranks PROVE WireInv(q)'
    BY <1>3, PeerInRanks
       DEF FaultInv, TypeOK, WireInv, Fail, kernelVars, Waiting, Arm1, Written
  <1> QED
    BY <1>1, <1>2, <1>3 DEF FaultInv

LEMMA CallKeeps == ASSUME FaultInv, NEW r \in Ranks, Call(r) PROVE FaultInv'
  <1> USE FaultConstants
  <1>0. epc[r] = "idle" /\ completed[r] < MaxOps /\ op[r] = completed[r]
    BY DEF Call, FaultInv, CallInv
  <1>1. CASE abort[r] # {} \/ \E l \in Links : AbortBell(r, l)
    BY <1>0, <1>1, FailKeeps DEF Call, FaultInv, TypeOK
  <1>2. CASE ~(abort[r] # {} \/ \E l \in Links : AbortBell(r, l))
    <2>1. /\ epc' = [epc EXCEPT ![r] = "producer"]
          /\ op' = [op EXCEPT ![r] = op[r] + 1]
          /\ UNCHANGED <<completed, failedAt, abort, wireVars, kernelVars, up, faults>>
      BY <1>2 DEF Call, wireVars
    <2>2. TypeOK'
      <3>1. op[r] + 1 \in 0..MaxOps
        BY <1>0 DEF FaultInv, TypeOK
      <3>2. epc' \in [Ranks -> Waiting \cup {"idle", "reap", "native", "dead"}]
        BY <2>1 DEF FaultInv, TypeOK, Waiting
      <3>3. op' \in [Ranks -> 0..MaxOps]
        BY <2>1, <3>1 DEF FaultInv, TypeOK
      <3> QED
        BY <2>1, <3>2, <3>3 DEF FaultInv, TypeOK, kernelVars, wireVars
    <2>3. ASSUME NEW q \in Ranks PROVE CallInv(q)'
      BY <1>0, <2>1, <2>3
         DEF FaultInv, TypeOK, CallInv, kernelVars, wireVars, Waiting, Done
    <2>4. ASSUME NEW q \in Ranks PROVE WireInv(q)'
      BY <1>0, <2>1, <2>4, PeerInRanks
         DEF FaultInv, TypeOK, WireInv, kernelVars, wireVars, Arm1, Written
    <2> QED
      BY <2>2, <2>3, <2>4 DEF FaultInv
  <1> QED
    BY <1>1, <1>2

\* post_burst: the word that was awaited is what orders the burst.
LEMMA PostKeeps ==
  ASSUME FaultInv, NEW r \in Ranks, NEW l \in Links, Post(r, l) PROVE FaultInv'
  <1> USE FaultConstants DEF Post
  <1>1. TypeOK'
    <2>1. op[r] \in 0..MaxOps /\ posted[r] \in [Links -> 0..MaxOps]
          /\ rung[r] \in [Links -> 0..MaxOps]
      BY DEF FaultInv, TypeOK
    <2>2. epc' \in [Ranks -> Waiting \cup {"idle", "reap", "native", "dead"}]
      BY DEF FaultInv, TypeOK, Waiting
    <2>3. [posted[r] EXCEPT ![l] = op[r]] \in [Links -> 0..MaxOps]
      BY <2>1
    <2>4. posted' = [posted EXCEPT ![r] = [posted[r] EXCEPT ![l] = op[r]]]
      BY DEF FaultInv, TypeOK
    <2>5. posted' \in [Ranks -> [Links -> 0..MaxOps]]
      BY <2>3, <2>4 DEF FaultInv, TypeOK
    <2>6. rung' \in [Ranks -> [Links -> 0..MaxOps]]
      <3> DEFINE n == IF up[r][l] THEN op[r] ELSE rung[r][l]
      <3>1. n \in 0..MaxOps
        BY <2>1
      <3>2. rung' = [rung EXCEPT ![r] = [rung[r] EXCEPT ![l] = n]]
        BY DEF FaultInv, TypeOK
      <3> HIDE DEF n
      <3>3. [rung[r] EXCEPT ![l] = n] \in [Links -> 0..MaxOps]
        BY <2>1, <3>1
      <3> QED
        BY <3>2, <3>3 DEF FaultInv, TypeOK
    <2>7. bell' \in [Ranks -> [Links -> BOOLEAN]]
      <3>1. bell[r] \in [Links -> BOOLEAN]
        BY DEF FaultInv, TypeOK
      <3>2. [bell[r] EXCEPT ![l] = @ /\ ~up[r][l]] \in [Links -> BOOLEAN]
        BY <3>1, Zenon
      <3>3. bell' = [bell EXCEPT ![r] = [bell[r] EXCEPT ![l] = @ /\ ~up[r][l]]]
        BY DEF FaultInv, TypeOK
      <3> QED
        BY <3>2, <3>3 DEF FaultInv, TypeOK
    <2> QED
      BY <2>2, <2>5, <2>6, <2>7 DEF FaultInv, TypeOK, kernelVars
  <1>2. ASSUME NEW q \in Ranks PROVE CallInv(q)'
    BY <1>2 DEF FaultInv, TypeOK, CallInv, kernelVars, Waiting, Done, BeatOf
  <1>3. ASSUME NEW q \in Ranks PROVE WireInv(q)'
    <2>1. /\ Arm1(q)' = Arm1(q) /\ Arm1(q) \in Int
          /\ Written(q)' = Written(q) /\ Written(q) \in Int
          /\ op' = op /\ op[q] \in Int /\ op[r] \in Int
          /\ kop' = kop /\ kop[q] \in Int /\ kop[q] <= op[q]
      BY <1>3 DEF FaultInv, TypeOK, CallInv, kernelVars, Arm1, Written
    <2>2. \A x \in Ranks, k \in Links :
             /\ posted'[x][k] = IF x = r /\ k = l THEN op[r] ELSE posted[x][k]
             /\ posted[x][k] \in Int
      BY DEF FaultInv, TypeOK
    <2>3. \A x \in Ranks, k \in Links :
             /\ rung'[x][k] = IF x = r /\ k = l /\ up[r][l] THEN op[r] ELSE rung[x][k]
             /\ rung[x][k] \in Int
      BY DEF FaultInv, TypeOK
    <2>4. Arm1(r) <= kop[r] /\ Arm1(r) \in Int /\ kop[r] <= op[r]
          /\ kop[r] \in Int
      BY DEF FaultInv, TypeOK, CallInv, Arm1
    <2>5. \A k \in Links : posted[r][k] <= op[r]
      <3>1. posted[r]["A"] <= kop[r] /\ posted[r]["B"] <= Arm1(r)
        BY DEF FaultInv, WireInv
      <3>2. posted[r]["A"] \in Int /\ posted[r]["B"] \in Int
        BY DEF FaultInv, TypeOK, Links
      <3>3. posted[r]["A"] <= op[r] /\ posted[r]["B"] <= op[r]
        BY <2>1, <2>4, <3>1, <3>2
      <3> QED
        BY <3>3 DEF Links
    <2>6. \A x \in Ranks, k \in Links : rung[x][k] <= posted[x][k]
      BY DEF FaultInv, WireInv
    <2> HIDE DEF Post
    <2>7. \A x \in Ranks, k \in Links : rung[x][k] <= rung'[x][k]
      <3> SUFFICES ASSUME NEW x \in Ranks, NEW k \in Links
                   PROVE  rung[x][k] <= rung'[x][k]
        OBVIOUS
      <3>1. CASE x = r /\ k = l /\ up[r][l]
        <4>1. rung'[x][k] = op[r] /\ posted[x][k] <= op[r]
          BY <2>3, <2>5, <3>1
        <4>2. rung[x][k] <= posted[x][k] /\ rung[x][k] \in Int /\ posted[x][k] \in Int
          BY <2>2, <2>3, <2>6
        <4> QED
          BY <2>1, <4>1, <4>2
      <3>2. CASE ~(x = r /\ k = l /\ up[r][l])
        <4>1. rung'[x][k] = rung[x][k] /\ rung[x][k] \in Int
          BY <2>3, <3>2
        <4> QED
          BY <4>1
      <3> QED
        BY <3>1, <3>2
    <2>8. \A x \in Ranks, k \in Links : rung'[x][k] <= posted'[x][k]
      <3> SUFFICES ASSUME NEW x \in Ranks, NEW k \in Links
                   PROVE  rung'[x][k] <= posted'[x][k]
        OBVIOUS
      <3>1. rung[x][k] <= posted[x][k] /\ rung[x][k] \in Int /\ posted[x][k] \in Int
        BY <2>2, <2>3, <2>6
      <3>2. x = r => posted[x][k] <= op[r]
        BY <2>5
      <3>3. posted'[x][k] = IF x = r /\ k = l THEN op[r] ELSE posted[x][k]
        BY <2>2
      <3>4. rung'[x][k] = IF x = r /\ k = l /\ up[r][l] THEN op[r] ELSE rung[x][k]
        BY <2>3
      <3> QED
        BY <2>1, <3>1, <3>2, <3>3, <3>4
    <2>9. \A x \in Ranks, k \in Links : posted[x][k] <= posted'[x][k]
      <3> SUFFICES ASSUME NEW x \in Ranks, NEW k \in Links
                   PROVE  posted[x][k] <= posted'[x][k]
        OBVIOUS
      <3>1. posted'[x][k] = IF x = r /\ k = l THEN op[r] ELSE posted[x][k]
        BY <2>2
      <3>2. posted[x][k] \in Int /\ (x = r => posted[x][k] <= op[r])
        BY <2>2, <2>5
      <3> QED
        BY <2>1, <3>1, <3>2
    <2> USE DEF Post
    <2>10. /\ posted'[q]["A"] <= kop[q]
          /\ posted'[q]["B"] <= Arm1(q)
      BY <1>3, <2>1, <2>2 DEF FaultInv, WireInv, Links, BeatOf, Awaited
    <2>11. l = "B" => posted[r]["A"] = op[r]
      BY DEF FaultInv, WireInv, BeatOf
    <2>12. epc'[q] = IF q = r THEN (IF l = "A" THEN "arm1" ELSE "done") ELSE epc[q]
      BY <1>3 DEF FaultInv, TypeOK
    <2>13. posted'[q]["B"] <= posted'[q]["A"]
      <3>1. posted[q]["B"] <= posted[q]["A"]
        BY <1>3 DEF FaultInv, WireInv
      <3>2. "A" \in Links /\ "B" \in Links /\ l \in {"A", "B"}
        BY DEF Links
      <3>3. CASE q = r /\ l = "A"
        BY <1>3, <2>2, <2>5, <3>2, <3>3
      <3>4. CASE q = r /\ l = "B"
        BY <1>3, <2>1, <2>2, <2>11, <3>2, <3>4
      <3>5. CASE q # r
        BY <1>3, <2>2, <3>1, <3>2, <3>5
      <3> QED
        BY <3>2, <3>3, <3>4, <3>5
    <2>14. epc'[q] \in {"arm1", "done", "reap"} => posted'[q]["A"] = op[q]
      <3>1. epc[q] \in {"arm1", "done", "reap"} => posted[q]["A"] = op[q]
        BY <1>3 DEF FaultInv, WireInv
      <3> QED
        BY <1>3, <2>2, <2>11, <2>12, <3>1 DEF Links
    <2>15. /\ Arm1(q) <= rung'[PeerOf(q, "A")]["A"]
           /\ Written(q) <= rung'[PeerOf(q, "B")]["B"]
      <3> DEFINE x == PeerOf(q, "A")
                 y == PeerOf(q, "B")
      <3>1. x \in Ranks /\ y \in Ranks /\ "A" \in Links /\ "B" \in Links
        BY <1>3, PeerInRanks DEF Links
      <3>2. Arm1(q) <= rung[x]["A"] /\ Written(q) <= rung[y]["B"]
        BY <1>3 DEF FaultInv, WireInv
      <3> HIDE DEF x, y
      <3>3. /\ rung[x]["A"] <= rung'[x]["A"] /\ rung[y]["B"] <= rung'[y]["B"]
            /\ rung[x]["A"] \in Int /\ rung'[x]["A"] \in Int
            /\ rung[y]["B"] \in Int /\ rung'[y]["B"] \in Int
        BY <2>1, <2>3, <2>7, <3>1
      <3>4. Arm1(q) <= rung'[x]["A"] /\ Written(q) <= rung'[y]["B"]
        BY <2>1, <3>2, <3>3
      <3> QED
        BY <3>4 DEF x, y
    <2>16. Arm1(q) <= posted'[q]["A"] /\ Written(q) <= posted'[q]["B"]
      BY <1>3, <2>1, <2>2, <2>9 DEF FaultInv, WireInv, Links
    <2> QED
      BY <1>3, <2>1, <2>8, <2>10, <2>13, <2>14, <2>15, <2>16 DEF WireInv
  <1> QED
    BY <1>1, <1>2, <1>3 DEF FaultInv

LEMMA GiveUpKeeps ==
  ASSUME FaultInv, NEW r \in Ranks, GiveUp(r), faults' \in 0..MaxFaults
  PROVE  FaultInv'
  <1>1. op[r] = completed[r] + 1 /\ completed[r] < MaxOps
    BY FaultConstants DEF GiveUp, FaultInv, TypeOK, CallInv
  <1> QED
    BY <1>1, FailKeeps DEF GiveUp

LEMMA ReapKeeps == ASSUME FaultInv, NEW r \in Ranks, Reap(r) PROVE FaultInv'
  <1> USE FaultConstants
  <1>1. op[r] = completed[r] + 1 /\ completed[r] < MaxOps
    BY DEF Reap, FaultInv, TypeOK, CallInv
  <1>2. CASE completed' = [completed EXCEPT ![r] = op[r]] /\ epc' = [epc EXCEPT ![r] = "idle"]
             /\ UNCHANGED <<op, failedAt, abort, bell>>
    <2>1. TypeOK'
      BY <1>2 DEF Reap, FaultInv, TypeOK, kernelVars
    <2>2. ASSUME NEW q \in Ranks PROVE CallInv(q)'
      BY <1>2, <2>2 DEF Reap, FaultInv, TypeOK, CallInv, kernelVars, Waiting, Done
    <2>3. ASSUME NEW q \in Ranks PROVE WireInv(q)'
      BY <1>2, <2>3, PeerInRanks
         DEF Reap, FaultInv, TypeOK, WireInv, kernelVars, Arm1, Written
    <2> QED
      BY <2>1, <2>2, <2>3 DEF FaultInv
  <1>3. CASE Fail(r, op[r])
    BY <1>1, <1>3, FailKeeps DEF Reap, FaultInv, TypeOK
  <1> QED
    BY <1>2, <1>3 DEF Reap

\* The kernel's steps: a wait that ends well has the peer's burst and the own.
LEMMA KernelKeeps == ASSUME FaultInv, NEW r \in Ranks, Kernel(r) PROVE FaultInv'
  <1> USE FaultConstants
  <1>1. CASE Stage(r)
    <2>1. TypeOK'
      BY <1>1 DEF Stage, FaultInv, TypeOK, CallInv, engineVars, wireVars
    <2>2. ASSUME NEW q \in Ranks PROVE CallInv(q)'
      BY <1>1, <2>2
         DEF Stage, FaultInv, TypeOK, CallInv, engineVars, wireVars, Waiting, Done
    <2>3. ASSUME NEW q \in Ranks PROVE WireInv(q)'
      <3>1. /\ Arm1(q)' = Arm1(q) /\ Written(q)' = Written(q)
            /\ kop[q] <= kop'[q] /\ kop[q] \in Int /\ kop'[q] \in Int
        BY <1>1, <2>3 DEF Stage, FaultInv, TypeOK, Arm1, Written
      <3>2. UNCHANGED <<epc, op, posted, rung>>
        BY <1>1 DEF Stage, engineVars, wireVars
      <3>3. posted[q]["A"] \in Int
        BY <2>3 DEF FaultInv, TypeOK, Links
      <3> QED
        BY <2>3, <3>1, <3>2, <3>3 DEF FaultInv, WireInv
    <2> QED
      BY <2>1, <2>2, <2>3 DEF FaultInv
  <1>2. ASSUME NEW l \in Links, Arrive(r, l) PROVE FaultInv'
    <2>1. TypeOK'
      BY <1>2 DEF Arrive, FaultInv, TypeOK, engineVars, wireVars
    <2>2. ASSUME NEW q \in Ranks PROVE CallInv(q)'
      BY <1>2, <2>2
         DEF Arrive, FaultInv, TypeOK, CallInv, engineVars, wireVars, Waiting, Done
    <2>3. ASSUME NEW q \in Ranks PROVE WireInv(q)'
      <3>1. UNCHANGED <<epc, op, kop, posted, rung>>
        BY <1>2 DEF Arrive, engineVars, wireVars
      <3>2. CASE q # r
        <4>1. Arm1(q)' = Arm1(q) /\ Written(q)' = Written(q)
          BY <1>2, <2>3, <3>1, <3>2 DEF Arrive, FaultInv, TypeOK, Arm1, Written
        <4> QED
          BY <2>3, <3>1, <4>1 DEF FaultInv, WireInv
      <3>3. CASE q = r
        <4>1. PeerOf(r, l) \in Ranks /\ kop[r] \in Int /\ posted[r][l] \in Int
              /\ rung[PeerOf(r, l)][l] \in Int
          BY PeerInRanks DEF FaultInv, TypeOK
        <4>2. kpc[r] = (IF l = "A" THEN "waitA" ELSE "waitB")
          BY <1>2 DEF Arrive
        <4>3. CASE KernelWait(r, l) = "ok"
          <5>1. kop[r] <= rung[PeerOf(r, l)][l] /\ kop[r] <= posted[r][l]
            BY <4>1, <4>3 DEF KernelWait
          <5>2. kpc'[r] = IF l = "A" THEN "waitB" ELSE "final"
            BY <1>2, <4>3 DEF Arrive, FaultInv, TypeOK
          <5>3. CASE l = "A"
            <6>1. /\ Arm1(r)' = kop[r] /\ Arm1(r) = kop[r] - 1
                  /\ Written(r)' = Written(r)
              BY <3>1, <4>2, <5>2, <5>3 DEF Arm1, Written
            <6>2. posted[r]["B"] \in Int
              BY DEF FaultInv, TypeOK, Links
            <6> QED
              BY <3>1, <3>3, <4>1, <5>1, <5>3, <6>1, <6>2 DEF FaultInv, WireInv
          <5>4. CASE l = "B"
            <6>1. Arm1(r)' = Arm1(r) /\ Written(r)' = kop[r]
              BY <3>1, <4>2, <5>2, <5>4 DEF Arm1, Written
            <6> QED
              BY <3>1, <3>3, <5>1, <5>4, <6>1 DEF FaultInv, WireInv
          <5> QED
            BY <5>3, <5>4 DEF Links
        <4>4. CASE KernelWait(r, l) # "ok"
          <5>1. kpc'[r] = IF l = "A" THEN "errA" ELSE "errB"
            BY <1>2, <4>4 DEF Arrive, FaultInv, TypeOK
          <5>2. Arm1(r)' = Arm1(r) /\ Written(r)' = Written(r)
            BY <3>1, <4>2, <5>1 DEF Arm1, Written
          <5> QED
            BY <3>1, <3>3, <5>2 DEF FaultInv, WireInv
        <4> QED
          BY <4>3, <4>4
      <3> QED
        BY <3>2, <3>3
    <2> QED
      BY <2>1, <2>2, <2>3 DEF FaultInv
  <1>3. CASE WriteBack(r)
    <2>1. TypeOK'
      BY <1>3 DEF WriteBack, FaultInv, TypeOK, engineVars, wireVars
    <2>2. ASSUME NEW q \in Ranks PROVE CallInv(q)'
      BY <1>3, <2>2
         DEF WriteBack, FaultInv, TypeOK, CallInv, engineVars, wireVars, Waiting, Done
    <2>3. ASSUME NEW q \in Ranks PROVE WireInv(q)'
      BY <1>3, <2>3, PeerInRanks
         DEF WriteBack, FaultInv, TypeOK, WireInv, engineVars, wireVars, Arm1, Written
    <2> QED
      BY <2>1, <2>2, <2>3 DEF FaultInv
  <1> QED
    BY <1>1, <1>2, <1>3 DEF Kernel

\* SeeDone, and the faults, leave what the invariant relates alone.
LEMMA RestKeeps ==
  ASSUME FaultInv,
         \/ \E r \in Ranks : SeeDone(r)
         \/ Environment
         \/ UNCHANGED vars
  PROVE  FaultInv'
  <1> USE FaultConstants
  <1>1. ASSUME NEW r \in Ranks, SeeDone(r) PROVE FaultInv'
    <2>1. TypeOK'
      BY <1>1 DEF SeeDone, FaultInv, TypeOK, kernelVars, wireVars
    <2>2. ASSUME NEW q \in Ranks PROVE CallInv(q)'
      BY <1>1, <2>2
         DEF SeeDone, FaultInv, TypeOK, CallInv, kernelVars, wireVars, Waiting, Done
    <2>3. ASSUME NEW q \in Ranks PROVE WireInv(q)'
      BY <1>1, <2>3, PeerInRanks
         DEF SeeDone, FaultInv, TypeOK, WireInv, kernelVars, wireVars, Arm1, Written
    <2> QED
      BY <2>1, <2>2, <2>3 DEF FaultInv
  <1>2. ASSUME NEW r \in Ranks, NEW l \in Links, CutLink(r, l) PROVE FaultInv'
    BY <1>2, PeerInRanks
       DEF CutLink, Fault, FaultInv, TypeOK, CallInv, WireInv, engineVars,
           kernelVars, wireVars, Waiting, Arm1, Written, Done
  <1>3. ASSUME NEW r \in Ranks, Crash(r) PROVE FaultInv'
    BY <1>3, PeerInRanks
       DEF Crash, Fault, FaultInv, TypeOK, CallInv, WireInv, kernelVars,
           wireVars, Waiting, Arm1, Written, Done
  <1>4. ASSUME NEW r \in Ranks, ExternalAbort(r) PROVE FaultInv'
    BY <1>4, PeerInRanks
       DEF ExternalAbort, Poison, Announce, Fault, FaultInv, TypeOK, CallInv,
           WireInv, engineVars, kernelVars, Waiting, Arm1, Written, Done
  <1>5. ASSUME NEW r \in Ranks, PostFails(r) PROVE FaultInv'
    <2>1. epc[r] \in Waiting /\ op[r] = completed[r] + 1 /\ completed[r] < MaxOps
      BY <1>5 DEF PostFails, FaultInv, TypeOK, CallInv, Waiting
    <2>2. faults' \in 0..MaxFaults
      BY <1>5 DEF PostFails, Fault, FaultInv, TypeOK
    <2> QED
      BY <1>5, <2>1, <2>2, FailKeeps DEF PostFails
  <1>6. CASE UNCHANGED vars
    BY <1>6, PeerInRanks
       DEF vars, FaultInv, TypeOK, CallInv, WireInv, Waiting, Arm1, Written, Done
  <1>7. Faulty \subseteq Ranks
    BY DEF FaultConstants, Ranks
  <1> QED
    BY <1>1, <1>2, <1>3, <1>4, <1>5, <1>6, <1>7 DEF Environment

LEMMA NextFaultInv == FaultInv /\ [Next]_vars => FaultInv'
  <1> SUFFICES ASSUME FaultInv, [Next]_vars PROVE FaultInv'
    OBVIOUS
  <1>1. ASSUME NEW r \in Ranks, Call(r) PROVE FaultInv'
    BY <1>1, CallKeeps
  <1>2. ASSUME NEW r \in Ranks, NEW l \in Links, Post(r, l) PROVE FaultInv'
    BY <1>2, PostKeeps
  <1>3. ASSUME NEW r \in Ranks, Notice(r) PROVE FaultInv'
    BY <1>3, GiveUpKeeps DEF Notice, FaultInv, TypeOK
  <1>4. ASSUME NEW r \in Ranks, Deadline(r) PROVE FaultInv'
    <2>1. faults' \in 0..MaxFaults
      BY <1>4, FaultConstants DEF Deadline, FaultInv, TypeOK
    <2> QED
      BY <1>4, <2>1, GiveUpKeeps DEF Deadline
  <1>5. ASSUME NEW r \in Ranks, Reap(r) PROVE FaultInv'
    BY <1>5, ReapKeeps
  <1>6. ASSUME NEW r \in Ranks, Kernel(r) PROVE FaultInv'
    BY <1>6, KernelKeeps
  <1>7. ASSUME NEW r \in Ranks, SeeDone(r) PROVE FaultInv'
    BY <1>7, RestKeeps
  <1>8. CASE Environment
    BY <1>8, RestKeeps
  <1>9. CASE Finished \/ UNCHANGED vars
    BY <1>9, RestKeeps DEF Finished
  <1> QED
    BY <1>1, <1>2, <1>3, <1>4, <1>5, <1>6, <1>7, <1>8, <1>9 DEF Next, Engine

\* The invariant of the words, doorbells and calls (engine_wait, wait_two,
\* post_burst) holds throughout.
THEOREM FaultInductive == Spec => []FaultInv
  BY InitFaultInv, NextFaultInv, PTL DEF Spec

\* A rank that got AR2_OK for op m proves that all four ranks posted their
\* burst A of op m: its own, its two peers' and, through link B, the fourth's.
LEMMA OkNeedsAll ==
  ASSUME FaultInv, NEW q \in Ranks, NEW r \in Ranks
  PROVE  completed[q] <= posted[r]["A"]
  <1> DEFINE a == PeerOf(q, "A")
             b == PeerOf(q, "B")
             d == PeerOf(b, "A")
  <1>0. a \in Ranks /\ b \in Ranks /\ d \in Ranks /\ r \in {q, a, b, d}
    BY DEF PeerOf, Ranks
  <1> HIDE DEF a, b, d
  <1>1. completed[q] <= Done(q) /\ Done(q) <= Written(q) /\ Written(q) <= Arm1(q)
        /\ Done(q) \in Int /\ Written(q) \in Int /\ Arm1(q) \in Int
    BY DEF FaultInv, TypeOK, CallInv, Done, Written, Arm1
  <1>2. completed[q] <= posted[q]["A"]
    BY <1>1 DEF FaultInv, TypeOK, WireInv, Links
  <1>3. Arm1(q) <= posted[a]["A"]
    BY <1>0, <1>1 DEF FaultInv, TypeOK, WireInv, Links, a
  <1>4. Written(q) <= posted[b]["B"] /\ posted[b]["B"] \in Int
    BY <1>0, <1>1 DEF FaultInv, TypeOK, WireInv, Links, b
  <1>5. posted[b]["B"] <= posted[b]["A"]
    BY <1>0 DEF FaultInv, WireInv
  <1>6. posted[b]["B"] <= Arm1(b) /\ Arm1(b) \in Int
    BY <1>0 DEF FaultInv, TypeOK, WireInv, Arm1
  <1>7. Arm1(b) <= posted[d]["A"]
    BY <1>0, <1>6 DEF FaultInv, TypeOK, WireInv, Links, d
  <1>8. \A x \in {q, a, b, d} : posted[x]["A"] \in Int
    BY <1>0 DEF FaultInv, TypeOK, Links
  <1>9. completed[q] \in Int
    BY DEF FaultInv, TypeOK
  <1> QED
    BY <1>0, <1>1, <1>2, <1>3, <1>4, <1>5, <1>6, <1>7, <1>8, <1>9

LEMMA ErrorContainedFromInv == FaultInv => ErrorContained
  <1> SUFFICES ASSUME FaultInv, NEW r \in Ranks, NEW q \in Ranks, failedAt[r] # 0
               PROVE  /\ completed[q] <= failedAt[r]
                      /\ completed[q] = failedAt[r] => posted[r]["A"] = failedAt[r]
    BY DEF ErrorContained
  <1>0. completed[q] \in Int /\ posted[r]["A"] \in Int /\ failedAt[r] \in Int
    BY DEF FaultInv, TypeOK, Links
  <1>1. completed[q] <= posted[r]["A"]
    BY OkNeedsAll
  <1>2. posted[r]["A"] <= failedAt[r]
    BY DEF FaultInv, TypeOK, CallInv, WireInv, Links
  <1> QED
    BY <1>0, <1>1, <1>2

\* An error on one rank is contained (abort_path, the hook's fallback): no
\* rank is told AR2_OK for a later op, nor for an op a peer failed to send.
THEOREM ErrorContainedHolds == Spec => []ErrorContained
  BY FaultInductive, ErrorContainedFromInv, PTL

LEMMA EarlyErrorFromInv == FaultInv => EarlyErrorKeepsInput
  BY DEF FaultInv, TypeOK, WireInv, EarlyErrorKeepsInput, Written, Links

\* An op that failed before its burst B (allreduce_one) is never written back,
\* by whatever the kernel that is still on the stream sees.
THEOREM EarlyErrorHolds == Spec => []EarlyErrorKeepsInput
  BY FaultInductive, EarlyErrorFromInv, PTL

LEMMA OkMeansWrittenFromInv == FaultInv => OkMeansWritten
  BY DEF FaultInv, TypeOK, CallInv, WireInv, OkMeansWritten, Written, Done,
         Arm1, Links

\* AR2_OK means a written buffer, and a failed session posts nothing more
\* (done_wait, the poisoned check of allreduce_one).
THEOREM OkMeansWrittenHolds == Spec => []OkMeansWritten
  BY FaultInductive, OkMeansWrittenFromInv, PTL
=============================================================================
