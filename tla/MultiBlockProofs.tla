------------------------- MODULE MultiBlockProofs --------------------------
(***************************************************************************)
(* Proofs about MultiBlock, for any number of ops and of blocks of each.   *)
(*                                                                         *)
(* The argument counts.  Before an op every arrival counter stands at      *)
(* arr_total, because the op before it was published in all three phases,  *)
(* so all its blocks had arrived.  Within the op the counter is ahead of   *)
(* that by the blocks that have arrived (CountInv), so the target is       *)
(* reached when all of them have.                                          *)
(***************************************************************************)
EXTENDS MultiBlock, FiniteSetTheorems, TLAPS

\* The blocks of the kernel that was launched last.
Width == IF op = 0 THEN 0 ELSE Blocks[op]

Steps == {"write", "arrive", "publish", "wait", "rest", "left", "over"}

\* Block b has counted itself at the counter of phase p.
Past(b, p) == blk[b].phase > p \/ (blk[b].phase = p /\ blk[b].step = "publish")
Counted(p) == {b \in Ids : Past(b, p)}

MBTypeOK ==
  /\ op \in 0 .. Len(Blocks) /\ beat \in 0..3 /\ failed \in BOOLEAN /\ total \in Int
  /\ arr \in [Phases -> Int] /\ word \in [Phases -> Int]
  /\ blk \in [1..Width -> [phase : 1..4, step : Steps]]
  /\ shards \in [Phases -> SUBSET Ids]

CountInv == \A p \in Phases : arr[p] = total - Width + Cardinality(Counted(p))

PublishInv ==
  /\ beat # 0 => op # 0
  /\ \A p \in Phases :
       /\ word[p] <= op
       /\ op # 0 /\ word[p] = op => Counted(p) = Ids
       /\ op # 0 /\ (beat = 0 \/ p < beat) => word[p] = op
       /\ \A b \in Ids : blk[b] = At(p, "publish") => Counted(p) = Ids

ShardInv ==
  /\ shards[3] # {} => op # 0 /\ beat \in {0, 3}
  /\ \A b \in Ids : blk[b] = At(3, "write") => op # 0 /\ beat \in {0, 3}
  /\ \A p \in Phases :
       /\ Counted(p) \subseteq shards[p]
       /\ \A b \in Ids : blk[b] = At(p, "arrive") => b \in shards[p]

MBInv == MBTypeOK /\ CountInv /\ PublishInv /\ ShardInv

-----------------------------------------------------------------------------
LEMMA WidthNat ==
  ASSUME Blocks \in Seq(Nat), MBTypeOK PROVE Width \in Nat /\ Ids = 1..Width
  BY DEF Width, MBTypeOK, Ids

LEMMA IdsFinite ==
  ASSUME Blocks \in Seq(Nat), MBTypeOK
  PROVE  /\ IsFiniteSet(Ids) /\ Cardinality(Ids) = Width
         /\ \A p : IsFiniteSet(Counted(p)) /\ Cardinality(Counted(p)) \in Nat
  <1>1. IsFiniteSet(Ids) /\ Cardinality(Ids) = Width
    BY WidthNat, FS_Interval
  <1>2. \A p : Counted(p) \in SUBSET Ids
    BY DEF Counted
  <1>3. \A p : IsFiniteSet(Counted(p)) /\ Cardinality(Counted(p)) \in Nat
    BY <1>1, <1>2, FS_Subset, FS_CardinalityType
  <1> QED
    BY <1>1, <1>3

LEMMA InitMB == ASSUME Blocks \in Seq(Nat), Init PROVE MBInv
  <1>1. Width = 0 /\ Ids = {}
    BY DEF Init, Width, Ids
  <1>2. MBTypeOK
    <2>1. 1..Width = {}
      BY <1>1
    <2>2. blk \in [1..Width -> [phase : 1..4, step : Steps]]
      BY <2>1 DEF Init
    <2>0. Len(Blocks) \in Nat
      OBVIOUS
    <2>3. op \in 0 .. Len(Blocks) /\ beat \in 0..3 /\ total \in Int
      BY <2>0 DEF Init
    <2>5. failed \in BOOLEAN
      BY DEF Init
    <2>4. arr \in [Phases -> Int] /\ word \in [Phases -> Int] /\ shards \in [Phases -> SUBSET Ids]
      BY DEF Init
    <2> QED
      BY <2>2, <2>3, <2>4, <2>5 DEF MBTypeOK
  <1>3. \A p : Counted(p) = {} /\ Cardinality(Counted(p)) = 0
    BY <1>1, FS_EmptySet DEF Counted
  <1>4. CountInv
    BY <1>1, <1>3 DEF CountInv, Init
  <1>5. PublishInv
    BY <1>1 DEF PublishInv, Init
  <1>6. ShardInv
    BY <1>1, <1>3 DEF ShardInv, Init, Phases
  <1> QED
    BY <1>2, <1>4, <1>5, <1>6 DEF MBInv

\* Between two ops every counter stands at the total.
LEMMA CaughtUp ==
  ASSUME Blocks \in Seq(Nat), MBInv, beat = 0
  PROVE  \A p \in Phases : arr[p] = total
  <1> SUFFICES ASSUME NEW p \in Phases PROVE arr[p] = total
    OBVIOUS
  <1>1. arr[p] = total - Width + Cardinality(Counted(p))
    BY DEF MBInv, CountInv
  <1>2. total \in Int /\ Width \in Nat
    BY WidthNat DEF MBInv, MBTypeOK
  <1>3. CASE op = 0
    <2>1. Width = 0 /\ Counted(p) = {}
      BY <1>3, WidthNat DEF MBInv, Width, Counted
    <2> QED
      BY <2>1, <1>1, <1>2, FS_EmptySet
  <1>4. CASE op # 0
    <2>1. Counted(p) = Ids
      BY <1>4 DEF MBInv, PublishInv
    <2>2. Cardinality(Counted(p)) = Width
      BY <2>1, IdsFinite DEF MBInv
    <2> QED
      BY <2>2, <1>1, <1>2
  <1> QED
    BY <1>3, <1>4

LEMMA SubmitStep ==
  ASSUME Blocks \in Seq(Nat), MBInv, Submit PROVE MBInv'
  <1>1. /\ beat = 0 /\ op \in 0 .. Len(Blocks) /\ op < Len(Blocks) /\ Len(Blocks) \in Nat
        /\ op' = op + 1 /\ beat' = 1 /\ total' = total + Blocks[op + 1]
        /\ arr' = arr /\ word' = word /\ total \in Int /\ Blocks[op + 1] \in Nat
    BY DEF Submit, MBInv, MBTypeOK
  <1>2. failed' \in BOOLEAN
    BY DEF Submit, MBInv, MBTypeOK
  <1>3. Width' = Blocks[op + 1] /\ blk' = [b \in 1..Width' |-> At(1, "write")]
    BY <1>1 DEF Width, Submit
  <1>4. Ids' = 1..Width' /\ \A b \in Ids' : blk'[b] = At(1, "write")
    BY <1>3 DEF Ids
  <1>5. \A p \in Phases : Counted(p)' = {}
    BY <1>4 DEF Counted, Past, At, Phases
  <1>6. MBTypeOK'
    <2>1. At(1, "write") \in [phase : 1..4, step : Steps]
      BY DEF At, Steps
    <2>2. blk' \in [1..Width' -> [phase : 1..4, step : Steps]]
      BY <2>1, <1>3
    <2>3. shards' \in [Phases -> SUBSET Ids']
      BY DEF Submit
    <2>4. op' \in 0 .. Len(Blocks) /\ beat' \in 0..3 /\ total' \in Int
      BY <1>1
    <2>5. arr' \in [Phases -> Int] /\ word' \in [Phases -> Int]
      BY <1>1 DEF MBInv, MBTypeOK
    <2> QED
      BY <2>2, <2>3, <2>4, <2>5, <1>2 DEF MBTypeOK
  <1>7. CountInv'
    <2> SUFFICES ASSUME NEW p \in Phases
                 PROVE  arr'[p] = total' - Width' + Cardinality(Counted(p)')
      BY DEF CountInv
    <2>1. arr[p] = total
      BY <1>1, CaughtUp
    <2>2. Cardinality(Counted(p)') = 0
      BY <1>5, FS_EmptySet
    <2> QED
      BY <1>1, <1>3, <2>1, <2>2
  <1>8. PublishInv'
    <2>1. op' # 0 /\ beat' = 1
      BY <1>1
    <2>2. \A p \in Phases : word'[p] < op'
      BY <1>1 DEF MBInv, MBTypeOK, PublishInv
    <2>3. \A p \in Phases : word'[p] <= op' /\ word'[p] # op' /\ beat' # 0 /\ ~(p < beat')
      <3> SUFFICES ASSUME NEW p \in Phases
                   PROVE  word'[p] <= op' /\ word'[p] # op' /\ beat' # 0 /\ ~(p < beat')
        OBVIOUS
      <3>1. word'[p] \in Int
        BY <1>1 DEF MBInv, MBTypeOK
      <3>2. word'[p] < op'
        BY <2>2
      <3>3. ~(p < beat') /\ beat' # 0
        BY <1>1 DEF Phases
      <3> QED
        BY <1>1, <3>1, <3>2, <3>3
    <2>4. \A p \in Phases, b \in Ids' : blk'[b] # At(p, "publish")
      BY <1>4 DEF At
    <2> QED
      BY <2>1, <2>3, <2>4 DEF PublishInv
  <1>9. ShardInv'
    <2>1. shards'[3] = {}
      BY DEF Submit, Phases
    <2>2. \A b \in Ids' : blk'[b] # At(3, "write") /\ \A p : blk'[b] # At(p, "arrive")
      BY <1>4 DEF At
    <2>3. \A p \in Phases : Counted(p)' \subseteq shards'[p]
      BY <1>5
    <2> QED
      BY <2>1, <2>2, <2>3 DEF ShardInv
  <1> QED
    BY <1>6, <1>7, <1>8, <1>9 DEF MBInv

\* The steps of the engine and of the peers that leave the kernel alone.
LEMMA HostStep ==
  ASSUME Blocks \in Seq(Nat), MBInv, UNCHANGED <<op, total, kernelVars>>,
         \/ Advance
         \/ UNCHANGED beat /\ failed' \in BOOLEAN
  PROVE  MBInv'
  <1>1. Ids' = Ids /\ Width' = Width /\ \A p : Counted(p)' = Counted(p)
    BY DEF kernelVars, Ids, Width, Counted, Past
  <1>2. beat' \in 0..3 /\ failed' \in BOOLEAN
    <2>1. CASE Advance
      BY <2>1 DEF Advance, MBInv, MBTypeOK
    <2>2. CASE UNCHANGED beat /\ failed' \in BOOLEAN
      BY <2>2 DEF MBInv, MBTypeOK
    <2> QED
      BY <2>1, <2>2
  <1>3. MBTypeOK'
    BY <1>1, <1>2 DEF MBInv, MBTypeOK, kernelVars
  <1>4. CountInv'
    BY <1>1 DEF MBInv, CountInv, kernelVars
  <1>5. /\ beat' # 0 => op # 0
        /\ \A p \in Phases : op # 0 /\ (beat' = 0 \/ p < beat') => word[p] = op
        /\ beat \in {0, 3} /\ op # 0 => beat' \in {0, 3}
    <2>1. CASE Advance
      BY <2>1 DEF Advance, MBInv, MBTypeOK, PublishInv, Phases
    <2>2. CASE UNCHANGED beat
      BY <2>2 DEF MBInv, PublishInv
    <2> QED
      BY <2>1, <2>2
  <1>6. PublishInv'
    BY <1>1, <1>5 DEF MBInv, PublishInv, kernelVars
  <1>7. ShardInv'
    BY <1>1, <1>5 DEF MBInv, ShardInv, kernelVars
  <1> QED
    BY <1>3, <1>4, <1>6, <1>7 DEF MBInv

-----------------------------------------------------------------------------
(***************************************************************************)
(* A step of block b in phase p, to the place it goes to.                  *)
(***************************************************************************)

\* What a step of a block changes, its counters and words apart.
Moves(b, p, to) ==
  /\ b \in Ids /\ p \in Phases
  /\ to \in [phase : 1..4, step : Steps]
  /\ blk' = [blk EXCEPT ![b] = to]
  /\ UNCHANGED engineVars

LEMMA MoveKeeps ==
  ASSUME Blocks \in Seq(Nat), MBInv, NEW b, NEW p, NEW to, Moves(b, p, to),
         arr' \in [Phases -> Int], word' \in [Phases -> Int],
         shards' \in [Phases -> SUBSET Ids]
  PROVE  /\ MBTypeOK'
         /\ Ids' = Ids /\ Width' = Width
         /\ blk'[b] = to /\ \A c \in Ids : c # b => blk'[c] = blk[c]
         /\ \A q : \A c \in Ids : c # b => (Past(c, q)' <=> Past(c, q))
  <1>1. blk \in [1..Width -> [phase : 1..4, step : Steps]] /\ Ids = 1..Width
    BY WidthNat DEF MBInv, MBTypeOK
  <1>2. Width' = Width /\ op' = op
    BY DEF Moves, engineVars, Width
  <1>3. blk' \in [1..Width -> [phase : 1..4, step : Steps]]
    BY <1>1 DEF Moves
  <1>4. Ids' = Ids
    BY <1>1, <1>3 DEF Ids
  <1>5. blk'[b] = to /\ \A c \in Ids : c # b => blk'[c] = blk[c]
    BY <1>1 DEF Moves
  <1>6. op' \in 0 .. Len(Blocks) /\ beat' \in 0..3 /\ total' \in Int
    BY DEF Moves, engineVars, MBInv, MBTypeOK
  <1>7. failed' \in BOOLEAN
    BY DEF Moves, engineVars, MBInv, MBTypeOK
  <1>8. MBTypeOK'
    BY <1>2, <1>3, <1>4, <1>6, <1>7 DEF MBTypeOK
  <1> QED
    BY <1>2, <1>4, <1>5, <1>8 DEF Past

\* A step that neither counts nor publishes.
LEMMA QuietStep ==
  ASSUME Blocks \in Seq(Nat), MBInv, NEW b \in Ids, NEW p \in Phases,
         Write(b, p) \/ Wait(b, p) \/ Rest(b, p)
  PROVE  MBInv'
  <1> DEFINE to == blk'[b]
  <1>1. /\ blk[b] \in {At(p, "write"), At(p, "wait"), At(p, "rest")}
        /\ to \in {At(p, "arrive"), At(p, "write"), At(p, "rest"), At(p, "left")}
        /\ blk' = [blk EXCEPT ![b] = to]
    BY WidthNat DEF Write, Wait, Rest, Go, MBInv, MBTypeOK, Ids
  <1>2. UNCHANGED <<engineVars, arr, word>>
    BY DEF Write, Wait, Rest
  <1>3. shards' \in [Phases -> SUBSET Ids] /\ \A q \in Phases : shards[q] \subseteq shards'[q]
    BY DEF Write, Wait, Rest, MBInv, MBTypeOK
  <1>4. Moves(b, p, to)
    BY <1>1, <1>2 DEF Moves, At, Steps, Phases
  <1>5. /\ MBTypeOK' /\ Ids' = Ids /\ Width' = Width
        /\ \A c \in Ids : c # b => blk'[c] = blk[c]
        /\ \A q : \A c \in Ids : c # b => (Past(c, q)' <=> Past(c, q))
    <2>1. arr' \in [Phases -> Int] /\ word' \in [Phases -> Int]
      BY <1>2 DEF MBInv, MBTypeOK
    <2> HIDE DEF to
    <2> QED
      BY <2>1, <1>3, <1>4, MoveKeeps
  <1>6. \A q : Counted(q)' = Counted(q)
    <2>1. \A q : Past(b, q)' <=> Past(b, q)
      BY <1>1 DEF Past, At
    <2> QED
      BY <2>1, <1>5 DEF Counted
  <1>7. CountInv'
    BY <1>2, <1>5, <1>6 DEF MBInv, CountInv, engineVars
  <1>8. PublishInv'
    <2>1. \A q \in Phases : \A c \in Ids : blk'[c] = At(q, "publish") => blk[c] = At(q, "publish")
      BY <1>1, <1>5 DEF At
    <2> QED
      BY <1>2, <1>5, <1>6, <2>1 DEF MBInv, PublishInv, engineVars
  <1>9. ShardInv'
    <2>1. CASE Write(b, p)
      <3>1. shards' = [shards EXCEPT ![p] = @ \cup {b}] /\ to = At(p, "arrive")
        BY <2>1, <1>1 DEF Write, Go, MBInv, MBTypeOK, Ids
      <3>2. shards'[3] # {} => op # 0 /\ beat \in {0, 3}
        <4>1. CASE p = 3
          BY <4>1, <2>1 DEF Write, MBInv, ShardInv
        <4>2. CASE p # 3
          BY <4>2, <3>1 DEF MBInv, ShardInv, MBTypeOK, Phases
        <4> QED
          BY <4>1, <4>2
      <3>3. \A c \in Ids : blk'[c] = At(3, "write") => op # 0 /\ beat \in {0, 3}
        BY <3>1, <1>5 DEF MBInv, ShardInv, At
      <3>4. \A q \in Phases : \A c \in Ids : blk'[c] = At(q, "arrive") => c \in shards'[q]
        <4> SUFFICES ASSUME NEW q \in Phases, NEW c \in Ids, blk'[c] = At(q, "arrive")
                     PROVE  c \in shards'[q]
          OBVIOUS
        <4>1. CASE c = b
          BY <4>1, <3>1 DEF At, MBInv, MBTypeOK
        <4>2. CASE c # b
          BY <4>2, <1>5, <1>3 DEF MBInv, ShardInv
        <4> QED
          BY <4>1, <4>2
      <3> QED
        BY <3>2, <3>3, <3>4, <1>2, <1>3, <1>5, <1>6 DEF MBInv, ShardInv, engineVars
    <2>2. CASE Wait(b, p)
      <3>1. shards' = shards /\ to \in {At(p, "write"), At(p, "rest")}
        BY <2>2, <1>1 DEF Wait, Go, MBInv, MBTypeOK, Ids
      <3>2. to = At(3, "write") => op # 0 /\ beat \in {0, 3}
        <4> SUFFICES ASSUME to = At(3, "write") PROVE op # 0 /\ beat \in {0, 3}
          OBVIOUS
        <4>1. p = 3 /\ Released(p)
          BY <3>1, <2>2 DEF At, Wait, Go, Outcome, MBInv, MBTypeOK, Ids
        <4>2. beat \in {0, 3}
          BY <4>1 DEF Released, MBInv, MBTypeOK
        <4>3. op # 0
          BY WidthNat DEF MBInv, MBTypeOK, Width
        <4> QED
          BY <4>2, <4>3
      <3>3. \A c \in Ids : blk'[c] = At(3, "write") => op # 0 /\ beat \in {0, 3}
        BY <3>2, <1>5 DEF MBInv, ShardInv
      <3>4. \A q \in Phases : \A c \in Ids : blk'[c] = At(q, "arrive") => blk[c] = At(q, "arrive")
        BY <3>1, <1>5 DEF At
      <3> QED
        BY <3>1, <3>3, <3>4, <1>2, <1>5, <1>6 DEF MBInv, ShardInv, engineVars
    <2>3. CASE Rest(b, p)
      <3>1. shards' = shards /\ to = At(p, "left")
        BY <2>3, <1>1 DEF Rest, Go, MBInv, MBTypeOK, Ids
      <3>2. \A c \in Ids : blk'[c] = At(3, "write") => op # 0 /\ beat \in {0, 3}
        BY <3>1, <1>5 DEF MBInv, ShardInv, At
      <3>3. \A q \in Phases : \A c \in Ids : blk'[c] = At(q, "arrive") => blk[c] = At(q, "arrive")
        BY <3>1, <1>5 DEF At
      <3> QED
        BY <3>1, <3>2, <3>3, <1>2, <1>5, <1>6 DEF MBInv, ShardInv, engineVars
    <2> QED
      BY <2>1, <2>2, <2>3
  <1> QED
    BY <1>5, <1>7, <1>8, <1>9 DEF MBInv

LEMMA PlaceAfter ==
  ASSUME NEW p \in Phases
  PROVE  /\ After(p) \in [phase : 1..4, step : Steps] /\ After(p).phase = p + 1
         /\ After(p).step \in {"wait", "over"}
  BY DEF After, At, Over, Steps, Phases

\* The last block to arrive finds the target.
LEMMA ArriveStep ==
  ASSUME Blocks \in Seq(Nat), MBInv, NEW b \in Ids, NEW p \in Phases, Arrive(b, p)
  PROVE  MBInv'
  <1> DEFINE to == blk'[b]
  <1>1. /\ blk[b] = At(p, "arrive")
        /\ to = IF arr[p] + 1 = total THEN At(p, "publish") ELSE After(p)
        /\ blk' = [blk EXCEPT ![b] = to]
        /\ arr' = [arr EXCEPT ![p] = @ + 1]
    BY WidthNat DEF Arrive, Target, Go, MBInv, MBTypeOK, Ids
  <1>2. UNCHANGED <<engineVars, word, shards>>
    BY DEF Arrive
  <1>3. to \in [phase : 1..4, step : Steps]
    BY <1>1, PlaceAfter DEF At, Steps, Phases
  <1>4. Moves(b, p, to)
    BY <1>1, <1>2, <1>3 DEF Moves
  <1>5. /\ MBTypeOK' /\ Ids' = Ids /\ Width' = Width
        /\ \A c \in Ids : c # b => blk'[c] = blk[c]
        /\ \A q : \A c \in Ids : c # b => (Past(c, q)' <=> Past(c, q))
    <2>1. /\ arr' \in [Phases -> Int] /\ word' \in [Phases -> Int]
          /\ shards' \in [Phases -> SUBSET Ids]
      BY <1>1, <1>2 DEF MBInv, MBTypeOK
    <2> HIDE DEF to
    <2> QED
      BY <2>1, <1>4, MoveKeeps
  <1>6. \A q \in Phases : Past(b, q)' <=> Past(b, q) \/ q = p
    <2> SUFFICES ASSUME NEW q \in Phases PROVE Past(b, q)' <=> Past(b, q) \/ q = p
      OBVIOUS
    <2>1. Past(b, q) <=> p > q
      BY <1>1 DEF Past, At
    <2>2. CASE to = At(p, "publish")
      <3>1. Past(b, q)' <=> p > q \/ p = q
        BY <2>2 DEF Past, At
      <3> QED
        BY <2>1, <3>1
    <2>3. CASE to = After(p)
      <3>1. Past(b, q)' <=> p + 1 > q
        BY <2>3, PlaceAfter DEF Past
      <3> QED
        BY <2>1, <3>1 DEF Phases
    <2> QED
      BY <1>1, <2>2, <2>3
  <1>7. /\ b \notin Counted(p)
        /\ Counted(p)' = Counted(p) \cup {b}
        /\ \A q \in Phases : q # p => Counted(q)' = Counted(q)
    <2>1. ~Past(b, p)
      BY <1>1 DEF Past, At, Phases
    <2> QED
      BY <2>1, <1>5, <1>6 DEF Counted
  <1>8. CountInv'
    <2> SUFFICES ASSUME NEW q \in Phases
                 PROVE  arr'[q] = total - Width + Cardinality(Counted(q)')
      BY <1>2, <1>5 DEF CountInv, engineVars
    <2>1. arr[q] = total - Width + Cardinality(Counted(q)) /\ arr[q] \in Int
      BY DEF MBInv, CountInv, MBTypeOK
    <2>2. CASE q = p
      <3>1. Cardinality(Counted(p)') = Cardinality(Counted(p)) + 1
        BY <1>7, IdsFinite, FS_AddElement DEF MBInv
      <3>2. arr'[p] = arr[p] + 1
        BY <1>1 DEF MBInv, MBTypeOK
      <3>3. Cardinality(Counted(p)) \in Nat /\ total \in Int /\ Width \in Nat
        BY IdsFinite, WidthNat DEF MBInv, MBTypeOK
      <3> QED
        BY <2>1, <2>2, <3>1, <3>2, <3>3
    <2>3. CASE q # p
      BY <2>1, <2>3, <1>1, <1>7 DEF MBInv, MBTypeOK
    <2> QED
      BY <2>2, <2>3
  <1>9. to = At(p, "publish") => Counted(p)' = Ids
    <2> SUFFICES ASSUME to = At(p, "publish") PROVE Counted(p)' = Ids
      OBVIOUS
    <2>1. arr[p] + 1 = total
      BY <1>1, PlaceAfter DEF At
    <2>2. arr'[p] = arr[p] + 1
      BY <1>1 DEF MBInv, MBTypeOK
    <2>3. arr'[p] = total - Width + Cardinality(Counted(p)')
      BY <1>8, <1>2, <1>5 DEF CountInv, engineVars
    <2>4. Counted(p)' \in SUBSET Ids /\ IsFiniteSet(Ids) /\ Cardinality(Ids) = Width
      BY <1>7, IdsFinite DEF Counted, MBInv
    <2>5. Cardinality(Counted(p)') \in Nat
      BY <2>4, FS_Subset, FS_CardinalityType
    <2>6. Cardinality(Counted(p)') = Width
      BY <2>1, <2>2, <2>3, <2>5, WidthNat DEF MBInv, MBTypeOK
    <2> QED
      BY <2>4, <2>6, FS_Subset
  <1>10. PublishInv'
    <2>1. \A q \in Phases : Counted(q) = Ids => Counted(q)' = Ids
      BY <1>7
    <2>2. ASSUME NEW q \in Phases, NEW c \in Ids, blk'[c] = At(q, "publish")
          PROVE  Counted(q)' = Ids
      <3>1. CASE c = b
        <4>1. q = p
          BY <3>1, <2>2, <1>1, PlaceAfter DEF At
        <4> QED
          BY <4>1, <3>1, <2>2, <1>9
      <3>2. CASE c # b
        BY <3>2, <2>2, <1>5, <2>1 DEF MBInv, PublishInv
      <3> QED
        BY <3>1, <3>2
    <2> QED
      BY <1>2, <1>5, <2>1, <2>2 DEF MBInv, PublishInv, engineVars
  <1>11. ShardInv'
    <2>1. b \in shards[p]
      BY <1>1 DEF MBInv, ShardInv
    <2>2. \A q \in Phases : Counted(q)' \subseteq shards[q]
      BY <2>1, <1>7 DEF MBInv, ShardInv
    <2>3. to # At(3, "write") /\ \A q : to # At(q, "arrive")
      <3>1. to.step \in {"publish", "wait", "over"}
        BY <1>1, PlaceAfter DEF At
      <3> QED
        BY <3>1 DEF At
    <2> QED
      BY <1>2, <1>5, <2>2, <2>3 DEF MBInv, ShardInv, engineVars
  <1> QED
    BY <1>5, <1>8, <1>10, <1>11 DEF MBInv

LEMMA PublishStep ==
  ASSUME Blocks \in Seq(Nat), MBInv, NEW b \in Ids, NEW p \in Phases, Publish(b, p)
  PROVE  MBInv'
  <1>1. /\ blk[b] = At(p, "publish")
        /\ blk' = [blk EXCEPT ![b] = After(p)]
        /\ word' = [word EXCEPT ![p] = op]
        /\ UNCHANGED <<engineVars, arr, shards>>
    BY DEF Publish, Go
  <1>2. Moves(b, p, After(p))
    BY <1>1, PlaceAfter DEF Moves
  <1>3. /\ MBTypeOK' /\ Ids' = Ids /\ Width' = Width
        /\ blk'[b] = After(p) /\ \A c \in Ids : c # b => blk'[c] = blk[c]
        /\ \A q : \A c \in Ids : c # b => (Past(c, q)' <=> Past(c, q))
    <2>1. /\ arr' \in [Phases -> Int] /\ word' \in [Phases -> Int]
          /\ shards' \in [Phases -> SUBSET Ids]
      BY <1>1 DEF MBInv, MBTypeOK
    <2> QED
      BY <2>1, <1>2, MoveKeeps
  <1>4. \A q \in Phases : Counted(q)' = Counted(q)
    <2>1. \A q \in Phases : Past(b, q)' <=> Past(b, q)
      <3> SUFFICES ASSUME NEW q \in Phases PROVE Past(b, q)' <=> Past(b, q)
        OBVIOUS
      <3>1. Past(b, q) <=> p > q \/ p = q
        BY <1>1 DEF Past, At
      <3>2. Past(b, q)' <=> p + 1 > q
        BY <1>3, PlaceAfter DEF Past
      <3> QED
        BY <3>1, <3>2 DEF Phases
    <2> QED
      BY <2>1, <1>3 DEF Counted
  <1>5. CountInv'
    BY <1>1, <1>3, <1>4 DEF MBInv, CountInv, engineVars
  <1>6. After(p) # At(3, "write")
        /\ \A q : After(p) # At(q, "arrive") /\ After(p) # At(q, "publish")
    BY PlaceAfter DEF At
  <1>7. PublishInv'
    <2>1. op # 0 /\ op \in Int /\ Counted(p) = Ids
      BY <1>1, WidthNat DEF MBInv, MBTypeOK, PublishInv, Width
    <2>2. \A q \in Phases : word'[q] = IF q = p THEN op ELSE word[q]
      BY <1>1 DEF MBInv, MBTypeOK
    <2>3. \A q \in Phases : \A c \in Ids : blk'[c] = At(q, "publish") => blk[c] = At(q, "publish")
      BY <1>3, <1>6
    <2> QED
      BY <1>1, <1>3, <1>4, <2>1, <2>2, <2>3 DEF MBInv, PublishInv, engineVars
  <1>8. ShardInv'
    BY <1>1, <1>3, <1>4, <1>6 DEF MBInv, ShardInv, engineVars
  <1> QED
    BY <1>3, <1>5, <1>7, <1>8 DEF MBInv

LEMMA MBStep ==
  ASSUME Blocks \in Seq(Nat), MBInv, [Next]_vars PROVE MBInv'
  <1>1. CASE Submit
    BY <1>1, SubmitStep
  <1>2. CASE Advance
    BY <1>2, HostStep DEF Advance
  <1>3. CASE GiveUp
    BY <1>3, HostStep DEF GiveUp
  <1>4. CASE \E b \in Ids, p \in Phases : Block(b, p)
    BY <1>4, QuietStep, ArriveStep, PublishStep DEF Block
  <1>5. CASE \E p \in {2, 3} : Ring(p) \/ PeerAborts(p)
    BY <1>5, HostStep DEF Ring, PeerAborts, engineVars, MBInv, MBTypeOK
  <1>6. CASE Finished \/ UNCHANGED vars
    BY <1>6, HostStep DEF Finished, vars, engineVars, MBInv, MBTypeOK
  <1> QED
    BY <1>1, <1>2, <1>3, <1>4, <1>5, <1>6 DEF Next

LEMMA MBWhole == ASSUME MBInv PROVE PublishedWhole
  <1>1. \A p \in Phases : Counted(p) = Ids => shards[p] = Ids
    BY DEF MBInv, ShardInv, MBTypeOK
  <1>2. ASSUME shards[3] # {} PROVE shards[1] = Ids /\ shards[2] = Ids
    <2>1. op # 0 /\ beat \in {0, 3}
      BY <1>2 DEF MBInv, ShardInv
    <2>2. word[1] = op /\ word[2] = op
      BY <2>1 DEF MBInv, PublishInv, Phases
    <2> QED
      BY <2>1, <2>2, <1>1 DEF MBInv, PublishInv, Phases
  <1>3. \A p \in Phases : op > 0 /\ word[p] = op => shards[p] = Ids
    BY <1>1 DEF MBInv, PublishInv, MBTypeOK
  <1> QED
    BY <1>2, <1>3 DEF PublishedWhole

\* Whatever the sizes of the ops, a published word is behind the shards of all
\* the blocks, and the buffer is written only after all of it was staged.
THEOREM PublishedWholeHolds ==
  ASSUME Blocks \in Seq(Nat) PROVE Spec => []PublishedWhole
  <1>1. Init => MBInv
    BY InitMB
  <1>2. MBInv /\ [Next]_vars => MBInv'
    BY MBStep
  <1>3. MBInv => PublishedWhole
    BY MBWhole
  <1> QED
    BY <1>1, <1>2, <1>3, PTL DEF Spec
=============================================================================
