------------------------ MODULE BenchBlocksProofs ------------------------
(***************************************************************************)
(* Proofs about BenchBlocks, for any number of sizes, of timers that       *)
(* expire and any wrong results: the types, that one clean exit code       *)
(* vouches for the calls of all four ranks, and that no rank ends with a   *)
(* size missing, or with a size cut short that looks right.                *)
(*                                                                         *)
(* The argument counts.  Where a rank stands in its script bounds the      *)
(* calls it can have made (Counted); a rank that has made that many made   *)
(* exactly the calls of the script (Canonical); one whose timer never      *)
(* expired has made that many (Unskipped).  A rank that is past its last   *)
(* barrier knows that nobody made fewer calls than it did (Opened), and    *)
(* nobody can make more.                                                   *)
(*                                                                         *)
(* A second invariant, over the first, says which blocks have a row where  *)
(* a rank stands, and that the last row of a block cut short says so.      *)
(***************************************************************************)
EXTENDS BenchBlocks, TLAPS

\* The calls of a block, its barrier included.
Period == IF script = "twohop" THEN 7 ELSE 4

\* The calls of the blocks before block b.
Before(b) == IF script = "twohop" THEN 7 * (b - 1) ELSE 4 * (b - 1)

\* The calls of its block that rank r can have made where it stands.
Within(r) ==
  IF pc[r] \in {"armed", "called", "measured"} THEN next[r] - 1
  ELSE IF pc[r] = "late" THEN Period - 1
  ELSE IF pc[r] \in {"barrier", "last"} \/ script # "twohop" THEN Period
  ELSE Period + 1

Pos(r) == Before(block[r]) + Within(r)

\* The i-th call of a rank that skips nothing.
Kind(k) == IF k <= Len(Calls) THEN Calls[k] ELSE "barrier"
BlockOf(i) == IF script = "twohop" THEN ((i - 1) \div 7) + 1 ELSE ((i - 1) \div 4) + 1
PlaceOf(i) == IF script = "twohop" THEN ((i - 1) % 7) + 1 ELSE ((i - 1) % 4) + 1
Canon(i) ==
  IF i = Before(Blocks + 1) + 1 THEN <<Blocks, "last">> ELSE <<BlockOf(i), Kind(PlaceOf(i))>>

Shape(r) ==
  /\ next[r] <= Period
  /\ pc[r] = "measured" => next[r] = Period
  /\ pc[r] \in {"last", "closing", "end", "exited"} => block[r] = Blocks
  /\ pc[r] \in {"last", "closing"} => script = "twohop"

Counted(r) == Len(log[r]) <= Pos(r)
Unskipped(r) == late[r] = {} => Len(log[r]) = Pos(r)
Canonical(r) == Len(log[r]) = Pos(r) => \A i \in 1 .. Len(log[r]) : log[r][i] = Canon(i)
Opened(r) == pc[r] \in {"end", "exited"} => Over(r)
Flagged(r) == script = "bilateral" /\ late[r] # {} => ~RowsOk(r)
Vouched(r) == code[r] = 0 => pc[r] = "exited" /\ late[r] = {}

RankInv(r) ==
  /\ Shape(r) /\ Counted(r) /\ Unskipped(r) /\ Canonical(r)
  /\ Opened(r) /\ Flagged(r) /\ Vouched(r)

IInv == TypeOK /\ \A r \in Ranks : RankInv(r)
-----------------------------------------------------------------------------
(***************************************************************************)
(* The calls of the script.                                                *)
(***************************************************************************)

LEMMA ScriptCalls ==
  ASSUME script \in Scripts
  PROVE  /\ Len(Calls) = Period - 1
         /\ Period \in {4, 7}
         /\ \A k \in 1 .. Period - 1 : Calls[k] \in CallNames
  <1>1. script \in {"twohop", "bilateral"}
    BY BlocksAssumption
  <1>2. CASE script = "twohop"
    <2>1. Len(TwoHopCalls) = 6
      BY DEF TwoHopCalls
    <2>2. \A k \in 1..6 : TwoHopCalls[k] \in CallNames
      BY DEF TwoHopCalls, CallNames
    <2> QED
      BY <1>2, <2>1, <2>2 DEF Calls, Period
  <1>3. CASE script = "bilateral"
    <2>1. Len(BilateralCalls) = 3
      BY DEF BilateralCalls
    <2>2. \A k \in 1..3 : BilateralCalls[k] \in CallNames
      BY DEF BilateralCalls, CallNames
    <2> QED
      BY <1>3, <2>1, <2>2 DEF Calls, Period
  <1> QED
    BY <1>1, <1>2, <1>3

\* The k-th call of block b is call number Before(b) + k.
LEMMA CanonAt ==
  ASSUME script \in Scripts, NEW b \in 1..Blocks, NEW k \in 1..Period
  PROVE  Canon(Before(b) + k) = <<b, Kind(k)>>
  <1> USE BlocksAssumption
  <1>0. b \in Int /\ b >= 1 /\ b <= Blocks /\ Blocks \in Nat
    OBVIOUS
  <1>1. CASE script = "twohop"
    <2>1. k \in 1..7
      BY <1>1 DEF Period
    <2>2. 7 * (b - 1) + k # 7 * (Blocks + 1 - 1) + 1
      BY <1>0, <2>1
    <2>3. /\ ((7 * (b - 1) + k - 1) \div 7) + 1 = b
          /\ ((7 * (b - 1) + k - 1) % 7) + 1 = k
      BY <1>0, <2>1
    <2> QED
      BY <1>1, <2>2, <2>3 DEF Canon, Before, BlockOf, PlaceOf
  <1>2. CASE script # "twohop"
    <2>1. k \in 1..4
      BY <1>2 DEF Period
    <2>2. 4 * (b - 1) + k # 4 * (Blocks + 1 - 1) + 1
      BY <1>0, <2>1
    <2>3. /\ ((4 * (b - 1) + k - 1) \div 4) + 1 = b
          /\ ((4 * (b - 1) + k - 1) % 4) + 1 = k
      BY <1>0, <2>1
    <2> QED
      BY <1>2, <2>2, <2>3 DEF Canon, Before, BlockOf, PlaceOf
  <1> QED
    BY <1>1, <1>2

LEMMA CanonLast == Canon(Before(Blocks + 1) + 1) = <<Blocks, "last">>
  BY DEF Canon

LEMMA PosInt == ASSUME TypeOK, NEW q \in Ranks PROVE Pos(q) \in Int
  <1>1. block[q] \in Int /\ next[q] \in Int
    BY BlocksAssumption DEF TypeOK
  <1>2. Within(q) \in Int
    BY <1>1 DEF Within, Period
  <1>3. Before(block[q]) \in Int
    BY <1>1 DEF Before
  <1> QED
    BY <1>2, <1>3 DEF Pos

\* Nobody makes more calls than the whole script has.
LEMMA Total ==
  ASSUME IInv, NEW q \in Ranks, NEW r \in Ranks, pc[r] \in {"end", "exited"}
  PROVE  Pos(q) <= Pos(r)
  <1> USE BlocksAssumption
  <1>1. /\ block[q] \in 1..Blocks /\ block[r] = Blocks
        /\ next[q] \in 1..Period /\ Blocks \in Nat
    BY ScriptCalls DEF IInv, TypeOK, RankInv, Shape
  <1>2. pc[q] \in {"closing", "end", "exited"} => block[q] = Blocks
    BY DEF IInv, RankInv, Shape
  <1>3. pc[q] = "closing" => script = "twohop"
    BY DEF IInv, RankInv, Shape
  <1>4. CASE script = "twohop"
    <2>1. Pos(r) = 7 * (Blocks - 1) + 8
      BY <1>1, <1>4 DEF Pos, Within, Before, Period
    <2>2. Within(q) <= 7 \/ (Within(q) = 8 /\ block[q] = Blocks)
      BY <1>1, <1>2, <1>4 DEF IInv, TypeOK, Within, Period
    <2>3. Within(q) \in Int
      BY <1>1, <1>4 DEF Within, Period
    <2> QED
      BY <1>1, <1>4, <2>1, <2>2, <2>3 DEF Pos, Before
  <1>5. CASE script # "twohop"
    <2>1. Pos(r) = 4 * (Blocks - 1) + 4
      BY <1>1, <1>5 DEF Pos, Within, Before, Period
    <2>2. Within(q) <= 4 /\ Within(q) \in Int
      BY <1>1, <1>5 DEF IInv, TypeOK, Within, Period
    <2> QED
      BY <1>1, <1>5, <2>1, <2>2 DEF Pos, Before
  <1> QED
    BY <1>4, <1>5

\* One exit code for all calls.
LEMMA CleanFollows == IInv => CleanMeansMatched
  <1> SUFFICES ASSUME IInv, NEW r \in Ranks, code[r] = 0 PROVE ~Mismatch
    BY DEF CleanMeansMatched
  <1>1. pc[r] = "exited" /\ late[r] = {}
    BY DEF IInv, RankInv, Vouched
  <1>2. Len(log[r]) = Pos(r)
    BY <1>1 DEF IInv, RankInv, Unskipped
  <1>3. ASSUME NEW q \in Ranks
        PROVE  \A i \in 1 .. Len(log[q]) : log[q][i] = Canon(i)
    <2>1. Len(log[q]) >= Len(log[r])
      BY <1>1 DEF IInv, RankInv, Opened, Over
    <2>2. Len(log[q]) <= Pos(q) /\ Pos(q) <= Pos(r)
      BY <1>1, Total DEF IInv, RankInv, Counted
    <2>0. TypeOK
      BY DEF IInv
    <2>3. Len(log[q]) \in Nat
      BY <2>0 DEF TypeOK
    <2>5. Pos(q) \in Int
      BY <2>0, PosInt
    <2>4. Len(log[q]) = Pos(q)
      BY <1>2, <2>1, <2>2, <2>3, <2>5
    <2> QED
      BY <2>4 DEF IInv, RankInv, Canonical
  <1>4. \A p, q \in Ranks : \A i \in Met(p, q) :
          i \in 1 .. Len(log[p]) /\ i \in 1 .. Len(log[q])
    BY DEF IInv, TypeOK, Met
  <1> QED
    BY <1>3, <1>4 DEF Mismatch
-----------------------------------------------------------------------------
(***************************************************************************)
(* The invariant is kept.                                                  *)
(***************************************************************************)

LEMMA InitInv == Init => IInv
  <1> SUFFICES ASSUME Init PROVE IInv
    OBVIOUS
  <1> USE BlocksAssumption
  <1>1. TypeOK
    <2>1. 1 \in 1 .. Len(TwoHopCalls) + 1
      BY DEF TwoHopCalls
    <2> QED
      BY <2>1 DEF Init, TypeOK
  <1>2. ASSUME NEW r \in Ranks PROVE RankInv(r)
    <2>1. Shape(r)
      BY DEF Init, Shape, Period
    <2>2. Len(log[r]) = 0 /\ Pos(r) = 0
      BY DEF Init, Pos, Before, Within
    <2>3. Counted(r) /\ Unskipped(r) /\ Canonical(r)
      BY <2>2 DEF Counted, Unskipped, Canonical
    <2>4. Opened(r) /\ Flagged(r) /\ Vouched(r)
      BY DEF Init, Opened, Flagged, Vouched
    <2> QED
      BY <2>1, <2>3, <2>4 DEF RankInv
  <1> QED
    BY <1>1, <1>2 DEF IInv

\* A rank that does not step keeps its part, as nobody takes a call back.
LEMMA Others ==
  ASSUME IInv, NEW q \in Ranks, script' = script,
         block'[q] = block[q], next'[q] = next[q], pc'[q] = pc[q], log'[q] = log[q],
         late'[q] = late[q], rows'[q] = rows[q], code'[q] = code[q],
         \A p \in Ranks : Len(log'[p]) >= Len(log[p]),
         \A p \in Ranks : Len(log'[p]) \in Nat
  PROVE  RankInv(q)'
  <1>1. Shape(q)'
    BY DEF IInv, RankInv, Shape, Period
  <1>2. Pos(q)' = Pos(q)
    BY DEF Pos, Within, Before, Period
  <1>3. \A i : Canon(i)' = Canon(i)
    BY DEF Canon, Before, BlockOf, PlaceOf, Kind, Calls
  <1>4. Counted(q)' /\ Unskipped(q)' /\ Canonical(q)'
    BY <1>2, <1>3 DEF IInv, RankInv, Counted, Unskipped, Canonical
  <1>5. Opened(q)'
    BY DEF IInv, TypeOK, RankInv, Opened, Over
  <1>6. Flagged(q)' /\ Vouched(q)'
    BY DEF IInv, RankInv, Flagged, Vouched, RowsOk
  <1> QED
    BY <1>1, <1>4, <1>5, <1>6 DEF RankInv

\* A rank that makes no call and moves to a place of as many calls, or of more
\* after its timer expired.
LEMMA Quiet ==
  ASSUME IInv, NEW r \in Ranks, script' = script, log' = log, TypeOK',
         Shape(r)', Opened(r)', Flagged(r)', Vouched(r)',
         \/ Pos(r)' = Pos(r) /\ late'[r] = late[r]
         \/ Pos(r)' >= Pos(r) /\ late'[r] # {}
  PROVE  RankInv(r)'
  <1>1. Len(log[r]) \in Nat /\ Pos(r) \in Int /\ Pos(r)' \in Int
    <2>1. TypeOK
      BY DEF IInv
    <2>2. Len(log[r]) \in Nat
      BY <2>1 DEF TypeOK
    <2>3. Pos(r) \in Int
      BY <2>1, PosInt
    <2>4. Pos(r)' \in Int
      <3>1. block'[r] \in Int /\ next'[r] \in Int
        BY BlocksAssumption DEF TypeOK
      <3>2. Within(r)' \in Int /\ Before(block[r])' \in Int
        BY <3>1 DEF Within, Period, Before
      <3> QED
        BY <3>2 DEF Pos
    <2> QED
      BY <2>2, <2>3, <2>4
  <1>2. \A i : Canon(i)' = Canon(i)
    BY DEF Canon, Before, BlockOf, PlaceOf, Kind, Calls
  <1>3. Counted(r) /\ Unskipped(r) /\ Canonical(r)
    BY DEF IInv, RankInv
  <1>4. Counted(r)' /\ Unskipped(r)'
    BY <1>1, <1>3 DEF Counted, Unskipped
  <1>5. Canonical(r)'
    BY <1>1, <1>2, <1>3 DEF Counted, Canonical
  <1> QED
    BY <1>4, <1>5 DEF RankInv

\* A rank that makes the call its script has at this place.
LEMMA Makes ==
  ASSUME IInv, NEW r \in Ranks, NEW c, Make(r, c), script' = script, TypeOK',
         Shape(r)', late'[r] = late[r], Pos(r)' = Pos(r) + 1,
         <<block[r], c>> = Canon(Pos(r) + 1),
         Opened(r)', Flagged(r)', Vouched(r)'
  PROVE  RankInv(r)'
  <1>8. TypeOK
    BY DEF IInv
  <1>0. Len(log[r]) \in Nat /\ log[r] \in Seq((1..Blocks) \X CallNames)
    BY <1>8 DEF TypeOK
  <1>1. Pos(r) \in Int
    BY <1>8, PosInt
  <1>2. \A i : Canon(i)' = Canon(i)
    BY DEF Canon, Before, BlockOf, PlaceOf, Kind, Calls
  <1>3. Counted(r) /\ Unskipped(r) /\ Canonical(r)
    BY DEF IInv, RankInv
  <1>4. log'[r] = Append(log[r], <<block[r], c>>)
    BY <1>8 DEF Make, TypeOK
  <1>5. /\ Len(log'[r]) = Len(log[r]) + 1
        /\ \A i \in 1 .. Len(log[r]) : log'[r][i] = log[r][i]
        /\ log'[r][Len(log[r]) + 1] = <<block[r], c>>
    BY <1>0, <1>4
  <1>6. Counted(r)' /\ Unskipped(r)'
    BY <1>0, <1>1, <1>3, <1>5 DEF Counted, Unskipped
  <1>7. Canonical(r)'
    <2>1. SUFFICES ASSUME Len(log'[r]) = Pos(r)', NEW i \in 1 .. Len(log'[r])
                   PROVE  log'[r][i] = Canon(i)
      BY <1>2 DEF Canonical
    <2>2. Len(log[r]) = Pos(r)
      BY <1>0, <1>1, <1>5, <2>1
    <2>3. i \in 1 .. Len(log[r]) \/ i = Len(log[r]) + 1
      BY <1>0, <1>5, <2>1
    <2> QED
      BY <1>3, <1>5, <2>2, <2>3 DEF Canonical
  <1> QED
    BY <1>6, <1>7 DEF RankInv

\* Calls are only added.
LEMMA Added ==
  ASSUME TypeOK, NEW r \in Ranks, NEW c, Make(r, c)
  PROVE  /\ \A p \in Ranks : Len(log'[p]) >= Len(log[p]) /\ Len(log'[p]) \in Nat
         /\ \A p \in Ranks \ {r} : log'[p] = log[p]
  <1>1. \A p \in Ranks : Len(log[p]) \in Nat /\ log[p] \in Seq((1..Blocks) \X CallNames)
    BY DEF TypeOK
  <1>2. log'[r] = Append(log[r], <<block[r], c>>)
    BY DEF Make, TypeOK
  <1>3. Len(log'[r]) = Len(log[r]) + 1
    BY <1>1, <1>2
  <1>4. \A p \in Ranks \ {r} : log'[p] = log[p]
    BY DEF Make, TypeOK
  <1>5. ASSUME NEW p \in Ranks
        PROVE  Len(log'[p]) >= Len(log[p]) /\ Len(log'[p]) \in Nat
    <2>1. CASE p = r
      BY <1>1, <1>3, <2>1
    <2>2. CASE p # r
      BY <1>1, <1>4, <2>2
    <2> QED
      BY <2>1, <2>2
  <1> QED
    BY <1>4, <1>5
-----------------------------------------------------------------------------
(***************************************************************************)
(* One lemma for each action.                                              *)
(***************************************************************************)

LEMMA CallKeeps == ASSUME IInv, NEW r \in Ranks, Call(r) PROVE IInv'
  <1> USE BlocksAssumption
  <1>0. TypeOK /\ RankInv(r)
    BY DEF IInv
  <1>1. /\ block[r] \in 1..Blocks /\ next[r] \in Nat \ {0}
        /\ next[r] <= Period - 1 /\ Period \in {4, 7}
        /\ Calls[next[r]] \in CallNames
    <2>1. next[r] \in Nat \ {0} /\ block[r] \in 1..Blocks
      BY <1>0 DEF TypeOK
    <2> QED
      BY <1>0, <2>1, ScriptCalls DEF Call, TypeOK
  <1>2. TypeOK'
    <2>1. Len(TwoHopCalls) = 6 /\ next[r] + 1 \in 1 .. Len(TwoHopCalls) + 1
      BY <1>1 DEF TwoHopCalls
    <2>2. next' \in [Ranks -> 1 .. Len(TwoHopCalls) + 1]
      BY <1>0, <2>1 DEF TypeOK, Call
    <2>3. log' \in [Ranks -> Seq((1..Blocks) \X CallNames)]
      BY <1>0, <1>1 DEF TypeOK, Call, Make
    <2>4. pc' \in [Ranks -> {"armed", "called", "measured", "late", "barrier", "last",
                             "closing", "end", "exited"}]
      BY <1>0 DEF TypeOK, Call
    <2> QED
      BY <1>0, <2>2, <2>3, <2>4 DEF TypeOK, Call
  <1>3. /\ pc[r] = "armed" /\ pc'[r] \in {"armed", "called"} /\ next'[r] = next[r] + 1
        /\ block' = block /\ late' = late /\ script' = script /\ rows' = rows
        /\ code' = code /\ Make(r, Calls[next[r]])
    BY <1>0 DEF Call, TypeOK
  <1>4. Pos(r)' = Pos(r) + 1 /\ Pos(r) + 1 = Before(block[r]) + next[r]
    <2>1. Before(block[r]) \in Int
      BY <1>1 DEF Before
    <2>2. Within(r) = next[r] - 1 /\ Within(r)' = next[r]
      BY <1>1, <1>3 DEF Within
    <2>3. Before(block[r])' = Before(block[r])
      BY <1>3 DEF Before
    <2> QED
      BY <1>1, <2>1, <2>2, <2>3 DEF Pos
  <1>5. <<block[r], Calls[next[r]]>> = Canon(Pos(r) + 1)
    <2>1. Kind(next[r]) = Calls[next[r]]
      BY DEF Kind, Call
    <2>2. next[r] \in 1..Period
      BY <1>1
    <2>3. script \in Scripts
      BY <1>0 DEF TypeOK
    <2> QED
      BY <1>1, <1>4, <2>1, <2>2, <2>3, CanonAt
  <1>6. Shape(r)' /\ Opened(r)' /\ Flagged(r)' /\ Vouched(r)'
    BY <1>0, <1>1, <1>3
       DEF RankInv, Shape, Period, Opened, Flagged, Vouched, RowsOk
  <1>7. RankInv(r)'
    BY <1>2, <1>3, <1>4, <1>5, <1>6, Makes
  <1>8. ASSUME NEW q \in Ranks, q # r PROVE RankInv(q)'
    <2>1. /\ next'[q] = next[q] /\ pc'[q] = pc[q] /\ log'[q] = log[q]
          /\ \A p \in Ranks : Len(log'[p]) >= Len(log[p]) /\ Len(log'[p]) \in Nat
      BY <1>0, <1>3, <1>8, Added DEF Call, TypeOK
    <2> QED
      BY <1>3, <2>1, Others
  <1> QED
    BY <1>2, <1>7, <1>8 DEF IInv
LEMMA ReturnKeeps == ASSUME IInv, NEW r \in Ranks, Return(r) PROVE IInv'
  <1>0. TypeOK /\ RankInv(r)
    BY DEF IInv
  <1>1. TypeOK'
    BY <1>0 DEF TypeOK, Return
  <1>2. /\ pc[r] = "called" /\ pc'[r] = "armed" /\ log' = log
        /\ next' = next /\ block' = block /\ late' = late /\ script' = script
        /\ rows' = rows /\ code' = code
    BY <1>0 DEF Return, TypeOK
  <1>3. Pos(r)' = Pos(r)
    BY <1>2 DEF Pos, Within, Before
  <1>4. Shape(r)' /\ Opened(r)' /\ Flagged(r)' /\ Vouched(r)'
    BY <1>0, <1>2 DEF RankInv, Shape, Period, Opened, Flagged, Vouched, RowsOk
  <1>5. RankInv(r)'
    BY <1>1, <1>2, <1>3, <1>4, Quiet
  <1>6. ASSUME NEW q \in Ranks, q # r PROVE RankInv(q)'
    <2>1. pc'[q] = pc[q] /\ \A p \in Ranks : Len(log[p]) \in Nat
      BY <1>0, <1>6 DEF Return, TypeOK
    <2> QED
      BY <1>2, <2>1, Others
  <1> QED
    BY <1>1, <1>5, <1>6 DEF IInv

\* A row is appended, and the rows before it stay.
LEMMA RowAdded ==
  ASSUME TypeOK, NEW r \in Ranks, NEW row \in [block : 1..Blocks, ok : BOOLEAN],
         rows' = [rows EXCEPT ![r] = Append(@, row)]
  PROVE  /\ rows' \in [Ranks -> Seq([block : 1..Blocks, ok : BOOLEAN])]
         /\ ~RowsOk(r) => ~RowsOk(r)'
         /\ row.ok = FALSE => ~RowsOk(r)'
         /\ \A q \in Ranks : q # r => rows'[q] = rows[q]
  <1>1. rows[r] \in Seq([block : 1..Blocks, ok : BOOLEAN])
    BY DEF TypeOK
  <1>2. rows'[r] = Append(rows[r], row)
    BY DEF TypeOK
  <1>3. /\ Len(rows'[r]) = Len(rows[r]) + 1
        /\ \A i \in 1 .. Len(rows[r]) : rows'[r][i] = rows[r][i]
        /\ rows'[r][Len(rows[r]) + 1] = row
        /\ DOMAIN rows[r] = 1 .. Len(rows[r]) /\ Len(rows[r]) \in Nat
        /\ DOMAIN rows'[r] = 1 .. Len(rows[r]) + 1
    BY <1>1, <1>2
  <1>4. rows' \in [Ranks -> Seq([block : 1..Blocks, ok : BOOLEAN])]
    <2> DEFINE R == [block : 1..Blocks, ok : BOOLEAN]
    <2>1. rows \in [Ranks -> Seq(R)] /\ row \in R
      BY DEF TypeOK
    <2> HIDE DEF R
    <2>2. rows' \in [Ranks -> Seq(R)]
      BY <2>1
    <2> QED
      BY <2>2 DEF R
  <1>5. ~RowsOk(r) => ~RowsOk(r)'
    BY <1>3 DEF RowsOk
  <1>6. row.ok = FALSE => ~RowsOk(r)'
    BY <1>3 DEF RowsOk
  <1>7. \A q \in Ranks : q # r => rows'[q] = rows[q]
    BY DEF TypeOK
  <1> QED
    BY <1>4, <1>5, <1>6, <1>7

\* The two ways in which a rank leaves the rows as they are or adds one.
LEMMA RowMaybe ==
  ASSUME TypeOK, NEW r \in Ranks, NEW b, NEW row \in [block : 1..Blocks, ok : BOOLEAN],
         rows' = IF b THEN [rows EXCEPT ![r] = Append(@, row)] ELSE rows
  PROVE  /\ rows' \in [Ranks -> Seq([block : 1..Blocks, ok : BOOLEAN])]
         /\ ~RowsOk(r) => ~RowsOk(r)'
         /\ \A q \in Ranks : q # r => rows'[q] = rows[q]
  <1>1. CASE b
    BY <1>1, RowAdded
  <1>2. CASE ~b
    BY <1>2 DEF TypeOK, RowsOk
  <1> QED
    BY <1>1, <1>2

LEMMA RowType ==
  ASSUME TypeOK, NEW r \in Ranks, NEW ok \in BOOLEAN
  PROVE  Row(block[r], ok) \in [block : 1..Blocks, ok : BOOLEAN]
  BY DEF TypeOK, Row

LEMMA MeasuredKeeps == ASSUME IInv, NEW r \in Ranks, Measured(r) PROVE IInv'
  <1>0. TypeOK /\ RankInv(r)
    BY DEF IInv
  <1>1. /\ Row(block[r], Good(r)) \in [block : 1..Blocks, ok : BOOLEAN]
        /\ script \in Scripts
    BY <1>0, RowType DEF Good, TypeOK
  <1>2. /\ rows' \in [Ranks -> Seq([block : 1..Blocks, ok : BOOLEAN])]
        /\ ~RowsOk(r) => ~RowsOk(r)'
        /\ \A q \in Ranks : q # r => rows'[q] = rows[q]
    BY <1>0, <1>1, RowMaybe DEF Measured
  <1>3. /\ pc[r] = "armed" /\ pc'[r] = "measured" /\ log' = log /\ code' = code
        /\ next[r] = Len(Calls) + 1 /\ next' = next /\ block' = block
        /\ late' = late /\ script' = script
    BY <1>0 DEF Measured, TypeOK
  <1>4. TypeOK'
    BY <1>0, <1>2 DEF TypeOK, Measured
  <1>5. Pos(r)' = Pos(r)
    BY <1>3 DEF Pos, Within, Before
  <1>6. Shape(r)' /\ Opened(r)' /\ Flagged(r)' /\ Vouched(r)'
    <2>1. next'[r] = Period
      BY <1>1, <1>3, ScriptCalls DEF Period
    <2> QED
      BY <1>0, <1>2, <1>3, <2>1 DEF RankInv, Shape, Period, Opened, Flagged, Vouched
  <1>7. RankInv(r)'
    BY <1>3, <1>4, <1>5, <1>6, Quiet
  <1>8. ASSUME NEW q \in Ranks, q # r PROVE RankInv(q)'
    <2>1. pc'[q] = pc[q] /\ \A p \in Ranks : Len(log[p]) \in Nat
      BY <1>0, <1>8 DEF Measured, TypeOK
    <2> QED
      BY <1>2, <1>3, <1>8, <2>1, Others
  <1> QED
    BY <1>4, <1>7, <1>8 DEF IInv

LEMMA AlarmKeeps == ASSUME IInv, NEW r \in Ranks, Alarm(r) PROVE IInv'
  <1> USE BlocksAssumption
  <1>0. TypeOK /\ RankInv(r)
    BY DEF IInv
  <1>1. Row(block[r], FALSE) \in [block : 1..Blocks, ok : BOOLEAN]
    BY <1>0, RowType
  <1>2. /\ rows' \in [Ranks -> Seq([block : 1..Blocks, ok : BOOLEAN])]
        /\ ~RowsOk(r) => ~RowsOk(r)'
        /\ \A q \in Ranks : q # r => rows'[q] = rows[q]
    BY <1>0, <1>1, RowMaybe DEF Alarm
  <1>3. /\ pc[r] \in {"armed", "measured"} /\ pc'[r] = "late" /\ log' = log
        /\ code' = code /\ next' = next /\ block' = block /\ script' = script
        /\ late'[r] = late[r] \cup {block[r]} /\ block[r] \in 1..Blocks
    BY <1>0 DEF Alarm, TypeOK
  <1>4. TypeOK'
    <2>1. late' \in [Ranks -> SUBSET (1..Blocks)]
      BY <1>0, <1>3 DEF TypeOK, Alarm
    <2> QED
      BY <1>0, <1>2, <2>1 DEF TypeOK, Alarm
  <1>5. Pos(r)' >= Pos(r) /\ late'[r] # {}
    <2>1. next[r] \in Nat /\ next[r] <= Period /\ Period \in {4, 7}
      BY <1>0, ScriptCalls DEF TypeOK, RankInv, Shape
    <2>2. Before(block[r]) \in Int
      BY <1>3 DEF Before
    <2>3. Within(r) = next[r] - 1 /\ Within(r)' = Period - 1
      BY <1>3 DEF Within, Period
    <2>4. Before(block[r])' = Before(block[r])
      BY <1>3 DEF Before
    <2> QED
      BY <1>3, <2>1, <2>2, <2>3, <2>4 DEF Pos
  <1>6. Shape(r)' /\ Opened(r)' /\ Flagged(r)' /\ Vouched(r)'
    <2>1. script = "bilateral" => ~RowsOk(r)'
      <3>1. Row(block[r], FALSE).ok = FALSE
        BY DEF Row
      <3> QED
        BY <1>0, <1>1, <3>1, RowAdded DEF Alarm
    <2> QED
      BY <1>0, <1>3, <2>1 DEF RankInv, Shape, Period, Opened, Flagged, Vouched
  <1>7. RankInv(r)'
    BY <1>3, <1>4, <1>5, <1>6, Quiet
  <1>8. ASSUME NEW q \in Ranks, q # r PROVE RankInv(q)'
    <2>1. /\ pc'[q] = pc[q] /\ late'[q] = late[q]
          /\ \A p \in Ranks : Len(log[p]) \in Nat
      BY <1>0, <1>8 DEF Alarm, TypeOK
    <2> QED
      BY <1>2, <1>3, <1>8, <2>1, Others
  <1> QED
    BY <1>4, <1>7, <1>8 DEF IInv
LEMMA BarrierKeeps == ASSUME IInv, NEW r \in Ranks, Barrier(r) PROVE IInv'
  <1> USE BlocksAssumption
  <1>0. TypeOK /\ RankInv(r)
    BY DEF IInv
  <1>1. /\ block[r] \in 1..Blocks /\ next[r] \in Nat /\ Period \in {4, 7}
        /\ script \in Scripts /\ Len(Calls) = Period - 1
    BY <1>0, ScriptCalls DEF TypeOK
  <1>2. TypeOK'
    <2>1. "barrier" \in CallNames
      BY DEF CallNames
    <2>2. log' \in [Ranks -> Seq((1..Blocks) \X CallNames)]
      BY <1>0, <1>1, <2>1 DEF TypeOK, Barrier, Make
    <2> QED
      BY <1>0, <2>2 DEF TypeOK, Barrier
  <1>3. /\ pc[r] \in {"measured", "late"} /\ pc'[r] = "barrier"
        /\ block' = block /\ next' = next /\ late' = late /\ script' = script
        /\ rows' = rows /\ code' = code /\ Make(r, "barrier")
    BY <1>0 DEF Barrier, TypeOK
  <1>4. Pos(r)' = Pos(r) + 1 /\ Pos(r) + 1 = Before(block[r]) + Period
    <2>1. Before(block[r]) \in Int
      BY <1>1 DEF Before
    <2>2. Within(r) = Period - 1 /\ Within(r)' = Period
      BY <1>0, <1>1, <1>3 DEF Within, RankInv, Shape, Period
    <2>3. Before(block[r])' = Before(block[r])
      BY <1>3 DEF Before
    <2> QED
      BY <1>1, <2>1, <2>2, <2>3 DEF Pos
  <1>5. <<block[r], "barrier">> = Canon(Pos(r) + 1)
    <2>1. Kind(Period) = "barrier"
      BY <1>1 DEF Kind
    <2>2. Period \in 1..Period
      BY <1>1
    <2> QED
      BY <1>1, <1>4, <2>1, <2>2, CanonAt
  <1>6. Shape(r)' /\ Opened(r)' /\ Flagged(r)' /\ Vouched(r)'
    BY <1>0, <1>3 DEF RankInv, Shape, Period, Opened, Flagged, Vouched, RowsOk
  <1>7. RankInv(r)'
    BY <1>2, <1>3, <1>4, <1>5, <1>6, Makes
  <1>8. ASSUME NEW q \in Ranks, q # r PROVE RankInv(q)'
    <2>1. /\ pc'[q] = pc[q] /\ log'[q] = log[q]
          /\ \A p \in Ranks : Len(log'[p]) >= Len(log[p]) /\ Len(log'[p]) \in Nat
      BY <1>0, <1>3, <1>8, Added DEF Barrier, TypeOK
    <2> QED
      BY <1>3, <2>1, Others
  <1> QED
    BY <1>2, <1>7, <1>8 DEF IInv

LEMMA LastBarrierKeeps == ASSUME IInv, NEW r \in Ranks, LastBarrier(r) PROVE IInv'
  <1> USE BlocksAssumption
  <1>0. TypeOK /\ RankInv(r)
    BY DEF IInv
  <1>1. block[r] \in 1..Blocks /\ block[r] = Blocks /\ script = "twohop"
    BY <1>0 DEF TypeOK, LastBarrier, RankInv, Shape
  <1>2. TypeOK'
    <2>1. "last" \in CallNames
      BY DEF CallNames
    <2>2. log' \in [Ranks -> Seq((1..Blocks) \X CallNames)]
      BY <1>0, <1>1, <2>1 DEF TypeOK, LastBarrier, Make
    <2> QED
      BY <1>0, <2>2 DEF TypeOK, LastBarrier
  <1>3. /\ pc[r] = "last" /\ pc'[r] = "closing"
        /\ block' = block /\ next' = next /\ late' = late /\ script' = script
        /\ rows' = rows /\ code' = code /\ Make(r, "last")
    BY <1>0 DEF LastBarrier, TypeOK
  <1>4. Pos(r)' = Pos(r) + 1 /\ Pos(r) + 1 = Before(Blocks + 1) + 1
    <2>1. Within(r) = 7 /\ Within(r)' = 8
      BY <1>1, <1>3 DEF Within, Period
    <2>2. /\ Before(block[r]) = 7 * (Blocks - 1) /\ Before(block[r])' = 7 * (Blocks - 1)
          /\ Before(Blocks + 1) = 7 * (Blocks + 1 - 1)
      BY <1>1, <1>3 DEF Before
    <2> QED
      BY <1>1, <2>1, <2>2 DEF Pos
  <1>5. <<block[r], "last">> = Canon(Pos(r) + 1)
    BY <1>1, <1>4, CanonLast
  <1>6. Shape(r)' /\ Opened(r)' /\ Flagged(r)' /\ Vouched(r)'
    BY <1>0, <1>1, <1>3 DEF RankInv, Shape, Period, Opened, Flagged, Vouched, RowsOk
  <1>7. RankInv(r)'
    BY <1>2, <1>3, <1>4, <1>5, <1>6, Makes
  <1>8. ASSUME NEW q \in Ranks, q # r PROVE RankInv(q)'
    <2>1. /\ pc'[q] = pc[q] /\ log'[q] = log[q]
          /\ \A p \in Ranks : Len(log'[p]) >= Len(log[p]) /\ Len(log'[p]) \in Nat
      BY <1>0, <1>3, <1>8, Added DEF LastBarrier, TypeOK
    <2> QED
      BY <1>3, <2>1, Others
  <1> QED
    BY <1>2, <1>7, <1>8 DEF IInv

LEMMA EndBlockKeeps == ASSUME IInv, NEW r \in Ranks, EndBlock(r) PROVE IInv'
  <1> USE BlocksAssumption
  <1>0. TypeOK /\ RankInv(r)
    BY DEF IInv
  <1>1. /\ block[r] \in 1..Blocks /\ Blocks \in Nat /\ script \in {"twohop", "bilateral"}
        /\ Row(block[r], Good(r)) \in [block : 1..Blocks, ok : BOOLEAN]
    BY <1>0, RowType DEF Good, TypeOK
  <1>2. /\ rows' \in [Ranks -> Seq([block : 1..Blocks, ok : BOOLEAN])]
        /\ ~RowsOk(r) => ~RowsOk(r)'
        /\ \A q \in Ranks : q # r => rows'[q] = rows[q]
    BY <1>0, <1>1, RowMaybe DEF EndBlock
  <1>3. /\ pc[r] = "barrier" /\ Over(r) /\ log' = log /\ code' = code
        /\ late' = late /\ script' = script
        /\ \/ /\ block[r] < Blocks /\ block'[r] = block[r] + 1
              /\ next'[r] = 1 /\ pc'[r] = "armed"
           \/ /\ block[r] = Blocks /\ block'[r] = block[r] /\ next'[r] = next[r]
              /\ pc'[r] = IF script = "twohop" THEN "last" ELSE "end"
    BY <1>0, <1>1 DEF EndBlock, TypeOK
  <1>4. TypeOK'
    <2>1. block' \in [Ranks -> 1..Blocks]
      <3>1. CASE block[r] < Blocks
        <4>1. block[r] + 1 \in 1..Blocks
          BY <1>1, <3>1
        <4>2. block' = [block EXCEPT ![r] = block[r] + 1]
          BY <3>1 DEF EndBlock
        <4> QED
          BY <1>0, <4>1, <4>2 DEF TypeOK
      <3>2. CASE ~(block[r] < Blocks)
        BY <1>0, <3>2 DEF TypeOK, EndBlock
      <3> QED
        BY <3>1, <3>2
    <2>2. next' \in [Ranks -> 1 .. Len(TwoHopCalls) + 1]
      <3>1. Len(TwoHopCalls) = 6
        BY DEF TwoHopCalls
      <3>2. 1 \in 1 .. Len(TwoHopCalls) + 1
        BY <3>1
      <3> QED
        BY <1>0, <3>2 DEF TypeOK, EndBlock
    <2>3. pc' \in [Ranks -> {"armed", "called", "measured", "late", "barrier", "last",
                             "closing", "end", "exited"}]
      BY <1>0 DEF TypeOK, EndBlock
    <2> QED
      BY <1>0, <1>2, <2>1, <2>2, <2>3 DEF TypeOK, EndBlock
  <1>5. Pos(r)' = Pos(r)
    <2>1. CASE script = "twohop"
      BY <1>1, <1>3, <2>1 DEF Pos, Within, Before, Period
    <2>2. CASE script = "bilateral"
      BY <1>1, <1>3, <2>2 DEF Pos, Within, Before, Period
    <2> QED
      BY <1>1, <2>1, <2>2
  <1>6. Shape(r)' /\ Opened(r)' /\ Flagged(r)' /\ Vouched(r)'
    <2>1. Shape(r)'
      BY <1>0, <1>1, <1>3 DEF RankInv, Shape, Period
    <2>2. Opened(r)'
      BY <1>3 DEF Opened, Over
    <2> QED
      BY <1>0, <1>2, <1>3, <2>1, <2>2 DEF RankInv, Flagged, Vouched
  <1>7. RankInv(r)'
    BY <1>3, <1>4, <1>5, <1>6, Quiet
  <1>8. ASSUME NEW q \in Ranks, q # r PROVE RankInv(q)'
    <2>1. /\ pc'[q] = pc[q] /\ block'[q] = block[q] /\ next'[q] = next[q]
          /\ \A p \in Ranks : Len(log[p]) \in Nat
      BY <1>0, <1>8 DEF EndBlock, TypeOK
    <2> QED
      BY <1>2, <1>3, <1>8, <2>1, Others
  <1> QED
    BY <1>4, <1>7, <1>8 DEF IInv

LEMMA CloseKeeps == ASSUME IInv, NEW r \in Ranks, Close(r) PROVE IInv'
  <1>0. TypeOK /\ RankInv(r)
    BY DEF IInv
  <1>1. TypeOK'
    BY <1>0 DEF TypeOK, Close
  <1>2. /\ pc[r] = "closing" /\ pc'[r] = "end" /\ Over(r) /\ log' = log
        /\ next' = next /\ block' = block /\ late' = late /\ script' = script
        /\ rows' = rows /\ code' = code /\ script = "twohop"
    BY <1>0 DEF Close, TypeOK, RankInv, Shape
  <1>3. Pos(r)' = Pos(r)
    BY <1>2 DEF Pos, Within, Before, Period
  <1>4. Shape(r)' /\ Opened(r)' /\ Flagged(r)' /\ Vouched(r)'
    BY <1>0, <1>2
       DEF RankInv, Shape, Period, Opened, Over, Flagged, Vouched, RowsOk
  <1>5. RankInv(r)'
    BY <1>1, <1>2, <1>3, <1>4, Quiet
  <1>6. ASSUME NEW q \in Ranks, q # r PROVE RankInv(q)'
    <2>1. pc'[q] = pc[q] /\ \A p \in Ranks : Len(log[p]) \in Nat
      BY <1>0, <1>6 DEF Close, TypeOK
    <2> QED
      BY <1>2, <2>1, Others
  <1> QED
    BY <1>1, <1>5, <1>6 DEF IInv

LEMMA ExitKeeps == ASSUME IInv, NEW r \in Ranks, Exit(r) PROVE IInv'
  <1> USE BlocksAssumption
  <1>0. TypeOK /\ RankInv(r)
    BY DEF IInv
  <1>1. TypeOK'
    BY <1>0 DEF TypeOK, Exit, TwoHopCode, BilateralCode
  <1>2. /\ pc[r] = "end" /\ pc'[r] = "exited" /\ log' = log
        /\ next' = next /\ block' = block /\ late' = late /\ script' = script
        /\ rows' = rows
        /\ code'[r] = IF script = "twohop" THEN TwoHopCode(r) ELSE BilateralCode(r)
    BY <1>0 DEF Exit, TypeOK
  <1>3. Pos(r)' = Pos(r)
    BY <1>2 DEF Pos, Within, Before, Period
  <1>4. Vouched(r)'
    <2>1. script \in {"twohop", "bilateral"}
      BY <1>0 DEF TypeOK
    <2> QED
      BY <1>0, <1>2, <2>1 DEF RankInv, Flagged, Vouched, TwoHopCode, BilateralCode
  <1>5. Shape(r)' /\ Opened(r)' /\ Flagged(r)'
    BY <1>0, <1>2 DEF RankInv, Shape, Period, Opened, Over, Flagged, RowsOk
  <1>6. RankInv(r)'
    BY <1>1, <1>2, <1>3, <1>4, <1>5, Quiet
  <1>7. ASSUME NEW q \in Ranks, q # r PROVE RankInv(q)'
    <2>1. /\ pc'[q] = pc[q] /\ code'[q] = code[q]
          /\ \A p \in Ranks : Len(log[p]) \in Nat
      BY <1>0, <1>7 DEF Exit, TypeOK
    <2> QED
      BY <1>2, <2>1, Others
  <1> QED
    BY <1>1, <1>6, <1>7 DEF IInv

-----------------------------------------------------------------------------
(***************************************************************************)
(* The rows of a rank.  Which blocks have theirs follows from where the    *)
(* rank stands: bilateral_micro appends inside the try or in the handler   *)
(* of the timer, twohop_bench after the barrier.  A block cut short keeps  *)
(* its flag because the row that says so is the last one of its block.     *)
(***************************************************************************)

\* The blocks up to this one have a row.
Past(r) == pc[r] \in {"last", "closing", "end", "exited"}
Appended(r) == script = "bilateral" /\ pc[r] \in {"measured", "late", "barrier"}
Filed(r) == IF Past(r) \/ Appended(r) THEN block[r] ELSE block[r] - 1

HasRow(r, b) == \E i \in DOMAIN rows[r] : rows[r][i].block = b

\* The last row of block b says that it was cut short.
ToldLate(r, b) ==
  \E i \in DOMAIN rows[r] :
    /\ rows[r][i] = Row(b, FALSE)
    /\ \A j \in DOMAIN rows[r] : rows[r][j].block = b => j <= i

\* While a rank is inside its try, the timer of its block has not expired.
LateBefore(r) ==
  \A b \in late[r] : /\ b <= block[r]
                     /\ pc[r] \in {"armed", "called", "measured"} => b < block[r]

RowInv(r) ==
  /\ \A i \in DOMAIN rows[r] : rows[r][i].block <= Filed(r)
  /\ \A b \in 1 .. Filed(r) : HasRow(r, b)
  /\ script = "twohop" => Len(rows[r]) = Filed(r)
  /\ LateBefore(r)
  /\ \A b \in late[r] : b <= Filed(r) => ToldLate(r, b)

RowsInv == \A r \in Ranks : RowInv(r)

\* What a rank that adds a row of its block must show.
LEMMA RowAppended ==
  ASSUME TypeOK, NEW r \in Ranks, NEW row, row.block = block[r], RowInv(r),
         script' = script, rows'[r] = Append(rows[r], row),
         row \in [block : 1..Blocks, ok : BOOLEAN],
         Filed(r) \in {block[r] - 1, block[r]}, Filed(r)' = block[r],
         script = "twohop" => Filed(r) = block[r] - 1,
         LateBefore(r)', late'[r] \subseteq late[r] \cup {block[r]},
         block[r] \in late'[r] => row = Row(block[r], FALSE)
  PROVE  RowInv(r)'
  <1> DEFINE n == Len(rows[r])
             R == [block : 1..Blocks, ok : BOOLEAN]
  <1>1. block[r] \in Nat \ {0}
    BY BlocksAssumption DEF TypeOK
  <1>0. rows[r] \in Seq(R) /\ row \in R
    BY DEF TypeOK
  <1>9. \A x \in R : x.block \in Nat
    BY BlocksAssumption
  <1> HIDE DEF R
  <1>2. /\ n \in Nat /\ DOMAIN rows[r] = 1..n /\ DOMAIN rows'[r] = 1 .. n + 1
        /\ \A i \in 1..n : rows'[r][i] = rows[r][i]
        /\ rows'[r][n + 1] = row /\ Len(rows'[r]) = n + 1
    BY <1>0
  <1>3. row.block = block[r] /\ \A i \in 1..n : rows[r][i].block <= Filed(r)
    BY <1>2 DEF RowInv
  <1>4. \A i \in 1..n : rows[r][i].block \in Nat
    BY <1>0, <1>2, <1>9
  <1> HIDE DEF n
  <1>5. \A i \in DOMAIN rows'[r] : rows'[r][i].block <= block[r]
    <2> TAKE i \in DOMAIN rows'[r]
    <2>1. i \in 1..n \/ i = n + 1
      BY <1>2
    <2> QED
      BY <1>1, <1>2, <1>3, <1>4, <2>1
  <1>6. ASSUME NEW b \in 1 .. block[r] PROVE HasRow(r, b)'
    <2>1. CASE b = block[r]
      <3>1. n + 1 \in DOMAIN rows'[r] /\ rows'[r][n + 1].block = b
        BY <1>2, <1>3, <2>1
      <3> QED
        BY <3>1 DEF HasRow
    <2>2. CASE b # block[r]
      <3>1. b \in 1 .. Filed(r)
        BY <1>1, <2>2
      <3>2. HasRow(r, b)
        BY <3>1 DEF RowInv
      <3> QED
        BY <1>2, <3>2 DEF HasRow
    <2> QED
      BY <2>1, <2>2
  <1>7. script = "twohop" => Len(rows'[r]) = block[r]
    BY <1>1, <1>2 DEF RowInv, n
  <1>8. ASSUME NEW b \in late'[r], b <= block[r] PROVE ToldLate(r, b)'
    <2>1. CASE b = block[r]
      <3>1. rows'[r][n + 1] = Row(b, FALSE) /\ n + 1 \in DOMAIN rows'[r]
        BY <1>2, <1>8, <2>1
      <3>2. \A j \in DOMAIN rows'[r] : j <= n + 1
        BY <1>2
      <3> QED
        BY <3>1, <3>2 DEF ToldLate, Row
    <2>2. CASE b # block[r]
      <3>1. b \in late[r] /\ b <= Filed(r) /\ b \in Nat
        BY <1>1, <1>8, <2>2 DEF TypeOK
      <3>2. PICK i \in DOMAIN rows[r] :
              /\ rows[r][i] = Row(b, FALSE)
              /\ \A j \in DOMAIN rows[r] : rows[r][j].block = b => j <= i
        BY <3>1 DEF RowInv, ToldLate
      <3>5. i \in 1..n /\ i \in DOMAIN rows'[r]
        BY <1>2
      <3>3. i \in DOMAIN rows'[r] /\ rows'[r][i] = Row(b, FALSE)
        BY <1>2, <3>2, <3>5
      <3>4. ASSUME NEW j \in DOMAIN rows'[r], rows'[r][j].block = b PROVE j <= i
        <4>1. j \in 1..n
          BY <1>2, <1>3, <2>2, <3>4
        <4> QED
          BY <1>2, <3>2, <3>4, <4>1
      <3> QED
        BY <3>3, <3>4 DEF ToldLate, Row
    <2> QED
      BY <2>1, <2>2
  <1> QED
    BY <1>5, <1>6, <1>7, <1>8 DEF RowInv

\* What a rank that adds none must show.
LEMMA RowsLeft ==
  ASSUME NEW r \in Ranks, RowInv(r), script' = script, rows'[r] = rows[r],
         Filed(r)' = Filed(r), LateBefore(r)',
         \A b \in late'[r] : b \in late[r] \/ ~(b <= Filed(r))
  PROVE  RowInv(r)'
  <1>1. \A b : HasRow(r, b)' = HasRow(r, b) /\ ToldLate(r, b)' = ToldLate(r, b)
    BY DEF HasRow, ToldLate, Row
  <1> QED
    BY <1>1 DEF RowInv

LEMMA RowsStay ==
  ASSUME NEW q \in Ranks, RowInv(q), script' = script, rows'[q] = rows[q],
         block'[q] = block[q], pc'[q] = pc[q], late'[q] = late[q]
  PROVE  RowInv(q)'
  <1>1. Filed(q)' = Filed(q) /\ LateBefore(q)'
    BY DEF RowInv, Filed, Past, Appended, LateBefore
  <1> QED
    BY <1>1, RowsLeft

LEMMA MeasuredRows ==
  ASSUME TypeOK, NEW r \in Ranks, RowInv(r), Measured(r) PROVE RowInv(r)'
  <1>1. /\ pc[r] = "armed" /\ pc'[r] = "measured" /\ script' = script
        /\ block'[r] = block[r] /\ late'[r] = late[r] /\ block[r] \in Nat
        /\ script \in {"twohop", "bilateral"}
    BY BlocksAssumption DEF TypeOK, Measured
  <1>2. LateBefore(r)' /\ block[r] \notin late[r]
    BY <1>1 DEF RowInv, LateBefore
  <1>3. CASE script = "twohop"
    <2>1. Filed(r)' = Filed(r) /\ rows'[r] = rows[r]
      BY <1>1, <1>3 DEF Filed, Past, Appended, Measured
    <2> QED
      BY <1>1, <1>2, <2>1, RowsLeft
  <1>4. CASE script = "bilateral"
    <2>1. Filed(r) = block[r] - 1 /\ Filed(r)' = block[r]
      BY <1>1, <1>4 DEF Filed, Past, Appended
    <2>2. rows'[r] = Append(rows[r], Row(block[r], Good(r))) /\ Good(r) \in BOOLEAN
      BY <1>4 DEF Measured, TypeOK, Good
    <2>3. /\ Row(block[r], Good(r)).block = block[r]
          /\ Row(block[r], Good(r)) \in [block : 1..Blocks, ok : BOOLEAN]
      BY <2>2, RowType DEF Row
    <2> QED
      BY <1>1, <1>2, <1>4, <2>1, <2>2, <2>3, RowAppended
  <1> QED
    BY <1>1, <1>3, <1>4

LEMMA AlarmRows ==
  ASSUME TypeOK, NEW r \in Ranks, RowInv(r), Alarm(r) PROVE RowInv(r)'
  <1>1. /\ pc[r] \in {"armed", "measured"} /\ pc'[r] = "late" /\ script' = script
        /\ block'[r] = block[r] /\ late'[r] = late[r] \cup {block[r]}
        /\ block[r] \in Nat /\ script \in {"twohop", "bilateral"}
    BY BlocksAssumption DEF TypeOK, Alarm
  <1>2. LateBefore(r)'
    BY <1>1 DEF RowInv, LateBefore
  <1>3. CASE script = "twohop"
    <2>1. Filed(r) = block[r] - 1 /\ Filed(r)' = Filed(r) /\ rows'[r] = rows[r]
      BY <1>1, <1>3 DEF Filed, Past, Appended, Alarm
    <2>2. ~(block[r] <= Filed(r))
      BY <1>1, <2>1
    <2> QED
      BY <1>1, <1>2, <2>1, <2>2, RowsLeft
  <1>4. CASE script = "bilateral"
    <2>1. Filed(r) \in {block[r] - 1, block[r]} /\ Filed(r)' = block[r]
      BY <1>1, <1>4 DEF Filed, Past, Appended
    <2>2. rows'[r] = Append(rows[r], Row(block[r], FALSE))
      BY <1>4 DEF Alarm, TypeOK
    <2>3. /\ Row(block[r], FALSE).block = block[r]
          /\ Row(block[r], FALSE) \in [block : 1..Blocks, ok : BOOLEAN]
      BY RowType DEF Row
    <2> QED
      BY <1>1, <1>2, <1>4, <2>1, <2>2, <2>3, RowAppended
  <1> QED
    BY <1>1, <1>3, <1>4

LEMMA EndBlockRows ==
  ASSUME TypeOK, NEW r \in Ranks, RowInv(r), EndBlock(r) PROVE RowInv(r)'
  <1>1. /\ pc[r] = "barrier" /\ script' = script /\ late'[r] = late[r]
        /\ block[r] \in Nat /\ Blocks \in Nat /\ script \in {"twohop", "bilateral"}
        /\ \/ block'[r] = block[r] + 1 /\ pc'[r] = "armed"
           \/ block'[r] = block[r] /\ pc'[r] \in {"last", "end"}
    BY BlocksAssumption DEF TypeOK, EndBlock
  <1>2. Filed(r)' = block[r]
    BY <1>1 DEF Filed, Past, Appended
  <1>3. LateBefore(r)'
    <2>1. late[r] \subseteq Nat
      BY DEF TypeOK
    <2> QED
      BY <1>1, <2>1 DEF RowInv, LateBefore
  <1>4. CASE script = "twohop"
    <2>1. Filed(r) = block[r] - 1
      BY <1>1, <1>4 DEF Filed, Past, Appended
    <2>2. rows'[r] = Append(rows[r], Row(block[r], Good(r))) /\ Good(r) \in BOOLEAN
      BY <1>1, <1>4 DEF EndBlock, TypeOK, Good
    <2>3. /\ Row(block[r], Good(r)).block = block[r]
          /\ Row(block[r], Good(r)) \in [block : 1..Blocks, ok : BOOLEAN]
      BY <2>2, RowType DEF Row
    <2>4. block[r] \in late'[r] => Row(block[r], Good(r)) = Row(block[r], FALSE)
      BY <1>1 DEF Good, Row
    <2> QED
      BY <1>1, <1>2, <1>3, <2>1, <2>2, <2>3, <2>4, RowAppended
  <1>5. CASE script = "bilateral"
    <2>1. Filed(r)' = Filed(r) /\ rows'[r] = rows[r]
      BY <1>1, <1>2, <1>5 DEF Filed, Past, Appended, EndBlock
    <2> QED
      BY <1>1, <1>3, <2>1, RowsLeft
  <1> QED
    BY <1>1, <1>4, <1>5

\* The other steps of a rank add no row and leave its blocks as they are.
LEMMA OtherRows ==
  ASSUME TypeOK, NEW r \in Ranks, RowInv(r),
         Call(r) \/ Return(r) \/ Barrier(r) \/ LastBarrier(r) \/ Close(r) \/ Exit(r)
  PROVE  RowInv(r)'
  <1>1. /\ script' = script /\ rows'[r] = rows[r] /\ late'[r] = late[r]
        /\ block'[r] = block[r]
    BY DEF Call, Return, Barrier, LastBarrier, Close, Exit
  <1>2. \/ pc[r] \in {"armed", "called"} /\ pc'[r] \in {"armed", "called"}
        \/ pc[r] \in {"measured", "late"} /\ pc'[r] = "barrier"
        \/ pc[r] \in {"last", "closing", "end"} /\ pc'[r] \in {"closing", "end", "exited"}
    BY DEF TypeOK, Call, Return, Barrier, LastBarrier, Close, Exit
  <1>3. LateBefore(r)'
    BY <1>1, <1>2 DEF RowInv, LateBefore
  <1>4. CASE Barrier(r) /\ script # "bilateral"
    <2>1. Filed(r)' = Filed(r)
      BY <1>1, <1>4 DEF Filed, Past, Appended, Barrier, TypeOK
    <2> QED
      BY <1>1, <1>3, <2>1, RowsLeft
  <1>5. CASE ~(Barrier(r) /\ script # "bilateral")
    <2>1. Filed(r)' = Filed(r)
      BY <1>1, <1>2 DEF Filed, Past, Appended
    <2> QED
      BY <1>1, <1>3, <2>1, RowsLeft
  <1> QED
    BY <1>4, <1>5

LEMMA RowsKept == ASSUME TypeOK, RowsInv, [Next]_vars PROVE RowsInv'
  <1> SUFFICES ASSUME NEW q \in Ranks PROVE RowInv(q)'
    BY DEF RowsInv
  <1>0. RowInv(q)
    BY DEF RowsInv
  <1>1. ASSUME NEW r \in Ranks, Progress(r) \/ Alarm(r) PROVE RowInv(q)'
    <2>1. CASE r = q
      BY <1>0, <1>1, <2>1, MeasuredRows, AlarmRows, EndBlockRows, OtherRows DEF Progress
    <2>2. CASE r # q
      <3>1. /\ script' = script /\ rows'[q] = rows[q] /\ block'[q] = block[q]
            /\ pc'[q] = pc[q] /\ late'[q] = late[q]
        <4>1. CASE Call(r) \/ Return(r) \/ Barrier(r)
          BY <2>2, <4>1 DEF TypeOK, Call, Return, Barrier
        <4>2. CASE Measured(r) \/ Alarm(r)
          BY <2>2, <4>2 DEF TypeOK, Measured, Alarm
        <4>3. CASE EndBlock(r)
          BY <2>2, <4>3 DEF TypeOK, EndBlock
        <4>4. CASE LastBarrier(r) \/ Close(r) \/ Exit(r)
          BY <2>2, <4>4 DEF TypeOK, LastBarrier, Close, Exit
        <4> QED
          BY <1>1, <4>1, <4>2, <4>3, <4>4 DEF Progress
      <3> QED
        BY <1>0, <3>1, RowsStay
    <2> QED
      BY <2>1, <2>2
  <1>2. CASE UNCHANGED vars
    BY <1>0, <1>2, RowsStay DEF vars
  <1> QED
    BY <1>1, <1>2 DEF Next

LEMMA InitRows == Init => RowsInv
  <1> SUFFICES ASSUME Init, NEW r \in Ranks PROVE RowInv(r)
    BY DEF RowsInv
  <1>1. rows[r] = <<>> /\ late[r] = {} /\ Filed(r) = 0
    BY DEF Init, Filed, Past, Appended
  <1>2. Len(rows[r]) = 0 /\ DOMAIN rows[r] = {}
    BY <1>1
  <1> QED
    BY <1>1, <1>2 DEF RowInv, LateBefore

LEMMA RowsFollow == IInv /\ RowsInv => RowsComplete
  <1> SUFFICES ASSUME IInv, RowsInv, NEW r \in Ranks, pc[r] \in {"end", "exited"}
               PROVE  /\ {rows[r][i].block : i \in DOMAIN rows[r]} = 1..Blocks
                      /\ \A b \in late[r] : ToldLate(r, b)
                      /\ script = "twohop" => Len(rows[r]) = Blocks
    BY DEF RowsComplete, ToldLate
  <1>1. TypeOK /\ Shape(r) /\ RowInv(r)
    BY DEF IInv, RankInv, RowsInv
  <1>2. block[r] = Blocks /\ Filed(r) = Blocks
    BY <1>1 DEF Shape, Filed, Past
  <1>3. \A i \in DOMAIN rows[r] : rows[r][i].block \in 1..Blocks
    <2> DEFINE R == [block : 1..Blocks, ok : BOOLEAN]
    <2>1. rows[r] \in Seq(R)
      BY <1>1 DEF TypeOK
    <2>2. \A x \in R : x.block \in 1..Blocks
      OBVIOUS
    <2> HIDE DEF R
    <2> QED
      BY <2>1, <2>2
  <1>4. {rows[r][i].block : i \in DOMAIN rows[r]} = 1..Blocks
    BY <1>1, <1>2, <1>3 DEF RowInv, HasRow
  <1>5. late[r] \subseteq 1..Blocks
    BY <1>1 DEF TypeOK
  <1> QED
    BY <1>1, <1>2, <1>4, <1>5 DEF RowInv
-----------------------------------------------------------------------------
\* The invariant of every behaviour.
THEOREM Invariant == Spec => []IInv
  <1>1. ASSUME IInv, [Next]_vars PROVE IInv'
    <2>1. CASE Next
      BY <1>1, <2>1, CallKeeps, ReturnKeeps, MeasuredKeeps, AlarmKeeps, BarrierKeeps,
         EndBlockKeeps, LastBarrierKeeps, CloseKeeps, ExitKeeps DEF Next, Progress
    <2>2. CASE UNCHANGED vars
      <3>1. TypeOK'
        BY <1>1, <2>2 DEF vars, IInv, TypeOK
      <3>2. ASSUME NEW q \in Ranks PROVE RankInv(q)'
        <4>1. \A p \in Ranks : Len(log[p]) \in Nat
          BY <1>1 DEF IInv, TypeOK
        <4> QED
          BY <1>1, <2>2, <4>1, Others DEF vars
      <3> QED
        BY <3>1, <3>2 DEF IInv
    <2> QED
      BY <1>1, <2>1, <2>2
  <1> QED
    BY InitInv, <1>1, PTL DEF Spec

\* Types of the variables, for any number of sizes and timers.
THEOREM Typing == Spec => []TypeOK
  <1>1. IInv => TypeOK
    BY DEF IInv
  <1> QED
    BY <1>1, Invariant, PTL

\* A rank that exits with 0 vouches for the calls of all four ranks: no two of
\* them ever met in different calls.
THEOREM CleanExit == Spec => []CleanMeansMatched
  BY CleanFollows, Invariant, PTL

\* The rows of a rank that is through: one for every size, those of the sizes
\* that its timer cut short end with one that says so.
THEOREM RowsHold == Spec => []RowsComplete
  <1>1. IInv => TypeOK
    BY DEF IInv
  <1> QED
    BY <1>1, InitRows, RowsKept, RowsFollow, Invariant, PTL DEF Spec
=============================================================================
