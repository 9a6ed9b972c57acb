---------------------------- MODULE TwoHopProofs ----------------------------
(***************************************************************************)
(* Proofs about TwoHop, for every combination of schedule and transport,   *)
(* any number of calls, any inputs and any number of buffers: every call   *)
(* returns the sum, nothing is left on the channels after the last one,    *)
(* and each schedule is an in-place all-reduce as AllReduce describes it.  *)
(*                                                                         *)
(* The argument: where a rank stands fixes everything else.  What its      *)
(* tensor holds is a function of the steps it has finished (XAt, HeldAt);  *)
(* how many messages it has sent to a neighbour, and received from it,     *)
(* follows from the steps it has posted and waited for; and the k-th       *)
(* message from a rank to a neighbour is the same in every run (Payload).  *)
(* A channel then holds the messages from the first one that was not       *)
(* received to the last one that was sent, so that each receive takes the  *)
(* message that its step of its call is waiting for, however far apart the *)
(* ranks are.                                                              *)
(***************************************************************************)
EXTENDS TwoHop, FiniteSetTheorems, TLAPS

Opposite(r) == (r + 2) % World

\* The steps of the call that rank r has posted, waited for and finished.
Posted(r) == IF at[r] = "post" THEN step[r] - 1 ELSE step[r]
Taken(r) == IF at[r] \in {"barrier", "returned"} THEN step[r] ELSE step[r] - 1
Used(r) == IF at[r] = "returned" THEN step[r] ELSE step[r] - 1

-----------------------------------------------------------------------------
(***************************************************************************)
(* The messages of a call.                                                 *)
(***************************************************************************)

Directions == {"right", "left"}
Back(d) == IF d = "right" THEN "left" ELSE "right"
Beside(r, d) == IF d = "right" THEN Right(r) ELSE Left(r)

\* The direction of the first partner of rank r in the schedule of the pairs.
Inward(r) == IF r \in {0, 2} THEN "right" ELSE "left"

\* The messages of a call from a rank in direction d.
PerCall(d) ==
  CASE mode.alg = "twohop" -> 3
    [] mode.alg = "ring"   -> 3
    [] mode.alg = "pair"   -> 1
    [] mode.alg = "kernel" -> IF d = "right" THEN 4 ELSE 3

One(b) == IF b THEN 1 ELSE 0

\* How many of the given steps are among the first n.
Among1(n, a) == One(a <= n)
Among3(n, a, b, c) == One(a <= n) + One(b <= n) + One(c <= n)
Among4(n, a, b, c, d) == One(a <= n) + One(b <= n) + One(c <= n) + One(d <= n)

\* The messages of a call that rank r has sent in direction d when it has posted
\* n steps, and those that it has received from there after n steps.
SentIn(r, d, n) ==
  CASE mode.alg = "twohop" -> IF d = "right" THEN Among3(n, 1, 2, 3) ELSE Among3(n, 1, 3, 4)
    [] mode.alg = "ring"   -> IF d = "right" THEN Among3(n, 1, 2, 3) ELSE Among3(n, 4, 5, 6)
    [] mode.alg = "pair"   -> Among1(n, IF d = Inward(r) THEN 1 ELSE 2)
    [] mode.alg = "kernel" -> IF d = "right" THEN Among4(n, 1, 2, 7, 9)
                                             ELSE Among3(n, 5, 11, 13)

TakenIn(r, d, n) ==
  CASE mode.alg = "twohop" -> IF d = "right" THEN Among3(n, 1, 3, 4) ELSE Among3(n, 1, 2, 3)
    [] mode.alg = "ring"   -> IF d = "right" THEN Among3(n, 4, 5, 6) ELSE Among3(n, 1, 2, 3)
    [] mode.alg = "pair"   -> Among1(n, IF d = Inward(r) THEN 1 ELSE 2)
    [] mode.alg = "kernel" -> IF d = "right" THEN Among3(n, 6, 12, 14)
                                             ELSE Among4(n, 3, 4, 8, 10)

\* Whether step s sends in direction d, or receives from there.
Sends(r, d, s) == SentIn(r, d, s) = SentIn(r, d, s - 1) + 1
Takes(r, d, s) == TakenIn(r, d, s) = TakenIn(r, d, s - 1) + 1

-----------------------------------------------------------------------------
(***************************************************************************)
(* The data.                                                               *)
(***************************************************************************)

In(m, r, c) == Input[m][r][c]

\* Chunk c on rank r after n steps of call m.
TwoHopAt(m, r, n, c) ==
  IF c = r
  THEN IF n = 0 THEN In(m, r, c)
       ELSE IF n = 1 THEN In(m, r, c) + In(m, Right(r), c) + In(m, Left(r), c)
       ELSE Total(m, c)
  ELSE IF n >= (IF c = Opposite(r) THEN 4 ELSE 3) THEN Total(m, c) ELSE In(m, r, c)

RingAt(m, r, n, c) ==
  CASE c = r -> IF n >= 6 THEN Total(m, c) ELSE In(m, r, c)
    [] c = Left(r) -> IF n >= 5 THEN Total(m, c)
                      ELSE IF n >= 1 THEN In(m, r, c) + In(m, Left(r), c)
                      ELSE In(m, r, c)
    [] c = Opposite(r) -> IF n >= 4 THEN Total(m, c)
                          ELSE IF n >= 2
                          THEN In(m, r, c) + In(m, Left(r), c) + In(m, Opposite(r), c)
                          ELSE In(m, r, c)
    [] c = Right(r) -> IF n >= 3 THEN Total(m, c) ELSE In(m, r, c)

PairAt(m, r, n, c) == IF n >= 2 THEN Total(m, c) ELSE In(m, r, c)

KernelAt(m, r, n, c) ==
  CASE c = r -> IF n >= 8 THEN Total(m, c)
                ELSE IF n >= 6 THEN In(m, r, c) + In(m, Left(r), c) + In(m, Right(r), c)
                ELSE IF n >= 3 THEN In(m, r, c) + In(m, Left(r), c)
                ELSE In(m, r, c)
    [] c = Right(r) -> IF n >= 12 THEN Total(m, c)
                       ELSE IF n >= 4 THEN In(m, Left(r), c)
                       ELSE In(m, r, c)
    [] c = Left(r) -> IF n >= 10 THEN Total(m, c) ELSE In(m, r, c)
    [] c = Opposite(r) -> IF n >= 14 THEN Total(m, c) ELSE In(m, r, c)

XAt(m, r, n, c) ==
  CASE mode.alg = "twohop" -> TwoHopAt(m, r, n, c)
    [] mode.alg = "ring"   -> RingAt(m, r, n, c)
    [] mode.alg = "pair"   -> PairAt(m, r, n, c)
    [] mode.alg = "kernel" -> KernelAt(m, r, n, c)

\* The vector of two partners after their first exchange.
Both(m, r) ==
  [i \in 1..World |-> In(m, r, i - 1) + In(m, Beside(r, Inward(r)), i - 1)]

\* What the schedule of rank r keeps after n steps of call m.
HeldAt(m, r, n) ==
  IF n = 0 \/ mode.alg \in {"ring", "kernel"} THEN <<>>
  ELSE IF mode.alg = "pair"
       THEN IF n = 1 THEN Both(m, r) ELSE [i \in 1..World |-> Total(m, i - 1)]
       ELSE IF n <= 2 THEN <<In(m, Left(r), Right(r))>> ELSE <<Total(m, Right(r))>>

\* The j-th message of call m from rank r in direction d.
TwoHopPayload(m, r, d, j) ==
  IF d = "right"
  THEN IF j = 1 THEN <<In(m, r, Right(r)), In(m, r, Opposite(r))>>
       ELSE IF j = 2 THEN <<In(m, Left(r), Right(r))>> ELSE <<Total(m, r)>>
  ELSE IF j = 1 THEN <<In(m, r, Left(r))>>
       ELSE IF j = 2 THEN <<Total(m, r)>> ELSE <<Total(m, Right(r))>>

RingPayload(m, r, d, j) ==
  IF d = "right"
  THEN IF j = 1 THEN <<In(m, r, r)>>
       ELSE IF j = 2 THEN <<In(m, r, Left(r)) + In(m, Left(r), Left(r))>>
       ELSE <<In(m, r, Opposite(r)) + In(m, Left(r), Opposite(r))
                + In(m, Opposite(r), Opposite(r))>>
  ELSE <<Total(m, IF j = 1 THEN Right(r) ELSE IF j = 2 THEN Opposite(r) ELSE Left(r))>>

PairPayload(m, r, d) ==
  IF d = Inward(r) THEN [i \in 1..World |-> In(m, r, i - 1)] ELSE Both(m, r)

KernelPayload(m, r, d, j) ==
  IF d = "right"
  THEN IF j = 1 THEN <<In(m, r, Right(r))>>
       ELSE IF j = 2 THEN <<In(m, r, Opposite(r))>>
       ELSE IF j = 3 THEN <<In(m, Left(r), Right(r))>> ELSE <<Total(m, r)>>
  ELSE IF j = 1 THEN <<In(m, r, Left(r))>>
       ELSE IF j = 2 THEN <<Total(m, r)>> ELSE <<Total(m, Right(r))>>

Payload(m, r, d, j) ==
  CASE mode.alg = "twohop" -> TwoHopPayload(m, r, d, j)
    [] mode.alg = "ring"   -> RingPayload(m, r, d, j)
    [] mode.alg = "pair"   -> PairPayload(m, r, d)
    [] mode.alg = "kernel" -> KernelPayload(m, r, d, j)

\* What step s of call m receives on rank r.
MailAt(m, r, s) ==
  [p \in Neighbours(r) |->
     LET d == IF p = Right(r) THEN "right" ELSE "left" IN
     IF Takes(r, d, s) THEN Payload(m, p, Back(d), TakenIn(r, d, s)) ELSE <<>>]

SendsAt(m, r, d, s) ==
  IF Sends(r, d, s) THEN {Send(Beside(r, d), Payload(m, r, d, SentIn(r, d, s)))} ELSE {}
TakesAt(r, d, s) == IF Takes(r, d, s) THEN {Recv(Beside(r, d))} ELSE {}

OpsAt(m, r, s) ==
  SendsAt(m, r, "right", s) \cup SendsAt(m, r, "left", s)
    \cup TakesAt(r, "right", s) \cup TakesAt(r, "left", s)

-----------------------------------------------------------------------------
(***************************************************************************)
(* The invariant.                                                          *)
(***************************************************************************)

PlaceInv(r) ==
  /\ op[r] \in 1..MaxOps
  /\ step[r] \in 1..Steps
  /\ at[r] \in {"post", "wait", "barrier", "returned"}
  /\ at[r] = "returned" => step[r] = Steps
  /\ pending[r] = {}
  /\ issued[r] = IF at[r] = "wait" THEN OpsAt(op[r], r, step[r]) ELSE {}
  /\ got[r] = IF at[r] = "barrier" THEN MailAt(op[r], r, step[r]) ELSE NoMail(r)

DataInv(r) ==
  /\ x[r] = [c \in Ranks |-> XAt(op[r], r, Used(r), c)]
  /\ held[r] = HeldAt(op[r], r, Used(r))

Link(r, d) == <<Group(r, Beside(r, d)), r, Beside(r, d)>>

\* Over all calls: the messages from rank r to its neighbour, those that the
\* neighbour has taken and those it has asked for.
SentAll(r, d) == PerCall(d) * (op[r] - 1) + SentIn(r, d, Posted(r))
TakenAll(r, d) ==
  LET q == Beside(r, d) IN PerCall(d) * (op[q] - 1) + TakenIn(q, Back(d), Taken(q))
AskedAll(r, d) ==
  LET q == Beside(r, d) IN PerCall(d) * (op[q] - 1) + TakenIn(q, Back(d), Posted(q))

AllData == {Payload(m, r, d, j) : m \in 1..MaxOps, r \in Ranks, d \in Directions, j \in 1..4}

\* The messages that are on a channel, when as many were sent and taken.
Carries(r, d, w, sent, taken) ==
  /\ w \in Seq(AllData)
  /\ Len(w) = sent - taken
  /\ \A i \in 1 .. Len(w), m \in 1..MaxOps, j \in 1..PerCall(d) :
       taken + i = PerCall(d) * (m - 1) + j => w[i] = Payload(m, r, d, j)

WireInv(r, d) ==
  LET c == Link(r, d) IN
  /\ Carries(r, d, wire[c], SentAll(r, d), TakenAll(r, d))
  /\ credit[c] = AskedAll(r, d) - SentAll(r, d)

\* The channels that no pair of neighbours uses.
IdleInv ==
  \A c \in Channels : c[1] # Group(c[2], c[3]) => wire[c] = <<>> /\ credit[c] = 0

Shapes ==
  /\ mode \in Modes
  /\ DOMAIN op = Ranks /\ DOMAIN step = Ranks /\ DOMAIN at = Ranks
  /\ DOMAIN x = Ranks /\ DOMAIN held = Ranks /\ DOMAIN pending = Ranks
  /\ DOMAIN issued = Ranks /\ DOMAIN got = Ranks
  /\ DOMAIN wire = Channels /\ DOMAIN credit = Channels

IInv ==
  /\ Shapes
  /\ \A r \in Ranks : PlaceInv(r) /\ DataInv(r)
  /\ \A r \in Ranks, d \in Directions : WireInv(r, d)
  /\ IdleInv
-----------------------------------------------------------------------------
(***************************************************************************)
(* The ring.                                                               *)
(***************************************************************************)

LEMMA Around ==
  \A r \in Ranks :
    /\ Right(r) \in Ranks /\ Left(r) \in Ranks /\ Opposite(r) \in Ranks
    /\ r # Right(r) /\ r # Left(r) /\ r # Opposite(r)
    /\ Right(r) # Left(r) /\ Right(r) # Opposite(r) /\ Left(r) # Opposite(r)
    /\ Right(Left(r)) = r /\ Left(Right(r)) = r
    /\ Right(Right(r)) = Opposite(r) /\ Left(Left(r)) = Opposite(r)
    /\ Right(Opposite(r)) = Left(r) /\ Left(Opposite(r)) = Right(r)
    /\ Opposite(Right(r)) = Left(r) /\ Opposite(Left(r)) = Right(r)
  <1>1. Ranks = {0, 1, 2, 3}
    BY DEF Ranks, World
  <1> QED
    BY <1>1 DEF Right, Left, Opposite, World

LEMMA Names ==
  /\ Ranks = {0, 1, 2, 3}
  /\ Right(0) = 1 /\ Right(1) = 2 /\ Right(2) = 3 /\ Right(3) = 0
  /\ Left(0) = 3 /\ Left(1) = 0 /\ Left(2) = 1 /\ Left(3) = 2
  /\ Opposite(0) = 2 /\ Opposite(1) = 3 /\ Opposite(2) = 0 /\ Opposite(3) = 1
  <1>1. \A r \in {0, 1, 2, 3} : Left(r) = IF r = 0 THEN 3 ELSE r - 1
    BY DEF Left, World
  <1>2. \A r \in {0, 1, 2, 3} : Right(r) = IF r = 3 THEN 0 ELSE r + 1
    BY DEF Right, World
  <1>3. \A r \in {0, 1, 2, 3} : Opposite(r) = IF r <= 1 THEN r + 2 ELSE r - 2
    BY DEF Opposite, World
  <1>4. Ranks = {0, 1, 2, 3}
    BY DEF Ranks, World
  <1> QED
    BY <1>1, <1>2, <1>3, <1>4

LEMMA AllRanks == \A r \in Ranks : Ranks = {r, Right(r), Left(r), Opposite(r)}
  <1>3. ASSUME NEW r \in Ranks PROVE Ranks = {r, Right(r), Left(r), Opposite(r)}
    <2>1. r = 0 \/ r = 1 \/ r = 2 \/ r = 3
      BY Names
    <2> QED
      BY Names, <2>1
  <1> QED
    BY <1>3

\* The chunks that the schedules name relative to the rank.
LEMMA Shifts ==
  \A r \in Ranks :
    /\ Shift(r, 0) = r /\ Shift(r, 1) = Right(r) /\ Shift(r, 2) = Opposite(r)
    /\ Shift(r, 3) = Left(r) /\ Shift(r, 4) = r
    /\ Shift(r, -1) = Left(r) /\ Shift(r, -2) = Opposite(r) /\ Shift(r, -3) = Right(r)
  <1>1. Ranks = {0, 1, 2, 3}
    BY DEF Ranks, World
  <1> QED
    BY <1>1 DEF Shift, Right, Left, Opposite, World

\* The first partners are each other's, and so are the second ones.
LEMMA Partners ==
  \A r \in Ranks :
    /\ Inward(r) \in Directions /\ Back(Inward(r)) \in Directions
    /\ Partner(r, 1) = Beside(r, Inward(r))
    /\ Partner(r, 2) = Beside(r, Back(Inward(r)))
    /\ Inward(Right(r)) = Back(Inward(r)) /\ Inward(Left(r)) = Back(Inward(r))
  <1>3. /\ Inward(0) = "right" /\ Inward(1) = "left"
        /\ Inward(2) = "right" /\ Inward(3) = "left"
    BY DEF Inward
  <1>4. Back("right") = "left" /\ Back("left") = "right"
    BY DEF Back
  <1>5. /\ Partner(0, 1) = Right(0) /\ Partner(1, 1) = Left(1)
        /\ Partner(2, 1) = Right(2) /\ Partner(3, 1) = Left(3)
        /\ Partner(0, 2) = Left(0) /\ Partner(1, 2) = Right(1)
        /\ Partner(2, 2) = Left(2) /\ Partner(3, 2) = Right(3)
    BY DEF Partner
  <1>6. ASSUME NEW r \in Ranks
        PROVE  /\ Inward(r) \in Directions /\ Back(Inward(r)) \in Directions
               /\ Partner(r, 1) = Beside(r, Inward(r))
               /\ Partner(r, 2) = Beside(r, Back(Inward(r)))
               /\ Inward(Right(r)) = Back(Inward(r)) /\ Inward(Left(r)) = Back(Inward(r))
    <2>1. r = 0 \/ r = 1 \/ r = 2 \/ r = 3
      BY Names
    <2> QED
      BY Names, <1>3, <1>4, <1>5, <2>1 DEF Beside, Directions
  <1> QED
    BY <1>6

\* The neighbour of a rank has the rank on its other side.
LEMMA BesideFacts ==
  ASSUME NEW r \in Ranks, NEW d \in Directions
  PROVE  /\ Beside(r, d) \in Ranks /\ Beside(r, d) # r /\ Beside(r, d) \in Neighbours(r)
         /\ Back(d) \in Directions /\ Back(d) # d /\ Back(Back(d)) = d
         /\ Beside(Beside(r, d), Back(d)) = r
         /\ Beside(r, Back(d)) # Beside(r, d)
         /\ Beside(r, d) = Right(r) <=> d = "right"
  BY Around DEF Directions, Beside, Back, Neighbours

LEMMA NeighbourFacts ==
  ASSUME NEW r \in Ranks, NEW q \in Neighbours(r)
  PROVE  /\ q \in Ranks /\ q # r /\ r \in Neighbours(q)
         /\ \E d \in Directions : q = Beside(r, d)
  BY Around DEF Neighbours, Directions, Beside

\* A link belongs to the same communicator at both ends.
LEMMA GroupAgrees ==
  ASSUME NEW r \in Ranks, NEW q \in Neighbours(r)
  PROVE  Group(q, r) = Group(r, q) /\ Group(r, q) \in {0, 1}
  <1>1. Edge(q, r) = Edge(r, q) /\ Edge(r, q) \in Ranks
    BY Around DEF Neighbours, Edge
  <1>2. \A e \in Ranks : e % 2 \in {0, 1}
    BY DEF Ranks, World
  <1> QED
    BY <1>1, <1>2 DEF Group
-----------------------------------------------------------------------------
(***************************************************************************)
(* The counts.                                                             *)
(***************************************************************************)

LEMMA ModeFacts ==
  ASSUME mode \in Modes
  PROVE  /\ mode.alg \in {"twohop", "ring", "pair", "kernel"}
         /\ mode.groups \in {1, 2}
         /\ mode.align \in BOOLEAN
  BY ModesAssumption

LEMMA StepsFacts ==
  ASSUME mode \in Modes
  PROVE  /\ mode.alg = "twohop" => Steps = 4
         /\ mode.alg = "ring"   => Steps = 6
         /\ mode.alg = "pair"   => Steps = 2
         /\ mode.alg = "kernel" => Steps = 14
         /\ Steps \in Nat /\ Steps >= 2
  <1>1. Len(KernelProgram) = 14
    BY DEF KernelProgram
  <1> QED
    BY <1>1, ModeFacts DEF Steps

\* A rank sends in a direction what the neighbour there takes, and a step does
\* not send, or take, more than one message there.
LEMMA Counts ==
  ASSUME mode \in Modes, NEW r \in Ranks, NEW d \in Directions
  PROVE  /\ PerCall(d) \in {1, 3, 4}
         /\ SentIn(r, d, 0) = 0 /\ TakenIn(r, d, 0) = 0
         /\ SentIn(r, d, Steps) = PerCall(d)
         /\ TakenIn(r, d, Steps) = PerCall(Back(d))
         /\ \A n \in 0..Steps : /\ SentIn(r, d, n) \in 0..PerCall(d)
                                /\ TakenIn(r, d, n) \in 0..PerCall(Back(d))
         /\ \A s \in 1..Steps :
              /\ SentIn(r, d, s) = SentIn(r, d, s - 1) + One(Sends(r, d, s))
              /\ TakenIn(r, d, s) = TakenIn(r, d, s - 1) + One(Takes(r, d, s))
  <1> USE ModeFacts, StepsFacts DEF Among1, Among3, Among4, One, Sends, Takes
  <1>1. d \in {"right", "left"} /\ Back(d) = IF d = "right" THEN "left" ELSE "right"
    BY DEF Directions, Back
  <1>2. CASE mode.alg = "twohop"
    BY <1>1, <1>2 DEF PerCall, SentIn, TakenIn
  <1>3. CASE mode.alg = "ring"
    BY <1>1, <1>3 DEF PerCall, SentIn, TakenIn
  <1>4. CASE mode.alg = "pair"
    BY <1>1, <1>4 DEF PerCall, SentIn, TakenIn
  <1>5. CASE mode.alg = "kernel"
    BY <1>1, <1>5 DEF PerCall, SentIn, TakenIn
  <1> QED
    BY <1>2, <1>3, <1>4, <1>5

\* Which steps those are.
LEMMA TwoHopSteps ==
  ASSUME mode.alg = "twohop", NEW r \in Ranks, NEW s \in 1..4
  PROVE  /\ Sends(r, "right", s) <=> s \in {1, 2, 3}
         /\ Sends(r, "left", s) <=> s \in {1, 3, 4}
         /\ Takes(r, "left", s) <=> s \in {1, 2, 3}
         /\ Takes(r, "right", s) <=> s \in {1, 3, 4}
         /\ \A n \in 0..4 :
              /\ SentIn(r, "right", n) = IF n <= 3 THEN n ELSE 3
              /\ SentIn(r, "left", n) = IF n = 0 THEN 0 ELSE IF n <= 2 THEN 1 ELSE n - 1
              /\ TakenIn(r, "left", n) = IF n <= 3 THEN n ELSE 3
              /\ TakenIn(r, "right", n) = IF n = 0 THEN 0 ELSE IF n <= 2 THEN 1 ELSE n - 1
  BY DEF Among3, One, SentIn, TakenIn, Sends, Takes

LEMMA RingSteps ==
  ASSUME mode.alg = "ring", NEW r \in Ranks, NEW s \in 1..6
  PROVE  /\ Sends(r, "right", s) <=> s \in {1, 2, 3}
         /\ Sends(r, "left", s) <=> s \in {4, 5, 6}
         /\ Takes(r, "left", s) <=> s \in {1, 2, 3}
         /\ Takes(r, "right", s) <=> s \in {4, 5, 6}
         /\ \A n \in 0..6 :
              /\ SentIn(r, "right", n) = IF n <= 3 THEN n ELSE 3
              /\ SentIn(r, "left", n) = IF n <= 3 THEN 0 ELSE n - 3
              /\ TakenIn(r, "left", n) = IF n <= 3 THEN n ELSE 3
              /\ TakenIn(r, "right", n) = IF n <= 3 THEN 0 ELSE n - 3
  BY DEF Among3, One, SentIn, TakenIn, Sends, Takes

LEMMA PairSteps ==
  ASSUME mode.alg = "pair", NEW r \in Ranks, NEW d \in Directions, NEW s \in 1..2
  PROVE  /\ Sends(r, d, s) <=> s = IF d = Inward(r) THEN 1 ELSE 2
         /\ Takes(r, d, s) <=> s = IF d = Inward(r) THEN 1 ELSE 2
         /\ \A n \in 0..2 :
              /\ SentIn(r, d, n) = IF (IF d = Inward(r) THEN 1 ELSE 2) <= n THEN 1 ELSE 0
              /\ TakenIn(r, d, n) = IF (IF d = Inward(r) THEN 1 ELSE 2) <= n THEN 1 ELSE 0
  BY DEF Among1, One, SentIn, TakenIn, Sends, Takes

LEMMA KernelSteps ==
  ASSUME mode.alg = "kernel", NEW r \in Ranks, NEW s \in 1..14
  PROVE  /\ Sends(r, "right", s) <=> s \in {1, 2, 7, 9}
         /\ Sends(r, "left", s) <=> s \in {5, 11, 13}
         /\ Takes(r, "left", s) <=> s \in {3, 4, 8, 10}
         /\ Takes(r, "right", s) <=> s \in {6, 12, 14}
         /\ \A n \in 0..14 :
              /\ SentIn(r, "right", n) = IF n < 1 THEN 0 ELSE IF n < 2 THEN 1
                                         ELSE IF n < 7 THEN 2 ELSE IF n < 9 THEN 3 ELSE 4
              /\ SentIn(r, "left", n) = IF n < 5 THEN 0 ELSE IF n < 11 THEN 1
                                        ELSE IF n < 13 THEN 2 ELSE 3
              /\ TakenIn(r, "left", n) = IF n < 3 THEN 0 ELSE IF n < 4 THEN 1
                                         ELSE IF n < 8 THEN 2 ELSE IF n < 10 THEN 3 ELSE 4
              /\ TakenIn(r, "right", n) = IF n < 6 THEN 0 ELSE IF n < 12 THEN 1
                                          ELSE IF n < 14 THEN 2 ELSE 3
  BY DEF Among3, Among4, One, SentIn, TakenIn, Sends, Takes
-----------------------------------------------------------------------------
(***************************************************************************)
(* What a step sends and what it does with what it received, schedule by   *)
(* schedule.                                                               *)
(***************************************************************************)

LEMMA Numbers ==
  \A m \in 1..MaxOps, r \in Ranks, c \in Ranks :
    /\ In(m, r, c) \in Int
    /\ Total(m, c) \in Int
    /\ Total(m, c) = In(m, r, c) + In(m, Right(r), c) + In(m, Left(r), c)
                       + In(m, Opposite(r), c)
  <1>1. ASSUME NEW m \in 1..MaxOps, NEW r \in Ranks, NEW c \in Ranks
        PROVE  In(m, r, c) \in Int
    BY <1>1, InputAssumption DEF In
  <1>2. ASSUME NEW m \in 1..MaxOps, NEW r \in Ranks, NEW c \in Ranks
        PROVE  Total(m, c) = In(m, r, c) + In(m, Right(r), c) + In(m, Left(r), c)
                               + In(m, Opposite(r), c)
    <2>1. /\ In(m, 0, c) \in Int /\ In(m, 1, c) \in Int
          /\ In(m, 2, c) \in Int /\ In(m, 3, c) \in Int
      BY <1>1, <1>2, Names
    <2>2. Total(m, c) = In(m, 0, c) + In(m, 1, c) + In(m, 2, c) + In(m, 3, c)
      BY DEF Total, In
    <2>3. r = 0 \/ r = 1 \/ r = 2 \/ r = 3
      BY <1>2, Names
    <2> QED
      BY <2>1, <2>2, <2>3, Names
  <1>3. ASSUME NEW m \in 1..MaxOps, NEW r \in Ranks, NEW c \in Ranks
        PROVE  Total(m, c) \in Int
    BY <1>1, <1>2, <1>3, Around
  <1> QED
    BY <1>1, <1>2, <1>3

\* The tensor and the memory of rank r after n steps of call m.
Holds(m, r, n) == /\ x[r] = [c \in Ranks |-> XAt(m, r, n, c)]
                  /\ held[r] = HeldAt(m, r, n)

After(m, r, n) ==
  /\ DOMAIN x' = Ranks /\ DOMAIN held' = Ranks
  /\ Holds(m, r, n)'
  /\ \A q \in Ranks \ {r} : x'[q] = x[q] /\ held'[q] = held[q]

LEMMA ChunkFacts ==
  ASSUME NEW m, NEW r \in Ranks, NEW n, Holds(m, r, n)
  PROVE  /\ \A c \in Ranks : x[r][c] = XAt(m, r, n, c)
         /\ Chunk(r, 0) = XAt(m, r, n, r)
         /\ Chunk(r, 1) = XAt(m, r, n, Right(r)) /\ Chunk(r, -1) = XAt(m, r, n, Left(r))
         /\ Chunk(r, 2) = XAt(m, r, n, Opposite(r))
         /\ Chunk(r, -2) = XAt(m, r, n, Opposite(r))
         /\ Chunk(r, 3) = XAt(m, r, n, Left(r))
  BY Shifts, Around DEF Holds, Chunk

LEMMA MailFacts ==
  ASSUME NEW m, NEW r \in Ranks, NEW s
  PROVE  \A d \in Directions :
           Takes(r, d, s) => MailAt(m, r, s)[Beside(r, d)]
                               = Payload(m, Beside(r, d), Back(d), TakenIn(r, d, s))
  <1>1. ASSUME NEW d \in Directions, Takes(r, d, s)
        PROVE  MailAt(m, r, s)[Beside(r, d)]
                 = Payload(m, Beside(r, d), Back(d), TakenIn(r, d, s))
    <2>1. /\ Beside(r, d) \in Neighbours(r)
          /\ d = IF Beside(r, d) = Right(r) THEN "right" ELSE "left"
      BY BesideFacts DEF Directions
    <2> QED
      BY <1>1, <2>1 DEF MailAt
  <1> QED
    BY <1>1

\* A tensor of which one chunk, or two, are written.
LEMMA OneWritten ==
  ASSUME NEW f, NEW g, NEW c \in Ranks, NEW v, DOMAIN f = Ranks,
         g = [e \in Ranks |-> g[e]], g[c] = v, \A e \in Ranks : e # c => g[e] = f[e]
  PROVE  [f EXCEPT ![c] = v] = g
  OBVIOUS

LEMMA TwoHopSends ==
  ASSUME mode.alg = "twohop", NEW m \in 1..MaxOps, NEW r \in Ranks, NEW s \in 1..4,
         Holds(m, r, s - 1)
  PROVE  TwoHopOps(r, s) = OpsAt(m, r, s)
  <1> DEFINE o == Opposite(r)
  <1>0. Beside(r, "right") = Right(r) /\ Beside(r, "left") = Left(r)
    BY DEF Beside
  <1>1. /\ r \in Ranks /\ Right(r) \in Ranks /\ Left(r) \in Ranks /\ o \in Ranks
        /\ r # Right(r) /\ r # Left(r) /\ r # o
        /\ Right(r) # Left(r) /\ Right(r) # o /\ Left(r) # o
    BY Around
  <1>2. CASE s = 1
    <2>1. /\ Chunk(r, 1) = In(m, r, Right(r)) /\ Chunk(r, 2) = In(m, r, o)
          /\ Chunk(r, -1) = In(m, r, Left(r))
      BY <1>1, <1>2, ChunkFacts DEF XAt, TwoHopAt
    <2>2. /\ SendsAt(m, r, "right", 1)
               = {Send(Right(r), <<In(m, r, Right(r)), In(m, r, o)>>)}
          /\ SendsAt(m, r, "left", 1) = {Send(Left(r), <<In(m, r, Left(r))>>)}
          /\ TakesAt(r, "right", 1) = {Recv(Right(r))}
          /\ TakesAt(r, "left", 1) = {Recv(Left(r))}
      BY <1>0, TwoHopSteps DEF SendsAt, TakesAt, Payload, TwoHopPayload
    <2> QED
      BY <1>2, <2>1, <2>2 DEF TwoHopOps, OpsAt
  <1>3. CASE s = 2
    <2>1. held[r] = <<In(m, Left(r), Right(r))>>
      BY <1>3 DEF Holds, HeldAt
    <2>2. /\ SendsAt(m, r, "right", 2) = {Send(Right(r), held[r])}
          /\ SendsAt(m, r, "left", 2) = {} /\ TakesAt(r, "right", 2) = {}
          /\ TakesAt(r, "left", 2) = {Recv(Left(r))}
      BY <1>0, <2>1, TwoHopSteps DEF SendsAt, TakesAt, Payload, TwoHopPayload
    <2> QED
      BY <1>3, <2>2 DEF TwoHopOps, OpsAt
  <1>4. CASE s = 3
    <2>3. Holds(m, r, 2)
      BY <1>4
    <2>1. Chunk(r, 0) = Total(m, r)
      BY <1>1, <2>3, ChunkFacts DEF XAt, TwoHopAt
    <2>2. /\ SendsAt(m, r, "right", 3) = {Send(Right(r), <<Total(m, r)>>)}
          /\ SendsAt(m, r, "left", 3) = {Send(Left(r), <<Total(m, r)>>)}
          /\ TakesAt(r, "right", 3) = {Recv(Right(r))}
          /\ TakesAt(r, "left", 3) = {Recv(Left(r))}
      BY <1>0, TwoHopSteps DEF SendsAt, TakesAt, Payload, TwoHopPayload
    <2> QED
      BY <1>4, <2>1, <2>2 DEF TwoHopOps, OpsAt
  <1>5. CASE s = 4
    <2>1. held[r] = <<Total(m, Right(r))>>
      BY <1>5 DEF Holds, HeldAt
    <2>2. /\ SendsAt(m, r, "left", 4) = {Send(Left(r), held[r])}
          /\ SendsAt(m, r, "right", 4) = {} /\ TakesAt(r, "left", 4) = {}
          /\ TakesAt(r, "right", 4) = {Recv(Right(r))}
      BY <1>0, <2>1, TwoHopSteps DEF SendsAt, TakesAt, Payload, TwoHopPayload
    <2> QED
      BY <1>5, <2>2 DEF TwoHopOps, OpsAt
  <1> QED
    BY <1>2, <1>3, <1>4, <1>5

LEMMA TwoHopApplies ==
  ASSUME mode.alg = "twohop", mode' = mode, NEW m \in 1..MaxOps, NEW r \in Ranks,
         NEW s \in 1..4, DOMAIN x = Ranks, DOMAIN held = Ranks,
         Holds(m, r, s - 1), TwoHopApply(r, s, MailAt(m, r, s))
  PROVE  After(m, r, s)
  <1> DEFINE o == Opposite(r)
             a == Right(r)
             b == Left(r)
             mail == MailAt(m, r, s)
  <1>0. Beside(r, "right") = a /\ Beside(r, "left") = b /\ Back("right") = "left"
        /\ Back("left") = "right" /\ "right" \in Directions /\ "left" \in Directions
    BY DEF Beside, Back, Directions
  <1>1. /\ r \in Ranks /\ a \in Ranks /\ b \in Ranks /\ o \in Ranks
        /\ r # a /\ r # b /\ r # o /\ a # b /\ a # o /\ b # o
        /\ Right(a) = o /\ Left(a) = r /\ Opposite(a) = b
        /\ Right(b) = r /\ Left(b) = o /\ Opposite(b) = a
        /\ Ranks = {r, a, b, o}
    BY Around, AllRanks
  <1>2. /\ \A c \in Ranks : x[r][c] = TwoHopAt(m, r, s - 1, c) /\ DOMAIN x[r] = Ranks
        /\ \A c \in Ranks : XAt(m, r, s, c)' = TwoHopAt(m, r, s, c)
        /\ HeldAt(m, r, s)' = HeldAt(m, r, s)
    BY DEF Holds, XAt, TwoHopAt, HeldAt, Both
  <1>3. /\ Takes(r, "right", s) => mail[a] = TwoHopPayload(m, a, "left", TakenIn(r, "right", s))
        /\ Takes(r, "left", s) => mail[b] = TwoHopPayload(m, b, "right", TakenIn(r, "left", s))
    BY <1>0, MailFacts DEF Payload
  <1>4. \A p \in Ranks, c \in Ranks :
          /\ In(m, p, c) \in Int /\ Total(m, c) \in Int
          /\ Total(m, c) = In(m, r, c) + In(m, a, c) + In(m, b, c) + In(m, o, c)
    BY <1>1, Numbers
  <1> DEFINE X(n) == [c \in Ranks |-> TwoHopAt(m, r, n, c)]
  <1>9. \A n : X(n) = [c \in Ranks |-> X(n)[c]]
    OBVIOUS
  <1> HIDE DEF o, a, b, mail
  <1>5. CASE s = 1
    <2>1. mail[a] = <<In(m, a, r)>> /\ mail[b] = <<In(m, b, r), In(m, b, a)>>
      BY <1>1, <1>3, <1>5, TwoHopSteps DEF TwoHopPayload
    <2>5. /\ Head(mail[a]) = In(m, a, r) /\ Head(mail[b]) = In(m, b, r)
          /\ Tail(mail[b]) = <<In(m, b, a)>>
      BY <2>1
    <2>2. /\ x' = [x EXCEPT ![r][r] = @ + In(m, a, r) + In(m, b, r)]
          /\ held' = [held EXCEPT ![r] = <<In(m, b, a)>>]
      <3>1. /\ x' = [x EXCEPT ![r][r] = @ + Head(mail[a]) + Head(mail[b])]
            /\ held' = [held EXCEPT ![r] = Tail(mail[b])]
        BY <1>5 DEF TwoHopApply, mail, a, b
      <3> QED
        BY <2>5, <3>1
    <2>3. x'[r] = X(1)
      <3>1. x[r][r] + In(m, a, r) + In(m, b, r) = X(1)[r]
        BY <1>1, <1>2, <1>4, <1>5 DEF TwoHopAt, a, b
      <3>2. \A e \in Ranks : e # r => X(1)[e] = x[r][e]
        BY <1>2, <1>5 DEF TwoHopAt
      <3>3. x'[r] = [x[r] EXCEPT ![r] = x[r][r] + In(m, a, r) + In(m, b, r)]
        BY <2>2
      <3> HIDE DEF X
      <3> QED
        BY <1>2, <1>9, <3>1, <3>2, <3>3, OneWritten
    <2>4. held'[r] = HeldAt(m, r, 1)
      BY <2>2 DEF HeldAt, a, b
    <2> QED
      BY <1>2, <1>5, <2>2, <2>3, <2>4 DEF After, Holds
  <1>6. CASE s = 2
    <2>1. mail[b] = <<In(m, o, r)>>
      BY <1>1, <1>3, <1>6, TwoHopSteps DEF TwoHopPayload
    <2>2. x' = [x EXCEPT ![r][r] = @ + In(m, o, r)] /\ held' = held
      BY <1>6, <2>1 DEF TwoHopApply, mail, a, b
    <2>3. x'[r] = X(2)
      <3>1. x[r][r] + In(m, o, r) = X(2)[r]
        BY <1>1, <1>2, <1>4, <1>6 DEF TwoHopAt, a, b
      <3>2. \A e \in Ranks : e # r => X(2)[e] = x[r][e]
        BY <1>2, <1>6 DEF TwoHopAt
      <3>3. x'[r] = [x[r] EXCEPT ![r] = x[r][r] + In(m, o, r)]
        BY <2>2
      <3> HIDE DEF X
      <3> QED
        BY <1>2, <1>9, <3>1, <3>2, <3>3, OneWritten
    <2>4. held'[r] = HeldAt(m, r, 2)
      BY <1>6, <2>2 DEF HeldAt, Holds
    <2> QED
      BY <1>2, <1>6, <2>2, <2>3, <2>4 DEF After, Holds
  <1>7. CASE s = 3
    <2>1. mail[a] = <<Total(m, a)>> /\ mail[b] = <<Total(m, b)>>
      BY <1>1, <1>3, <1>7, TwoHopSteps DEF TwoHopPayload
    <2>2. /\ x' = [x EXCEPT ![r][a] = Total(m, a), ![r][b] = Total(m, b)]
          /\ held' = [held EXCEPT ![r] = <<Total(m, a)>>]
      BY <1>7, <2>1 DEF TwoHopApply, mail, a, b
    <2>3. x'[r] = X(3)
      <3>1. /\ DOMAIN x'[r] = Ranks /\ x'[r] = [c \in Ranks |-> x'[r][c]]
            /\ x'[r][a] = Total(m, a) /\ x'[r][b] = Total(m, b)
            /\ x'[r][r] = x[r][r] /\ x'[r][o] = x[r][o]
        BY <1>1, <1>2, <2>2
      <3>2. /\ X(3)[a] = Total(m, a) /\ X(3)[b] = Total(m, b)
            /\ X(3)[r] = x[r][r] /\ X(3)[o] = x[r][o]
        BY <1>1, <1>2, <1>7 DEF TwoHopAt, o
      <3> HIDE DEF X
      <3>3. \A c \in Ranks : x'[r][c] = X(3)[c]
        BY <1>1, <3>1, <3>2
      <3> QED
        BY <1>9, <3>1, <3>3
    <2>4. held'[r] = HeldAt(m, r, 3)
      BY <2>2 DEF HeldAt, a, b
    <2> QED
      BY <1>2, <1>7, <2>2, <2>3, <2>4 DEF After, Holds
  <1>8. CASE s = 4
    <2>1. mail[a] = <<Total(m, o)>>
      BY <1>1, <1>3, <1>8, TwoHopSteps DEF TwoHopPayload
    <2>2. x' = [x EXCEPT ![r][o] = Total(m, o)] /\ held' = held
      BY <1>1, <1>8, <2>1, Shifts DEF TwoHopApply, mail, a, b, o
    <2>3. x'[r] = X(4)
      <3>1. Total(m, o) = X(4)[o]
        BY <1>1, <1>8 DEF TwoHopAt
      <3>2. \A e \in Ranks : e # o => X(4)[e] = x[r][e]
        BY <1>1, <1>2, <1>8 DEF TwoHopAt, o
      <3>3. x'[r] = [x[r] EXCEPT ![o] = Total(m, o)]
        BY <2>2
      <3> HIDE DEF X
      <3> QED
        BY <1>1, <1>2, <1>9, <3>1, <3>2, <3>3, OneWritten
    <2>4. held'[r] = HeldAt(m, r, 4)
      BY <1>8, <2>2 DEF HeldAt, Holds
    <2> QED
      BY <1>2, <1>8, <2>2, <2>3, <2>4 DEF After, Holds
  <1> QED
    BY <1>5, <1>6, <1>7, <1>8

\* A step that writes one chunk, and keeps nothing.
Tensor(m, r, n) == [e \in Ranks |-> XAt(m, r, n, e)]

LEMMA OneChunk ==
  ASSUME NEW m, NEW r \in Ranks, NEW s, NEW c \in Ranks,
         DOMAIN x = Ranks, DOMAIN held = Ranks, DOMAIN x[r] = Ranks, mode' = mode,
         \A e \in Ranks : e # c => Tensor(m, r, s)[e] = x[r][e],
         x' = [x EXCEPT ![r][c] = Tensor(m, r, s)[c]],
         held' = held, HeldAt(m, r, s) = held[r]
  PROVE  After(m, r, s)
  <1>1. x'[r] = [x[r] EXCEPT ![c] = Tensor(m, r, s)[c]]
    OBVIOUS
  <1>2. x'[r] = Tensor(m, r, s)
    <2>1. Tensor(m, r, s) = [e \in Ranks |-> Tensor(m, r, s)[e]]
      BY DEF Tensor
    <2> QED
      BY <1>1, <2>1, OneWritten
  <1>3. \A e \in Ranks : XAt(m, r, s, e)' = XAt(m, r, s, e)
    BY DEF XAt, TwoHopAt, RingAt, PairAt, KernelAt
  <1>4. HeldAt(m, r, s)' = HeldAt(m, r, s)
    BY DEF HeldAt, Both
  <1>5. Tensor(m, r, s) = [e \in Ranks |-> XAt(m, r, s, e)']
    BY <1>3 DEF Tensor
  <1> QED
    BY <1>2, <1>4, <1>5 DEF After, Holds

LEMMA RingSends ==
  ASSUME mode.alg = "ring", NEW m \in 1..MaxOps, NEW r \in Ranks, NEW s \in 1..6,
         Holds(m, r, s - 1)
  PROVE  RingOps(r, s) = OpsAt(m, r, s)
  <1>0. Beside(r, "right") = Right(r) /\ Beside(r, "left") = Left(r)
    BY DEF Beside
  <1>1. /\ r \in Ranks /\ Right(r) \in Ranks /\ Left(r) \in Ranks /\ Opposite(r) \in Ranks
        /\ r # Right(r) /\ r # Left(r) /\ r # Opposite(r)
        /\ Right(r) # Left(r) /\ Right(r) # Opposite(r) /\ Left(r) # Opposite(r)
    BY Around
  <1>2. CASE s <= 3
    <2>1. s = 1 \/ s = 2 \/ s = 3
      BY <1>2
    <2>2. Chunk(r, 1 - s) = CASE s = 1 -> XAt(m, r, s - 1, r)
                              [] s = 2 -> XAt(m, r, s - 1, Left(r))
                              [] s = 3 -> XAt(m, r, s - 1, Opposite(r))
      BY <2>1, ChunkFacts
    <2>3. <<Chunk(r, 1 - s)>> = RingPayload(m, r, "right", s)
      BY <1>1, <2>1, <2>2 DEF XAt, RingAt, RingPayload
    <2>4. /\ SendsAt(m, r, "right", s) = {Send(Right(r), RingPayload(m, r, "right", s))}
          /\ SendsAt(m, r, "left", s) = {} /\ TakesAt(r, "right", s) = {}
          /\ TakesAt(r, "left", s) = {Recv(Left(r))}
      BY <1>0, <2>1, RingSteps DEF SendsAt, TakesAt, Payload
    <2> QED
      BY <1>2, <2>3, <2>4 DEF RingOps, OpsAt
  <1>3. CASE s > 3
    <2>1. s = 4 \/ s = 5 \/ s = 6
      BY <1>3
    <2>2. Chunk(r, s - 3) = CASE s = 4 -> XAt(m, r, s - 1, Right(r))
                              [] s = 5 -> XAt(m, r, s - 1, Opposite(r))
                              [] s = 6 -> XAt(m, r, s - 1, Left(r))
      BY <2>1, ChunkFacts
    <2>3. <<Chunk(r, s - 3)>> = RingPayload(m, r, "left", s - 3)
      BY <1>1, <2>1, <2>2 DEF XAt, RingAt, RingPayload
    <2>4. /\ SendsAt(m, r, "left", s) = {Send(Left(r), RingPayload(m, r, "left", s - 3))}
          /\ SendsAt(m, r, "right", s) = {} /\ TakesAt(r, "left", s) = {}
          /\ TakesAt(r, "right", s) = {Recv(Right(r))}
      BY <1>0, <2>1, RingSteps DEF SendsAt, TakesAt, Payload
    <2> QED
      BY <1>3, <2>3, <2>4 DEF RingOps, OpsAt
  <1> QED
    BY <1>2, <1>3

LEMMA RingApplies ==
  ASSUME mode.alg = "ring", mode' = mode, NEW m \in 1..MaxOps, NEW r \in Ranks,
         NEW s \in 1..6, DOMAIN x = Ranks, DOMAIN held = Ranks,
         Holds(m, r, s - 1), RingApply(r, s, MailAt(m, r, s))
  PROVE  After(m, r, s)
  <1> DEFINE o == Opposite(r)
             a == Right(r)
             b == Left(r)
             mail == MailAt(m, r, s)
  <1>0. Beside(r, "right") = a /\ Beside(r, "left") = b /\ Back("right") = "left"
        /\ Back("left") = "right" /\ "right" \in Directions /\ "left" \in Directions
    BY DEF Beside, Back, Directions
  <1>1. /\ r \in Ranks /\ a \in Ranks /\ b \in Ranks /\ o \in Ranks
        /\ r # a /\ r # b /\ r # o /\ a # b /\ a # o /\ b # o
        /\ Right(a) = o /\ Left(a) = r /\ Opposite(a) = b
        /\ Right(b) = r /\ Left(b) = o /\ Opposite(b) = a
        /\ Ranks = {r, a, b, o}
    BY Around, AllRanks
  <1>2. /\ \A e \in Ranks : x[r][e] = RingAt(m, r, s - 1, e) /\ Tensor(m, r, s)[e] = RingAt(m, r, s, e)
        /\ DOMAIN x[r] = Ranks /\ held' = held /\ HeldAt(m, r, s) = held[r]
    BY DEF Holds, XAt, HeldAt, RingApply, Tensor
  <1>3. /\ Takes(r, "right", s) => mail[a] = RingPayload(m, a, "left", TakenIn(r, "right", s))
        /\ Takes(r, "left", s) => mail[b] = RingPayload(m, b, "right", TakenIn(r, "left", s))
    BY <1>0, MailFacts DEF Payload
  <1>4. \A p \in Ranks, c \in Ranks :
          /\ In(m, p, c) \in Int /\ Total(m, c) \in Int
          /\ Total(m, c) = In(m, r, c) + In(m, a, c) + In(m, b, c) + In(m, o, c)
    BY <1>1, Numbers
  <1> HIDE DEF o, a, b, mail
  <1>6. CASE s = 1
    <2>1. mail[b] = <<In(m, b, b)>>
      BY <1>1, <1>3, <1>6, RingSteps DEF RingPayload
    <2>2. Head(mail[b]) = In(m, b, b)
      BY <2>1
    <2>6. Shift(r, 0 - s) = b
      BY <1>6, Shifts DEF a, b, o
    <2>7. x' = [x EXCEPT ![r][Shift(r, 0 - s)] = @ + Head(mail[b])]
      BY <1>6 DEF RingApply, mail, a, b
    <2>4. Tensor(m, r, s)[b] = x[r][b] + (In(m, b, b))
      BY <1>1, <1>2, <1>4, <1>6 DEF RingAt, a, b, o
    <2>3. x' = [x EXCEPT ![r][b] = Tensor(m, r, s)[b]]
      BY <1>1, <2>2, <2>4, <2>6, <2>7
    <2>5. \A e \in Ranks : e # b => Tensor(m, r, s)[e] = x[r][e]
      BY <1>1, <1>2, <1>6 DEF RingAt, a, b, o
    <2> QED
      BY <1>1, <1>2, <2>3, <2>5, OneChunk
  <1>7. CASE s = 2
    <2>1. mail[b] = <<In(m, b, o) + In(m, o, o)>>
      BY <1>1, <1>3, <1>7, RingSteps DEF RingPayload
    <2>2. Head(mail[b]) = In(m, b, o) + In(m, o, o)
      BY <2>1
    <2>6. Shift(r, 0 - s) = o
      BY <1>7, Shifts DEF a, b, o
    <2>7. x' = [x EXCEPT ![r][Shift(r, 0 - s)] = @ + Head(mail[b])]
      BY <1>7 DEF RingApply, mail, a, b
    <2>4. Tensor(m, r, s)[o] = x[r][o] + (In(m, b, o) + In(m, o, o))
      BY <1>1, <1>2, <1>4, <1>7 DEF RingAt, a, b, o
    <2>3. x' = [x EXCEPT ![r][o] = Tensor(m, r, s)[o]]
      BY <1>1, <2>2, <2>4, <2>6, <2>7
    <2>5. \A e \in Ranks : e # o => Tensor(m, r, s)[e] = x[r][e]
      BY <1>1, <1>2, <1>7 DEF RingAt, a, b, o
    <2> QED
      BY <1>1, <1>2, <2>3, <2>5, OneChunk
  <1>8. CASE s = 3
    <2>1. mail[b] = <<In(m, b, a) + In(m, o, a) + In(m, a, a)>>
      BY <1>1, <1>3, <1>8, RingSteps DEF RingPayload
    <2>2. Head(mail[b]) = In(m, b, a) + In(m, o, a) + In(m, a, a)
      BY <2>1
    <2>6. Shift(r, 0 - s) = a
      BY <1>8, Shifts DEF a, b, o
    <2>7. x' = [x EXCEPT ![r][Shift(r, 0 - s)] = @ + Head(mail[b])]
      BY <1>8 DEF RingApply, mail, a, b
    <2>4. Tensor(m, r, s)[a] = x[r][a] + (In(m, b, a) + In(m, o, a) + In(m, a, a))
      BY <1>1, <1>2, <1>4, <1>8 DEF RingAt, a, b, o
    <2>3. x' = [x EXCEPT ![r][a] = Tensor(m, r, s)[a]]
      BY <1>1, <2>2, <2>4, <2>6, <2>7
    <2>5. \A e \in Ranks : e # a => Tensor(m, r, s)[e] = x[r][e]
      BY <1>1, <1>2, <1>8 DEF RingAt, a, b, o
    <2> QED
      BY <1>1, <1>2, <2>3, <2>5, OneChunk
  <1>9. CASE s = 4
    <2>1. mail[a] = <<Total(m, o)>>
      BY <1>1, <1>3, <1>9, RingSteps DEF RingPayload
    <2>2. Head(mail[a]) = Total(m, o)
      BY <2>1
    <2>6. Shift(r, s - 2) = o
      BY <1>9, Shifts DEF a, b, o
    <2>7. x' = [x EXCEPT ![r][Shift(r, s - 2)] = Head(mail[a])]
      BY <1>9 DEF RingApply, mail, a, b
    <2>4. Tensor(m, r, s)[o] = Total(m, o)
      BY <1>1, <1>2, <1>4, <1>9 DEF RingAt, a, b, o
    <2>3. x' = [x EXCEPT ![r][o] = Tensor(m, r, s)[o]]
      BY <1>1, <2>2, <2>4, <2>6, <2>7
    <2>5. \A e \in Ranks : e # o => Tensor(m, r, s)[e] = x[r][e]
      BY <1>1, <1>2, <1>9 DEF RingAt, a, b, o
    <2> QED
      BY <1>1, <1>2, <2>3, <2>5, OneChunk
  <1>10. CASE s = 5
    <2>1. mail[a] = <<Total(m, b)>>
      BY <1>1, <1>3, <1>10, RingSteps DEF RingPayload
    <2>2. Head(mail[a]) = Total(m, b)
      BY <2>1
    <2>6. Shift(r, s - 2) = b
      BY <1>10, Shifts DEF a, b, o
    <2>7. x' = [x EXCEPT ![r][Shift(r, s - 2)] = Head(mail[a])]
      BY <1>10 DEF RingApply, mail, a, b
    <2>4. Tensor(m, r, s)[b] = Total(m, b)
      BY <1>1, <1>2, <1>4, <1>10 DEF RingAt, a, b, o
    <2>3. x' = [x EXCEPT ![r][b] = Tensor(m, r, s)[b]]
      BY <1>1, <2>2, <2>4, <2>6, <2>7
    <2>5. \A e \in Ranks : e # b => Tensor(m, r, s)[e] = x[r][e]
      BY <1>1, <1>2, <1>10 DEF RingAt, a, b, o
    <2> QED
      BY <1>1, <1>2, <2>3, <2>5, OneChunk
  <1>11. CASE s = 6
    <2>1. mail[a] = <<Total(m, r)>>
      BY <1>1, <1>3, <1>11, RingSteps DEF RingPayload
    <2>2. Head(mail[a]) = Total(m, r)
      BY <2>1
    <2>6. Shift(r, s - 2) = r
      BY <1>11, Shifts DEF a, b, o
    <2>7. x' = [x EXCEPT ![r][Shift(r, s - 2)] = Head(mail[a])]
      BY <1>11 DEF RingApply, mail, a, b
    <2>4. Tensor(m, r, s)[r] = Total(m, r)
      BY <1>1, <1>2, <1>4, <1>11 DEF RingAt, a, b, o
    <2>3. x' = [x EXCEPT ![r][r] = Tensor(m, r, s)[r]]
      BY <1>1, <2>2, <2>4, <2>6, <2>7
    <2>5. \A e \in Ranks : e # r => Tensor(m, r, s)[e] = x[r][e]
      BY <1>1, <1>2, <1>11 DEF RingAt, a, b, o
    <2> QED
      BY <1>1, <1>2, <2>3, <2>5, OneChunk
  <1> QED
    BY <1>6, <1>7, <1>8, <1>9, <1>10, <1>11
\* The operations of a step, direction by direction in either order.
LEMMA OpsEither ==
  ASSUME NEW m, NEW r, NEW s, NEW d \in Directions
  PROVE  OpsAt(m, r, s) = SendsAt(m, r, d, s) \cup SendsAt(m, r, Back(d), s)
                            \cup TakesAt(r, d, s) \cup TakesAt(r, Back(d), s)
  BY DEF OpsAt, Directions, Back

LEMMA PairSends ==
  ASSUME mode.alg = "pair", NEW m \in 1..MaxOps, NEW r \in Ranks, NEW s \in 1..2,
         Holds(m, r, s - 1)
  PROVE  PairOps(r, s) = OpsAt(m, r, s)
  <1> DEFINE d == Inward(r)
             e == Back(d)
  <1>1. d \in Directions /\ e \in Directions /\ e # d
    BY Partners, BesideFacts
  <1> HIDE DEF d, e
  <1>2. OpsAt(m, r, s) = SendsAt(m, r, d, s) \cup SendsAt(m, r, e, s)
                           \cup TakesAt(r, d, s) \cup TakesAt(r, e, s)
    BY <1>1, OpsEither DEF e
  <1>3. CASE s = 1
    <2>1. /\ SendsAt(m, r, d, s) = {Send(Beside(r, d), PairPayload(m, r, d))}
          /\ SendsAt(m, r, e, s) = {} /\ TakesAt(r, e, s) = {}
          /\ TakesAt(r, d, s) = {Recv(Beside(r, d))}
      BY <1>1, <1>3, PairSteps DEF SendsAt, TakesAt, Payload, d
    <2>2. Vector(r) = PairPayload(m, r, d)
      <3>1. \A i \in 1..World : i - 1 \in Ranks
        BY DEF World, Ranks
      <3>2. \A c \in Ranks : x[r][c] = In(m, r, c)
        BY <1>3 DEF Holds, XAt, PairAt
      <3> QED
        BY <3>1, <3>2 DEF Vector, PairPayload, d
    <2> QED
      BY <1>2, <1>3, <2>1, <2>2, Partners DEF PairOps, d
  <1>4. CASE s = 2
    <2>1. /\ SendsAt(m, r, e, s) = {Send(Beside(r, e), PairPayload(m, r, e))}
          /\ SendsAt(m, r, d, s) = {} /\ TakesAt(r, d, s) = {}
          /\ TakesAt(r, e, s) = {Recv(Beside(r, e))}
      BY <1>1, <1>4, PairSteps DEF SendsAt, TakesAt, Payload, d
    <2>2. held[r] = PairPayload(m, r, e)
      BY <1>1, <1>4 DEF Holds, HeldAt, PairPayload, d
    <2> QED
      BY <1>2, <1>4, <2>1, <2>2, Partners DEF PairOps, d, e
  <1> QED
    BY <1>3, <1>4

LEMMA PairApplies ==
  ASSUME mode.alg = "pair", mode' = mode, NEW m \in 1..MaxOps, NEW r \in Ranks,
         NEW s \in 1..2, DOMAIN x = Ranks, DOMAIN held = Ranks,
         Holds(m, r, s - 1), PairApply(r, s, MailAt(m, r, s))
  PROVE  After(m, r, s)
  <1> DEFINE d == Inward(r)
             e == Back(d)
             p == Beside(r, d)
             q == Beside(r, e)
             o == Opposite(r)
             mail == MailAt(m, r, s)
             mine == IF s = 1 THEN Vector(r) ELSE held[r]
             sum == [i \in 1..World |-> mine[i] + mail[Partner(r, s)][i]]
  <1>1. /\ d \in Directions /\ e \in Directions /\ e # d /\ Back(e) = d
        /\ Partner(r, 1) = p /\ Partner(r, 2) = q
        /\ Inward(p) = e /\ Inward(q) = e
        /\ p \in Ranks /\ q \in Ranks /\ o \in Ranks
    BY Partners, BesideFacts, Around DEF Beside
  <1>2. Beside(q, e) = o
    BY <1>1, Around DEF Beside
  <1>3. \A i \in 1..World : i - 1 \in Ranks
    BY DEF World, Ranks
  <1>4. /\ held' = [held EXCEPT ![r] = sum]
        /\ x' = IF s = 2 THEN [x EXCEPT ![r] = [c \in Ranks |-> sum[c + 1]]] ELSE x
    BY DEF PairApply
  <1>5. \A f \in Directions : Takes(r, f, s) =>
          mail[Beside(r, f)] = PairPayload(m, Beside(r, f), Back(f))
    BY MailFacts DEF Payload
  <1>6. \A c \in Ranks : XAt(m, r, s, c)' = PairAt(m, r, s, c)
    BY DEF XAt, PairAt
  <1>7. \A c \in Ranks : XAt(m, r, s - 1, c) = PairAt(m, r, s - 1, c)
    BY DEF XAt, PairAt
  <1>8. HeldAt(m, r, s)' = HeldAt(m, r, s)
    BY DEF HeldAt, Both
  <1> HIDE DEF d, e, p, q, o, mail, mine, sum
  <1>9. CASE s = 1
    <2>1. mail[p] = [i \in 1..World |-> In(m, p, i - 1)]
      BY <1>1, <1>5, <1>9, PairSteps DEF PairPayload, p, e, d
    <2>2. mine = [i \in 1..World |-> In(m, r, i - 1)]
      BY <1>3, <1>7, <1>9 DEF mine, Vector, Holds, PairAt
    <2>3. sum = Both(m, r)
      BY <1>1, <1>9, <2>1, <2>2 DEF sum, Both, p, d
    <2>4. HeldAt(m, r, 1) = Both(m, r)
      BY DEF HeldAt
    <2>5. x[r] = [c \in Ranks |-> XAt(m, r, 1, c)']
      BY <1>6, <1>7, <1>9 DEF Holds, PairAt
    <2> QED
      BY <1>4, <1>8, <1>9, <2>3, <2>4, <2>5 DEF After, Holds
  <1>10. CASE s = 2
    <2>1. mail[q] = Both(m, q)
      BY <1>1, <1>5, <1>10, PairSteps DEF PairPayload, q, e, d
    <2>2. mine = Both(m, r)
      BY <1>10 DEF mine, Holds, HeldAt
    <2>3. \A i \in 1..World : sum[i] = Total(m, i - 1)
      <3> SUFFICES ASSUME NEW i \in 1..World
                   PROVE  sum[i] = Total(m, i - 1)
        OBVIOUS
      <3>1. sum[i] = (In(m, r, i - 1) + In(m, p, i - 1))
                       + (In(m, q, i - 1) + In(m, o, i - 1))
        BY <1>1, <1>2, <1>10, <2>1, <2>2 DEF sum, Both, p, d
      <3>2. Total(m, i - 1) = In(m, r, i - 1) + In(m, Right(r), i - 1)
                                + In(m, Left(r), i - 1) + In(m, o, i - 1)
        BY <1>3, Numbers DEF o
      <3>4. /\ In(m, r, i - 1) \in Int /\ In(m, o, i - 1) \in Int
            /\ In(m, Right(r), i - 1) \in Int /\ In(m, Left(r), i - 1) \in Int
        BY <1>1, <1>3, Numbers, Around
      <3>5. (p = Right(r) /\ q = Left(r)) \/ (p = Left(r) /\ q = Right(r))
        BY <1>1 DEF p, q, e, Beside, Back, Directions
      <3> QED
        BY <3>1, <3>2, <3>4, <3>5
    <2>4. sum = [i \in 1..World |-> Total(m, i - 1)]
      BY <2>3 DEF sum
    <2>5. HeldAt(m, r, 2) = [i \in 1..World |-> Total(m, i - 1)]
      BY DEF HeldAt
    <2>6. \A c \in Ranks : c + 1 \in 1..World /\ (c + 1) - 1 = c
      BY DEF Ranks, World
    <2>7. [c \in Ranks |-> sum[c + 1]] = [c \in Ranks |-> XAt(m, r, 2, c)']
      BY <1>6, <1>10, <2>4, <2>6 DEF PairAt
    <2> QED
      BY <1>4, <1>8, <1>10, <2>4, <2>5, <2>7 DEF After, Holds
  <1> QED
    BY <1>9, <1>10
\* The program of the kernel, step by step.
LEMMA KernelOpsTable ==
  ASSUME NEW r \in Ranks
  PROVE  /\ KernelOps(r, 1) = {Send(Right(r), <<Chunk(r, 1)>>)}
         /\ KernelOps(r, 2) = {Send(Right(r), <<Chunk(r, 2)>>)}
         /\ KernelOps(r, 5) = {Send(Left(r), <<Chunk(r, -1)>>)}
         /\ KernelOps(r, 7) = {Send(Right(r), <<Chunk(r, 1)>>)}
         /\ KernelOps(r, 9) = {Send(Right(r), <<Chunk(r, 0)>>)}
         /\ KernelOps(r, 11) = {Send(Left(r), <<Chunk(r, 0)>>)}
         /\ KernelOps(r, 13) = {Send(Left(r), <<Chunk(r, 1)>>)}
         /\ \A s \in {3, 4, 8, 10} : KernelOps(r, s) = {Recv(Left(r))}
         /\ \A s \in {6, 12, 14} : KernelOps(r, s) = {Recv(Right(r))}
  BY DEF KernelOps, KernelPeer, KernelProgram

LEMMA KernelRows ==
  ASSUME NEW r \in Ranks
  PROVE  /\ \A s \in {1, 2, 5, 7, 9, 11, 13} : KernelProgram[s][1] = "send"
         /\ \A s \in {3, 6, 8} : KernelProgram[s][1] = "reduce"
         /\ \A s \in {4, 10, 12, 14} : KernelProgram[s][1] = "recv"
         /\ \A s \in {3, 6, 8} : Shift(r, KernelProgram[s][3]) = r
         /\ \A s \in {4, 12} : Shift(r, KernelProgram[s][3]) = Right(r)
         /\ Shift(r, KernelProgram[10][3]) = Left(r)
         /\ Shift(r, KernelProgram[14][3]) = Opposite(r)
         /\ \A s \in {3, 4, 8, 10} : KernelPeer(r, KernelProgram[s]) = Left(r)
         /\ \A s \in {6, 12, 14} : KernelPeer(r, KernelProgram[s]) = Right(r)
  BY Shifts DEF KernelPeer, KernelProgram

LEMMA KernelApplyTable ==
  ASSUME NEW r \in Ranks, NEW s \in 1..14, NEW mail, KernelApply(r, s, mail)
  PROVE  /\ s \in {1, 2, 5, 7, 9, 11, 13} => x' = x
         /\ s \in {3, 8} => x' = [x EXCEPT ![r][r] = @ + Head(mail[Left(r)])]
         /\ s = 4 => x' = [x EXCEPT ![r][Right(r)] = Head(mail[Left(r)])]
         /\ s = 6 => x' = [x EXCEPT ![r][r] = @ + Head(mail[Right(r)])]
         /\ s = 10 => x' = [x EXCEPT ![r][Left(r)] = Head(mail[Left(r)])]
         /\ s = 12 => x' = [x EXCEPT ![r][Right(r)] = Head(mail[Right(r)])]
         /\ s = 14 => x' = [x EXCEPT ![r][Opposite(r)] = Head(mail[Right(r)])]
         /\ held' = held
  <1> DEFINE p == KernelProgram[s]
             c == Shift(r, p[3])
             q == KernelPeer(r, p)
  <1>1. /\ p[1] = "send" => x' = x
        /\ p[1] = "reduce" => x' = [x EXCEPT ![r][c] = @ + Head(mail[q])]
        /\ p[1] = "recv" => x' = [x EXCEPT ![r][c] = Head(mail[q])]
        /\ held' = held
    BY DEF KernelApply
  <1>2. /\ s \in {1, 2, 5, 7, 9, 11, 13} => p[1] = "send"
        /\ s \in {3, 6, 8} => p[1] = "reduce" /\ c = r
        /\ s \in {4, 10, 12, 14} => p[1] = "recv"
        /\ s \in {4, 12} => c = Right(r)
        /\ s = 10 => c = Left(r)
        /\ s = 14 => c = Opposite(r)
        /\ s \in {3, 4, 8, 10} => q = Left(r)
        /\ s \in {6, 12, 14} => q = Right(r)
    BY KernelRows
  <1> HIDE DEF p, c, q
  <1>3. s \in {1, 2, 5, 7, 9, 11, 13} => x' = x
    BY <1>1, <1>2
  <1>4. s \in {3, 8} => x' = [x EXCEPT ![r][r] = @ + Head(mail[Left(r)])]
    BY <1>1, <1>2
  <1>5. s = 4 => x' = [x EXCEPT ![r][Right(r)] = Head(mail[Left(r)])]
    BY <1>1, <1>2
  <1>6. s = 6 => x' = [x EXCEPT ![r][r] = @ + Head(mail[Right(r)])]
    BY <1>1, <1>2
  <1>7. s = 10 => x' = [x EXCEPT ![r][Left(r)] = Head(mail[Left(r)])]
    BY <1>1, <1>2
  <1>8. s = 12 => x' = [x EXCEPT ![r][Right(r)] = Head(mail[Right(r)])]
    BY <1>1, <1>2
  <1>9. s = 14 => x' = [x EXCEPT ![r][Opposite(r)] = Head(mail[Right(r)])]
    BY <1>1, <1>2
  <1> QED
    BY <1>1, <1>3, <1>4, <1>5, <1>6, <1>7, <1>8, <1>9

LEMMA KernelSends ==
  ASSUME mode.alg = "kernel", NEW m \in 1..MaxOps, NEW r \in Ranks, NEW s \in 1..14,
         Holds(m, r, s - 1)
  PROVE  KernelOps(r, s) = OpsAt(m, r, s)
  <1>0. Beside(r, "right") = Right(r) /\ Beside(r, "left") = Left(r)
    BY DEF Beside
  <1>1. /\ r \in Ranks /\ Right(r) \in Ranks /\ Left(r) \in Ranks /\ Opposite(r) \in Ranks
        /\ r # Right(r) /\ r # Left(r) /\ r # Opposite(r)
        /\ Right(r) # Left(r) /\ Right(r) # Opposite(r) /\ Left(r) # Opposite(r)
    BY Around
  <1>2. /\ Chunk(r, 0) = KernelAt(m, r, s - 1, r)
        /\ Chunk(r, 1) = KernelAt(m, r, s - 1, Right(r))
        /\ Chunk(r, -1) = KernelAt(m, r, s - 1, Left(r))
        /\ Chunk(r, 2) = KernelAt(m, r, s - 1, Opposite(r))
    <2> DEFINE n == s - 1
    <2>1. \A c \in Ranks : XAt(m, r, n, c) = KernelAt(m, r, n, c)
      BY DEF XAt
    <2>2. Holds(m, r, n)
      OBVIOUS
    <2> HIDE DEF n
    <2>3. /\ Chunk(r, 0) = KernelAt(m, r, n, r)
          /\ Chunk(r, 1) = KernelAt(m, r, n, Right(r))
          /\ Chunk(r, -1) = KernelAt(m, r, n, Left(r))
          /\ Chunk(r, 2) = KernelAt(m, r, n, Opposite(r))
      BY <1>1, <2>1, <2>2, ChunkFacts
    <2> QED
      BY <2>3 DEF n
  <1>3. /\ s \in {3, 4, 8, 10} => TakesAt(r, "left", s) = {Recv(Left(r))}
        /\ s \in {6, 12, 14} => TakesAt(r, "right", s) = {Recv(Right(r))}
        /\ s \notin {3, 4, 8, 10} => TakesAt(r, "left", s) = {}
        /\ s \notin {6, 12, 14} => TakesAt(r, "right", s) = {}
    BY <1>0, KernelSteps DEF TakesAt
  <1>4. /\ s \in {1, 2, 7, 9} => SendsAt(m, r, "right", s)
             = {Send(Right(r), KernelPayload(m, r, "right", SentIn(r, "right", s)))}
        /\ s \in {5, 11, 13} => SendsAt(m, r, "left", s)
             = {Send(Left(r), KernelPayload(m, r, "left", SentIn(r, "left", s)))}
        /\ s \notin {1, 2, 7, 9} => SendsAt(m, r, "right", s) = {}
        /\ s \notin {5, 11, 13} => SendsAt(m, r, "left", s) = {}
    BY <1>0, KernelSteps DEF SendsAt, Payload
  <1>5. CASE s \in {3, 4, 6, 8, 10, 12, 14}
    <2>1. OpsAt(m, r, s) = IF s \in {3, 4, 8, 10} THEN {Recv(Left(r))} ELSE {Recv(Right(r))}
      BY <1>3, <1>4, <1>5 DEF OpsAt
    <2> QED
      BY <1>5, <2>1, KernelOpsTable
  <1>6. CASE s = 1
    <2>1. KernelPayload(m, r, "right", SentIn(r, "right", 1)) = <<Chunk(r, 1)>>
      BY <1>1, <1>2, <1>6, KernelSteps DEF KernelPayload, KernelAt
    <2>2. KernelOps(r, s) = {Send(Right(r), <<Chunk(r, 1)>>)}
      BY <1>6, KernelOpsTable
    <2>3. OpsAt(m, r, s) = SendsAt(m, r, "right", s)
      BY <1>3, <1>4, <1>6 DEF OpsAt
    <2> QED
      BY <1>4, <1>6, <2>1, <2>2, <2>3
  <1>7. CASE s = 2
    <2>1. KernelPayload(m, r, "right", SentIn(r, "right", 2)) = <<Chunk(r, 2)>>
      BY <1>1, <1>2, <1>7, KernelSteps DEF KernelPayload, KernelAt
    <2>2. KernelOps(r, s) = {Send(Right(r), <<Chunk(r, 2)>>)}
      BY <1>7, KernelOpsTable
    <2>3. OpsAt(m, r, s) = SendsAt(m, r, "right", s)
      BY <1>3, <1>4, <1>7 DEF OpsAt
    <2> QED
      BY <1>4, <1>7, <2>1, <2>2, <2>3
  <1>8. CASE s = 5
    <2>1. KernelPayload(m, r, "left", SentIn(r, "left", 5)) = <<Chunk(r, -1)>>
      BY <1>1, <1>2, <1>8, KernelSteps DEF KernelPayload, KernelAt
    <2>2. KernelOps(r, s) = {Send(Left(r), <<Chunk(r, -1)>>)}
      BY <1>8, KernelOpsTable
    <2>3. OpsAt(m, r, s) = SendsAt(m, r, "left", s)
      BY <1>3, <1>4, <1>8 DEF OpsAt
    <2> QED
      BY <1>4, <1>8, <2>1, <2>2, <2>3
  <1>9. CASE s = 7
    <2>1. KernelPayload(m, r, "right", SentIn(r, "right", 7)) = <<Chunk(r, 1)>>
      BY <1>1, <1>2, <1>9, KernelSteps DEF KernelPayload, KernelAt
    <2>2. KernelOps(r, s) = {Send(Right(r), <<Chunk(r, 1)>>)}
      BY <1>9, KernelOpsTable
    <2>3. OpsAt(m, r, s) = SendsAt(m, r, "right", s)
      BY <1>3, <1>4, <1>9 DEF OpsAt
    <2> QED
      BY <1>4, <1>9, <2>1, <2>2, <2>3
  <1>10. CASE s = 9
    <2>1. KernelPayload(m, r, "right", SentIn(r, "right", 9)) = <<Chunk(r, 0)>>
      BY <1>1, <1>2, <1>10, KernelSteps DEF KernelPayload, KernelAt
    <2>2. KernelOps(r, s) = {Send(Right(r), <<Chunk(r, 0)>>)}
      BY <1>10, KernelOpsTable
    <2>3. OpsAt(m, r, s) = SendsAt(m, r, "right", s)
      BY <1>3, <1>4, <1>10 DEF OpsAt
    <2> QED
      BY <1>4, <1>10, <2>1, <2>2, <2>3
  <1>11. CASE s = 11
    <2>1. KernelPayload(m, r, "left", SentIn(r, "left", 11)) = <<Chunk(r, 0)>>
      BY <1>1, <1>2, <1>11, KernelSteps DEF KernelPayload, KernelAt
    <2>2. KernelOps(r, s) = {Send(Left(r), <<Chunk(r, 0)>>)}
      BY <1>11, KernelOpsTable
    <2>3. OpsAt(m, r, s) = SendsAt(m, r, "left", s)
      BY <1>3, <1>4, <1>11 DEF OpsAt
    <2> QED
      BY <1>4, <1>11, <2>1, <2>2, <2>3
  <1>12. CASE s = 13
    <2>1. KernelPayload(m, r, "left", SentIn(r, "left", 13)) = <<Chunk(r, 1)>>
      BY <1>1, <1>2, <1>12, KernelSteps DEF KernelPayload, KernelAt
    <2>2. KernelOps(r, s) = {Send(Left(r), <<Chunk(r, 1)>>)}
      BY <1>12, KernelOpsTable
    <2>3. OpsAt(m, r, s) = SendsAt(m, r, "left", s)
      BY <1>3, <1>4, <1>12 DEF OpsAt
    <2> QED
      BY <1>4, <1>12, <2>1, <2>2, <2>3
  <1> QED
    BY <1>5, <1>6, <1>7, <1>8, <1>9, <1>10, <1>11, <1>12

LEMMA KernelApplies ==
  ASSUME mode.alg = "kernel", mode' = mode, NEW m \in 1..MaxOps, NEW r \in Ranks,
         NEW s \in 1..14, DOMAIN x = Ranks, DOMAIN held = Ranks,
         Holds(m, r, s - 1), KernelApply(r, s, MailAt(m, r, s))
  PROVE  After(m, r, s)
  <1> DEFINE o == Opposite(r)
             a == Right(r)
             b == Left(r)
             mail == MailAt(m, r, s)
  <1>0. Beside(r, "right") = a /\ Beside(r, "left") = b /\ Back("right") = "left"
        /\ Back("left") = "right" /\ "right" \in Directions /\ "left" \in Directions
    BY DEF Beside, Back, Directions
  <1>1. /\ r \in Ranks /\ a \in Ranks /\ b \in Ranks /\ o \in Ranks
        /\ r # a /\ r # b /\ r # o /\ a # b /\ a # o /\ b # o
        /\ Right(a) = o /\ Left(a) = r /\ Opposite(a) = b
        /\ Right(b) = r /\ Left(b) = o /\ Opposite(b) = a
        /\ Ranks = {r, a, b, o}
    BY Around, AllRanks
  <1>2. /\ \A e \in Ranks : /\ x[r][e] = KernelAt(m, r, s - 1, e)
                            /\ Tensor(m, r, s)[e] = KernelAt(m, r, s, e)
        /\ DOMAIN x[r] = Ranks /\ held' = held /\ HeldAt(m, r, s) = held[r]
    BY DEF Holds, XAt, HeldAt, KernelApply, Tensor
  <1>3. /\ Takes(r, "right", s) => mail[a] = KernelPayload(m, a, "left", TakenIn(r, "right", s))
        /\ Takes(r, "left", s) => mail[b] = KernelPayload(m, b, "right", TakenIn(r, "left", s))
    BY <1>0, MailFacts DEF Payload
  <1>4. \A p \in Ranks, c \in Ranks :
          /\ In(m, p, c) \in Int /\ Total(m, c) \in Int
          /\ Total(m, c) = In(m, r, c) + In(m, a, c) + In(m, b, c) + In(m, o, c)
    BY <1>1, Numbers
  <1>5. /\ s \in {1, 2, 5, 7, 9, 11, 13} => x' = x
        /\ s \in {3, 8} => x' = [x EXCEPT ![r][r] = @ + Head(mail[b])]
        /\ s = 4 => x' = [x EXCEPT ![r][a] = Head(mail[b])]
        /\ s = 6 => x' = [x EXCEPT ![r][r] = @ + Head(mail[a])]
        /\ s = 10 => x' = [x EXCEPT ![r][b] = Head(mail[b])]
        /\ s = 12 => x' = [x EXCEPT ![r][a] = Head(mail[a])]
        /\ s = 14 => x' = [x EXCEPT ![r][o] = Head(mail[a])]
    BY KernelApplyTable
  <1> HIDE DEF o, a, b, mail
  <1>6. CASE s \in {1, 2, 5, 7, 9, 11, 13}
    <2>1. \A e \in Ranks : Tensor(m, r, s)[e] = x[r][e]
      BY <1>1, <1>2, <1>6 DEF KernelAt, a, b, o
    <2>2. \A e \in Ranks : XAt(m, r, s, e)' = KernelAt(m, r, s, e)
      BY DEF XAt, KernelAt
    <2>3. x[r] = [e \in Ranks |-> XAt(m, r, s, e)']
      BY <1>2, <2>1, <2>2 DEF Holds
    <2>4. HeldAt(m, r, s)' = held[r]
      BY <1>2 DEF HeldAt, Both
    <2> QED
      BY <1>2, <1>5, <1>6, <2>3, <2>4 DEF After, Holds
  <1>7. CASE s = 3
    <2>1. mail[b] = <<In(m, b, r)>>
      BY <1>1, <1>3, <1>7, KernelSteps DEF KernelPayload
    <2>2. Head(mail[b]) = In(m, b, r)
      BY <2>1
    <2>3. Tensor(m, r, s)[r] = x[r][r] + In(m, b, r)
      BY <1>1, <1>2, <1>4, <1>7 DEF KernelAt, a, b, o
    <2>4. x' = [x EXCEPT ![r][r] = @ + Head(mail[b])]
      BY <1>5, <1>7
    <2>5. x' = [x EXCEPT ![r][r] = Tensor(m, r, s)[r]]
      BY <1>1, <2>2, <2>3, <2>4
    <2>6. \A e \in Ranks : e # r => Tensor(m, r, s)[e] = x[r][e]
      BY <1>1, <1>2, <1>7 DEF KernelAt, a, b, o
    <2> QED
      BY <1>1, <1>2, <2>5, <2>6, OneChunk
  <1>8. CASE s = 4
    <2>1. mail[b] = <<In(m, b, a)>>
      BY <1>1, <1>3, <1>8, KernelSteps DEF KernelPayload
    <2>2. Head(mail[b]) = In(m, b, a)
      BY <2>1
    <2>3. Tensor(m, r, s)[a] = In(m, b, a)
      BY <1>1, <1>2, <1>4, <1>8 DEF KernelAt, a, b, o
    <2>4. x' = [x EXCEPT ![r][a] = Head(mail[b])]
      BY <1>5, <1>8
    <2>5. x' = [x EXCEPT ![r][a] = Tensor(m, r, s)[a]]
      BY <1>1, <2>2, <2>3, <2>4
    <2>6. \A e \in Ranks : e # a => Tensor(m, r, s)[e] = x[r][e]
      BY <1>1, <1>2, <1>8 DEF KernelAt, a, b, o
    <2> QED
      BY <1>1, <1>2, <2>5, <2>6, OneChunk
  <1>9. CASE s = 6
    <2>1. mail[a] = <<In(m, a, r)>>
      BY <1>1, <1>3, <1>9, KernelSteps DEF KernelPayload
    <2>2. Head(mail[a]) = In(m, a, r)
      BY <2>1
    <2>3. Tensor(m, r, s)[r] = x[r][r] + In(m, a, r)
      BY <1>1, <1>2, <1>4, <1>9 DEF KernelAt, a, b, o
    <2>4. x' = [x EXCEPT ![r][r] = @ + Head(mail[a])]
      BY <1>5, <1>9
    <2>5. x' = [x EXCEPT ![r][r] = Tensor(m, r, s)[r]]
      BY <1>1, <2>2, <2>3, <2>4
    <2>6. \A e \in Ranks : e # r => Tensor(m, r, s)[e] = x[r][e]
      BY <1>1, <1>2, <1>9 DEF KernelAt, a, b, o
    <2> QED
      BY <1>1, <1>2, <2>5, <2>6, OneChunk
  <1>10. CASE s = 8
    <2>1. mail[b] = <<In(m, o, r)>>
      BY <1>1, <1>3, <1>10, KernelSteps DEF KernelPayload
    <2>2. Head(mail[b]) = In(m, o, r)
      BY <2>1
    <2>3. Tensor(m, r, s)[r] = x[r][r] + In(m, o, r)
      BY <1>1, <1>2, <1>4, <1>10 DEF KernelAt, a, b, o
    <2>4. x' = [x EXCEPT ![r][r] = @ + Head(mail[b])]
      BY <1>5, <1>10
    <2>5. x' = [x EXCEPT ![r][r] = Tensor(m, r, s)[r]]
      BY <1>1, <2>2, <2>3, <2>4
    <2>6. \A e \in Ranks : e # r => Tensor(m, r, s)[e] = x[r][e]
      BY <1>1, <1>2, <1>10 DEF KernelAt, a, b, o
    <2> QED
      BY <1>1, <1>2, <2>5, <2>6, OneChunk
  <1>11. CASE s = 10
    <2>1. mail[b] = <<Total(m, b)>>
      BY <1>1, <1>3, <1>11, KernelSteps DEF KernelPayload
    <2>2. Head(mail[b]) = Total(m, b)
      BY <2>1
    <2>3. Tensor(m, r, s)[b] = Total(m, b)
      BY <1>1, <1>2, <1>4, <1>11 DEF KernelAt, a, b, o
    <2>4. x' = [x EXCEPT ![r][b] = Head(mail[b])]
      BY <1>5, <1>11
    <2>5. x' = [x EXCEPT ![r][b] = Tensor(m, r, s)[b]]
      BY <1>1, <2>2, <2>3, <2>4
    <2>6. \A e \in Ranks : e # b => Tensor(m, r, s)[e] = x[r][e]
      BY <1>1, <1>2, <1>11 DEF KernelAt, a, b, o
    <2> QED
      BY <1>1, <1>2, <2>5, <2>6, OneChunk
  <1>12. CASE s = 12
    <2>1. mail[a] = <<Total(m, a)>>
      BY <1>1, <1>3, <1>12, KernelSteps DEF KernelPayload
    <2>2. Head(mail[a]) = Total(m, a)
      BY <2>1
    <2>3. Tensor(m, r, s)[a] = Total(m, a)
      BY <1>1, <1>2, <1>4, <1>12 DEF KernelAt, a, b, o
    <2>4. x' = [x EXCEPT ![r][a] = Head(mail[a])]
      BY <1>5, <1>12
    <2>5. x' = [x EXCEPT ![r][a] = Tensor(m, r, s)[a]]
      BY <1>1, <2>2, <2>3, <2>4
    <2>6. \A e \in Ranks : e # a => Tensor(m, r, s)[e] = x[r][e]
      BY <1>1, <1>2, <1>12 DEF KernelAt, a, b, o
    <2> QED
      BY <1>1, <1>2, <2>5, <2>6, OneChunk
  <1>13. CASE s = 14
    <2>1. mail[a] = <<Total(m, o)>>
      BY <1>1, <1>3, <1>13, KernelSteps DEF KernelPayload
    <2>2. Head(mail[a]) = Total(m, o)
      BY <2>1
    <2>3. Tensor(m, r, s)[o] = Total(m, o)
      BY <1>1, <1>2, <1>4, <1>13 DEF KernelAt, a, b, o
    <2>4. x' = [x EXCEPT ![r][o] = Head(mail[a])]
      BY <1>5, <1>13
    <2>5. x' = [x EXCEPT ![r][o] = Tensor(m, r, s)[o]]
      BY <1>1, <2>2, <2>3, <2>4
    <2>6. \A e \in Ranks : e # o => Tensor(m, r, s)[e] = x[r][e]
      BY <1>1, <1>2, <1>13 DEF KernelAt, a, b, o
    <2> QED
      BY <1>1, <1>2, <2>5, <2>6, OneChunk
  <1> QED
    BY <1>6, <1>7, <1>8, <1>9, <1>10, <1>11, <1>12, <1>13
LEMMA OpsOfStep ==
  ASSUME mode \in Modes, NEW m \in 1..MaxOps, NEW r \in Ranks, NEW s \in 1..Steps,
         Holds(m, r, s - 1)
  PROVE  OpsOf(r, s) = OpsAt(m, r, s)
  BY ModeFacts, StepsFacts, TwoHopSends, RingSends, PairSends, KernelSends DEF OpsOf

LEMMA ApplyStep ==
  ASSUME mode \in Modes, mode' = mode, NEW m \in 1..MaxOps, NEW r \in Ranks,
         NEW s \in 1..Steps, DOMAIN x = Ranks, DOMAIN held = Ranks,
         Holds(m, r, s - 1), Apply(r, s, MailAt(m, r, s))
  PROVE  After(m, r, s)
  <1> DEFINE mail == MailAt(m, r, s)
  <1>1. CASE mode.alg = "twohop"
    <2>1. TwoHopApply(r, s, mail) /\ s \in 1..4
      BY <1>1, StepsFacts DEF Apply
    <2> QED
      BY <1>1, <2>1, TwoHopApplies
  <1>2. CASE mode.alg = "ring"
    <2>1. RingApply(r, s, mail) /\ s \in 1..6
      BY <1>2, StepsFacts DEF Apply
    <2> QED
      BY <1>2, <2>1, RingApplies
  <1>3. CASE mode.alg = "pair"
    <2>1. PairApply(r, s, mail) /\ s \in 1..2
      BY <1>3, StepsFacts DEF Apply
    <2> QED
      BY <1>3, <2>1, PairApplies
  <1>4. CASE mode.alg = "kernel"
    <2>1. KernelApply(r, s, mail) /\ s \in 1..14
      BY <1>4, StepsFacts DEF Apply
    <2> QED
      BY <1>4, <2>1, KernelApplies
  <1> QED
    BY <1>1, <1>2, <1>3, <1>4, ModeFacts

-----------------------------------------------------------------------------
(***************************************************************************)
(* The channels.                                                           *)
(***************************************************************************)

LEMMA LinkFacts ==
  ASSUME NEW r \in Ranks, NEW d \in Directions
  PROVE  /\ Link(r, d) \in Channels
         /\ Link(Beside(r, d), Back(d)) = <<Group(r, Beside(r, d)), Beside(r, d), r>>
         /\ Link(Beside(r, d), Back(d)) \in Channels
         /\ \A q \in Ranks, e \in Directions : Link(r, d) = Link(q, e) <=> r = q /\ d = e
  <1> DEFINE q == Beside(r, d)
  <1>1. /\ q \in Ranks /\ q \in Neighbours(r) /\ Back(d) \in Directions
        /\ Beside(q, Back(d)) = r /\ r \in Neighbours(q)
    BY BesideFacts, NeighbourFacts
  <1>2. Group(r, q) = Group(q, r) /\ Group(r, q) \in {0, 1}
    BY <1>1, GroupAgrees
  <1>3. \A e \in Directions : Beside(r, d) = Beside(r, e) => d = e
    BY Around DEF Beside, Directions
  <1> HIDE DEF q
  <1>4. Link(r, d) = <<Group(r, q), r, q>>
    BY DEF Link, q
  <1>5. Link(q, Back(d)) = <<Group(r, q), q, r>>
    BY <1>1, <1>2 DEF Link
  <1>6. Link(r, d) \in Channels /\ Link(q, Back(d)) \in Channels
    BY <1>1, <1>2, <1>4, <1>5 DEF Channels
  <1>7. \A p \in Ranks, e \in Directions : Link(r, d) = Link(p, e) <=> r = p /\ d = e
    BY <1>3 DEF Link
  <1> QED
    BY <1>5, <1>6, <1>7 DEF q

\* The channels of a rank's operations: those it sends on, those it receives on.
LEMMA OpChannels ==
  ASSUME NEW m, NEW r \in Ranks, NEW s, NEW d \in Directions
  PROVE  /\ \A o \in SendsAt(m, r, d, s) : o.kind = "send" /\ ChannelOf(r, o) = Link(r, d)
         /\ \A o \in TakesAt(r, d, s) :
              o.kind = "recv" /\ ChannelOf(r, o) = Link(Beside(r, d), Back(d))
  <1> DEFINE q == Beside(r, d)
  <1>1. Link(r, d) = <<Group(r, q), r, q>> /\ Link(q, Back(d)) = <<Group(r, q), q, r>>
    BY LinkFacts DEF Link
  <1>2. ASSUME NEW o \in SendsAt(m, r, d, s)
        PROVE  o.kind = "send" /\ o.peer = q
    BY DEF SendsAt, Send
  <1>3. ASSUME NEW o \in TakesAt(r, d, s)
        PROVE  o.kind = "recv" /\ o.peer = q
    BY DEF TakesAt, Recv
  <1> HIDE DEF q
  <1> QED
    BY <1>1, <1>2, <1>3 DEF ChannelOf, q

SentOn(m, r, s, c) == {o \in OpsAt(m, r, s) : o.kind = "send" /\ ChannelOf(r, o) = c}
RecvOn(m, r, s, c) == {o \in OpsAt(m, r, s) : o.kind = "recv" /\ ChannelOf(r, o) = c}

LEMMA BatchSplit ==
  ASSUME NEW m, NEW r \in Ranks, NEW s
  PROVE  /\ \A d \in Directions : SentOn(m, r, s, Link(r, d)) = SendsAt(m, r, d, s)
         /\ \A c : (\A d \in Directions : c # Link(r, d)) => SentOn(m, r, s, c) = {}
         /\ \A d \in Directions :
              RecvOn(m, r, s, Link(Beside(r, d), Back(d))) = TakesAt(r, d, s)
         /\ \A c : (\A d \in Directions : c # Link(Beside(r, d), Back(d)))
                     => RecvOn(m, r, s, c) = {}
  <1> DEFINE a == "right"
             b == "left"
             ca == Link(Beside(r, a), Back(a))
             cb == Link(Beside(r, b), Back(b))
             sa == SendsAt(m, r, a, s)
             sb == SendsAt(m, r, b, s)
             ta == TakesAt(r, a, s)
             tb == TakesAt(r, b, s)
  <1>1. a \in Directions /\ b \in Directions /\ Directions = {a, b}
    BY DEF Directions
  <1>2. ca # cb /\ Link(r, a) # Link(r, b)
    <2>1. Beside(r, a) \in Ranks /\ Beside(r, b) \in Ranks /\ Beside(r, a) # Beside(r, b)
      BY <1>1, Around DEF Beside
    <2>2. ca[2] = Beside(r, a) /\ cb[2] = Beside(r, b)
      BY <1>1, LinkFacts
    <2> QED
      BY <1>1, <2>1, <2>2 DEF Link
  <1>3. /\ \A o \in sa : o.kind = "send" /\ ChannelOf(r, o) = Link(r, a)
        /\ \A o \in sb : o.kind = "send" /\ ChannelOf(r, o) = Link(r, b)
        /\ \A o \in ta : o.kind = "recv" /\ ChannelOf(r, o) = ca
        /\ \A o \in tb : o.kind = "recv" /\ ChannelOf(r, o) = cb
    BY <1>1, OpChannels
  <1>4. OpsAt(m, r, s) = sa \cup sb \cup ta \cup tb
    BY DEF OpsAt
  <1> HIDE DEF ca, cb, sa, sb, ta, tb
  <1>5. SentOn(m, r, s, Link(r, a)) = sa /\ SentOn(m, r, s, Link(r, b)) = sb
    BY <1>2, <1>3, <1>4 DEF SentOn
  <1>6. \A c : c # Link(r, a) /\ c # Link(r, b) => SentOn(m, r, s, c) = {}
    BY <1>3, <1>4 DEF SentOn
  <1>7. RecvOn(m, r, s, ca) = ta /\ RecvOn(m, r, s, cb) = tb
    BY <1>2, <1>3, <1>4 DEF RecvOn
  <1>8. \A c : c # ca /\ c # cb => RecvOn(m, r, s, c) = {}
    BY <1>3, <1>4 DEF RecvOn
  <1> QED
    BY <1>1, <1>5, <1>6, <1>7, <1>8 DEF ca, cb, sa, sb, ta, tb

\* A message has one call and one place in that call.
LEMMA OneIndex ==
  ASSUME NEW k \in {1, 3, 4}, NEW m \in Int, NEW n \in Int, NEW i \in 1..k, NEW j \in 1..k,
         k * (m - 1) + i = k * (n - 1) + j
  PROVE  m = n /\ i = j
  <1>1. CASE k = 1
    BY <1>1
  <1>2. CASE k = 3
    BY <1>2
  <1>3. CASE k = 4
    BY <1>3
  <1> QED
    BY <1>1, <1>2, <1>3

LEMMA PerCallFacts ==
  ASSUME mode \in Modes, NEW d \in Directions
  PROVE  /\ PerCall(d) \in {1, 3, 4} /\ PerCall(d) \in Nat
         /\ \A n \in Int : PerCall(d) * (n - 1) \in Int
         /\ \A n \in Int : PerCall(d) * n = PerCall(d) * (n - 1) + PerCall(d)
  <1> DEFINE k == PerCall(d)
  <1>1. k \in {1, 3, 4}
    BY Counts, Names
  <1> HIDE DEF k
  <1>2. k = 1 \/ k = 3 \/ k = 4
    BY <1>1
  <1>3. \A n \in Int : k * (n - 1) \in Int /\ k * n = k * (n - 1) + k
    BY <1>2
  <1>4. k \in {1, 3, 4} /\ k \in Nat
    BY <1>2
  <1> QED
    BY <1>3, <1>4, Zenon DEF k

LEMMA CarriesMore ==
  ASSUME mode \in Modes, NEW r \in Ranks, NEW d \in Directions, NEW w,
         NEW sent \in Int, NEW taken \in Int, Carries(r, d, w, sent, taken),
         NEW m \in 1..MaxOps, NEW j \in 1..PerCall(d),
         sent + 1 = PerCall(d) * (m - 1) + j
  PROVE  Carries(r, d, Append(w, Payload(m, r, d, j)), sent + 1, taken)
  <1> DEFINE v == Payload(m, r, d, j)
             u == Append(w, v)
             k == PerCall(d)
  <1>0. k \in {1, 3, 4} /\ m \in Int
    BY PerCallFacts, InputAssumption DEF k
  <1>1. v \in AllData
    BY <1>0 DEF AllData
  <1>2. w \in Seq(AllData) /\ Len(w) = sent - taken
    BY DEF Carries
  <1>3. ASSUME NEW i \in 1 .. Len(w), NEW n \in 1..MaxOps, NEW l \in 1..k,
               taken + i = k * (n - 1) + l
        PROVE  w[i] = Payload(n, r, d, l)
    BY <1>3 DEF Carries
  <1>4. /\ u \in Seq(AllData) /\ Len(u) = Len(w) + 1 /\ u[Len(w) + 1] = v
        /\ \A i \in 1 .. Len(w) : u[i] = w[i]
    <2> HIDE DEF v
    <2> QED
      BY <1>1, <1>2
  <1> HIDE DEF v, u
  <1>5. ASSUME NEW i \in 1 .. Len(u), NEW n \in 1..MaxOps, NEW l \in 1..k,
               taken + i = k * (n - 1) + l
        PROVE  u[i] = Payload(n, r, d, l)
    <2>1. CASE i \in 1 .. Len(w)
      BY <1>3, <1>4, <1>5, <2>1
    <2>2. CASE i = Len(w) + 1
      <3>1. k * (m - 1) + j = k * (n - 1) + l
        BY <1>2, <1>5, <2>2
      <3>2. n \in Int /\ j \in 1..k
        BY InputAssumption
      <3> HIDE DEF k
      <3>3. m = n /\ j = l
        BY <1>0, <3>1, <3>2, OneIndex
      <3> QED
        BY <1>4, <2>2, <3>3 DEF v
    <2> QED
      BY <1>2, <1>4, <2>1, <2>2
  <1>6. Len(u) = (sent + 1) - taken
    BY <1>2, <1>4
  <1> QED
    BY <1>4, <1>5, <1>6 DEF Carries, u, v

LEMMA CarriesLess ==
  ASSUME mode \in Modes, NEW r \in Ranks, NEW d \in Directions, NEW w,
         NEW sent \in Int, NEW taken \in Int, Carries(r, d, w, sent, taken), w # <<>>
  PROVE  /\ Carries(r, d, Tail(w), sent, taken + 1)
         /\ \A m \in 1..MaxOps, j \in 1..PerCall(d) :
              taken + 1 = PerCall(d) * (m - 1) + j => Head(w) = Payload(m, r, d, j)
  <1> DEFINE u == Tail(w)
             k == PerCall(d)
  <1>1. w \in Seq(AllData) /\ Len(w) = sent - taken
    BY DEF Carries
  <1>2. ASSUME NEW i \in 1 .. Len(w), NEW n \in 1..MaxOps, NEW l \in 1..k,
               taken + i = k * (n - 1) + l
        PROVE  w[i] = Payload(n, r, d, l)
    BY <1>2 DEF Carries
  <1>3. /\ u \in Seq(AllData) /\ Len(u) = Len(w) - 1 /\ Head(w) = w[1] /\ Len(w) >= 1
        /\ \A i \in 1 .. Len(u) : u[i] = w[i + 1] /\ i + 1 \in 1 .. Len(w)
    BY <1>1
  <1> HIDE DEF u
  <1>4. ASSUME NEW i \in 1 .. Len(u), NEW n \in 1..MaxOps, NEW l \in 1..k,
               (taken + 1) + i = k * (n - 1) + l
        PROVE  u[i] = Payload(n, r, d, l)
    <2>1. taken + (i + 1) = k * (n - 1) + l
      BY <1>4
    <2> QED
      BY <1>2, <1>3, <2>1
  <1>5. Len(u) = sent - (taken + 1)
    BY <1>1, <1>3
  <1>6. ASSUME NEW n \in 1..MaxOps, NEW l \in 1..k, taken + 1 = k * (n - 1) + l
        PROVE  Head(w) = Payload(n, r, d, l)
    BY <1>2, <1>3, <1>6
  <1> QED
    BY <1>3, <1>4, <1>5, <1>6 DEF Carries, u

-----------------------------------------------------------------------------
(***************************************************************************)
(* What a step leaves alone.                                               *)
(***************************************************************************)

\* The schedule and the transport of a run never change.
LEMMA Frame ==
  ASSUME mode' = mode
  PROVE  /\ Steps' = Steps
         /\ \A d : PerCall(d)' = PerCall(d)
         /\ \A r, d, n : SentIn(r, d, n)' = SentIn(r, d, n)
         /\ \A r, d, n : TakenIn(r, d, n)' = TakenIn(r, d, n)
         /\ \A r, d : Link(r, d)' = Link(r, d)
         /\ \A m, r, s : MailAt(m, r, s)' = MailAt(m, r, s)
         /\ \A m, r, s : OpsAt(m, r, s)' = OpsAt(m, r, s)
         /\ \A m, r, n, c : XAt(m, r, n, c)' = XAt(m, r, n, c)
         /\ \A m, r, n : HeldAt(m, r, n)' = HeldAt(m, r, n)
         /\ \A r, d, w, s, t : Carries(r, d, w, s, t)' <=> Carries(r, d, w, s, t)
  <1>1. Steps' = Steps
    BY DEF Steps
  <1>2. \A d : PerCall(d)' = PerCall(d)
    BY DEF PerCall
  <1>3. /\ \A r, d, n : SentIn(r, d, n)' = SentIn(r, d, n)
        /\ \A r, d, n : TakenIn(r, d, n)' = TakenIn(r, d, n)
    BY DEF SentIn, TakenIn
  <1>4. \A m, r, d, j : Payload(m, r, d, j)' = Payload(m, r, d, j)
    BY DEF Payload, TwoHopPayload, RingPayload, PairPayload, KernelPayload, Both
  <1>5. \A r, d : Link(r, d)' = Link(r, d)
    BY DEF Link, Group
  <1>6. \A r, d, s : /\ Sends(r, d, s)' <=> Sends(r, d, s)
                     /\ Takes(r, d, s)' <=> Takes(r, d, s)
    BY <1>3 DEF Sends, Takes
  <1>7. \A m, r, s : MailAt(m, r, s)' = MailAt(m, r, s)
    BY <1>3, <1>4, <1>6 DEF MailAt
  <1>8. \A m, r, s : OpsAt(m, r, s)' = OpsAt(m, r, s)
    BY <1>3, <1>4, <1>6 DEF OpsAt, SendsAt, TakesAt
  <1>9. /\ \A m, r, n, c : XAt(m, r, n, c)' = XAt(m, r, n, c)
        /\ \A m, r, n : HeldAt(m, r, n)' = HeldAt(m, r, n)
    BY DEF XAt, TwoHopAt, RingAt, PairAt, KernelAt, HeldAt, Both
  <1>10. AllData' = AllData
    BY <1>4 DEF AllData
  <1>11. \A r, d, w, s, t : Carries(r, d, w, s, t)' <=> Carries(r, d, w, s, t)
    BY <1>2, <1>4, <1>10 DEF Carries
  <1> QED
    BY <1>1, <1>2, <1>3, <1>5, <1>7, <1>8, <1>9, <1>11

\* A call starts with the inputs and ends with the sums.
LEMMA FirstAndLast ==
  ASSUME mode \in Modes, NEW r \in Ranks, NEW c \in Ranks
  PROVE  \A m : /\ XAt(m, r, 0, c) = In(m, r, c)
                 /\ XAt(m, r, Steps, c) = Total(m, c)
  <1>1. /\ c = r \/ c = Right(r) \/ c = Left(r) \/ c = Opposite(r)
        /\ r # Right(r) /\ r # Left(r) /\ r # Opposite(r)
        /\ Right(r) # Left(r) /\ Right(r) # Opposite(r) /\ Left(r) # Opposite(r)
    BY Around, AllRanks
  <1>2. CASE mode.alg = "twohop"
    BY <1>2, StepsFacts DEF XAt, TwoHopAt
  <1>3. CASE mode.alg = "ring"
    BY <1>1, <1>3, StepsFacts DEF XAt, RingAt
  <1>4. CASE mode.alg = "pair"
    BY <1>4, StepsFacts DEF XAt, PairAt
  <1>5. CASE mode.alg = "kernel"
    BY <1>1, <1>5, StepsFacts DEF XAt, KernelAt
  <1> QED
    BY <1>2, <1>3, <1>4, <1>5, ModeFacts

LEMMA OthersStay ==
  ASSUME mode' = mode, NEW q \in Ranks, PlaceInv(q), DataInv(q),
         op'[q] = op[q], step'[q] = step[q], at'[q] = at[q], x'[q] = x[q],
         held'[q] = held[q], pending'[q] = pending[q], issued'[q] = issued[q],
         got'[q] = got[q]
  PROVE  PlaceInv(q)' /\ DataInv(q)'
  <1>1. Used(q)' = Used(q)
    BY DEF Used
  <1>2. PlaceInv(q)'
    BY Frame DEF PlaceInv
  <1>3. DataInv(q)'
    BY <1>1, Frame DEF DataInv
  <1> QED
    BY <1>2, <1>3

LEMMA LinkStays ==
  ASSUME mode' = mode, NEW r \in Ranks, NEW d \in Directions, WireInv(r, d),
         SentAll(r, d)' = SentAll(r, d), TakenAll(r, d)' = TakenAll(r, d),
         AskedAll(r, d)' = AskedAll(r, d),
         wire'[Link(r, d)] = wire[Link(r, d)], credit'[Link(r, d)] = credit[Link(r, d)]
  PROVE  WireInv(r, d)'
  <1>1. Link(r, d)' = Link(r, d)
    BY Frame
  <1>2. Carries(r, d, wire'[Link(r, d)'], SentAll(r, d)', TakenAll(r, d)')
    BY <1>1 DEF WireInv
  <1>3. Carries(r, d, wire[Link(r, d)], SentAll(r, d), TakenAll(r, d))'
    BY <1>2, Frame
  <1> QED
    BY <1>1, <1>3 DEF WireInv

\* Where a rank stands is a place in its call.
LEMMA PlaceFacts ==
  ASSUME mode \in Modes, \A r \in Ranks : PlaceInv(r)
  PROVE  \A r \in Ranks :
           /\ op[r] \in Int
           /\ Posted(r) \in 0..Steps /\ Taken(r) \in 0..Steps /\ Used(r) \in 0..Steps
           /\ \A d \in Directions :
                SentAll(r, d) \in Int /\ TakenAll(r, d) \in Int /\ AskedAll(r, d) \in Int
  <1>1. ASSUME NEW r \in Ranks
        PROVE  /\ op[r] \in Int
               /\ Posted(r) \in 0..Steps /\ Taken(r) \in 0..Steps /\ Used(r) \in 0..Steps
    BY StepsFacts, InputAssumption DEF PlaceInv, Posted, Taken, Used
  <1>2. ASSUME NEW r \in Ranks, NEW d \in Directions
        PROVE  SentAll(r, d) \in Int /\ TakenAll(r, d) \in Int /\ AskedAll(r, d) \in Int
    <2> DEFINE q == Beside(r, d)
    <2>1. q \in Ranks /\ Back(d) \in Directions
      BY BesideFacts
    <2> HIDE DEF q
    <2>2. /\ PerCall(d) * (op[r] - 1) \in Int /\ PerCall(d) * (op[q] - 1) \in Int
      BY <1>1, <2>1, PerCallFacts
    <2>3. /\ SentIn(r, d, Posted(r)) \in Int
          /\ TakenIn(q, Back(d), Taken(q)) \in Int
          /\ TakenIn(q, Back(d), Posted(q)) \in Int
      <3>1. \A p \in Ranks, e \in Directions, n \in 0..Steps :
              SentIn(p, e, n) \in Int /\ TakenIn(p, e, n) \in Int
        <4> SUFFICES ASSUME NEW p \in Ranks, NEW e \in Directions, NEW n \in 0..Steps
                     PROVE  SentIn(p, e, n) \in Int /\ TakenIn(p, e, n) \in Int
          OBVIOUS
        <4>1. SentIn(p, e, n) \in 0..PerCall(e) /\ TakenIn(p, e, n) \in 0..PerCall(Back(e))
          BY Counts
        <4> QED
          BY <4>1
      <3> QED
        BY <1>1, <2>1, <3>1
    <2> QED
      BY <2>2, <2>3 DEF SentAll, TakenAll, AskedAll, q
  <1> QED
    BY <1>1, <1>2

LEMMA IdleLinks ==
  ASSUME NEW c \in Channels, c[1] # Group(c[2], c[3])
  PROVE  \A r \in Ranks, d \in Directions : c # Link(r, d)
  BY DEF Link

-----------------------------------------------------------------------------
(***************************************************************************)
(* Post.                                                                   *)
(***************************************************************************)

\* What a step hands over: one message, or none, for each neighbour, and one
\* receive, or none.
LEMMA PostEffect ==
  ASSUME IInv, NEW r \in Ranks, Post(r)
  PROVE  LET m == op[r]
             s == step[r]
         IN
         /\ issued' = [issued EXCEPT ![r] = OpsAt(m, r, s)]
         /\ pending' = [pending EXCEPT ![r] = {}]
         /\ DOMAIN wire' = Channels /\ DOMAIN credit' = Channels
         /\ \A d \in Directions :
              wire'[Link(r, d)] = IF Sends(r, d, s)
                THEN Append(wire[Link(r, d)], Payload(m, r, d, SentIn(r, d, s)))
                ELSE wire[Link(r, d)]
         /\ \A c \in Channels : (\A d \in Directions : c # Link(r, d)) => wire'[c] = wire[c]
         /\ \A c \in Channels : credit'[c] = credit[c]
              + Cardinality(RecvOn(m, r, s, c)) - Cardinality(SentOn(m, r, s, c))
  <1> DEFINE m == op[r]
             s == step[r]
             sentOn(c) == SentOn(m, r, s, c)
             recvOn(c) == RecvOn(m, r, s, c)
             data(S) == (CHOOSE o \in S : TRUE).data
  <1>1. /\ mode \in Modes /\ m \in 1..MaxOps /\ s \in 1..Steps /\ Holds(m, r, s - 1)
        /\ pending[r] = {}
    BY DEF IInv, Shapes, PlaceInv, DataInv, Holds, Used, Post
  <1> HIDE DEF m, s
  <1>2. OpsOf(r, s) = OpsAt(m, r, s)
    BY <1>1, OpsOfStep
  <1>3. /\ issued' = [issued EXCEPT ![r] = OpsAt(m, r, s)]
        /\ pending' = [pending EXCEPT ![r] = {}]
        /\ wire' = [c \in Channels |-> IF sentOn(c) = {} THEN wire[c]
                      ELSE Append(wire[c], data(sentOn(c)))]
        /\ credit' = [c \in Channels |->
                        credit[c] + Cardinality(recvOn(c)) - Cardinality(sentOn(c))]
    <2> DEFINE todo == IF pending[r] = {} THEN OpsOf(r, step[r]) ELSE pending[r]
               batch == Batch(todo)
               sends(c) == {o \in batch : o.kind = "send" /\ ChannelOf(r, o) = c}
               recvs(c) == {o \in batch : o.kind = "recv" /\ ChannelOf(r, o) = c}
    <2>1. /\ issued' = [issued EXCEPT ![r] = batch]
          /\ pending' = [pending EXCEPT ![r] = todo \ batch]
          /\ wire' = [c \in Channels |-> IF sends(c) = {} THEN wire[c]
                        ELSE Append(wire[c], data(sends(c)))]
          /\ credit' = [c \in Channels |->
                          credit[c] + Cardinality(recvs(c)) - Cardinality(sends(c))]
      BY DEF Post
    <2>2. todo = OpsAt(m, r, s)
      BY <1>1, <1>2 DEF s
    <2> HIDE DEF todo
    <2>3. batch = OpsAt(m, r, s) /\ todo \ batch = {}
      BY <2>2 DEF Batch
    <2> HIDE DEF batch
    <2>4. \A c : sends(c) = sentOn(c) /\ recvs(c) = recvOn(c)
      BY <2>3 DEF SentOn, RecvOn
    <2> HIDE DEF sends, recvs, sentOn, recvOn, data
    <2> QED
      BY <2>1, <2>3, <2>4
  <1>4. ASSUME NEW d \in Directions
        PROVE  wire'[Link(r, d)] = IF Sends(r, d, s)
                 THEN Append(wire[Link(r, d)], Payload(m, r, d, SentIn(r, d, s)))
                 ELSE wire[Link(r, d)]
    <2>1. Link(r, d) \in Channels
      BY LinkFacts
    <2>2. sentOn(Link(r, d)) = SendsAt(m, r, d, s)
      BY BatchSplit
    <2> DEFINE v == Payload(m, r, d, SentIn(r, d, s))
    <2>3. CASE Sends(r, d, s)
      <3>1. sentOn(Link(r, d)) = {Send(Beside(r, d), v)}
        BY <2>2, <2>3 DEF SendsAt
      <3>2. data({Send(Beside(r, d), v)}) = v
        <4>1. \A e : (CHOOSE o \in {e} : TRUE) = e
          OBVIOUS
        <4>2. Send(Beside(r, d), v).data = v
          BY DEF Send
        <4> QED
          BY <4>1, <4>2
      <3> HIDE DEF sentOn, data, v
      <3> QED
        BY <1>3, <2>1, <2>3, <3>1, <3>2 DEF v
    <2>4. CASE ~Sends(r, d, s)
      <3>1. sentOn(Link(r, d)) = {}
        BY <2>2, <2>4 DEF SendsAt
      <3> HIDE DEF sentOn, data, v
      <3> QED
        BY <1>3, <2>1, <2>4, <3>1
    <2> QED
      BY <2>3, <2>4
  <1>5. ASSUME NEW c \in Channels, \A d \in Directions : c # Link(r, d)
        PROVE  wire'[c] = wire[c]
    <2>1. sentOn(c) = {}
      BY <1>5, BatchSplit
    <2> HIDE DEF sentOn
    <2> QED
      BY <1>3, <2>1
  <1>6. \A c \in Channels : credit'[c] = credit[c] + Cardinality(recvOn(c))
                                           - Cardinality(sentOn(c))
    BY <1>3
  <1>7. DOMAIN wire' = Channels /\ DOMAIN credit' = Channels
    BY <1>3
  <1> HIDE DEF sentOn, recvOn
  <1> QED
    BY <1>3, <1>4, <1>5, <1>6, <1>7 DEF m, s, sentOn, recvOn

LEMMA PostCredit ==
  ASSUME IInv, NEW r \in Ranks, Post(r), NEW c \in Channels, credit[c] \in Int
  PROVE  /\ \A d \in Directions :
              /\ c = Link(r, d) => credit'[c] = credit[c] - One(Sends(r, d, step[r]))
              /\ c = Link(Beside(r, d), Back(d))
                   => credit'[c] = credit[c] + One(Takes(r, d, step[r]))
         /\ (\A d \in Directions : c # Link(r, d) /\ c # Link(Beside(r, d), Back(d)))
              => credit'[c] = credit[c]
  <1> DEFINE m == op[r]
             s == step[r]
             sentOn == SentOn(m, r, s, c)
             recvOn == RecvOn(m, r, s, c)
  <1>1. credit'[c] = credit[c] + Cardinality(recvOn) - Cardinality(sentOn)
    BY PostEffect
  <1>2. /\ \A d \in Directions : c = Link(r, d) => sentOn = SendsAt(m, r, d, s)
        /\ (\A d \in Directions : c # Link(r, d)) => sentOn = {}
        /\ \A d \in Directions : c = Link(Beside(r, d), Back(d)) => recvOn = TakesAt(r, d, s)
        /\ (\A d \in Directions : c # Link(Beside(r, d), Back(d))) => recvOn = {}
    BY BatchSplit
  <1>3. \A d \in Directions : Link(r, d) # Link(Beside(r, d), Back(d))
                              /\ Link(r, d) # Link(Beside(r, Back(d)), Back(Back(d)))
    <2> SUFFICES ASSUME NEW d \in Directions
                 PROVE  /\ Link(r, d) # Link(Beside(r, d), Back(d))
                        /\ Link(r, d) # Link(Beside(r, Back(d)), Back(Back(d)))
      OBVIOUS
    <2>1. /\ Beside(r, d) # r /\ Back(d) \in Directions /\ Beside(r, d) \in Ranks
          /\ Beside(r, Back(d)) # r /\ Back(Back(d)) \in Directions
          /\ Beside(r, Back(d)) \in Ranks
      BY BesideFacts
    <2> QED
      BY <2>1, LinkFacts
  <1>4. \A d, e \in Directions : e = d \/ e = Back(d)
    BY DEF Directions, Back
  <1>5. /\ Cardinality({}) = 0 /\ \A o : Cardinality({o}) = 1
    BY FS_EmptySet, FS_Singleton
  <1>6. \A d \in Directions : /\ Cardinality(SendsAt(m, r, d, s)) = One(Sends(r, d, s))
                              /\ Cardinality(TakesAt(r, d, s)) = One(Takes(r, d, s))
    BY <1>5 DEF SendsAt, TakesAt, One
  <1> HIDE DEF sentOn, recvOn, m, s
  <1>7. ASSUME NEW d \in Directions, c = Link(r, d)
        PROVE  credit'[c] = credit[c] - One(Sends(r, d, s))
    <2>1. recvOn = {}
      BY <1>2, <1>3, <1>4, <1>7
    <2>2. Cardinality(sentOn) = One(Sends(r, d, s)) /\ One(Sends(r, d, s)) \in Int
      BY <1>2, <1>6, <1>7 DEF One
    <2> QED
      BY <1>1, <1>5, <2>1, <2>2
  <1>8. ASSUME NEW d \in Directions, c = Link(Beside(r, d), Back(d))
        PROVE  credit'[c] = credit[c] + One(Takes(r, d, s))
    <2>1. sentOn = {}
      BY <1>2, <1>3, <1>4, <1>8
    <2>2. Cardinality(recvOn) = One(Takes(r, d, s)) /\ One(Takes(r, d, s)) \in Int
      BY <1>2, <1>6, <1>8 DEF One
    <2> QED
      BY <1>1, <1>5, <2>1, <2>2
  <1>9. ASSUME \A d \in Directions : c # Link(r, d) /\ c # Link(Beside(r, d), Back(d))
        PROVE  credit'[c] = credit[c]
    <2>1. sentOn = {} /\ recvOn = {}
      BY <1>2, <1>9
    <2> QED
      BY <1>1, <1>5, <2>1
  <1> QED
    BY <1>7, <1>8, <1>9 DEF s

LEMMA PostKeeps ==
  ASSUME IInv, NEW r \in Ranks, Post(r)
  PROVE  IInv'
  <1> DEFINE m == op[r]
             s == step[r]
  <1>1. /\ mode' = mode /\ op' = op /\ step' = step /\ x' = x /\ held' = held /\ got' = got
        /\ at[r] = "post" /\ at' = [at EXCEPT ![r] = "wait"]
    BY DEF Post
  <1>2. /\ mode \in Modes
        /\ \A q \in Ranks : PlaceInv(q) /\ DataInv(q)
        /\ \A q \in Ranks, d \in Directions : WireInv(q, d)
        /\ DOMAIN at = Ranks /\ DOMAIN issued = Ranks /\ DOMAIN pending = Ranks
    BY DEF IInv, Shapes
  <1>3. m \in 1..MaxOps /\ s \in 1..Steps /\ m \in Int /\ s \in Int
    BY <1>2, StepsFacts, InputAssumption DEF PlaceInv
  <1>4. /\ issued' = [issued EXCEPT ![r] = OpsAt(m, r, s)]
        /\ pending' = [pending EXCEPT ![r] = {}]
        /\ DOMAIN wire' = Channels /\ DOMAIN credit' = Channels
    BY PostEffect
  <1>5. Shapes'
    BY <1>1, <1>4 DEF IInv, Shapes
  <1>6. ASSUME NEW q \in Ranks
        PROVE  PlaceInv(q)' /\ DataInv(q)'
    <2>1. CASE q = r
      <3>1. Steps' = Steps
        BY <1>1, Frame
      <3>2. /\ at'[r] = "wait" /\ issued'[r] = OpsAt(m, r, s) /\ pending'[r] = {}
        BY <1>1, <1>2, <1>4
      <3>3. got[r] = NoMail(r)
        BY <1>1, <1>2 DEF PlaceInv
      <3>4. NoMail(r)' = NoMail(r)
        BY DEF NoMail
      <3>5. OpsAt(op[r], r, step[r])' = OpsAt(op[r], r, step[r])
        BY <1>1, Frame
      <3>6. PlaceInv(r)'
        BY <1>1, <1>3, <3>1, <3>2, <3>3, <3>4, <3>5 DEF PlaceInv
      <3>7. Used(r)' = Used(r)
        BY <1>1, <3>2 DEF Used
      <3>8. DataInv(r)'
        BY <1>1, <1>2, <3>7, Frame DEF DataInv
      <3> QED
        BY <2>1, <3>6, <3>8
    <2>2. CASE q # r
      BY <1>1, <1>2, <1>4, <2>2, OthersStay
    <2> QED
      BY <2>1, <2>2
  <1>7. /\ \A q \in Ranks : Taken(q)' = Taken(q)
        /\ \A q \in Ranks : q # r => Posted(q)' = Posted(q)
        /\ Posted(r) = s - 1 /\ Posted(r)' = s
    BY <1>1, <1>2 DEF Taken, Posted
  <1>8. \A q \in Ranks, d \in Directions : TakenAll(q, d)' = TakenAll(q, d)
    BY <1>1, <1>7, Frame, BesideFacts DEF TakenAll
  <1>9. \A q \in Ranks, d \in Directions : q # r => SentAll(q, d)' = SentAll(q, d)
    BY <1>1, <1>7, Frame DEF SentAll
  <1>10. \A q \in Ranks, d \in Directions : Beside(q, d) # r => AskedAll(q, d)' = AskedAll(q, d)
    BY <1>1, <1>7, Frame, BesideFacts DEF AskedAll
  <1>11. ASSUME NEW d \in Directions
         PROVE  SentAll(r, d)' = SentAll(r, d) + One(Sends(r, d, s))
    <2>1. SentIn(r, d, s) = SentIn(r, d, s - 1) + One(Sends(r, d, s))
      BY <1>2, <1>3, Counts
    <2>2. SentAll(r, d)' = PerCall(d) * (m - 1) + SentIn(r, d, s)
      BY <1>1, <1>7, Frame DEF SentAll
    <2>3. SentAll(r, d) = PerCall(d) * (m - 1) + SentIn(r, d, s - 1)
      BY <1>7 DEF SentAll
    <2>4. PerCall(d) * (m - 1) \in Int /\ One(Sends(r, d, s)) \in Int
      BY <1>2, <1>3, PerCallFacts DEF One
    <2>5. SentIn(r, d, s - 1) \in Int
      <3>1. s - 1 \in 0..Steps
        BY <1>2, <1>3, StepsFacts
      <3>2. SentIn(r, d, s - 1) \in 0..PerCall(d)
        BY <1>2, <3>1, Counts
      <3> QED
        BY <3>2
    <2> QED
      BY <2>1, <2>2, <2>3, <2>4, <2>5
  <1>12. ASSUME NEW d \in Directions
         PROVE  LET q == Beside(r, d) IN
                AskedAll(q, Back(d))' = AskedAll(q, Back(d)) + One(Takes(r, d, s))
    <2> DEFINE q == Beside(r, d)
               e == Back(d)
    <2>0. q \in Ranks /\ e \in Directions /\ Beside(q, e) = r /\ Back(e) = d
      BY BesideFacts
    <2> HIDE DEF q, e
    <2>1. TakenIn(r, d, s) = TakenIn(r, d, s - 1) + One(Takes(r, d, s))
      BY <1>2, <1>3, Counts
    <2>2. AskedAll(q, e)' = PerCall(e) * (m - 1) + TakenIn(r, d, s)
      BY <1>1, <1>7, <2>0, Frame DEF AskedAll
    <2>3. AskedAll(q, e) = PerCall(e) * (m - 1) + TakenIn(r, d, s - 1)
      BY <1>7, <2>0 DEF AskedAll
    <2>4. PerCall(e) * (m - 1) \in Int /\ One(Takes(r, d, s)) \in Int
      BY <1>2, <1>3, <2>0, PerCallFacts DEF One
    <2>5. TakenIn(r, d, s - 1) \in Int
      <3>1. s - 1 \in 0..Steps
        BY <1>2, <1>3, StepsFacts
      <3>2. TakenIn(r, d, s - 1) \in 0..PerCall(Back(d))
        BY <1>2, <3>1, Counts
      <3> QED
        BY <3>2
    <2>6. AskedAll(q, e)' = AskedAll(q, e) + One(Takes(r, d, s))
      BY <2>1, <2>2, <2>3, <2>4, <2>5
    <2> QED
      BY <2>6 DEF q, e
  <1>13. \A q \in Ranks, d \in Directions :
           /\ SentAll(q, d) \in Int /\ TakenAll(q, d) \in Int /\ AskedAll(q, d) \in Int
           /\ credit[Link(q, d)] \in Int
    <2>1. \A q \in Ranks, d \in Directions :
            SentAll(q, d) \in Int /\ TakenAll(q, d) \in Int /\ AskedAll(q, d) \in Int
      BY <1>2, PlaceFacts
    <2> QED
      BY <1>2, <2>1 DEF WireInv
  <1>14. ASSUME NEW q \in Ranks, NEW d \in Directions
         PROVE  WireInv(q, d)'
    <2> DEFINE c == Link(q, d)
    <2>1. /\ Carries(q, d, wire[c], SentAll(q, d), TakenAll(q, d))
          /\ credit[c] = AskedAll(q, d) - SentAll(q, d)
          /\ c \in Channels /\ c' = c
      BY <1>1, <1>2, LinkFacts, Frame DEF WireInv
    <2>2. CASE q = r
      <3>1. Beside(q, d) # r
        BY <2>2, BesideFacts
      <3>2. credit'[c] = credit[c] - One(Sends(r, d, s))
        BY <1>13, <2>1, <2>2, PostCredit
      <3>3. wire'[c] = IF Sends(r, d, s)
              THEN Append(wire[c], Payload(m, r, d, SentIn(r, d, s))) ELSE wire[c]
        BY <2>2, PostEffect
      <3>4. CASE Sends(r, d, s)
        <4> DEFINE j == SentIn(r, d, s)
        <4>1. One(Sends(r, d, s)) = 1
          BY <3>4 DEF One
        <4>2. j \in 1..PerCall(d)
          <5>1. j = SentIn(r, d, s - 1) + 1
            BY <3>4 DEF Sends
          <5>2. s - 1 \in 0..Steps /\ s \in 0..Steps
            BY <1>2, <1>3, StepsFacts
          <5>3. SentIn(r, d, s - 1) \in 0..PerCall(d) /\ j \in 0..PerCall(d)
            BY <1>2, <5>2, Counts
          <5> QED
            BY <5>1, <5>3
        <4>3. SentAll(r, d)' = PerCall(d) * (m - 1) + j
          BY <1>1, <1>7, Frame DEF SentAll
        <4>4. SentAll(r, d)' = SentAll(r, d) + 1
          BY <1>11, <4>1
        <4> HIDE DEF j, m, s, c
        <4>5. Carries(r, d, Append(wire[c], Payload(m, r, d, j)), SentAll(r, d) + 1,
                      TakenAll(r, d))
          BY <1>2, <1>3, <1>13, <2>1, <2>2, <4>2, <4>3, <4>4, CarriesMore
        <4>6. Carries(r, d, wire'[c], SentAll(r, d)', TakenAll(r, d)')
          BY <1>8, <3>3, <3>4, <4>4, <4>5 DEF j
        <4>7. credit'[c] = AskedAll(r, d)' - SentAll(r, d)'
          BY <1>10, <1>13, <2>1, <2>2, <3>1, <3>2, <4>1, <4>4
        <4>8. Carries(r, d, wire[c], SentAll(r, d), TakenAll(r, d))'
          BY <1>1, <2>1, <4>6, Frame
        <4> QED
          BY <2>1, <2>2, <4>7, <4>8 DEF WireInv, c
      <3>5. CASE ~Sends(r, d, s)
        <4>1. One(Sends(r, d, s)) = 0
          BY <3>5 DEF One
        <4>2. SentAll(r, d)' = SentAll(r, d)
          BY <1>11, <1>13, <4>1
        <4>3. AskedAll(r, d)' = AskedAll(r, d)
          BY <1>10, <2>2, <3>1
        <4>4. wire'[c] = wire[c] /\ credit'[c] = credit[c]
          BY <1>13, <3>2, <3>3, <3>5, <4>1
        <4> QED
          BY <1>1, <1>2, <1>8, <2>2, <4>2, <4>3, <4>4, LinkStays
      <3> QED
        BY <3>4, <3>5
    <2>3. CASE q # r /\ Beside(q, d) = r
      <3> DEFINE e == Back(d)
      <3>1. e \in Directions /\ Beside(r, e) = q /\ Back(e) = d
        BY <2>3, BesideFacts
      <3> HIDE DEF e
      <3>2. credit'[c] = credit[c] + One(Takes(r, e, s))
        BY <1>13, <2>1, <3>1, PostCredit
      <3>3. wire'[c] = wire[c]
        BY <2>1, <2>3, LinkFacts, PostEffect
      <3>4. AskedAll(q, d)' = AskedAll(q, d) + One(Takes(r, e, s))
        BY <1>12, <3>1
      <3>5. SentAll(q, d)' = SentAll(q, d) /\ TakenAll(q, d)' = TakenAll(q, d)
        BY <1>8, <1>9, <2>3
      <3>6. Carries(q, d, wire[c], SentAll(q, d), TakenAll(q, d))'
        <4>1. Carries(q, d, wire'[c'], SentAll(q, d)', TakenAll(q, d)')
          BY <2>1, <3>3, <3>5
        <4> QED
          BY <1>1, <4>1, Frame
      <3>7. credit'[c] = AskedAll(q, d)' - SentAll(q, d)'
        <4>1. One(Takes(r, e, s)) \in Int
          BY DEF One
        <4> QED
          BY <1>13, <2>1, <3>2, <3>4, <3>5, <4>1
      <3> QED
        BY <2>1, <3>6, <3>7 DEF WireInv
    <2>4. CASE q # r /\ Beside(q, d) # r
      <3>1. \A e \in Directions : c # Link(r, e) /\ c # Link(Beside(r, e), Back(e))
        <4> SUFFICES ASSUME NEW e \in Directions
                     PROVE  c # Link(r, e) /\ c # Link(Beside(r, e), Back(e))
          OBVIOUS
        <4>1. Link(Beside(r, e), Back(e)) = <<Group(r, Beside(r, e)), Beside(r, e), r>>
          BY LinkFacts
        <4> QED
          BY <2>4, <4>1, LinkFacts DEF Link
      <3>2. wire'[c] = wire[c] /\ credit'[c] = credit[c]
        BY <1>13, <2>1, <3>1, PostEffect, PostCredit
      <3> QED
        BY <1>1, <1>2, <1>8, <1>9, <1>10, <2>4, <3>2, LinkStays
    <2> QED
      BY <2>2, <2>3, <2>4
  <1>15. IdleInv'
    <2> SUFFICES ASSUME NEW c \in Channels, c[1] # Group(c[2], c[3])'
                 PROVE  wire'[c] = <<>> /\ credit'[c] = 0
      BY DEF IdleInv
    <2>1. c[1] # Group(c[2], c[3])
      BY <1>1 DEF Group
    <2>2. wire[c] = <<>> /\ credit[c] = 0
      BY <2>1 DEF IInv, IdleInv
    <2>3. \A d \in Directions : c # Link(r, d) /\ c # Link(Beside(r, d), Back(d))
      BY <2>1, IdleLinks, BesideFacts
    <2> QED
      BY <2>2, <2>3, PostEffect, PostCredit
  <1> QED
    BY <1>5, <1>6, <1>14, <1>15 DEF IInv

-----------------------------------------------------------------------------
(***************************************************************************)
(* Complete and Leave.                                                     *)
(***************************************************************************)

\* A step that ends with its mail takes the rank to its next place.
LEMMA FinishEffect ==
  ASSUME IInv, NEW r \in Ranks, at[r] \in {"wait", "barrier"},
         Finish(r, MailAt(op[r], r, step[r])),
         mode' = mode, op' = op, pending' = pending, issued'[r] = {}
  PROVE  /\ PlaceInv(r)' /\ DataInv(r)'
         /\ Posted(r)' = step[r] /\ Taken(r)' = step[r]
         /\ DOMAIN at' = Ranks /\ DOMAIN step' = Ranks /\ DOMAIN got' = Ranks
         /\ DOMAIN x' = Ranks /\ DOMAIN held' = Ranks
         /\ \A q \in Ranks : q # r =>
              /\ at'[q] = at[q] /\ step'[q] = step[q] /\ got'[q] = got[q]
              /\ x'[q] = x[q] /\ held'[q] = held[q]
  <1>1. /\ mode \in Modes /\ PlaceInv(r) /\ DataInv(r)
        /\ DOMAIN at = Ranks /\ DOMAIN step = Ranks /\ DOMAIN got = Ranks
        /\ DOMAIN x = Ranks /\ DOMAIN held = Ranks
    BY DEF IInv, Shapes
  <1>2. PICK m \in 1..MaxOps, s \in 1..Steps : m = op[r] /\ s = step[r]
    BY <1>1 DEF PlaceInv
  <1>3. s \in Int /\ Steps \in Nat /\ Steps >= 2 /\ 1 <= s /\ s <= Steps
    BY <1>1, StepsFacts
  <1>4. Holds(m, r, s - 1)
    BY <1>1, <1>2 DEF DataInv, Used, Holds
  <1>5. /\ Apply(r, s, MailAt(m, r, s))
        /\ got' = [got EXCEPT ![r] = NoMail(r)]
        /\ s < Steps => /\ at' = [at EXCEPT ![r] = "post"]
                        /\ step' = [step EXCEPT ![r] = s + 1]
        /\ ~(s < Steps) => /\ at' = [at EXCEPT ![r] = "returned"]
                           /\ step' = step
    BY <1>2 DEF Finish
  <1>6. After(m, r, s)
    BY <1>1, <1>4, <1>5, ApplyStep
  <1>7. /\ at'[r] = IF s < Steps THEN "post" ELSE "returned"
        /\ step'[r] = IF s < Steps THEN s + 1 ELSE s
        /\ got'[r] = NoMail(r) /\ op'[r] = m
    BY <1>1, <1>2, <1>5
  <1>8. Posted(r)' = s /\ Taken(r)' = s /\ Used(r)' = s
    BY <1>3, <1>7 DEF Posted, Taken, Used
  <1>9. PlaceInv(r)'
    <2>1. Steps' = Steps /\ NoMail(r)' = NoMail(r)
      BY Frame DEF NoMail
    <2>2. pending'[r] = {}
      BY <1>1 DEF PlaceInv
    <2> QED
      BY <1>3, <1>7, <2>1, <2>2 DEF PlaceInv
  <1>10. DataInv(r)'
    BY <1>6, <1>7, <1>8, Frame DEF DataInv, After, Holds
  <1>11. /\ \A q \in Ranks : q # r => at'[q] = at[q]
         /\ \A q \in Ranks : q # r => step'[q] = step[q]
         /\ \A q \in Ranks : q # r => got'[q] = got[q]
         /\ DOMAIN at' = Ranks /\ DOMAIN step' = Ranks /\ DOMAIN got' = Ranks
    BY <1>1, <1>5
  <1>12. /\ \A q \in Ranks : q # r => x'[q] = x[q] /\ held'[q] = held[q]
         /\ DOMAIN x' = Ranks /\ DOMAIN held' = Ranks
    BY <1>6 DEF After
  <1> QED
    BY <1>2, <1>8, <1>9, <1>10, <1>11, <1>12

\* The receives of a step, and the channels they take from.
Receives(m, r, s) == {o \in OpsAt(m, r, s) : o.kind = "recv"}

TakenFrom(m, r, s) == {ChannelOf(r, o) : o \in Receives(m, r, s)}

LEMMA StepReceives ==
  ASSUME NEW m, NEW r \in Ranks, NEW s
  PROVE  /\ \A d \in Directions : Recv(Beside(r, d)) \in Receives(m, r, s) <=> Takes(r, d, s)
         /\ \A d \in Directions : Takes(r, d, s) =>
              ChannelOf(r, Recv(Beside(r, d))) = Link(Beside(r, d), Back(d))
         /\ \A c : c \in TakenFrom(m, r, s) <=>
              \E d \in Directions : Takes(r, d, s) /\ c = Link(Beside(r, d), Back(d))
  <1> DEFINE a == "right"
             b == "left"
             recvs == Receives(m, r, s)
  <1>1. a \in Directions /\ b \in Directions /\ Directions = {a, b}
    BY DEF Directions
  <1>2. \A d \in Directions :
          /\ \A o \in SendsAt(m, r, d, s) : o.kind = "send"
          /\ \A o \in TakesAt(r, d, s) :
               o.kind = "recv" /\ ChannelOf(r, o) = Link(Beside(r, d), Back(d))
    BY OpChannels
  <1>3. OpsAt(m, r, s) = SendsAt(m, r, a, s) \cup SendsAt(m, r, b, s)
                           \cup TakesAt(r, a, s) \cup TakesAt(r, b, s)
    BY DEF OpsAt
  <1>4. recvs = TakesAt(r, a, s) \cup TakesAt(r, b, s)
    BY <1>1, <1>2, <1>3 DEF Receives
  <1> HIDE DEF recvs
  <1>5. \A d \in Directions : Takes(r, d, s) => Recv(Beside(r, d)) \in recvs
    BY <1>1, <1>4 DEF TakesAt
  <1>6. ASSUME NEW d \in Directions, Recv(Beside(r, d)) \in recvs
        PROVE  Takes(r, d, s)
    <2>1. PICK e \in Directions : Recv(Beside(r, d)) \in TakesAt(r, e, s)
      BY <1>1, <1>4, <1>6
    <2>2. Takes(r, e, s) /\ Recv(Beside(r, d)) = Recv(Beside(r, e))
      BY <2>1 DEF TakesAt
    <2>3. Beside(r, d) = Beside(r, e)
      BY <2>2 DEF Recv
    <2>4. d = e
      BY <1>1, <2>3, Around DEF Beside
    <2> QED
      BY <2>2, <2>4
  <1>7. \A d \in Directions : Takes(r, d, s) =>
          ChannelOf(r, Recv(Beside(r, d))) = Link(Beside(r, d), Back(d))
    BY <1>2 DEF TakesAt
  <1>8. ASSUME NEW c
        PROVE  c \in TakenFrom(m, r, s) <=>
                 \E d \in Directions : Takes(r, d, s) /\ c = Link(Beside(r, d), Back(d))
    <2>1. ASSUME \E o \in recvs : c = ChannelOf(r, o)
          PROVE  \E d \in Directions : Takes(r, d, s) /\ c = Link(Beside(r, d), Back(d))
      <3>1. PICK o \in recvs : c = ChannelOf(r, o)
        BY <2>1
      <3>2. PICK d \in Directions : o \in TakesAt(r, d, s)
        BY <1>1, <1>4, <3>1
      <3>3. Takes(r, d, s)
        BY <3>2 DEF TakesAt
      <3> QED
        BY <1>2, <3>1, <3>2, <3>3
    <2>2. ASSUME NEW d \in Directions, Takes(r, d, s), c = Link(Beside(r, d), Back(d))
          PROVE  \E o \in recvs : c = ChannelOf(r, o)
      BY <1>5, <1>7, <2>2
    <2>3. c \in TakenFrom(m, r, s) <=> \E o \in recvs : c = ChannelOf(r, o)
      BY DEF TakenFrom, recvs
    <2> QED
      BY <2>1, <2>2, <2>3
  <1> QED
    BY <1>5, <1>6, <1>7, <1>8 DEF recvs

\* A receive takes the message that its step of its call is waiting for.
LEMMA NextOnWire ==
  ASSUME IInv, NEW r \in Ranks, at[r] = "wait", NEW d \in Directions,
         NEW m \in 1..MaxOps, NEW s \in 1..Steps, m = op[r], s = step[r],
         Takes(r, d, s), wire[Link(Beside(r, d), Back(d))] # <<>>
  PROVE  Head(wire[Link(Beside(r, d), Back(d))])
           = Payload(m, Beside(r, d), Back(d), TakenIn(r, d, s))
  <1> DEFINE q == Beside(r, d)
             e == Back(d)
             w == wire[Link(q, e)]
             j == TakenIn(r, d, s)
  <1>1. /\ mode \in Modes /\ \A p \in Ranks : PlaceInv(p)
        /\ q \in Ranks /\ e \in Directions /\ Beside(q, e) = r /\ Back(e) = d
    BY BesideFacts DEF IInv, Shapes
  <1> HIDE DEF q, e
  <1>2. Carries(q, e, w, SentAll(q, e), TakenAll(q, e))
    BY <1>1 DEF IInv, WireInv
  <1>3. SentAll(q, e) \in Int /\ TakenAll(q, e) \in Int
    BY <1>1, PlaceFacts
  <1>4. Taken(r) = s - 1
    BY DEF Taken
  <1>5. j = TakenIn(r, d, s - 1) + 1
    BY DEF Takes
  <1>6. TakenIn(r, d, s - 1) \in 0..PerCall(e) /\ j \in 0..PerCall(e)
    <2>1. s - 1 \in 0..Steps /\ s \in 0..Steps
      BY <1>1, StepsFacts
    <2> QED
      BY <1>1, <2>1, Counts DEF e
  <1>7. TakenAll(q, e) = PerCall(e) * (m - 1) + TakenIn(r, d, s - 1)
    BY <1>1, <1>4 DEF TakenAll
  <1> HIDE DEF j
  <1>8. PerCall(e) \in Nat /\ j \in 1..PerCall(e)
    BY <1>1, <1>5, <1>6, PerCallFacts
  <1>9. TakenAll(q, e) + 1 = PerCall(e) * (m - 1) + j
    <2> DEFINE n == PerCall(e) * (m - 1)
    <2>1. m \in Int
      BY InputAssumption
    <2>2. n \in Int /\ TakenAll(q, e) = n + TakenIn(r, d, s - 1)
      BY <1>1, <1>7, <2>1, PerCallFacts
    <2> HIDE DEF n
    <2>3. TakenAll(q, e) + 1 = n + j
      BY <1>5, <1>6, <2>2 DEF j
    <2> QED
      BY <2>3 DEF n
  <1>10. w # <<>>
    BY DEF q, e
  <1> HIDE DEF w
  <1>11. Head(w) = Payload(m, q, e, j)
    BY <1>1, <1>2, <1>3, <1>8, <1>9, <1>10, CarriesLess
  <1> QED
    BY <1>11 DEF q, e, w, j

LEMMA CompleteEffect ==
  ASSUME IInv, NEW r \in Ranks, Complete(r)
  PROVE  LET mail == MailAt(op[r], r, step[r])
             from(d) == Link(Beside(r, d), Back(d))
         IN
         /\ issued' = [issued EXCEPT ![r] = {}]
         /\ \A d \in Directions : Takes(r, d, step[r]) =>
              wire[from(d)] # <<>> /\ wire'[from(d)] = Tail(wire[from(d)])
         /\ \A c \in Channels :
              (\A d \in Directions : Takes(r, d, step[r]) => c # from(d)) => wire'[c] = wire[c]
         /\ DOMAIN wire' = Channels
         /\ \/ Finish(r, mail)
            \/ /\ got' = [got EXCEPT ![r] = mail]
               /\ at' = [at EXCEPT ![r] = "barrier"]
               /\ UNCHANGED <<step, x, held>>
  <1>1. /\ PlaceInv(r) /\ mode \in Modes /\ at[r] = "wait"
    BY DEF IInv, Shapes, Complete
  <1>2. PICK m \in 1..MaxOps, s \in 1..Steps : m = op[r] /\ s = step[r]
    BY <1>1 DEF PlaceInv
  <1> DEFINE recvs == {o \in issued[r] : o.kind = "recv"}
             taken == {ChannelOf(r, o) : o \in recvs}
             mail == [p \in Neighbours(r) |->
                        IF Recv(p) \in recvs THEN Head(wire[ChannelOf(r, Recv(p))])
                                             ELSE got[r][p]]
             from(d) == Link(Beside(r, d), Back(d))
  <1>3. /\ \A c \in taken : wire[c] # <<>>
        /\ wire' = [c \in Channels |-> IF c \in taken THEN Tail(wire[c]) ELSE wire[c]]
        /\ issued' = [issued EXCEPT ![r] = {}]
        /\ \/ Finish(r, mail)
           \/ /\ got' = [got EXCEPT ![r] = mail]
              /\ at' = [at EXCEPT ![r] = "barrier"]
              /\ UNCHANGED <<step, x, held>>
    BY <1>1 DEF Complete, PlaceInv
  <1>4. /\ issued[r] = OpsAt(m, r, s) /\ got[r] = NoMail(r)
    BY <1>1, <1>2 DEF PlaceInv
  <1>5. /\ \A d \in Directions : Recv(Beside(r, d)) \in recvs <=> Takes(r, d, s)
        /\ \A d \in Directions : Takes(r, d, s) => ChannelOf(r, Recv(Beside(r, d))) = from(d)
        /\ \A c : c \in taken <=> \E d \in Directions : Takes(r, d, s) /\ c = from(d)
    <2>1. recvs = Receives(m, r, s)
      BY <1>4 DEF Receives
    <2>2. taken = TakenFrom(m, r, s)
      BY <2>1 DEF TakenFrom
    <2> HIDE DEF recvs, taken
    <2> QED
      BY <2>1, <2>2, StepReceives
  <1>6. \A d \in Directions : from(d) \in Channels
    BY LinkFacts
  <1>7. \A d \in Directions : Takes(r, d, s) => wire[from(d)] # <<>>
    BY <1>3, <1>5
  <1>8. mail = MailAt(m, r, s)
    <2>1. ASSUME NEW p \in Neighbours(r)
          PROVE  mail[p] = MailAt(m, r, s)[p]
      <3> DEFINE d == IF p = Right(r) THEN "right" ELSE "left"
      <3>1. d \in Directions /\ p = Beside(r, d)
        BY DEF Directions, Beside, Neighbours
      <3> HIDE DEF d
      <3>2. MailAt(m, r, s)[p] = IF Takes(r, d, s)
                                 THEN Payload(m, p, Back(d), TakenIn(r, d, s)) ELSE <<>>
        BY DEF MailAt, d
      <3>3. CASE Takes(r, d, s)
        <4>1. Head(wire[from(d)]) = Payload(m, p, Back(d), TakenIn(r, d, s))
          BY <1>1, <1>2, <1>7, <3>1, <3>3, NextOnWire
        <4>2. mail[p] = Head(wire[from(d)])
          BY <1>5, <3>1, <3>3
        <4> QED
          BY <3>2, <3>3, <4>1, <4>2
      <3>4. CASE ~Takes(r, d, s)
        <4>1. mail[p] = NoMail(r)[p]
          BY <1>4, <1>5, <3>1, <3>4
        <4> QED
          BY <3>2, <3>4, <4>1 DEF NoMail
      <3> QED
        BY <3>3, <3>4
    <2> QED
      BY <2>1 DEF MailAt
  <1> HIDE DEF recvs, taken, mail, from
  <1>9. \A d \in Directions : Takes(r, d, s) => wire'[from(d)] = Tail(wire[from(d)])
    BY <1>3, <1>5, <1>6
  <1>10. \A c \in Channels : (\A d \in Directions : Takes(r, d, s) => c # from(d))
                               => wire'[c] = wire[c]
    BY <1>3, <1>5
  <1>11. DOMAIN wire' = Channels
    BY <1>3
  <1> QED
    BY <1>2, <1>3, <1>7, <1>8, <1>9, <1>10, <1>11 DEF from

LEMMA CompleteKeeps ==
  ASSUME IInv, NEW r \in Ranks, Complete(r)
  PROVE  IInv'
  <1>1. /\ mode' = mode /\ op' = op /\ pending' = pending /\ credit' = credit
        /\ at[r] = "wait"
    BY DEF Complete
  <1>2. /\ mode \in Modes /\ Shapes
        /\ \A q \in Ranks : PlaceInv(q) /\ DataInv(q)
        /\ \A q \in Ranks, d \in Directions : WireInv(q, d)
    BY DEF IInv, Shapes
  <1>3. PICK m \in 1..MaxOps, s \in 1..Steps : m = op[r] /\ s = step[r]
    BY <1>2 DEF PlaceInv
  <1>4. m \in Int /\ s \in Int /\ s - 1 \in 0..Steps /\ s \in 0..Steps
    BY <1>2, StepsFacts, InputAssumption
  <1>5. /\ issued' = [issued EXCEPT ![r] = {}]
        /\ \A d \in Directions : Takes(r, d, s) =>
             LET c == Link(Beside(r, d), Back(d)) IN
             wire[c] # <<>> /\ wire'[c] = Tail(wire[c])
        /\ \A c \in Channels :
             (\A d \in Directions : Takes(r, d, s) => c # Link(Beside(r, d), Back(d)))
               => wire'[c] = wire[c]
        /\ DOMAIN wire' = Channels
        /\ \/ Finish(r, MailAt(m, r, s))
           \/ /\ got' = [got EXCEPT ![r] = MailAt(m, r, s)]
              /\ at' = [at EXCEPT ![r] = "barrier"]
              /\ UNCHANGED <<step, x, held>>
    BY <1>3, CompleteEffect
  <1>6. /\ PlaceInv(r)' /\ DataInv(r)'
        /\ Posted(r)' = s /\ Taken(r)' = s
        /\ DOMAIN at' = Ranks /\ DOMAIN step' = Ranks /\ DOMAIN got' = Ranks
        /\ DOMAIN x' = Ranks /\ DOMAIN held' = Ranks
        /\ \A q \in Ranks : q # r =>
             /\ at'[q] = at[q] /\ step'[q] = step[q] /\ got'[q] = got[q]
             /\ x'[q] = x[q] /\ held'[q] = held[q]
    <2>1. issued'[r] = {}
      BY <1>2, <1>5 DEF Shapes
    <2>2. CASE Finish(r, MailAt(m, r, s))
      BY <1>1, <1>3, <2>1, <2>2, FinishEffect
    <2>3. CASE /\ got' = [got EXCEPT ![r] = MailAt(m, r, s)]
               /\ at' = [at EXCEPT ![r] = "barrier"]
               /\ UNCHANGED <<step, x, held>>
      <3>1. at'[r] = "barrier" /\ got'[r] = MailAt(m, r, s) /\ step'[r] = s /\ op'[r] = m
        BY <1>1, <1>2, <1>3, <2>3 DEF Shapes
      <3>2. Posted(r)' = s /\ Taken(r)' = s /\ Used(r)' = Used(r)
        BY <1>1, <1>3, <3>1 DEF Posted, Taken, Used
      <3>3. MailAt(op[r], r, step[r])' = MailAt(m, r, s)
        BY <1>1, <3>1, Frame
      <3>4. Steps' = Steps /\ pending'[r] = {}
        BY <1>1, <1>2, Frame DEF PlaceInv
      <3>5. PlaceInv(r)'
        BY <1>3, <2>1, <3>1, <3>3, <3>4 DEF PlaceInv
      <3>6. DataInv(r)'
        BY <1>1, <1>2, <2>3, <3>2, Frame DEF DataInv
      <3>7. \A q \in Ranks : q # r => at'[q] = at[q] /\ got'[q] = got[q]
        BY <1>2, <2>3 DEF Shapes
      <3>8. DOMAIN at' = Ranks /\ DOMAIN got' = Ranks
        BY <1>2, <2>3 DEF Shapes
      <3> QED
        BY <1>2, <2>3, <3>2, <3>5, <3>6, <3>7, <3>8 DEF Shapes
    <2> QED
      BY <1>5, <2>2, <2>3
  <1>7. ASSUME NEW q \in Ranks
        PROVE  PlaceInv(q)' /\ DataInv(q)'
    <2>1. CASE q = r
      BY <1>6, <2>1
    <2>2. CASE q # r
      <3>1. issued'[q] = issued[q]
        BY <1>5, <2>2
      <3> QED
        BY <1>1, <1>2, <1>6, <2>2, <3>1, OthersStay
    <2> QED
      BY <2>1, <2>2
  <1>8. Shapes'
    BY <1>1, <1>2, <1>5, <1>6 DEF Shapes
  <1>9. /\ \A q \in Ranks : Posted(q)' = Posted(q)
        /\ \A q \in Ranks : q # r => Taken(q)' = Taken(q)
        /\ Taken(r) = s - 1 /\ Taken(r)' = s
    BY <1>1, <1>3, <1>6 DEF Taken, Posted
  <1>10. \A q \in Ranks, d \in Directions : SentAll(q, d)' = SentAll(q, d)
    BY <1>1, <1>9, Frame DEF SentAll
  <1>11. \A q \in Ranks, d \in Directions : AskedAll(q, d)' = AskedAll(q, d)
    BY <1>1, <1>9, Frame, BesideFacts DEF AskedAll
  <1>12. \A q \in Ranks, d \in Directions : Beside(q, d) # r => TakenAll(q, d)' = TakenAll(q, d)
    BY <1>1, <1>9, Frame, BesideFacts DEF TakenAll
  <1>13. ASSUME NEW d \in Directions, NEW q \in Ranks, NEW e \in Directions,
                Beside(q, e) = r, Back(e) = d, e = Back(d)
         PROVE  TakenAll(q, e)' = TakenAll(q, e) + One(Takes(r, d, s))
    <2>1. TakenIn(r, d, s) = TakenIn(r, d, s - 1) + One(Takes(r, d, s))
      BY <1>2, Counts
    <2>2. TakenAll(q, e)' = PerCall(e) * (m - 1) + TakenIn(r, d, s)
      BY <1>1, <1>3, <1>9, <1>13, Frame DEF TakenAll
    <2>3. TakenAll(q, e) = PerCall(e) * (m - 1) + TakenIn(r, d, s - 1)
      BY <1>3, <1>9, <1>13 DEF TakenAll
    <2>4. PerCall(e) * (m - 1) \in Int /\ One(Takes(r, d, s)) \in Int
      BY <1>2, <1>4, PerCallFacts DEF One
    <2>5. TakenIn(r, d, s - 1) \in Int
      <3>1. TakenIn(r, d, s - 1) \in 0..PerCall(Back(d))
        BY <1>2, <1>4, Counts
      <3> QED
        BY <3>1
    <2> QED
      BY <2>1, <2>2, <2>3, <2>4, <2>5
  <1>14. \A q \in Ranks, d \in Directions :
           SentAll(q, d) \in Int /\ TakenAll(q, d) \in Int /\ AskedAll(q, d) \in Int
    BY <1>2, PlaceFacts
  <1>15. ASSUME NEW q \in Ranks, NEW e \in Directions
         PROVE  WireInv(q, e)'
    <2> DEFINE c == Link(q, e)
               d == Back(e)
    <2>1. /\ Carries(q, e, wire[c], SentAll(q, e), TakenAll(q, e))
          /\ credit[c] = AskedAll(q, e) - SentAll(q, e)
          /\ c \in Channels /\ c' = c
      BY <1>1, <1>2, LinkFacts, Frame DEF WireInv
    <2>2. CASE Beside(q, e) = r /\ Takes(r, d, s)
      <3>1. d \in Directions /\ Beside(r, d) = q /\ Back(d) = e
        BY <2>2, BesideFacts
      <3>2. wire[c] # <<>> /\ wire'[c] = Tail(wire[c])
        BY <1>5, <2>2, <3>1
      <3>3. TakenAll(q, e)' = TakenAll(q, e) + 1
        BY <1>13, <2>2, <3>1 DEF One
      <3> HIDE DEF c
      <3>4. Carries(q, e, Tail(wire[c]), SentAll(q, e), TakenAll(q, e) + 1)
        BY <1>2, <1>14, <2>1, <3>2, CarriesLess
      <3>5. Carries(q, e, wire'[c'], SentAll(q, e)', TakenAll(q, e)')
        BY <1>10, <2>1, <3>2, <3>3, <3>4
      <3>6. Carries(q, e, wire[c], SentAll(q, e), TakenAll(q, e))'
        BY <1>1, <3>5, Frame
      <3>7. credit'[c] = AskedAll(q, e)' - SentAll(q, e)'
        BY <1>1, <1>10, <1>11, <2>1
      <3> QED
        BY <2>1, <3>6, <3>7 DEF WireInv, c
    <2>3. CASE ~(Beside(q, e) = r /\ Takes(r, d, s))
      <3>1. TakenAll(q, e)' = TakenAll(q, e)
        <4>1. CASE Beside(q, e) # r
          BY <1>12, <4>1
        <4>2. CASE Beside(q, e) = r
          <5>1. d \in Directions /\ Back(e) = d /\ e = Back(d) /\ ~Takes(r, d, s)
            BY <2>3, <4>2, BesideFacts
          <5> HIDE DEF d
          <5>2. TakenAll(q, e)' = TakenAll(q, e) + One(Takes(r, d, s))
            BY <1>13, <4>2, <5>1
          <5>3. One(Takes(r, d, s)) = 0
            BY <5>1 DEF One
          <5> QED
            BY <1>14, <5>2, <5>3
        <4> QED
          BY <4>1, <4>2
      <3>2. wire'[c] = wire[c]
        <4>1. ASSUME NEW f \in Directions, Takes(r, f, s), c = Link(Beside(r, f), Back(f))
              PROVE  FALSE
          <5>1. /\ Beside(r, f) \in Ranks /\ Back(f) \in Directions
                /\ Beside(Beside(r, f), Back(f)) = r /\ Back(Back(f)) = f
            BY BesideFacts
          <5>2. q = Beside(r, f) /\ e = Back(f)
            BY <4>1, <5>1, LinkFacts
          <5> QED
            BY <2>3, <4>1, <5>1, <5>2
        <4> QED
          BY <1>5, <2>1, <4>1
      <3> QED
        BY <1>1, <1>2, <1>10, <1>11, <3>1, <3>2, LinkStays
    <2> QED
      BY <2>2, <2>3
  <1>16. IdleInv'
    <2> SUFFICES ASSUME NEW c \in Channels, c[1] # Group(c[2], c[3])'
                 PROVE  wire'[c] = <<>> /\ credit'[c] = 0
      BY DEF IdleInv
    <2>1. c[1] # Group(c[2], c[3])
      BY <1>1 DEF Group
    <2>2. wire[c] = <<>> /\ credit[c] = 0
      BY <2>1 DEF IInv, IdleInv
    <2>3. \A d \in Directions : c # Link(Beside(r, d), Back(d))
      BY <2>1, IdleLinks, BesideFacts
    <2> QED
      BY <1>1, <1>5, <2>2, <2>3
  <1> QED
    BY <1>7, <1>8, <1>15, <1>16 DEF IInv

\* A step that moves nothing on the channels.
LEMMA QuietKeeps ==
  ASSUME IInv, mode' = mode, wire' = wire, credit' = credit, Shapes',
         \A q \in Ranks : PlaceInv(q)' /\ DataInv(q)',
         \A q \in Ranks, d \in Directions :
           /\ SentAll(q, d)' = SentAll(q, d) /\ TakenAll(q, d)' = TakenAll(q, d)
           /\ AskedAll(q, d)' = AskedAll(q, d)
  PROVE  IInv'
  <1>1. \A q \in Ranks, d \in Directions : WireInv(q, d)'
    BY LinkStays DEF IInv
  <1>2. IdleInv'
    BY DEF IInv, IdleInv, Group
  <1> QED
    BY <1>1, <1>2 DEF IInv

LEMMA LeaveKeeps ==
  ASSUME IInv, NEW r \in Ranks, Leave(r)
  PROVE  IInv'
  <1>1. /\ mode' = mode /\ op' = op /\ pending' = pending /\ issued' = issued
        /\ wire' = wire /\ credit' = credit /\ at[r] = "barrier" /\ Finish(r, got[r])
    BY DEF Leave
  <1>2. /\ mode \in Modes /\ Shapes
        /\ \A q \in Ranks : PlaceInv(q) /\ DataInv(q)
    BY DEF IInv, Shapes
  <1>3. issued'[r] = {} /\ got[r] = MailAt(op[r], r, step[r])
    BY <1>1, <1>2 DEF PlaceInv
  <1>4. /\ PlaceInv(r)' /\ DataInv(r)'
        /\ Posted(r)' = step[r] /\ Taken(r)' = step[r]
        /\ DOMAIN at' = Ranks /\ DOMAIN step' = Ranks /\ DOMAIN got' = Ranks
        /\ DOMAIN x' = Ranks /\ DOMAIN held' = Ranks
        /\ \A q \in Ranks : q # r =>
             /\ at'[q] = at[q] /\ step'[q] = step[q] /\ got'[q] = got[q]
             /\ x'[q] = x[q] /\ held'[q] = held[q]
    BY <1>1, <1>3, FinishEffect
  <1>5. ASSUME NEW q \in Ranks
        PROVE  PlaceInv(q)' /\ DataInv(q)'
    <2>1. CASE q = r
      BY <1>4, <2>1
    <2>2. CASE q # r
      BY <1>1, <1>2, <1>4, <2>2, OthersStay
    <2> QED
      BY <2>1, <2>2
  <1>6. Shapes'
    BY <1>1, <1>2, <1>4 DEF Shapes
  <1>7. \A q \in Ranks : Posted(q)' = Posted(q) /\ Taken(q)' = Taken(q)
    BY <1>1, <1>4 DEF Taken, Posted
  <1>8. ASSUME NEW q \in Ranks, NEW d \in Directions
        PROVE  /\ SentAll(q, d)' = SentAll(q, d) /\ TakenAll(q, d)' = TakenAll(q, d)
               /\ AskedAll(q, d)' = AskedAll(q, d)
    BY <1>1, <1>7, Frame, BesideFacts DEF SentAll, TakenAll, AskedAll
  <1> QED
    BY <1>1, <1>5, <1>6, <1>8, QuietKeeps

\* The last message of a call is followed by the first of the next one.
LEMMA NextCallKeeps ==
  ASSUME IInv, NEW r \in Ranks, NextCall(r)
  PROVE  IInv'
  <1>1. /\ mode' = mode /\ pending' = pending /\ issued' = issued /\ got' = got
        /\ wire' = wire /\ credit' = credit /\ at[r] = "returned" /\ op[r] < MaxOps
        /\ op' = [op EXCEPT ![r] = op[r] + 1] /\ step' = [step EXCEPT ![r] = 1]
        /\ x' = [x EXCEPT ![r] = Input[op[r] + 1][r]] /\ held' = [held EXCEPT ![r] = <<>>]
        /\ at' = [at EXCEPT ![r] = "post"]
    BY DEF NextCall
  <1>2. /\ mode \in Modes /\ Shapes
        /\ \A q \in Ranks : PlaceInv(q) /\ DataInv(q)
    BY DEF IInv, Shapes
  <1>3. PICK m \in 1..MaxOps : m = op[r]
    BY <1>2 DEF PlaceInv
  <1>4. m \in Int /\ m + 1 \in 1..MaxOps /\ step[r] = Steps /\ Steps \in Nat /\ Steps >= 2
    BY <1>1, <1>2, <1>3, StepsFacts, InputAssumption DEF PlaceInv
  <1>5. /\ op'[r] = m + 1 /\ step'[r] = 1 /\ at'[r] = "post" /\ held'[r] = <<>>
        /\ x'[r] = Input[m + 1][r]
    BY <1>1, <1>2, <1>3 DEF Shapes
  <1>6. /\ Posted(r)' = 0 /\ Taken(r)' = 0 /\ Used(r)' = 0
        /\ Posted(r) = Steps /\ Taken(r) = Steps
        /\ \A q \in Ranks : q # r => Posted(q)' = Posted(q) /\ Taken(q)' = Taken(q)
    BY <1>1, <1>4, <1>5 DEF Posted, Taken, Used
  <1>7. PlaceInv(r)'
    <2>1. Steps' = Steps /\ NoMail(r)' = NoMail(r)
      BY <1>1, Frame DEF NoMail
    <2>2. pending[r] = {} /\ issued[r] = {} /\ got[r] = NoMail(r)
      BY <1>1, <1>2 DEF PlaceInv
    <2> QED
      BY <1>1, <1>4, <1>5, <2>1, <2>2 DEF PlaceInv
  <1>8. DataInv(r)'
    <2>1. \A c \in Ranks : XAt(m + 1, r, 0, c) = Input[m + 1][r][c]
      BY <1>2, FirstAndLast DEF In
    <2>2. Input[m + 1][r] = [c \in Ranks |-> Input[m + 1][r][c]]
      BY <1>4, InputAssumption
    <2>3. Input[m + 1][r] = [c \in Ranks |-> XAt(m + 1, r, 0, c)]
      BY <2>1, <2>2
    <2>4. HeldAt(m + 1, r, 0) = <<>>
      BY DEF HeldAt
    <2>5. /\ \A c \in Ranks : XAt(op[r], r, Used(r), c)' = XAt(m + 1, r, 0, c)
          /\ HeldAt(op[r], r, Used(r))' = HeldAt(m + 1, r, 0)
      BY <1>1, <1>5, <1>6, Frame
    <2> QED
      BY <1>5, <2>3, <2>4, <2>5 DEF DataInv
  <1>9. ASSUME NEW q \in Ranks
        PROVE  PlaceInv(q)' /\ DataInv(q)'
    <2>1. CASE q = r
      BY <1>7, <1>8, <2>1
    <2>2. CASE q # r
      BY <1>1, <1>2, <2>2, OthersStay
    <2> QED
      BY <2>1, <2>2
  <1>10. Shapes'
    BY <1>1, <1>2 DEF Shapes
  <1>11. \A d \in Directions :
           /\ PerCall(d) * ((m + 1) - 1) = PerCall(d) * (m - 1) + PerCall(d)
           /\ PerCall(d) * (m - 1) \in Int /\ PerCall(d) \in Int
    <2>1. (m + 1) - 1 = m
      BY <1>4
    <2> QED
      BY <1>2, <1>4, <2>1, PerCallFacts
  <1>12. ASSUME NEW q \in Ranks, NEW d \in Directions
         PROVE  SentAll(q, d)' = SentAll(q, d)
    <2>1. CASE q = r
      <3>1. SentIn(r, d, 0) = 0 /\ SentIn(r, d, Steps) = PerCall(d)
        BY <1>2, Counts
      <3>2. SentAll(r, d)' = PerCall(d) * ((m + 1) - 1) + SentIn(r, d, 0)
        BY <1>1, <1>5, <1>6, Frame DEF SentAll
      <3>3. SentAll(r, d) = PerCall(d) * (m - 1) + SentIn(r, d, Steps)
        BY <1>3, <1>6 DEF SentAll
      <3> QED
        BY <1>11, <2>1, <3>1, <3>2, <3>3
    <2>2. CASE q # r
      BY <1>1, <1>6, <2>2, Frame DEF SentAll
    <2> QED
      BY <2>1, <2>2
  <1>13. ASSUME NEW q \in Ranks, NEW d \in Directions
         PROVE  TakenAll(q, d)' = TakenAll(q, d) /\ AskedAll(q, d)' = AskedAll(q, d)
    <2> DEFINE e == Back(d)
    <2>0. Beside(q, d) \in Ranks /\ e \in Directions /\ Back(e) = d
      BY BesideFacts
    <2> HIDE DEF e
    <2>1. CASE Beside(q, d) = r
      <3>1. TakenIn(r, e, 0) = 0 /\ TakenIn(r, e, Steps) = PerCall(d)
        BY <1>2, <2>0, Counts
      <3>2. /\ TakenAll(q, d)' = PerCall(d) * ((m + 1) - 1) + TakenIn(r, e, 0)
            /\ AskedAll(q, d)' = PerCall(d) * ((m + 1) - 1) + TakenIn(r, e, 0)
        BY <1>1, <1>5, <1>6, <2>1, Frame DEF TakenAll, AskedAll, e
      <3>3. /\ TakenAll(q, d) = PerCall(d) * (m - 1) + TakenIn(r, e, Steps)
            /\ AskedAll(q, d) = PerCall(d) * (m - 1) + TakenIn(r, e, Steps)
        BY <1>3, <1>6, <2>1 DEF TakenAll, AskedAll, e
      <3> QED
        BY <1>11, <3>1, <3>2, <3>3
    <2>2. CASE Beside(q, d) # r
      BY <1>1, <1>6, <2>0, <2>2, Frame DEF TakenAll, AskedAll
    <2> QED
      BY <2>1, <2>2
  <1> QED
    BY <1>1, <1>9, <1>10, <1>12, <1>13, QuietKeeps

-----------------------------------------------------------------------------
(***************************************************************************)
(* The theorems.                                                           *)
(***************************************************************************)

LEMMA InitInv == Init => IInv
  <1> SUFFICES ASSUME Init PROVE IInv
    OBVIOUS
  <1>1. mode \in Modes /\ 1 \in 1..MaxOps /\ Steps \in Nat /\ Steps >= 2
    BY StepsFacts, InputAssumption DEF Init
  <1>2. \A r \in Ranks :
          /\ op[r] = 1 /\ step[r] = 1 /\ at[r] = "post" /\ x[r] = Input[1][r]
          /\ held[r] = <<>> /\ pending[r] = {} /\ issued[r] = {} /\ got[r] = NoMail(r)
          /\ Posted(r) = 0 /\ Taken(r) = 0 /\ Used(r) = 0
    BY DEF Init, Posted, Taken, Used
  <1>3. \A c \in Channels : wire[c] = <<>> /\ credit[c] = 0
    BY DEF Init
  <1>4. Shapes
    <2>1. DOMAIN x = Ranks
      BY <1>1, InputAssumption DEF Init
    <2> QED
      BY <2>1 DEF Init, Shapes
  <1>5. ASSUME NEW r \in Ranks
        PROVE  PlaceInv(r) /\ DataInv(r)
    <2>1. PlaceInv(r)
      <3>1. /\ op[r] = 1 /\ step[r] = 1 /\ at[r] = "post"
            /\ pending[r] = {} /\ issued[r] = {} /\ got[r] = NoMail(r)
        BY <1>2
      <3>2. 1 \in 1..Steps
        BY <1>1
      <3> QED
        BY <1>1, <3>1, <3>2 DEF PlaceInv
    <2>2. Input[1][r] = [c \in Ranks |-> XAt(1, r, 0, c)]
      <3>1. \A c \in Ranks : XAt(1, r, 0, c) = Input[1][r][c]
        BY <1>1, FirstAndLast DEF In
      <3>2. Input[1][r] = [c \in Ranks |-> Input[1][r][c]]
        BY <1>1, InputAssumption
      <3> QED
        BY <3>1, <3>2
    <2>3. DataInv(r)
      BY <1>2, <2>2 DEF DataInv, HeldAt
    <2> QED
      BY <2>1, <2>3
  <1>6. ASSUME NEW r \in Ranks, NEW d \in Directions
        PROVE  WireInv(r, d)
    <2>1. Beside(r, d) \in Ranks /\ Back(d) \in Directions /\ Link(r, d) \in Channels
      BY BesideFacts, LinkFacts
    <2>2. PerCall(d) * (1 - 1) = 0
      <3>1. PerCall(d) \in {1, 3, 4}
        BY <1>1, PerCallFacts
      <3> QED
        BY <3>1
    <2>3. SentAll(r, d) = 0 /\ TakenAll(r, d) = 0 /\ AskedAll(r, d) = 0
      <3> DEFINE q == Beside(r, d)
                 e == Back(d)
      <3>1. SentIn(r, d, 0) = 0 /\ TakenIn(q, e, 0) = 0
        BY <1>1, <2>1, Counts
      <3>2. /\ op[r] = 1 /\ op[q] = 1 /\ Posted(r) = 0 /\ Posted(q) = 0 /\ Taken(q) = 0
        BY <1>2, <2>1
      <3> HIDE DEF q, e
      <3>3. /\ SentAll(r, d) = PerCall(d) * (1 - 1) + 0
            /\ TakenAll(r, d) = PerCall(d) * (1 - 1) + 0
            /\ AskedAll(r, d) = PerCall(d) * (1 - 1) + 0
        BY <3>1, <3>2 DEF SentAll, TakenAll, AskedAll, q, e
      <3> QED
        BY <2>2, <3>3
    <2>4. Carries(r, d, <<>>, 0, 0)
      BY DEF Carries
    <2> QED
      BY <1>3, <2>1, <2>3, <2>4 DEF WireInv
  <1>7. IdleInv
    BY <1>3 DEF IdleInv
  <1> QED
    BY <1>4, <1>5, <1>6, <1>7 DEF IInv

LEMMA NextInv == IInv /\ [Next]_vars => IInv'
  <1> SUFFICES ASSUME IInv, [Next]_vars PROVE IInv'
    OBVIOUS
  <1>1. ASSUME NEW r \in Ranks, Post(r) PROVE IInv'
    BY <1>1, PostKeeps
  <1>2. ASSUME NEW r \in Ranks, Complete(r) PROVE IInv'
    BY <1>2, CompleteKeeps
  <1>3. ASSUME NEW r \in Ranks, Leave(r) PROVE IInv'
    BY <1>3, LeaveKeeps
  <1>4. ASSUME NEW r \in Ranks, NextCall(r) PROVE IInv'
    BY <1>4, NextCallKeeps
  <1>5. CASE UNCHANGED vars
    <2>1. /\ mode' = mode /\ op' = op /\ step' = step /\ at' = at /\ x' = x /\ held' = held
          /\ pending' = pending /\ issued' = issued /\ got' = got /\ wire' = wire
          /\ credit' = credit
      BY <1>5 DEF vars
    <2>2. Shapes'
      BY <2>1 DEF IInv, Shapes
    <2>3. \A q \in Ranks : PlaceInv(q)' /\ DataInv(q)'
      BY <2>1, OthersStay DEF IInv
    <2>4. \A q \in Ranks : Posted(q)' = Posted(q) /\ Taken(q)' = Taken(q)
      BY <2>1 DEF Posted, Taken
    <2>5. \A q \in Ranks, d \in Directions :
            /\ SentAll(q, d)' = SentAll(q, d) /\ TakenAll(q, d)' = TakenAll(q, d)
            /\ AskedAll(q, d)' = AskedAll(q, d)
      BY <2>1, <2>4, Frame, BesideFacts DEF SentAll, TakenAll, AskedAll
    <2> QED
      BY <2>1, <2>2, <2>3, <2>5, QuietKeeps
  <1> QED
    BY <1>1, <1>2, <1>3, <1>4, <1>5 DEF Next, RankStep, Terminated

\* Where the ranks stand fixes the tensors and the channels, in every state.
THEOREM Positions == Spec => []IInv
  BY InitInv, NextInv, PTL DEF Spec

LEMMA InvSum == IInv => SumWhenReturned
  <1> SUFFICES ASSUME IInv, NEW r \in Ranks, at[r] = "returned", NEW c \in Ranks
               PROVE  x[r][c] = Total(op[r], c)
    BY DEF SumWhenReturned
  <1>1. mode \in Modes /\ PlaceInv(r) /\ DataInv(r)
    BY DEF IInv, Shapes
  <1>2. Used(r) = Steps
    BY <1>1 DEF Used, PlaceInv
  <1>3. x[r][c] = XAt(op[r], r, Steps, c)
    BY <1>1, <1>2 DEF DataInv
  <1> QED
    BY <1>1, <1>3, FirstAndLast

\* Every call of every schedule returns, on every rank and in every chunk, the
\* sum of the inputs of that call (verify_allreduce_torch), for any inputs, any
\* number of calls, one communicator or two, with or without barriers, and any
\* buffering of the transport.
THEOREM SumReturned == Spec => []SumWhenReturned
  BY Positions, InvSum, PTL

LEMMA InvNothingLeft == IInv => NothingLeft
  <1> SUFFICES ASSUME IInv, AllReturned, NEW c \in Channels
               PROVE  wire[c] = <<>> /\ credit[c] = 0
    BY DEF NothingLeft
  <1>1. mode \in Modes /\ \A r \in Ranks : PlaceInv(r)
    BY DEF IInv, Shapes
  <1>2. CASE c[1] # Group(c[2], c[3])
    BY <1>2 DEF IInv, IdleInv
  <1>3. CASE c[1] = Group(c[2], c[3])
    <2> DEFINE r == c[2]
    <2>1. PICK d \in Directions : r \in Ranks /\ c[3] = Beside(r, d) /\ c = Link(r, d)
      <3>1. r \in Ranks /\ c[3] \in Neighbours(r) /\ c = <<c[1], r, c[3]>>
        BY DEF Channels
      <3>2. PICK d \in Directions : c[3] = Beside(r, d)
        BY <3>1, NeighbourFacts
      <3> QED
        BY <1>3, <3>1, <3>2 DEF Link
    <2> HIDE DEF r
    <2> DEFINE q == Beside(r, d)
               e == Back(d)
    <2>2. q \in Ranks /\ e \in Directions /\ Back(e) = d
      BY <2>1, BesideFacts
    <2> HIDE DEF q, e
    <2>3. \A p \in Ranks : op[p] = MaxOps /\ Posted(p) = Steps /\ Taken(p) = Steps
      BY <1>1 DEF AllReturned, PlaceInv, Posted, Taken
    <2>4. SentIn(r, d, Steps) = PerCall(d) /\ TakenIn(q, e, Steps) = PerCall(d)
      BY <1>1, <2>1, <2>2, Counts
    <2>5. SentAll(r, d) = TakenAll(r, d) /\ SentAll(r, d) = AskedAll(r, d)
      BY <2>1, <2>2, <2>3, <2>4 DEF SentAll, TakenAll, AskedAll, q, e
    <2>6. SentAll(r, d) \in Int
      BY <1>1, <2>1, PlaceFacts
    <2>7. wire[c] \in Seq(AllData) /\ Len(wire[c]) = 0 /\ credit[c] = 0
      <3>1. /\ Carries(r, d, wire[c], SentAll(r, d), TakenAll(r, d))
            /\ credit[c] = AskedAll(r, d) - SentAll(r, d)
        BY <2>1 DEF IInv, WireInv
      <3>2. wire[c] \in Seq(AllData) /\ Len(wire[c]) = SentAll(r, d) - TakenAll(r, d)
        BY <3>1 DEF Carries
      <3>3. Len(wire[c]) = SentAll(r, d) - SentAll(r, d)
        BY <2>5, <3>2
      <3>4. credit[c] = SentAll(r, d) - SentAll(r, d)
        BY <2>5, <3>1
      <3> QED
        BY <2>6, <3>2, <3>3, <3>4
    <2> QED
      BY <2>7
  <1> QED
    BY <1>2, <1>3

\* No message and no posted receive outlives the calls: what one call sends is
\* received by that call, and the next finds the channels empty.
THEOREM LinksEmpty == Spec => []NothingLeft
  BY Positions, InvNothingLeft, PTL

-----------------------------------------------------------------------------
(***************************************************************************)
(* The schedules implement AllReduce.                                      *)
(*                                                                         *)
(* What a rank returns needs what every rank has: from the messages that a *)
(* rank has received, its neighbours have entered the call, and the one    *)
(* that had to hear from the fourth rank first did.                        *)
(***************************************************************************)

LEMMA Reaches ==
  ASSUME NEW k \in {1, 3, 4}, NEW a \in Int, NEW m \in Int, NEW i \in 0..k, NEW j \in 1..k,
         k * (a - 1) + i >= k * (m - 1) + j
  PROVE  a > m \/ (a = m /\ i >= j)
  <1>1. CASE k = 1
    BY <1>1
  <1>2. CASE k = 3
    BY <1>2
  <1>3. CASE k = 4
    BY <1>3
  <1> QED
    BY <1>1, <1>2, <1>3

LEMMA Later ==
  ASSUME NEW k \in {1, 3, 4}, NEW a \in Int, NEW m \in Int, NEW i \in 0..k, a > m
  PROVE  k * (a - 1) + i >= k * (m - 1) + 1
  <1>1. CASE k = 1
    BY <1>1
  <1>2. CASE k = 3
    BY <1>2
  <1>3. CASE k = 4
    BY <1>3
  <1> QED
    BY <1>1, <1>2, <1>3

\* Of the messages of a rank, its neighbour has taken no more than were sent.
LEMMA TakenWereSent ==
  ASSUME IInv, NEW r \in Ranks, NEW d \in Directions
  PROVE  TakenAll(r, d) <= SentAll(r, d)
  <1>1. /\ wire[Link(r, d)] \in Seq(AllData)
        /\ Len(wire[Link(r, d)]) = SentAll(r, d) - TakenAll(r, d)
    BY DEF IInv, WireInv, Carries
  <1>2. SentAll(r, d) \in Int /\ TakenAll(r, d) \in Int
    BY PlaceFacts DEF IInv, Shapes
  <1>3. Len(wire[Link(r, d)]) >= 0
    BY <1>1
  <1> QED
    BY <1>1, <1>2, <1>3

\* A rank of which a neighbour has taken the j-th message of a call has sent it.
LEMMA HasSent ==
  ASSUME IInv, NEW q \in Ranks, NEW d \in Directions, NEW m \in Int, NEW j \in 1..PerCall(d),
         TakenAll(q, d) >= PerCall(d) * (m - 1) + j
  PROVE  /\ op[q] > m \/ (op[q] = m /\ SentIn(q, d, Posted(q)) >= j)
         /\ Entered(q) >= m
  <1>1. /\ mode \in Modes /\ \A p \in Ranks : PlaceInv(p)
    BY DEF IInv, Shapes
  <1>2. /\ op[q] \in Int /\ Posted(q) \in 0..Steps
        /\ SentAll(q, d) \in Int /\ TakenAll(q, d) \in Int
    BY <1>1, PlaceFacts
  <1>3. /\ PerCall(d) \in {1, 3, 4} /\ PerCall(d) * (m - 1) \in Int
    BY <1>1, PerCallFacts
  <1>4. SentIn(q, d, Posted(q)) \in 0..PerCall(d) /\ SentIn(q, d, 0) = 0
    BY <1>1, <1>2, Counts
  <1>5. SentAll(q, d) >= PerCall(d) * (m - 1) + j
    <2> DEFINE n == PerCall(d) * (m - 1) + j
    <2>1. n \in Int
      BY <1>3
    <2> HIDE DEF n
    <2>2. TakenAll(q, d) >= n /\ TakenAll(q, d) <= SentAll(q, d)
      BY TakenWereSent DEF n
    <2> QED
      BY <1>2, <2>1, <2>2 DEF n
  <1>6. PerCall(d) * (op[q] - 1) + SentIn(q, d, Posted(q)) >= PerCall(d) * (m - 1) + j
    BY <1>5 DEF SentAll
  <1> DEFINE k == PerCall(d)
             a == op[q]
             i == SentIn(q, d, Posted(q))
  <1>7. a > m \/ (a = m /\ i >= j)
    <2>1. k \in {1, 3, 4} /\ a \in Int /\ i \in 0..k /\ j \in 1..k
          /\ k * (a - 1) + i >= k * (m - 1) + j
      BY <1>2, <1>3, <1>4, <1>6
    <2> HIDE DEF k, a, i
    <2> QED
      BY <2>1, Reaches
  <1>8. Entered(q) >= m
    <2>1. CASE a > m
      BY <1>2, <2>1 DEF Entered
    <2>2. CASE a = m /\ i >= j
      <3>1. Posted(q) # 0
        BY <1>3, <1>4, <2>2
      <3>2. ~(at[q] = "post" /\ step[q] = 1)
        BY <3>1 DEF Posted
      <3> QED
        BY <1>2, <2>2, <3>2 DEF Entered
    <2> QED
      BY <1>7, <2>1, <2>2
  <1> QED
    BY <1>7, <1>8

\* In every schedule, one of the neighbours of a rank sends it its last message
\* only after a message from the fourth rank.
LEMMA HeardFirst ==
  ASSUME mode \in Modes, NEW r \in Ranks
  PROVE  \E d \in Directions :
           LET q == Beside(r, d) IN
           \A n \in 1..Steps : SentIn(q, Back(d), n) = PerCall(Back(d)) =>
             TakenIn(q, d, n - 1) >= 1 /\ TakenIn(q, d, n) >= 1
  <1>1. CASE mode.alg = "pair"
    <2> DEFINE d == Back(Inward(r))
               q == Beside(r, d)
    <2>1. d \in Directions /\ Back(d) \in Directions /\ q \in Ranks /\ Inward(q) = d
          /\ Back(d) # d
      BY Partners, BesideFacts DEF Beside
    <2> HIDE DEF d, q
    <2>2. Steps = 2 /\ PerCall(Back(d)) = 1
      BY <1>1, StepsFacts DEF PerCall
    <2>3. \A n \in 0..2 : /\ SentIn(q, Back(d), n) = IF 2 <= n THEN 1 ELSE 0
                          /\ TakenIn(q, d, n) = IF 1 <= n THEN 1 ELSE 0
      BY <1>1, <2>1, PairSteps
    <2>4. \A n \in 1..2 : SentIn(q, Back(d), n) = 1 =>
             TakenIn(q, d, n - 1) >= 1 /\ TakenIn(q, d, n) >= 1
      BY <2>3
    <2> QED
      BY <2>1, <2>2, <2>4 DEF q
  <1>2. ASSUME mode.alg # "pair"
        PROVE  LET q == Beside(r, "left") IN
               \A n \in 1..Steps : SentIn(q, "right", n) = PerCall("right") =>
                 TakenIn(q, "left", n - 1) >= 1 /\ TakenIn(q, "left", n) >= 1
    <2> DEFINE q == Beside(r, "left")
    <2>1. q \in Ranks
      BY BesideFacts DEF Directions
    <2> HIDE DEF q
    <2>2. CASE mode.alg = "twohop"
      <3>1. Steps = 4 /\ PerCall("right") = 3
        BY <2>2, StepsFacts DEF PerCall
      <3>2. \A n \in 0..4 : /\ SentIn(q, "right", n) = IF n <= 3 THEN n ELSE 3
                            /\ TakenIn(q, "left", n) = IF n <= 3 THEN n ELSE 3
        BY <2>1, <2>2, TwoHopSteps
      <3> QED
        BY <3>1, <3>2 DEF q
    <2>3. CASE mode.alg = "ring"
      <3>1. Steps = 6 /\ PerCall("right") = 3
        BY <2>3, StepsFacts DEF PerCall
      <3>2. \A n \in 0..6 : /\ SentIn(q, "right", n) = IF n <= 3 THEN n ELSE 3
                            /\ TakenIn(q, "left", n) = IF n <= 3 THEN n ELSE 3
        BY <2>1, <2>3, RingSteps
      <3> QED
        BY <3>1, <3>2 DEF q
    <2>4. CASE mode.alg = "kernel"
      <3>1. Steps = 14 /\ PerCall("right") = 4
        BY <2>4, StepsFacts DEF PerCall
      <3>2. \A n \in 0..14 :
              /\ SentIn(q, "right", n) = IF n < 1 THEN 0 ELSE IF n < 2 THEN 1
                                         ELSE IF n < 7 THEN 2 ELSE IF n < 9 THEN 3 ELSE 4
              /\ TakenIn(q, "left", n) = IF n < 3 THEN 0 ELSE IF n < 4 THEN 1
                                         ELSE IF n < 8 THEN 2 ELSE IF n < 10 THEN 3 ELSE 4
        BY <2>1, <2>4, KernelSteps
      <3> QED
        BY <3>1, <3>2 DEF q
    <2> QED
      BY <1>2, <2>2, <2>3, <2>4, ModeFacts DEF q
  <1> QED
    BY <1>1, <1>2 DEF Directions, Back

AllEntered ==
  \A r \in Ranks : at[r] = "returned" => \A q \in Ranks : Entered(q) >= op[r]

LEMMA InvEntered == IInv => AllEntered
  <1> SUFFICES ASSUME IInv, NEW r \in Ranks, at[r] = "returned", NEW p \in Ranks
               PROVE  Entered(p) >= op[r]
    BY DEF AllEntered
  <1>1. mode \in Modes /\ \A q \in Ranks : PlaceInv(q)
    BY DEF IInv, Shapes
  <1>2. PICK m \in 1..MaxOps : m = op[r]
    BY <1>1 DEF PlaceInv
  <1>3. m \in Int /\ Taken(r) = Steps /\ Steps \in Nat /\ Steps >= 2
    BY <1>1, StepsFacts, InputAssumption DEF PlaceInv, Taken
  <1>4. Entered(r) >= op[r]
    BY <1>2, <1>3 DEF Entered
  \* The neighbours have sent all the messages of the call.
  <1>5. ASSUME NEW d \in Directions
        PROVE  LET q == Beside(r, d)
                   e == Back(d)
               IN  /\ op[q] > m \/ (op[q] = m /\ SentIn(q, e, Posted(q)) >= PerCall(e))
                   /\ Entered(q) >= m
    <2> DEFINE q == Beside(r, d)
               e == Back(d)
    <2>1. q \in Ranks /\ e \in Directions /\ Beside(q, e) = r /\ Back(e) = d
      BY BesideFacts
    <2> HIDE DEF q, e
    <2>2. TakenIn(r, d, Steps) = PerCall(e)
      BY <1>1, Counts DEF e
    <2>3. TakenAll(q, e) = PerCall(e) * (m - 1) + PerCall(e)
      BY <1>2, <1>3, <2>1, <2>2 DEF TakenAll
    <2>4. PerCall(e) \in 1..PerCall(e) /\ TakenAll(q, e) \in Int
      <3>1. PerCall(e) \in {1, 3, 4}
        BY <1>1, <2>1, PerCallFacts
      <3>2. PerCall(e) \in 1..PerCall(e)
        BY <3>1
      <3> QED
        BY <1>1, <2>1, <3>2, PlaceFacts
    <2>5. TakenAll(q, e) >= PerCall(e) * (m - 1) + PerCall(e)
      BY <2>3, <2>4
    <2>6. /\ op[q] > m \/ (op[q] = m /\ SentIn(q, e, Posted(q)) >= PerCall(e))
          /\ Entered(q) >= m
      BY <1>3, <2>1, <2>4, <2>5, HasSent
    <2> QED
      BY <2>6 DEF q, e
  \* One of them has heard from the fourth rank.
  <1>6. Entered(Opposite(r)) >= m
    <2>1. PICK d \in Directions :
            \A n \in 1..Steps : SentIn(Beside(r, d), Back(d), n) = PerCall(Back(d)) =>
              /\ TakenIn(Beside(r, d), d, n - 1) >= 1
              /\ TakenIn(Beside(r, d), d, n) >= 1
      BY <1>1, HeardFirst
    <2> DEFINE q == Beside(r, d)
               e == Back(d)
               o == Opposite(r)
    <2>2. /\ q \in Ranks /\ e \in Directions /\ o \in Ranks
          /\ Beside(o, e) = q /\ Back(e) = d
      BY BesideFacts, Around DEF Beside, Back, Directions
    <2>3. op[q] > m \/ (op[q] = m /\ SentIn(q, e, Posted(q)) >= PerCall(e))
      BY <1>5
    <2>4. \A n \in 1..Steps : SentIn(q, e, n) = PerCall(e) =>
            TakenIn(q, d, n - 1) >= 1 /\ TakenIn(q, d, n) >= 1
      BY <2>1
    <2> HIDE DEF q, e, o
    <2>5. /\ op[q] \in Int /\ Posted(q) \in 0..Steps /\ Taken(q) \in 0..Steps
          /\ PerCall(e) \in {1, 3, 4} /\ PerCall(e) * (m - 1) \in Int
      BY <1>1, <1>3, <2>2, PlaceFacts, PerCallFacts
    <2>6. /\ SentIn(q, e, Posted(q)) \in 0..PerCall(e) /\ SentIn(q, e, 0) = 0
          /\ TakenIn(q, d, Taken(q)) \in 0..PerCall(e)
      BY <1>1, <2>2, <2>5, Counts DEF e
    <2>7. TakenAll(o, e) = PerCall(e) * (op[q] - 1) + TakenIn(q, d, Taken(q))
      BY <2>2 DEF TakenAll
    <2>8. TakenAll(o, e) >= PerCall(e) * (m - 1) + 1
      <3>1. CASE op[q] > m
        <4> DEFINE k == PerCall(e)
                   a == op[q]
                   i == TakenIn(q, d, Taken(q))
        <4>1. k \in {1, 3, 4} /\ a \in Int /\ i \in 0..k /\ a > m
          BY <2>5, <2>6, <3>1
        <4> HIDE DEF k, a, i
        <4>2. k * (a - 1) + i >= k * (m - 1) + 1
          BY <1>3, <4>1, Later
        <4> QED
          BY <2>7, <4>2 DEF k, a, i
      <3>2. CASE op[q] = m /\ SentIn(q, e, Posted(q)) >= PerCall(e)
        <4>1. SentIn(q, e, Posted(q)) = PerCall(e) /\ Posted(q) # 0
          BY <2>5, <2>6, <3>2
        <4>2. Posted(q) \in 1..Steps
          BY <1>3, <2>5, <4>1
        <4>3. Taken(q) = Posted(q) \/ Taken(q) = Posted(q) - 1
          BY <1>1, <1>3, <2>2 DEF Taken, Posted, PlaceInv
        <4>4. TakenIn(q, d, Taken(q)) >= 1
          BY <2>4, <4>1, <4>2, <4>3
        <4> DEFINE n == PerCall(e) * (m - 1)
                   i == TakenIn(q, d, Taken(q))
        <4>5. n \in Int /\ i \in Int /\ i >= 1 /\ TakenAll(o, e) = n + i
          BY <2>5, <2>6, <2>7, <3>2, <4>4
        <4> HIDE DEF n, i
        <4>6. TakenAll(o, e) >= n + 1
          BY <4>5
        <4> QED
          BY <4>6 DEF n
      <3> QED
        BY <2>3, <3>1, <3>2
    <2>9. 1 \in 1..PerCall(e)
      BY <2>5
    <2>10. Entered(o) >= m
      BY <1>3, <2>2, <2>8, <2>9, HasSent
    <2> QED
      BY <2>10 DEF o
  <1>7. p = r \/ (\E d \in Directions : p = Beside(r, d)) \/ p = Opposite(r)
    BY AllRanks DEF Beside, Directions
  <1> QED
    BY <1>2, <1>4, <1>5, <1>6, <1>7

\* A buffer holds the sum as soon as its call has returned, its own input before.
Buffers ==
  \A r \in Ranks, m \in 1..MaxOps :
    Buffer(r, m) = IF m > Returned(r) THEN A!Own(r, m) ELSE A!Total(m)

Places ==
  \A r \in Ranks :
    /\ op[r] \in 1..MaxOps
    /\ Entered(r) \in {op[r] - 1, op[r]} /\ Returned(r) \in {op[r] - 1, op[r]}
    /\ Returned(r) <= Entered(r)

MapInv == IInv /\ AllEntered /\ Buffers /\ Places

LEMMA InvMap == IInv => MapInv
  <1> SUFFICES ASSUME IInv PROVE Buffers /\ Places
    BY InvEntered DEF MapInv
  <1>1. /\ mode \in Modes /\ \A r \in Ranks : PlaceInv(r)
    BY DEF IInv, Shapes
  <1>2. ASSUME NEW r \in Ranks
        PROVE  /\ op[r] \in 1..MaxOps /\ op[r] \in Int
               /\ Entered(r) \in {op[r] - 1, op[r]} /\ Returned(r) \in {op[r] - 1, op[r]}
               /\ Returned(r) <= Entered(r)
    BY <1>1, InputAssumption DEF PlaceInv, Entered, Returned
  <1>3. ASSUME NEW r \in Ranks, NEW m \in 1..MaxOps
        PROVE  Buffer(r, m) = IF m > Returned(r) THEN A!Own(r, m) ELSE A!Total(m)
    <2> DEFINE early == m > Returned(r)
               late == m < op[r] \/ HoldsSum(r)
    <2>0. Buffer(r, m) = IF early THEN A!Own(r, m)
                         ELSE IF late THEN A!Total(m) ELSE {}
      BY DEF Buffer, A!Own, A!Total
    <2>1. CASE m > Returned(r)
      <3>1. early
        BY <2>1
      <3> HIDE DEF early, late
      <3>2. Buffer(r, m) = A!Own(r, m)
        BY <2>0, <3>1
      <3> QED
        BY <2>1, <3>2
    <2>2. CASE ~(m > Returned(r))
      <3>1. m \in Int /\ op[r] \in Int
        BY <1>2, InputAssumption
      <3>2. m < op[r] \/ HoldsSum(r)
        <4>1. CASE at[r] = "returned"
          BY <4>1, InvSum DEF SumWhenReturned, HoldsSum
        <4>2. CASE at[r] # "returned"
          BY <2>2, <3>1, <4>2 DEF Returned
        <4> QED
          BY <4>1, <4>2
      <3>3. ~early /\ late
        BY <2>2, <3>2
      <3> HIDE DEF early, late
      <3>4. Buffer(r, m) = A!Total(m)
        BY <2>0, <3>3
      <3> QED
        BY <2>2, <3>4
    <2> QED
      BY <2>1, <2>2
  <1> QED
    BY <1>2, <1>3 DEF Buffers, Places

LEMMA InitMaps == Init => A!Init
  <1> SUFFICES ASSUME Init PROVE A!Init
    OBVIOUS
  <1>1. \A r \in Ranks : op[r] = 1 /\ step[r] = 1 /\ at[r] = "post"
    BY DEF Init
  <1>2. \A r \in Ranks : Entered(r) = 0 /\ Returned(r) = 0 /\ op[r] - 1 = 0
    BY <1>1 DEF Entered, Returned
  <1>3. \A r \in Ranks, m \in 1..MaxOps : Buffer(r, m) = A!Own(r, m)
    <2>1. MapInv
      BY InitInv, InvMap
    <2>2. \A m \in 1..MaxOps : m > 0
      BY InputAssumption
    <2> QED
      BY <1>2, <2>1, <2>2 DEF MapInv, Buffers
  <1> QED
    BY <1>2, <1>3 DEF A!Init

\* A step of a rank that changes at most one of the three counts by one.
LEMMA CountStep ==
  ASSUME MapInv, MapInv', NEW r \in Ranks,
         \A q \in Ranks : q # r =>
           Entered(q)' = Entered(q) /\ Returned(q)' = Returned(q) /\ op'[q] = op[q],
         \/ /\ Entered(r)' = Entered(r) /\ Returned(r)' = Returned(r) /\ op'[r] = op[r]
         \/ /\ Entered(r)' = Entered(r) + 1 /\ Returned(r)' = Returned(r) /\ op'[r] = op[r]
            /\ Entered(r) < MaxOps /\ Entered(r) = Returned(r)
         \/ /\ Entered(r)' = Entered(r) /\ Returned(r)' = Returned(r) + 1 /\ op'[r] = op[r]
            /\ \A q \in Ranks : Entered(q) >= Returned(r) + 1
         \/ /\ Entered(r)' = Entered(r) /\ Returned(r)' = Returned(r) /\ op'[r] = op[r] + 1
            /\ op[r] - 1 < Returned(r)
  PROVE  [A!Next]_(A!vars)
  <1> DEFINE en == [q \in Ranks |-> Entered(q)]
             re == [q \in Ranks |-> Returned(q)]
             co == [q \in Ranks |-> op[q] - 1]
             bu == [q \in Ranks |-> [m \in 1..MaxOps |-> Buffer(q, m)]]
  <1>1. /\ \A q \in Ranks : en[q] = Entered(q) /\ re[q] = Returned(q) /\ co[q] = op[q] - 1
        /\ \A q \in Ranks : en'[q] = Entered(q)' /\ re'[q] = Returned(q)' /\ co'[q] = op'[q] - 1
        /\ en = [q \in Ranks |-> en[q]] /\ re = [q \in Ranks |-> re[q]]
        /\ co = [q \in Ranks |-> co[q]]
        /\ en' = [q \in Ranks |-> en'[q]] /\ re' = [q \in Ranks |-> re'[q]]
        /\ co' = [q \in Ranks |-> co'[q]]
    OBVIOUS
  <1>2. \A q \in Ranks, m \in 1..MaxOps :
          /\ bu[q][m] = IF m > Returned(q) THEN A!Own(q, m) ELSE A!Total(m)
          /\ bu'[q][m] = IF m > Returned(q)' THEN A!Own(q, m) ELSE A!Total(m)
    BY DEF MapInv, Buffers
  <1>3. /\ bu = [q \in Ranks |-> [m \in 1..MaxOps |-> bu[q][m]]]
        /\ bu' = [q \in Ranks |-> [m \in 1..MaxOps |-> bu'[q][m]]]
    OBVIOUS
  <1>4. /\ \A q \in Ranks : /\ op[q] \in Int /\ op[q] \in 1..MaxOps
                            /\ Entered(q) \in Int /\ Returned(q) \in Int
                            /\ Returned(q) <= Entered(q)
        /\ MaxOps \in Int
    BY InputAssumption DEF MapInv, Places
  <1>5. A!vars = <<en, re, co, bu>> /\ A!vars' = <<en', re', co', bu'>>
    BY DEF A!vars
  <1> HIDE DEF en, re, co, bu
  <1>6. CASE Entered(r)' = Entered(r) /\ Returned(r)' = Returned(r) /\ op'[r] = op[r]
    <2>1. \A q \in Ranks : en'[q] = en[q] /\ re'[q] = re[q] /\ co'[q] = co[q]
      BY <1>1, <1>6
    <2>2. \A q \in Ranks, m \in 1..MaxOps : bu'[q][m] = bu[q][m]
      BY <1>2, <1>6
    <2>3. en' = en /\ re' = re /\ co' = co /\ bu' = bu
      BY <1>1, <1>3, <2>1, <2>2
    <2> QED
      BY <1>5, <2>3
  <1>7. CASE /\ Entered(r)' = Entered(r) + 1 /\ Returned(r)' = Returned(r) /\ op'[r] = op[r]
             /\ Entered(r) < MaxOps /\ Entered(r) = Returned(r)
    <2>1. \A q \in Ranks : re'[q] = re[q] /\ co'[q] = co[q]
      BY <1>1, <1>7
    <2>2. \A q \in Ranks, m \in 1..MaxOps : bu'[q][m] = bu[q][m]
      BY <1>2, <1>7
    <2>3. re' = re /\ co' = co /\ bu' = bu
      BY <1>1, <1>3, <2>1, <2>2
    <2>4. en' = [en EXCEPT ![r] = @ + 1]
      BY <1>1, <1>7
    <2>5. en[r] < MaxOps /\ en[r] = re[r]
      BY <1>1, <1>7
    <2>6. A!Enter(r)
      BY <2>3, <2>4, <2>5 DEF A!Enter, en, re, co, bu
    <2> QED
      BY <2>6 DEF A!Next
  <1>8. CASE /\ Entered(r)' = Entered(r) /\ Returned(r)' = Returned(r) + 1 /\ op'[r] = op[r]
             /\ \A q \in Ranks : Entered(q) >= Returned(r) + 1
    <2> DEFINE n == re[r] + 1
    <2>1. \A q \in Ranks : en'[q] = en[q] /\ co'[q] = co[q]
      BY <1>1, <1>8
    <2>2. en' = en /\ co' = co
      BY <1>1, <2>1
    <2>3. re' = [re EXCEPT ![r] = n]
      BY <1>1, <1>8
    <2>4. n <= en[r] /\ \A q \in Ranks : en[q] >= n
      BY <1>1, <1>4, <1>8
    <2>5. bu' = [bu EXCEPT ![r][n] = A!Total(n)]
      <3> DEFINE up == [bu EXCEPT ![r][n] = A!Total(n)]
      <3>1. ASSUME NEW q \in Ranks, NEW m \in 1..MaxOps
            PROVE  bu'[q][m] = up[q][m]
        <4>1. CASE q # r
          BY <1>2, <1>3, <3>1, <4>1
        <4>2. CASE q = r /\ m # n
          <5>1. m > Returned(r)' <=> m > Returned(r)
            BY <1>1, <1>4, <1>8, <4>2
          <5>2. bu'[r][m] = bu[r][m]
            BY <1>2, <5>1
          <5> QED
            BY <1>3, <4>2, <5>2
        <4>3. CASE q = r /\ m = n
          <5>1. ~(m > Returned(r)')
            BY <1>1, <1>4, <1>8, <4>3
          <5>2. bu'[r][m] = A!Total(m)
            BY <1>2, <5>1
          <5> QED
            BY <1>3, <4>3, <5>2
        <4> QED
          BY <4>1, <4>2, <4>3
      <3>2. up = [q \in Ranks |-> [m \in 1..MaxOps |-> up[q][m]]]
        BY <1>3
      <3> HIDE DEF up
      <3>3. bu' = up
        BY <1>3, <3>1, <3>2
      <3> QED
        BY <3>3 DEF up
    <2>6. A!Reduce(r)
      BY <2>2, <2>3, <2>4, <2>5 DEF A!Reduce, en, re, co, bu
    <2> QED
      BY <2>6 DEF A!Next
  <1>9. CASE /\ Entered(r)' = Entered(r) /\ Returned(r)' = Returned(r) /\ op'[r] = op[r] + 1
             /\ op[r] - 1 < Returned(r)
    <2>1. \A q \in Ranks : en'[q] = en[q] /\ re'[q] = re[q]
      BY <1>1, <1>9
    <2>2. \A q \in Ranks, m \in 1..MaxOps : bu'[q][m] = bu[q][m]
      BY <1>2, <1>9
    <2>3. en' = en /\ re' = re /\ bu' = bu
      BY <1>1, <1>3, <2>1, <2>2
    <2>4. co' = [co EXCEPT ![r] = @ + 1]
      BY <1>1, <1>4, <1>9
    <2>5. co[r] < re[r]
      BY <1>1, <1>9
    <2>6. A!Return(r)
      BY <2>3, <2>4, <2>5 DEF A!Return, en, re, co, bu
    <2> QED
      BY <2>6 DEF A!Next
  <1> QED
    BY <1>6, <1>7, <1>8, <1>9

\* A step that is used takes the rank on, to the next one or out of the call.
LEMMA FinishCounts ==
  ASSUME MapInv, MapInv', NEW r \in Ranks, at[r] \in {"wait", "barrier"},
         op' = op, \A q \in Ranks : q # r => at'[q] = at[q] /\ step'[q] = step[q],
         \/ at'[r] = "barrier" /\ step'[r] = step[r]
         \/ at'[r] = "post" /\ step'[r] = step[r] + 1
         \/ at'[r] = "returned"
  PROVE  [A!Next]_(A!vars)
  <1>1. \A q \in Ranks : q # r =>
          Entered(q)' = Entered(q) /\ Returned(q)' = Returned(q) /\ op'[q] = op[q]
    BY DEF Entered, Returned
  <1>2. op[r] \in Int /\ step[r] \in Int /\ step[r] >= 1
    BY StepsFacts, InputAssumption DEF MapInv, IInv, Shapes, PlaceInv
  <1>3. Entered(r) = op[r] /\ Returned(r) = op[r] - 1
    BY DEF Entered, Returned
  <1>4. Entered(r)' = op[r]
    BY <1>2 DEF Entered
  <1>5. CASE at'[r] # "returned"
    <2>1. Returned(r)' = op[r] - 1
      BY <1>5 DEF Returned
    <2> QED
      BY <1>1, <1>3, <1>4, <2>1, CountStep
  <1>6. CASE at'[r] = "returned"
    <2>1. Returned(r)' = op[r]
      BY <1>6 DEF Returned
    <2>2. \A q \in Ranks : Entered(q)' >= op'[r]
      BY <1>6 DEF MapInv, AllEntered
    <2>3. \A q \in Ranks : Entered(q)' = Entered(q)
      BY <1>1, <1>3, <1>4
    <2>4. Returned(r) + 1 = op[r]
      BY <1>2, <1>3
    <2>5. \A q \in Ranks : Entered(q) >= Returned(r) + 1
      BY <2>2, <2>3, <2>4
    <2> QED
      BY <1>1, <1>3, <1>4, <2>1, <2>4, <2>5, CountStep
  <1> QED
    BY <1>5, <1>6

LEMMA FinishPlaces ==
  ASSUME NEW r \in Ranks, DOMAIN at = Ranks, DOMAIN step = Ranks, NEW mail, Finish(r, mail)
  PROVE  /\ \A q \in Ranks : q # r => at'[q] = at[q] /\ step'[q] = step[q]
         /\ \/ at'[r] = "post" /\ step'[r] = step[r] + 1
            \/ at'[r] = "returned"
  BY DEF Finish

LEMMA StepMaps == MapInv /\ MapInv' /\ [Next]_vars => [A!Next]_(A!vars)
  <1> SUFFICES ASSUME MapInv, MapInv', [Next]_vars PROVE [A!Next]_(A!vars)
    OBVIOUS
  <1>1. /\ DOMAIN at = Ranks /\ DOMAIN step = Ranks /\ DOMAIN op = Ranks
        /\ \A r \in Ranks : PlaceInv(r)
        /\ \A r \in Ranks : op[r] \in Int /\ op[r] \in 1..MaxOps
    BY InputAssumption DEF MapInv, IInv, Shapes, PlaceInv
  <1>2. ASSUME NEW r \in Ranks, Post(r)
        PROVE  [A!Next]_(A!vars)
    <2>1. /\ at[r] = "post" /\ at' = [at EXCEPT ![r] = "wait"] /\ op' = op /\ step' = step
      BY <1>2 DEF Post
    <2>2. at'[r] = "wait" /\ \A q \in Ranks : q # r => at'[q] = at[q]
      BY <1>1, <2>1
    <2>3. \A q \in Ranks : q # r =>
            Entered(q)' = Entered(q) /\ Returned(q)' = Returned(q) /\ op'[q] = op[q]
      BY <2>1, <2>2 DEF Entered, Returned
    <2>4. Entered(r)' = op[r] /\ Returned(r)' = Returned(r) /\ Returned(r) = op[r] - 1
      BY <2>1, <2>2 DEF Entered, Returned
    <2>5. CASE step[r] = 1
      <3>1. Entered(r) = op[r] - 1
        BY <2>1, <2>5 DEF Entered
      <3>2. Entered(r)' = Entered(r) + 1 /\ Entered(r) < MaxOps
        BY <1>1, <2>4, <3>1, InputAssumption
      <3> QED
        BY <2>1, <2>3, <2>4, <3>1, <3>2, CountStep
    <2>6. CASE step[r] # 1
      <3>1. Entered(r) = op[r]
        BY <2>6 DEF Entered
      <3> QED
        BY <2>1, <2>3, <2>4, <3>1, CountStep
    <2> QED
      BY <2>5, <2>6
  <1>3. ASSUME NEW r \in Ranks, Complete(r)
        PROVE  [A!Next]_(A!vars)
    <2>1. at[r] = "wait" /\ op' = op
      BY <1>3 DEF Complete
    <2>2. \/ Finish(r, MailAt(op[r], r, step[r]))
          \/ at' = [at EXCEPT ![r] = "barrier"] /\ step' = step
      BY <1>3, CompleteEffect DEF MapInv
    <2>3. CASE Finish(r, MailAt(op[r], r, step[r]))
      BY <1>1, <2>1, <2>3, FinishPlaces, FinishCounts
    <2>4. CASE at' = [at EXCEPT ![r] = "barrier"] /\ step' = step
      BY <1>1, <2>1, <2>4, FinishCounts
    <2> QED
      BY <2>2, <2>3, <2>4
  <1>4. ASSUME NEW r \in Ranks, Leave(r)
        PROVE  [A!Next]_(A!vars)
    <2>1. at[r] = "barrier" /\ op' = op /\ Finish(r, got[r])
      BY <1>4 DEF Leave
    <2> QED
      BY <1>1, <2>1, FinishPlaces, FinishCounts
  <1>5. ASSUME NEW r \in Ranks, NextCall(r)
        PROVE  [A!Next]_(A!vars)
    <2>1. /\ at[r] = "returned" /\ op' = [op EXCEPT ![r] = @ + 1]
          /\ step' = [step EXCEPT ![r] = 1] /\ at' = [at EXCEPT ![r] = "post"]
      BY <1>5 DEF NextCall
    <2>2. /\ op'[r] = op[r] + 1 /\ step'[r] = 1 /\ at'[r] = "post"
          /\ \A q \in Ranks : q # r => op'[q] = op[q] /\ step'[q] = step[q] /\ at'[q] = at[q]
      BY <1>1, <2>1
    <2>3. \A q \in Ranks : q # r =>
            Entered(q)' = Entered(q) /\ Returned(q)' = Returned(q) /\ op'[q] = op[q]
      BY <2>2 DEF Entered, Returned
    <2>4. Entered(r) = op[r] /\ Returned(r) = op[r]
      BY <2>1 DEF Entered, Returned
    <2>5. Entered(r)' = op[r] /\ Returned(r)' = op[r]
      BY <1>1, <2>2 DEF Entered, Returned
    <2>6. op[r] - 1 < Returned(r)
      BY <1>1, <2>4
    <2> QED
      BY <2>2, <2>3, <2>4, <2>5, <2>6, CountStep
  <1>6. CASE UNCHANGED vars
    <2>1. op' = op /\ step' = step /\ at' = at
      BY <1>6 DEF vars
    <2>2. \A q \in Ranks :
            Entered(q)' = Entered(q) /\ Returned(q)' = Returned(q) /\ op'[q] = op[q]
      BY <2>1 DEF Entered, Returned
    <2>3. 0 \in Ranks
      BY Names
    <2> QED
      BY <2>2, <2>3, CountStep
  <1> QED
    BY <1>2, <1>3, <1>4, <1>5, <1>6 DEF Next, RankStep, Terminated

\* Every schedule, on every transport, is an in-place all-reduce: a rank that
\* returns has the sum over all ranks, and none returns from a call before every
\* rank has entered it, though no rank hears from the one opposite to it.
THEOREM Implements == Spec => ImplementsAllReduce
  <1>1. Spec => []MapInv
    BY Positions, InvMap, PTL
  <1> QED
    BY <1>1, InitMaps, StepMaps, PTL DEF Spec, ImplementsAllReduce, A!Spec
=============================================================================
