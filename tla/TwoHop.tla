------------------------------- MODULE TwoHop -------------------------------
(***************************************************************************)
(* The all-reduce schedules of the 2-hop experiment, run by four ranks     *)
(* that only exchange messages with their neighbours on the ring:          *)
(*                                                                         *)
(*   twohop  src/src/twohop_algo.py, 4 steps, both neighbours at once      *)
(*   ring    src/src/twohop_algo.py, 6 steps, the classic ring             *)
(*   pair    src/src/twohop_algo.py, 2 exchanges of the whole vector       *)
(*   kernel  run2Hop, the device code that apply_2hop_patch.py writes      *)
(*           into NCCL: the twohop schedule as 14 blocking primitives      *)
(*                                                                         *)
(* and the transports they run on: NcclTransport (one communicator, with   *)
(* or without a barrier per step) and TwoPGTransport (two communicators,   *)
(* one for each parity of the ring edge).                                  *)
(*                                                                         *)
(* A step of a schedule builds its operations and hands them to the        *)
(* communicators (Post), waits for them (Complete), passes the barrier of  *)
(* the step if it has one (Leave), and uses what it received (Finish).     *)
(* A channel is an ordered pair of ranks on one communicator: it matches   *)
(* sends and receives in the order in which each side posted them.  A      *)
(* posted send completes when at most mode.slots of the sends of its       *)
(* channel still lack a receive: 0 is a rendezvous, more is the buffering  *)
(* of the transport.                                                       *)
(***************************************************************************)
EXTENDS Integers, Sequences, FiniteSets, TLC

CONSTANTS
  Modes,   \* the combinations of schedule and transport that are run
  MaxOps,  \* calls of the schedule, one after the other; bounds the model
  Input    \* Input[m][r][c]: what rank r holds in chunk c when call m starts

World == 4
Ranks == 0 .. World - 1

ASSUME InputAssumption ==
  /\ MaxOps \in Nat \ {0}
  /\ Input \in [1..MaxOps -> [Ranks -> [Ranks -> Int]]]

ASSUME ModesAssumption ==
  Modes \subseteq [alg : {"twohop", "ring", "pair", "kernel"},
                   align : BOOLEAN, groups : {1, 2}, slots : Nat]

Right(r) == (r + 1) % World
Left(r) == (r - 1) % World
Shift(r, k) == (r + k) % World

VARIABLES
  mode,     \* what is run: the same on every rank, chosen at the start
  op,       \* op[r]:   the call rank r is in
  step,     \* step[r]: the step of that call
  at,       \* at[r]:   where rank r is in that step
  x,        \* x[r]:    the tensor, chunk by chunk
  held,     \* held[r]: what the schedule keeps between steps (carry, fwd, xf)
  pending,  \* pending[r]: the operations of the step not yet issued
  issued,   \* issued[r]:  the operations handed to the communicators
  got,      \* got[r]:  what the step received from each neighbour
  wire,     \* wire[c]: the payloads posted on channel c and not received yet
  credit,   \* credit[c]: receives posted on c minus sends posted on c
  passed    \* passed[r]: the barriers rank r has reached

vars == <<mode, op, step, at, x, held, pending, issued, got, wire, credit, passed>>

-----------------------------------------------------------------------------
(***************************************************************************)
(* Communicators.                                                          *)
(***************************************************************************)

\* Both ends of a link agree on its number, hence on its communicator.
Edge(r, peer) == IF peer = Right(r) THEN r ELSE Left(r)

Group(r, peer) == IF mode.groups = 1 THEN 0 ELSE Edge(r, peer) % 2

Neighbours(r) == {Left(r), Right(r)}
Channels == {c \in {0, 1} \X Ranks \X Ranks : c[3] \in Neighbours(c[2])}

\* The channel an operation of rank r is posted on.
ChannelOf(r, o) ==
  IF o.kind = "send" THEN <<Group(r, o.peer), r, o.peer>>
                     ELSE <<Group(r, o.peer), o.peer, r>>

Send(peer, data) == [kind |-> "send", peer |-> peer, data |-> data]
Recv(peer) == [kind |-> "recv", peer |-> peer, data |-> <<>>]

\* Variant for a mutant: operations that are not batched are serialised, the
\* sends first, then the receives.
SerialBatch(ops) ==
  LET sends == {o \in ops : o.kind = "send"}
  IN  IF sends = {} THEN ops ELSE sends

\* wait() hands over everything the step has buffered, in one batch.
Batch(ops) == ops

\* All the sends posted on channel c are matched, up to the buffers.
SendsDone(c) == credit[c] >= 0 - mode.slots

-----------------------------------------------------------------------------
(***************************************************************************)
(* The schedules: the operations of step s and what it does with what it   *)
(* received.                                                               *)
(***************************************************************************)

Chunk(r, k) == x[r][Shift(r, k)]

TwoHopOps(r, s) ==
  CASE s = 1 -> {Send(Right(r), <<Chunk(r, 1), Chunk(r, 2)>>),
                 Send(Left(r), <<Chunk(r, -1)>>), Recv(Right(r)), Recv(Left(r))}
    [] s = 2 -> {Send(Right(r), held[r]), Recv(Left(r))}
    [] s = 3 -> {Send(Right(r), <<Chunk(r, 0)>>), Send(Left(r), <<Chunk(r, 0)>>),
                 Recv(Right(r)), Recv(Left(r))}
    [] s = 4 -> {Send(Left(r), held[r]), Recv(Right(r))}

TwoHopApply(r, s, mail) ==
  LET fromRight == mail[Right(r)]
      fromLeft == mail[Left(r)]
  IN
  CASE s = 1 -> /\ x' = [x EXCEPT ![r][r] = @ + Head(fromRight) + Head(fromLeft)]
                /\ held' = [held EXCEPT ![r] = Tail(fromLeft)]
    [] s = 2 -> /\ x' = [x EXCEPT ![r][r] = @ + Head(fromLeft)]
                /\ UNCHANGED held
    [] s = 3 -> /\ x' = [x EXCEPT ![r][Right(r)] = Head(fromRight),
                                  ![r][Left(r)] = Head(fromLeft)]
                /\ held' = [held EXCEPT ![r] = fromRight]
    [] s = 4 -> /\ x' = [x EXCEPT ![r][Shift(r, 2)] = Head(fromRight)]
                /\ UNCHANGED held

RingOps(r, s) ==
  IF s <= 3 THEN {Send(Right(r), <<Chunk(r, 1 - s)>>), Recv(Left(r))}
            ELSE {Send(Left(r), <<Chunk(r, s - 3)>>), Recv(Right(r))}

RingApply(r, s, mail) ==
  /\ x' = IF s <= 3
          THEN [x EXCEPT ![r][Shift(r, 0 - s)] = @ + Head(mail[Left(r)])]
          ELSE [x EXCEPT ![r][Shift(r, s - 2)] = Head(mail[Right(r)])]
  /\ UNCHANGED held

\* Pairs (0,1) and (2,3), then (1,2) and (3,0).
Partner(r, s) == IF (r + s) % 2 = 1 THEN Right(r) ELSE Left(r)

Vector(r) == [i \in 1..World |-> x[r][i - 1]]

PairOps(r, s) ==
  {Send(Partner(r, s), IF s = 1 THEN Vector(r) ELSE held[r]), Recv(Partner(r, s))}

\* The reduced vector is copied into the tensor after the last exchange.
PairApply(r, s, mail) ==
  LET mine == IF s = 1 THEN Vector(r) ELSE held[r]
      sum == [i \in 1..World |-> mine[i] + mail[Partner(r, s)][i]]
  IN  /\ held' = [held EXCEPT ![r] = sum]
      /\ x' = IF s = 2 THEN [x EXCEPT ![r] = [c \in Ranks |-> sum[c + 1]]] ELSE x

\* Variant for a mutant: the carry is received before the contribution to the
\* own chunk, which the left neighbour sends first.
SwappedKernelProgram ==
  << <<"send", "fwd", 1>>, <<"send", "fwd", 2>>, <<"recv", "fwd", 1>>,
     <<"reduce", "fwd", 0>>, <<"send", "bwd", -1>>, <<"reduce", "bwd", 0>>,
     <<"send", "fwd", 1>>, <<"reduce", "fwd", 0>>,
     <<"send", "fwd", 0>>, <<"recv", "fwd", -1>>, <<"send", "bwd", 0>>,
     <<"recv", "bwd", 1>>, <<"send", "bwd", 1>>, <<"recv", "bwd", 2>> >>

\* run2Hop: primsFwd sends to the right and receives from the left, primsBwd
\* the other way round; recvReduceCopy adds, recv overwrites. An entry is the
\* primitive, the object and the chunk relative to the rank.
KernelProgram ==
  << <<"send", "fwd", 1>>, <<"send", "fwd", 2>>, <<"reduce", "fwd", 0>>,
     <<"recv", "fwd", 1>>, <<"send", "bwd", -1>>, <<"reduce", "bwd", 0>>,
     <<"send", "fwd", 1>>, <<"reduce", "fwd", 0>>,
     <<"send", "fwd", 0>>, <<"recv", "fwd", -1>>, <<"send", "bwd", 0>>,
     <<"recv", "bwd", 1>>, <<"send", "bwd", 1>>, <<"recv", "bwd", 2>> >>

KernelPeer(r, p) ==
  IF (p[1] = "send") = (p[2] = "fwd") THEN Right(r) ELSE Left(r)

KernelOps(r, s) ==
  LET p == KernelProgram[s] IN
  IF p[1] = "send" THEN {Send(KernelPeer(r, p), <<Chunk(r, p[3])>>)}
                   ELSE {Recv(KernelPeer(r, p))}

KernelApply(r, s, mail) ==
  LET p == KernelProgram[s]
      c == Shift(r, p[3])
  IN
  /\ x' = CASE p[1] = "send" -> x
            [] p[1] = "reduce" ->
                 [x EXCEPT ![r][c] = @ + Head(mail[KernelPeer(r, p)])]
            [] p[1] = "recv" ->
                 [x EXCEPT ![r][c] = Head(mail[KernelPeer(r, p)])]
  /\ UNCHANGED held

\* Variant for a mutant: the second exchange of the pairs is left out.
ShortSteps == CASE mode.alg = "twohop" -> 4
                [] mode.alg = "ring"   -> 6
                [] mode.alg = "pair"   -> 1
                [] mode.alg = "kernel" -> Len(KernelProgram)

Steps == CASE mode.alg = "twohop" -> 4
           [] mode.alg = "ring"   -> 6
           [] mode.alg = "pair"   -> 2
           [] mode.alg = "kernel" -> Len(KernelProgram)

OpsOf(r, s) == CASE mode.alg = "twohop" -> TwoHopOps(r, s)
                 [] mode.alg = "ring"   -> RingOps(r, s)
                 [] mode.alg = "pair"   -> PairOps(r, s)
                 [] mode.alg = "kernel" -> KernelOps(r, s)

Apply(r, s, mail) == CASE mode.alg = "twohop" -> TwoHopApply(r, s, mail)
                 [] mode.alg = "ring"   -> RingApply(r, s, mail)
                 [] mode.alg = "pair"   -> PairApply(r, s, mail)
                 [] mode.alg = "kernel" -> KernelApply(r, s, mail)

-----------------------------------------------------------------------------
NoMail(r) == [p \in Neighbours(r) |-> <<>>]

Init ==
  /\ mode \in Modes
  /\ op = [r \in Ranks |-> 1]
  /\ step = [r \in Ranks |-> 1]
  /\ at = [r \in Ranks |-> "post"]
  /\ x = Input[1]
  /\ held = [r \in Ranks |-> <<>>]
  /\ pending = [r \in Ranks |-> {}]
  /\ issued = [r \in Ranks |-> {}]
  /\ got = [r \in Ranks |-> NoMail(r)]
  /\ wire = [c \in Channels |-> <<>>]
  /\ credit = [c \in Channels |-> 0]
  /\ passed = [r \in Ranks |-> 0]

\* The step clones what it sends, buffers its operations, and wait() hands
\* them over to the communicators.
Post(r) ==
  LET todo == IF pending[r] = {} THEN OpsOf(r, step[r]) ELSE pending[r]
      batch == Batch(todo)
      sentOn(c) == {o \in batch : o.kind = "send" /\ ChannelOf(r, o) = c}
      recvOn(c) == {o \in batch : o.kind = "recv" /\ ChannelOf(r, o) = c}
  IN
  /\ at[r] = "post"
  /\ issued' = [issued EXCEPT ![r] = batch]
  /\ pending' = [pending EXCEPT ![r] = todo \ batch]
  /\ wire' = [c \in Channels |-> IF sentOn(c) = {} THEN wire[c]
                ELSE Append(wire[c], (CHOOSE o \in sentOn(c) : TRUE).data)]
  /\ credit' = [c \in Channels |->
                  credit[c] + Cardinality(recvOn(c)) - Cardinality(sentOn(c))]
  /\ at' = [at EXCEPT ![r] = "wait"]
  /\ UNCHANGED <<mode, op, step, x, held, got, passed>>

\* The step ends: it uses what it received.
Finish(r, mail) ==
  /\ Apply(r, step[r], mail)
  /\ IF step[r] < Steps
     THEN /\ at' = [at EXCEPT ![r] = "post"]
          /\ step' = [step EXCEPT ![r] = @ + 1]
     ELSE /\ at' = [at EXCEPT ![r] = "returned"]
          /\ UNCHANGED step
  /\ got' = [got EXCEPT ![r] = NoMail(r)]

\* Variant for a mutant: what was received stays on the channel.
PeekComplete(r) ==
  LET recvs == {o \in issued[r] : o.kind = "recv"}
      taken == {ChannelOf(r, o) : o \in recvs}
      mail == [p \in Neighbours(r) |->
                 IF Recv(p) \in recvs THEN Head(wire[ChannelOf(r, Recv(p))])
                                      ELSE got[r][p]]
  IN
  /\ at[r] = "wait"
  /\ \A o \in issued[r] \ recvs : SendsDone(ChannelOf(r, o))
  /\ \A c \in taken : wire[c] # <<>>
  /\ UNCHANGED wire
  /\ issued' = [issued EXCEPT ![r] = {}]
  /\ IF pending[r] = {} /\ ~mode.align
     THEN Finish(r, mail) /\ UNCHANGED passed
     ELSE /\ got' = [got EXCEPT ![r] = mail]
          /\ at' = [at EXCEPT ![r] = IF pending[r] = {} THEN "barrier" ELSE "post"]
          /\ passed' = [passed EXCEPT ![r] = IF pending[r] = {} THEN @ + 1 ELSE @]
          /\ UNCHANGED <<step, x, held>>
  /\ UNCHANGED <<mode, op, pending, credit>>

\* wait() returns when every operation it handed over is done; the barrier of
\* the step is next, if there is one.
Complete(r) ==
  LET recvs == {o \in issued[r] : o.kind = "recv"}
      taken == {ChannelOf(r, o) : o \in recvs}
      mail == [p \in Neighbours(r) |->
                 IF Recv(p) \in recvs THEN Head(wire[ChannelOf(r, Recv(p))])
                                      ELSE got[r][p]]
  IN
  /\ at[r] = "wait"
  /\ \A o \in issued[r] \ recvs : SendsDone(ChannelOf(r, o))
  /\ \A c \in taken : wire[c] # <<>>
  /\ wire' = [c \in Channels |-> IF c \in taken THEN Tail(wire[c]) ELSE wire[c]]
  /\ issued' = [issued EXCEPT ![r] = {}]
  /\ IF pending[r] = {} /\ ~mode.align
     THEN Finish(r, mail) /\ UNCHANGED passed
     ELSE /\ got' = [got EXCEPT ![r] = mail]
          /\ at' = [at EXCEPT ![r] = IF pending[r] = {} THEN "barrier" ELSE "post"]
          /\ passed' = [passed EXCEPT ![r] = IF pending[r] = {} THEN @ + 1 ELSE @]
          /\ UNCHANGED <<step, x, held>>
  /\ UNCHANGED <<mode, op, pending, credit>>

\* The barrier of the step opens when every rank has reached it.
Leave(r) ==
  /\ at[r] = "barrier"
  /\ \A q \in Ranks : passed[q] >= passed[r]
  /\ Finish(r, got[r])
  /\ UNCHANGED <<mode, op, pending, issued, wire, credit, passed>>

\* The benches call the schedule again at once, on a new tensor.
NextCall(r) ==
  /\ at[r] = "returned"
  /\ op[r] < MaxOps
  /\ op' = [op EXCEPT ![r] = @ + 1]
  /\ step' = [step EXCEPT ![r] = 1]
  /\ x' = [x EXCEPT ![r] = Input[op[r] + 1][r]]
  /\ held' = [held EXCEPT ![r] = <<>>]
  /\ at' = [at EXCEPT ![r] = "post"]
  /\ UNCHANGED <<mode, pending, issued, got, wire, credit, passed>>

AllReturned == \A r \in Ranks : op[r] = MaxOps /\ at[r] = "returned"

Terminated == AllReturned /\ UNCHANGED vars

RankStep(r) == Post(r) \/ Complete(r) \/ Leave(r) \/ NextCall(r)

Next == (\E r \in Ranks : RankStep(r)) \/ Terminated

Spec == Init /\ [][Next]_vars

\* Every rank keeps running; the communicators complete what is matched.
FairSpec == Spec /\ \A r \in Ranks : WF_vars(RankStep(r))

-----------------------------------------------------------------------------
(***************************************************************************)
(* Properties.                                                             *)
(***************************************************************************)

Total(m, c) == Input[m][0][c] + Input[m][1][c] + Input[m][2][c] + Input[m][3][c]

\* When a call returns on a rank, each chunk of the tensor is the sum of the
\* inputs that the four ranks had for that very call: the check of
\* verify_allreduce_torch, for arbitrary inputs and for calls that overlap.
SumWhenReturned ==
  \A r \in Ranks : at[r] = "returned" =>
    \A c \in Ranks : x[r][c] = Total(op[r], c)

\* A rank is done with the last call only once nothing it was sent, and no
\* receive it posted, is left on the channels: no call finds a message of an
\* earlier one.
NothingLeft ==
  AllReturned => \A c \in Channels : wire[c] = <<>> /\ credit[c] = 0

\* No schedule, on any transport, makes the ranks wait for one another for
\* ever: the deadlock of unbatched sends that NcclTransport was changed for.
AllComplete == <>AllReturned

\* The schedules are in-place all-reduces, as AllReduce describes them: a rank
\* returns with the sum over all ranks, and not before every rank has entered
\* the call.
Entered(r) == IF at[r] = "post" /\ step[r] = 1 THEN op[r] - 1 ELSE op[r]
Returned(r) == IF at[r] = "returned" THEN op[r] ELSE op[r] - 1
HoldsSum(r) == \A c \in Ranks : x[r][c] = Total(op[r], c)

Buffer(r, m) ==
  IF m > Returned(r) THEN {<<r, m>>}
  ELSE IF m < op[r] \/ HoldsSum(r) THEN Ranks \X {m} ELSE {}

A == INSTANCE AllReduce WITH
  entered <- [r \in Ranks |-> Entered(r)],
  reduced <- [r \in Ranks |-> Returned(r)],
  completed <- [r \in Ranks |-> op[r] - 1],
  buf <- [r \in Ranks |-> [m \in 1..MaxOps |-> Buffer(r, m)]]

ImplementsAllReduce == A!Spec
=============================================================================
