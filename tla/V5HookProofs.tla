---------------------------- MODULE V5HookProofs ----------------------------
(***************************************************************************)
(* The fence of V5Hook for every program and every set of connections that *)
(* break: nobody sends to ar2 before all ranks have come to it, and its    *)
(* bytes never get among the abort frames.  And the order of the calls for *)
(* every program whose groups do not nest: what meets is the same call.    *)
(***************************************************************************)
EXTENDS V5Hook, TLAPS

InFence == {"fence", "collect", "grant"}
Up == {"F", "abort"}
Down == {"G", "N", "abort"}

Typing ==
  /\ program \in Seq(Calls)
  /\ pos \in [Ranks -> Nat]
  /\ pc \in [Ranks -> {"run", "ar2"} \cup InFence]
  /\ next \in Workers
  /\ arm \in [Ranks -> {"no", "armed", "dead"}]
  /\ up \in [Workers -> Seq(Up)]
  /\ down \in [Workers -> Seq(Down)]
  /\ ar2 \in [Ranks -> Seq(Nat)]

\* A byte of the fence is only ever the first on a connection.
FirstOnly(bytes) == \A i \in DOMAIN bytes : i > 1 => bytes[i] = "abort"

\* Rank 0 has taken the F of worker w; it has answered worker w.
Taken(w) == \/ pc[0] = "collect" /\ w < next
            \/ pc[0] = "grant"
            \/ arm[0] = "armed"
Answered(w) == arm[0] # "no" \/ (pc[0] = "grant" /\ w < next)

\* Where a rank is and whether it is armed.
ArmInv ==
  /\ pc[0] # "fence"
  /\ \A w \in Workers : pc[w] \notin {"collect", "grant"}
  /\ \A r \in Ranks : pc[r] \in InFence => arm[r] = "no"
  /\ \A r \in Ranks : pc[r] = "ar2" \/ ar2[r] # <<>> => arm[r] = "armed"

\* What a worker has sent.
UpInv ==
  \A w \in Workers :
    /\ FirstOnly(up[w])
    /\ ~Fenced(w) => up[w] = <<>>
    /\ Taken(w) => Fenced(w) /\ Frames(up[w])

\* What rank 0 has sent.
DownInv ==
  \A w \in Workers :
    /\ FirstOnly(down[w])
    /\ ~Answered(w) => down[w] = <<>> /\ arm[w] # "armed"
    /\ arm[w] = "armed" => Frames(down[w])

\* Nobody is told to go before everybody is there.
Granted == \/ pc[0] = "grant"
           \/ \E r \in Ranks : arm[r] = "armed"
           \/ \E w \in Workers : down[w] # <<>> /\ Head(down[w]) = "G"
GrantInv == Granted => \A q \in Ranks : Fenced(q)

FenceInv == Typing /\ ArmInv /\ UpInv /\ DownInv /\ GrantInv

-----------------------------------------------------------------------------
(***************************************************************************)
(* Bytes on a connection.                                                  *)
(***************************************************************************)

\* What is left when the first byte is taken.
LEMMA TailFrames ==
  ASSUME NEW S, NEW s \in Seq(S), s # <<>>, FirstOnly(s)
  PROVE  Tail(s) \in Seq(S) /\ Frames(Tail(s))
BY DEF FirstOnly, Frames

\* A frame more changes nothing.
LEMMA AppendFrame ==
  ASSUME NEW S, NEW s \in Seq(S), "abort" \in S
  PROVE  /\ Append(s, "abort") \in Seq(S)
         /\ Frames(s) => Frames(Append(s, "abort"))
         /\ FirstOnly(s) => FirstOnly(Append(s, "abort"))
         /\ Head(Append(s, "abort")) = IF s = <<>> THEN "abort" ELSE Head(s)
<1>1. Append(s, "abort") \in Seq(S)
  OBVIOUS
<1>2. Frames(s) => Frames(Append(s, "abort"))
  BY DEF Frames
<1>3. FirstOnly(s) => FirstOnly(Append(s, "abort"))
  BY DEF FirstOnly
<1>4. Head(Append(s, "abort")) = IF s = <<>> THEN "abort" ELSE Head(s)
  OBVIOUS
<1> QED BY <1>1, <1>2, <1>3, <1>4

\* A byte on an empty connection is the first.
LEMMA AppendFirst ==
  ASSUME NEW S, NEW b \in S
  PROVE  /\ Append(<<>>, b) \in Seq(S)
         /\ FirstOnly(Append(<<>>, b))
         /\ Append(<<>>, b) # <<>>
         /\ Head(Append(<<>>, b)) = b
BY DEF FirstOnly

\* Frames only.
LEMMA FramesAre ==
  ASSUME NEW S, NEW s \in Seq(S), Frames(s)
  PROVE  FirstOnly(s) /\ (s # <<>> => Head(s) = "abort")
BY DEF Frames, FirstOnly

-----------------------------------------------------------------------------
(***************************************************************************)
(* Types.                                                                  *)
(***************************************************************************)

LEMMA RankFacts ==
  /\ 0 \in Ranks /\ 0 \notin Workers /\ 1 \in Workers
  /\ \A w \in Workers : w \in Ranks /\ w # 0 /\ w \in Nat
  /\ \A w \in Workers : w < World - 1 => w + 1 \in Workers
  /\ \A r \in Ranks : r = 0 \/ r \in Workers
BY DEF Ranks, Workers, World

LEMMA OrderFacts ==
  /\ \A w \in Workers : ~(w < 1) /\ ~(w < w)
  /\ \A v, w \in Workers : v < w + 1 <=> v < w \/ v = w
  /\ \A v, w \in Workers : ~(w < World - 1) => v < w \/ v = w
BY DEF Ranks, Workers, World

LEMMA TypeInit == Init => Typing
BY ProgramsAssumption DEF Init, Typing, InFence, Up, Down, Ranks, Workers, World

\* Whoever leaves the fence has one more call behind it.
LEMMA LeaveTypes ==
  ASSUME Typing, NEW r \in Ranks, NEW v \in {"armed", "dead"}, Leave(r, v)
  PROVE  /\ pos' \in [Ranks -> Nat]
         /\ pc' \in [Ranks -> {"run", "ar2"} \cup InFence]
         /\ arm' \in [Ranks -> {"no", "armed", "dead"}]
BY DEF Typing, Leave, Native

LEMMA RankTypes ==
  ASSUME Typing, NEW r \in Ranks, Rank(r)
  PROVE  Typing'
<1> USE DEF InFence, hook, wires, launched, Native, Leave
<1>1. CASE Capture(r)
  BY <1>1 DEF Typing, Capture
<1>2. CASE GroupStart(r)
  BY <1>2 DEF Typing, GroupStart
<1>3. CASE GroupEnd(r)
  BY <1>3 DEF Typing, GroupEnd
<1>4. CASE CallNative(r)
  BY <1>4 DEF Typing, CallNative
<1>5. CASE WorkerEnter(r)
  <2>1. PICK ok \in BOOLEAN :
          IF ok THEN pc' = [pc EXCEPT ![r] = "fence"] /\ UNCHANGED <<arm, pos>>
                ELSE Leave(r, "dead")
    BY <1>5 DEF WorkerEnter
  <2>2. /\ pos' \in [Ranks -> Nat]
        /\ pc' \in [Ranks -> {"run", "ar2"} \cup InFence]
        /\ arm' \in [Ranks -> {"no", "armed", "dead"}]
    <3>1. CASE ok
      BY <2>1, <3>1 DEF Typing
    <3>2. CASE ~ok
      BY <2>1, <3>2, LeaveTypes
    <3> QED BY <3>1, <3>2
  <2>3. up' \in [Workers -> Seq(Up)]
    BY <1>5 DEF Typing, WorkerEnter, Up
  <2> QED BY <1>5, <2>2, <2>3 DEF Typing, WorkerEnter
<1>6. CASE WorkerAnswer(r)
  BY <1>6 DEF Typing, WorkerAnswer, Down
<1>7. CASE WorkerGiveUp(r)
  BY <1>7 DEF Typing, WorkerGiveUp
<1>8. CASE r = 0 /\ RootEnter
  BY <1>8, RankFacts DEF Typing, RootEnter
<1>9. CASE r = 0 /\ Collect
  <2>1. next' \in Workers
    BY <1>9, RankFacts DEF Typing, Collect
  <2>2. pc' \in [Ranks -> {"run", "ar2"} \cup InFence]
    BY <1>9 DEF Typing, Collect
  <2>3. up' \in [Workers -> Seq(Up)]
    BY <1>9 DEF Typing, Collect
  <2> QED BY <1>9, <2>1, <2>2, <2>3 DEF Typing, Collect
<1>10. CASE r = 0 /\ Refuse
  BY <1>10 DEF Typing, Refuse, Up, Down
<1>11. CASE r = 0 /\ Grant
  <2>1. PICK ok \in BOOLEAN :
          /\ down' = [down EXCEPT ![next] = IF open[next] THEN Append(@, "G") ELSE @]
          /\ IF ok /\ next < World - 1
             THEN next' = next + 1 /\ UNCHANGED <<arm, pos, pc>>
             ELSE Leave(0, IF ok THEN "armed" ELSE "dead") /\ UNCHANGED next
    BY <1>11 DEF Grant
  <2>2. /\ pos' \in [Ranks -> Nat]
        /\ pc' \in [Ranks -> {"run", "ar2"} \cup InFence]
        /\ arm' \in [Ranks -> {"no", "armed", "dead"}]
        /\ next' \in Workers
    <3>1. CASE ok /\ next < World - 1
      BY <2>1, <3>1, RankFacts DEF Typing
    <3>2. CASE ~(ok /\ next < World - 1)
      BY <2>1, <3>2, RankFacts, LeaveTypes DEF Typing
    <3> QED BY <3>1, <3>2
  <2>3. down' \in [Workers -> Seq(Down)]
    BY <2>1 DEF Typing, Down
  <2> QED BY <1>11, <2>2, <2>3 DEF Typing, Grant
<1>12. CASE Dispatch(r)
  BY <1>12 DEF Typing, Dispatch
<1>13. CASE GiveUp(r)
  BY <1>13 DEF Typing, GiveUp, Degrade, Announce, Up, Down
<1>14. CASE Notice(r)
  <2>1. PICK u \in [Workers -> Seq(Up)], d \in [Workers -> Seq(Down)] : Announce(r, u, d)
    <3>1. CASE /\ r \in Workers /\ down[r] # <<>>
               /\ Announce(r, up, [down EXCEPT ![r] = Tail(@)])
      <4>1. [down EXCEPT ![r] = Tail(@)] \in [Workers -> Seq(Down)]
        BY <3>1 DEF Typing
      <4> QED BY <3>1, <4>1 DEF Typing
    <3>2. CASE \E w \in Workers : up[w] # <<>> /\ Announce(r, [up EXCEPT ![w] = Tail(@)], down)
      <4>1. PICK w \in Workers : up[w] # <<>> /\ Announce(r, [up EXCEPT ![w] = Tail(@)], down)
        BY <3>2
      <4>2. [up EXCEPT ![w] = Tail(@)] \in [Workers -> Seq(Up)]
        BY <4>1 DEF Typing
      <4> QED BY <4>1, <4>2 DEF Typing
    <3> QED BY <1>14, <3>1, <3>2 DEF Notice
  <2>2. up' \in [Workers -> Seq(Up)] /\ down' \in [Workers -> Seq(Down)]
    BY <2>1 DEF Announce, Up, Down
  <2>3. pos' \in [Ranks -> Nat] /\ pc' \in [Ranks -> {"run", "ar2"} \cup InFence]
    BY <1>14 DEF Typing, Notice, Degrade
  <2> QED BY <1>14, <2>2, <2>3 DEF Typing, Notice, Degrade
<1> QED BY <1>1, <1>2, <1>3, <1>4, <1>5, <1>6, <1>7, <1>8, <1>9, <1>10, <1>11, <1>12,
           <1>13, <1>14 DEF Rank

LEMMA TypeKeeps ==
  ASSUME Typing, [Next]_vars
  PROVE  Typing'
<1>1. CASE \E r \in Ranks : Rank(r)
  BY <1>1, RankTypes
<1>2. CASE \E w \in Workers : Break(w)
  <2>1. PICK w \in Workers : Break(w)
    BY <1>2
  <2> QED BY <2>1 DEF Typing, Break, hook, launched, Up, Down
<1>3. CASE Meet
  BY <1>3 DEF Typing, Meet, wires, launched
<1>4. CASE UNCHANGED vars
  BY <1>4 DEF Typing, vars
<1> QED BY <1>1, <1>2, <1>3, <1>4 DEF Next, Stop

-----------------------------------------------------------------------------
(***************************************************************************)
(* Every step keeps the invariant.                                         *)
(***************************************************************************)

Rest == ArmInv /\ UpInv /\ DownInv /\ GrantInv

LEMMA RestInit == Init => Rest
<1> SUFFICES ASSUME Init PROVE Rest
  OBVIOUS
<1> USE RankFacts DEF Init
<1>1. ArmInv
  BY DEF ArmInv, InFence
<1>2. UpInv
  BY DEF UpInv, FirstOnly, Taken
<1>3. DownInv
  BY DEF DownInv, FirstOnly
<1>4. GrantInv
  BY DEF GrantInv, Granted
<1> QED BY <1>1, <1>2, <1>3, <1>4 DEF Rest

\* Calls that are none of the fence's or ar2's business.
LEMMA SameKeeps ==
  ASSUME Rest, UNCHANGED <<pc, next, arm, up, down, ar2>>
  PROVE  Rest'
BY DEF Rest, ArmInv, UpInv, DownInv, GrantInv, Granted, Taken, Answered, Fenced

LEMMA WorkerEnterKeeps ==
  ASSUME Typing, Rest, NEW w \in Ranks, WorkerEnter(w)
  PROVE  Rest'
<1> USE RankFacts
<1>1. /\ w \in Workers /\ pc[w] = "run" /\ arm[w] = "no"
      /\ \A q \in Ranks : q # w => pc'[q] = pc[q] /\ arm'[q] = arm[q]
      /\ \/ pc'[w] = "fence" /\ arm'[w] = "no"
         \/ pc'[w] = "run" /\ arm'[w] = "dead"
      /\ up' = [up EXCEPT ![w] = IF open[w] THEN Append(@, "F") ELSE @]
      /\ UNCHANGED <<next, down, ar2>>
  <2>1. w \in Workers /\ pc[w] = "run" /\ arm[w] = "no"
    BY DEF WorkerEnter, Trigger, Large, At
  <2>2. PICK ok \in BOOLEAN :
          /\ up' = [up EXCEPT ![w] = IF open[w] THEN Append(@, "F") ELSE @]
          /\ IF ok THEN pc' = [pc EXCEPT ![w] = "fence"] /\ UNCHANGED arm
                   ELSE arm' = [arm EXCEPT ![w] = "dead"] /\ pc' = [pc EXCEPT ![w] = "run"]
    BY DEF WorkerEnter, Leave, Native
  <2>3. UNCHANGED <<next, down, ar2>>
    BY DEF WorkerEnter
  <2> QED BY <2>1, <2>2, <2>3 DEF Typing
<1>2. /\ ~Fenced(w) /\ up[w] = <<>> /\ ~Taken(w)
  BY <1>1 DEF Rest, UpInv, Fenced
<1>3. ArmInv'
  BY <1>1 DEF Rest, ArmInv, InFence
<1>4. \A q \in Ranks : Fenced(q) => Fenced(q)'
  BY <1>1 DEF Fenced, Typing
<1>5. Fenced(w)'
  BY <1>1 DEF Fenced, Typing
<1>6. \A v \in Workers : (Taken(v)' <=> Taken(v)) /\ (Answered(v)' <=> Answered(v))
  BY <1>1 DEF Taken, Answered, Typing
<1>7. UpInv'
  <2> SUFFICES ASSUME NEW v \in Workers
               PROVE  (/\ FirstOnly(up[v])
                       /\ ~Fenced(v) => up[v] = <<>>
                       /\ Taken(v) => Fenced(v) /\ Frames(up[v]))'
    BY DEF UpInv
  <2>1. CASE v = w
    <3>1. FirstOnly(up'[w])
      <4>1. FirstOnly(Append(<<>>, "F"))
        BY AppendFirst DEF Up
      <4> QED BY <1>1, <1>2, <4>1 DEF Typing, FirstOnly
    <3> QED BY <2>1, <3>1, <1>2, <1>5, <1>6
  <2>2. CASE v # w
    <3>1. up'[v] = up[v]
      BY <1>1, <2>2 DEF Typing
    <3>2. FirstOnly(up[v])' /\ (Frames(up[v]) => Frames(up[v])')
      BY <3>1 DEF Rest, UpInv, FirstOnly, Frames
    <3>3. Fenced(v)' <=> Fenced(v)
      BY <1>1, <2>2 DEF Fenced, Typing
    <3> QED BY <3>1, <3>2, <3>3, <1>6 DEF Rest, UpInv
  <2> QED BY <2>1, <2>2
<1>8. DownInv'
  <2>1. \A v \in Workers : arm'[v] = "armed" <=> arm[v] = "armed"
    BY <1>1
  <2>2. \A v \in Workers : (FirstOnly(down[v])' <=> FirstOnly(down[v]))
                           /\ (Frames(down[v])' <=> Frames(down[v]))
    BY <1>1 DEF FirstOnly, Frames
  <2> QED BY <1>1, <1>6, <2>1, <2>2 DEF Rest, DownInv
<1>9. GrantInv'
  BY <1>1, <1>4 DEF Rest, GrantInv, Granted, Typing
<1> QED BY <1>3, <1>7, <1>8, <1>9 DEF Rest

LEMMA WorkerLeaveKeeps ==
  ASSUME Typing, Rest, NEW w \in Ranks, WorkerAnswer(w) \/ WorkerGiveUp(w)
  PROVE  Rest'
<1> USE RankFacts
<1>1. /\ w \in Workers /\ pc[w] = "fence" /\ arm[w] = "no"
      /\ \A q \in Ranks : q # w => pc'[q] = pc[q] /\ arm'[q] = arm[q]
      /\ pc'[w] = "run" /\ arm'[w] \in {"armed", "dead"}
      /\ \A v \in Workers : v # w => down'[v] = down[v]
      /\ UNCHANGED <<next, up, ar2>>
  <2>1. /\ w \in Workers /\ pc[w] = "fence"
        /\ \E v \in {"armed", "dead"} : Leave(w, v)
        /\ down' = [down EXCEPT ![w] = Tail(@)] \/ down' = down
        /\ UNCHANGED <<next, up, ar2>>
    BY DEF WorkerAnswer, WorkerGiveUp, wires
  <2>2. /\ \A q \in Ranks : q # w => pc'[q] = pc[q] /\ arm'[q] = arm[q]
        /\ pc'[w] = "run" /\ arm'[w] \in {"armed", "dead"}
    BY <2>1 DEF Leave, Native, Typing
  <2>3. arm[w] = "no"
    BY <2>1 DEF Rest, ArmInv, InFence
  <2>4. \A v \in Workers : v # w => down'[v] = down[v]
    BY <2>1 DEF Typing
  <2> QED BY <2>1, <2>2, <2>3, <2>4
<1>2. \/ down[w] # <<>> /\ down'[w] = Tail(down[w]) /\ (arm'[w] = "armed" <=> Head(down[w]) = "G")
      \/ down'[w] = down[w] /\ arm'[w] = "dead"
  <2>1. CASE WorkerAnswer(w)
    BY <1>1, <2>1 DEF WorkerAnswer, Leave, Typing
  <2>2. CASE WorkerGiveUp(w)
    BY <1>1, <2>2 DEF WorkerGiveUp, Leave, wires, Typing
  <2> QED BY <2>1, <2>2
<1>3. ArmInv'
  BY <1>1 DEF Rest, ArmInv, InFence
<1>4. \A q \in Ranks : Fenced(q)' <=> Fenced(q)
  BY <1>1 DEF Fenced
<1>5. \A v \in Workers : (Taken(v)' <=> Taken(v)) /\ (Answered(v)' <=> Answered(v))
  BY <1>1 DEF Taken, Answered
<1>6. UpInv'
  BY <1>1, <1>4, <1>5 DEF Rest, UpInv, FirstOnly, Frames
<1>7. /\ FirstOnly(down'[w])
      /\ arm'[w] = "armed" => Frames(down'[w]) /\ Answered(w)
      /\ ~Answered(w) => down'[w] = <<>> /\ arm'[w] # "armed"
      /\ down'[w] # <<>> /\ Head(down'[w]) = "G" => Head(down[w]) = "G" /\ down[w] # <<>>
  <2>1. CASE down[w] # <<>> /\ down'[w] = Tail(down[w])
    <3>1. Tail(down[w]) \in Seq(Down) /\ Frames(Tail(down[w]))
      BY <1>1, <2>1, TailFrames DEF Typing, Rest, DownInv
    <3>2. FirstOnly(Tail(down[w])) /\ (Tail(down[w]) # <<>> => Head(Tail(down[w])) = "abort")
      BY <3>1, FramesAre
    <3>3. Answered(w)
      BY <1>1, <2>1 DEF Rest, DownInv
    <3> QED BY <2>1, <3>1, <3>2, <3>3
  <2>2. CASE down'[w] = down[w] /\ arm'[w] = "dead"
    BY <1>1, <2>2 DEF Rest, DownInv
  <2> QED BY <1>2, <2>1, <2>2
<1>8. DownInv'
  <2> SUFFICES ASSUME NEW v \in Workers
               PROVE  (/\ FirstOnly(down[v])
                       /\ ~Answered(v) => down[v] = <<>> /\ arm[v] # "armed"
                       /\ arm[v] = "armed" => Frames(down[v]))'
    BY DEF DownInv
  <2>1. CASE v = w
    BY <1>5, <1>7, <2>1
  <2>2. CASE v # w
    BY <1>1, <1>5, <2>2 DEF Rest, DownInv, FirstOnly, Frames
  <2> QED BY <2>1, <2>2
<1>9. GrantInv'
  <2>1. Granted' => Granted
    BY <1>1, <1>2, <1>7 DEF Granted
  <2> QED BY <2>1, <1>4 DEF Rest, GrantInv
<1> QED BY <1>3, <1>6, <1>8, <1>9 DEF Rest

LEMMA RootEnterKeeps ==
  ASSUME Typing, Rest, RootEnter
  PROVE  Rest'
<1> USE RankFacts
<1>1. /\ pc[0] = "run" /\ arm[0] = "no" /\ pc'[0] = "collect" /\ next' = 1
      /\ \A q \in Ranks : q # 0 => pc'[q] = pc[q]
      /\ UNCHANGED <<arm, up, down, ar2>>
  BY DEF RootEnter, Trigger, Large, At, hook, wires, launched, Typing
<1>2. ArmInv'
  BY <1>1 DEF Rest, ArmInv, InFence
<1>3. \A q \in Ranks : Fenced(q) => Fenced(q)'
  BY <1>1 DEF Fenced
<1>4. \A v \in Workers : (Fenced(v)' <=> Fenced(v)) /\ ~Taken(v)' /\ ~Answered(v)' /\ ~Answered(v)
  BY <1>1, OrderFacts DEF Fenced, Taken, Answered
<1>5. UpInv'
  BY <1>1, <1>4 DEF Rest, UpInv, FirstOnly
<1>6. DownInv'
  BY <1>1, <1>4 DEF Rest, DownInv, FirstOnly, Frames
<1>7. GrantInv'
  BY <1>1, <1>3 DEF Rest, GrantInv, Granted
<1> QED BY <1>2, <1>5, <1>6, <1>7 DEF Rest

LEMMA CollectKeeps ==
  ASSUME Typing, Rest, Collect
  PROVE  Rest'
<1> USE RankFacts
<1>1. /\ pc[0] = "collect" /\ arm[0] = "no" /\ next \in Workers /\ up[next] # <<>>
      /\ up'[next] = Tail(up[next])
      /\ \A v \in Workers : v # next => up'[v] = up[v]
      /\ \A q \in Ranks : q # 0 => pc'[q] = pc[q]
      /\ UNCHANGED <<arm, down, ar2>>
  BY DEF Collect, hook, launched, Typing, Rest, ArmInv, InFence
<1>2. \/ next < World - 1 /\ next' = next + 1 /\ pc'[0] = "collect"
      \/ ~(next < World - 1) /\ next' = 1 /\ pc'[0] = "grant"
  BY DEF Collect, Typing
<1>3. ArmInv'
  BY <1>1, <1>2 DEF Rest, ArmInv, InFence
<1>4. \A q \in Ranks : Fenced(q)' <=> Fenced(q)
  BY <1>1, <1>2 DEF Fenced
<1>5. \A v \in Workers : /\ Taken(v)' => Taken(v) \/ v = next
                         /\ ~Answered(v) /\ ~Answered(v)'
  BY <1>1, <1>2, OrderFacts DEF Taken, Answered
<1>6. Fenced(next) /\ Frames(up'[next]) /\ FirstOnly(up'[next])
  <2>1. Tail(up[next]) \in Seq(Up) /\ Frames(Tail(up[next]))
    BY <1>1, TailFrames DEF Typing, Rest, UpInv
  <2>2. FirstOnly(Tail(up[next]))
    BY <2>1, FramesAre
  <2> QED BY <1>1, <2>1, <2>2 DEF Rest, UpInv
<1>7. UpInv'
  <2> SUFFICES ASSUME NEW v \in Workers
               PROVE  (/\ FirstOnly(up[v])
                       /\ ~Fenced(v) => up[v] = <<>>
                       /\ Taken(v) => Fenced(v) /\ Frames(up[v]))'
    BY DEF UpInv
  <2>1. CASE v = next
    BY <1>4, <1>6, <2>1
  <2>2. CASE v # next
    BY <1>1, <1>4, <1>5, <2>2 DEF Rest, UpInv, FirstOnly, Frames
  <2> QED BY <2>1, <2>2
<1>8. DownInv'
  BY <1>1, <1>5 DEF Rest, DownInv, FirstOnly
<1>9. GrantInv'
  <2>1. CASE pc'[0] = "grant"
    <3>1. \A v \in Workers : Taken(v)'
      BY <2>1 DEF Taken
    <3>2. Fenced(0)'
      BY <2>1 DEF Fenced
    <3> QED BY <3>1, <3>2, <1>7 DEF UpInv, GrantInv
  <2>2. CASE pc'[0] # "grant"
    <3>1. Granted' => Granted
      BY <1>1, <2>2 DEF Granted
    <3> QED BY <1>4, <3>1 DEF Rest, GrantInv
  <2> QED BY <2>1, <2>2
<1> QED BY <1>3, <1>7, <1>8, <1>9 DEF Rest

LEMMA RefuseKeeps ==
  ASSUME Typing, Rest, Refuse
  PROVE  Rest'
<1> USE RankFacts
<1>1. /\ pc[0] = "collect" /\ arm[0] = "no" /\ next \in Workers
      /\ pc'[0] = "run" /\ arm'[0] = "dead"
      /\ \A q \in Ranks : q # 0 => pc'[q] = pc[q] /\ arm'[q] = arm[q]
      /\ UNCHANGED <<next, ar2>>
  BY DEF Refuse, Leave, Native, Typing, Rest, ArmInv, InFence
<1>2. \A v \in Workers : up'[v] = up[v] \/ (up[v] # <<>> /\ up'[v] = Tail(up[v]))
  BY DEF Refuse, Typing
<1>3. \A v \in Workers : down[v] = <<>> /\ arm[v] # "armed"
  BY <1>1 DEF Rest, DownInv, Answered
<1>4. \A v \in Workers : down'[v] = <<>> \/ down'[v] = Append(<<>>, "N")
  BY <1>3 DEF Refuse
<1>5. ArmInv'
  BY <1>1 DEF Rest, ArmInv, InFence
<1>6. \A q \in Ranks : Fenced(q)' <=> Fenced(q)
  BY <1>1 DEF Fenced
<1>7. \A v \in Workers : ~Taken(v)' /\ Answered(v)'
  BY <1>1 DEF Taken, Answered
<1>8. UpInv'
  <2>1. \A v \in Workers : FirstOnly(up[v])'
    <3> SUFFICES ASSUME NEW v \in Workers PROVE FirstOnly(up'[v])
      BY DEF FirstOnly
    <3>1. CASE up[v] # <<>> /\ up'[v] = Tail(up[v])
      <4>1. Tail(up[v]) \in Seq(Up) /\ Frames(Tail(up[v]))
        BY <3>1, TailFrames DEF Typing, Rest, UpInv
      <4> QED BY <3>1, <4>1, FramesAre
    <3>2. CASE up'[v] = up[v]
      BY <3>2 DEF Rest, UpInv
    <3> QED BY <1>2, <3>1, <3>2
  <2>2. \A v \in Workers : ~Fenced(v) => up[v] = <<>> /\ up'[v] = <<>>
    BY <1>2 DEF Rest, UpInv
  <2> QED BY <1>6, <1>7, <2>1, <2>2 DEF UpInv
<1>9. DownInv'
  <2>1. FirstOnly(<<>>) /\ FirstOnly(Append(<<>>, "N"))
    BY AppendFirst DEF FirstOnly, Down
  <2>2. \A v \in Workers : FirstOnly(down[v])'
    BY <1>4, <2>1 DEF FirstOnly
  <2> QED BY <1>1, <1>3, <1>7, <2>2 DEF DownInv
<1>10. GrantInv'
  <2>1. Append(<<>>, "N") # <<>> /\ Head(Append(<<>>, "N")) = "N"
    BY AppendFirst DEF Down
  <2>2. ~Granted'
    BY <1>1, <1>3, <1>4, <2>1 DEF Granted
  <2> QED BY <2>2 DEF GrantInv
<1> QED BY <1>5, <1>8, <1>9, <1>10 DEF Rest

LEMMA GrantKeeps ==
  ASSUME Typing, Rest, Grant
  PROVE  Rest'
<1> USE RankFacts
<1>1. PICK ok \in BOOLEAN :
        /\ down' = [down EXCEPT ![next] = IF open[next] THEN Append(@, "G") ELSE @]
        /\ IF ok /\ next < World - 1
           THEN next' = next + 1 /\ UNCHANGED <<arm, pc>>
           ELSE Leave(0, IF ok THEN "armed" ELSE "dead") /\ UNCHANGED next
  BY DEF Grant
<1>2. /\ pc[0] = "grant" /\ arm[0] = "no" /\ next \in Workers
      /\ UNCHANGED <<up, ar2>>
  BY DEF Grant, Typing, Rest, ArmInv, InFence
<1>3. /\ \A q \in Ranks : q # 0 => pc'[q] = pc[q] /\ arm'[q] = arm[q]
      /\ \/ next' = next + 1 /\ pc'[0] = "grant" /\ arm'[0] = "no"
         \/ pc'[0] = "run" /\ arm'[0] \in {"armed", "dead"}
  <2>1. CASE ok /\ next < World - 1
    BY <1>1, <1>2, <2>1
  <2>2. CASE ~(ok /\ next < World - 1)
    BY <1>1, <1>2, <2>2 DEF Leave, Native, Typing
  <2> QED BY <2>1, <2>2
<1>4. down[next] = <<>> /\ arm[next] # "armed"
  BY <1>2, OrderFacts DEF Rest, DownInv, Answered
<1>5. /\ down'[next] = <<>> \/ down'[next] = Append(<<>>, "G")
      /\ \A v \in Workers : v # next => down'[v] = down[v]
  BY <1>1, <1>2, <1>4 DEF Typing
<1>6. ArmInv'
  BY <1>2, <1>3 DEF Rest, ArmInv, InFence
<1>7. \A q \in Ranks : Fenced(q)' /\ Fenced(q)
  <2>1. \A q \in Ranks : Fenced(q)
    BY <1>2 DEF Rest, GrantInv, Granted
  <2> QED BY <2>1, <1>2, <1>3 DEF Fenced
<1>8. \A v \in Workers : /\ Taken(v)
                         /\ Answered(v) \/ v = next => Answered(v)'
                         /\ Answered(v)' => Answered(v) \/ v = next \/ arm'[0] # "no"
  BY <1>2, <1>3, OrderFacts DEF Taken, Answered
<1>9. UpInv'
  BY <1>2, <1>7, <1>8 DEF Rest, UpInv, FirstOnly, Frames
<1>10. DownInv'
  <2> SUFFICES ASSUME NEW v \in Workers
               PROVE  (/\ FirstOnly(down[v])
                       /\ ~Answered(v) => down[v] = <<>> /\ arm[v] # "armed"
                       /\ arm[v] = "armed" => Frames(down[v]))'
    BY DEF DownInv
  <2>1. CASE v = next
    <3>1. FirstOnly(<<>>) /\ FirstOnly(Append(<<>>, "G"))
      BY AppendFirst DEF FirstOnly, Down
    <3>2. FirstOnly(down'[next])
      BY <1>5, <3>1
    <3> QED BY <1>2, <1>3, <1>4, <1>8, <2>1, <3>2
  <2>2. CASE v # next
    BY <1>2, <1>3, <1>5, <1>8, <2>2 DEF Rest, DownInv, FirstOnly, Frames
  <2> QED BY <2>1, <2>2
<1>11. GrantInv'
  BY <1>7 DEF GrantInv
<1> QED BY <1>6, <1>9, <1>10, <1>11 DEF Rest

LEMMA DispatchKeeps ==
  ASSUME Typing, Rest, NEW r \in Ranks, Dispatch(r)
  PROVE  Rest'
<1> USE RankFacts
<1>1. /\ pc[r] = "run" /\ arm[r] = "armed" /\ pc'[r] = "ar2"
      /\ \A q \in Ranks : q # r => pc'[q] = pc[q] /\ ar2'[q] = ar2[q]
      /\ UNCHANGED <<arm, next, up, down>>
  BY DEF Dispatch, Small, At, Eligible, hook, wires, Typing
<1>2. ArmInv'
  BY <1>1 DEF Rest, ArmInv, InFence
<1>3. \A q \in Ranks : Fenced(q)' <=> Fenced(q)
  BY <1>1 DEF Fenced
<1>4. \A v \in Workers : (Taken(v)' <=> Taken(v)) /\ (Answered(v)' <=> Answered(v))
  BY <1>1 DEF Taken, Answered
<1>5. UpInv' /\ DownInv'
  BY <1>1, <1>3, <1>4 DEF Rest, UpInv, DownInv, FirstOnly, Frames
<1>6. GrantInv'
  BY <1>1, <1>3 DEF Rest, GrantInv, Granted
<1> QED BY <1>2, <1>5, <1>6 DEF Rest

\* A frame is taken from a connection, or put on it, or both.
Polled(old, new) ==
  \/ new = old
  \/ old # <<>> /\ new = Tail(old)
Framed(old, new) ==
  \E mid \in {old, Tail(old)} :
    Polled(old, mid) /\ new \in {mid, Append(mid, "abort")}

LEMMA FramedKeeps ==
  ASSUME NEW S, NEW s \in Seq(S), "abort" \in S, NEW t, Framed(s, t), FirstOnly(s)
  PROVE  FirstOnly(t) /\ (Frames(s) => Frames(t))
<1>1. PICK mid \in {s, Tail(s)} : Polled(s, mid) /\ t \in {mid, Append(mid, "abort")}
  BY DEF Framed
<1>2. mid \in Seq(S) /\ FirstOnly(mid) /\ (Frames(s) => Frames(mid))
  <2>1. CASE mid = s
    BY <2>1
  <2>2. CASE s # <<>> /\ mid = Tail(s)
    <3>1. Tail(s) \in Seq(S) /\ Frames(Tail(s))
      BY <2>2, TailFrames
    <3> QED BY <2>2, <3>1, FramesAre
  <2> QED BY <1>1, <2>1, <2>2 DEF Polled
<1> QED BY <1>1, <1>2, AppendFrame

LEMMA AbortKeeps ==
  ASSUME Typing, Rest, NEW r \in Ranks, GiveUp(r) \/ Notice(r)
  PROVE  Rest'
<1> USE RankFacts
<1>1. /\ pc[r] = "ar2" /\ pc'[r] = "run"
      /\ \A q \in Ranks : q # r => pc'[q] = pc[q]
      /\ UNCHANGED <<arm, next, ar2>>
  BY DEF GiveUp, Notice, Degrade, Native, Typing
<1>2. arm[r] = "armed"
  BY <1>1 DEF Rest, ArmInv
<1>3. PICK u \in [Workers -> Seq(Up)], d \in [Workers -> Seq(Down)] :
        /\ Announce(r, u, d)
        /\ \A v \in Workers : Polled(up[v], u[v]) /\ Polled(down[v], d[v])
  <2>1. CASE GiveUp(r)
    BY <2>1 DEF GiveUp, Typing, Polled
  <2>2. CASE /\ r \in Workers /\ down[r] # <<>>
             /\ Announce(r, up, [down EXCEPT ![r] = Tail(@)])
    <3>1. [down EXCEPT ![r] = Tail(@)] \in [Workers -> Seq(Down)]
      BY <2>2 DEF Typing
    <3>2. \A v \in Workers : Polled(down[v], [down EXCEPT ![r] = Tail(@)][v])
      BY <2>2 DEF Typing, Polled
    <3> QED BY <2>2, <3>1, <3>2 DEF Typing, Polled
  <2>3. CASE \E w \in Workers : up[w] # <<>> /\ Announce(r, [up EXCEPT ![w] = Tail(@)], down)
    <3>1. PICK w \in Workers : up[w] # <<>> /\ Announce(r, [up EXCEPT ![w] = Tail(@)], down)
      BY <2>3
    <3>2. [up EXCEPT ![w] = Tail(@)] \in [Workers -> Seq(Up)]
      BY <3>1 DEF Typing
    <3>3. \A v \in Workers : Polled(up[v], [up EXCEPT ![w] = Tail(@)][v])
      BY <3>1 DEF Typing, Polled
    <3> QED BY <3>1, <3>2, <3>3 DEF Typing, Polled
  <2> QED BY <2>1, <2>2, <2>3 DEF Notice
<1>4. \A v \in Workers : /\ up'[v] = u[v] \/ (v = r /\ up'[v] = Append(u[v], "abort"))
                         /\ down'[v] = d[v] \/ (r = 0 /\ down'[v] = Append(d[v], "abort"))
  BY <1>3 DEF Announce
<1>5. \A v \in Workers : /\ FirstOnly(up'[v]) /\ (Frames(up[v]) => Frames(up'[v]))
                         /\ FirstOnly(down'[v]) /\ (Frames(down[v]) => Frames(down'[v]))
  <2> SUFFICES ASSUME NEW v \in Workers
               PROVE  /\ FirstOnly(up'[v]) /\ (Frames(up[v]) => Frames(up'[v]))
                      /\ FirstOnly(down'[v]) /\ (Frames(down[v]) => Frames(down'[v]))
    OBVIOUS
  <2>1. Framed(up[v], up'[v]) /\ Framed(down[v], down'[v])
    BY <1>3, <1>4 DEF Framed, Polled
  <2>2. up[v] \in Seq(Up) /\ FirstOnly(up[v]) /\ down[v] \in Seq(Down) /\ FirstOnly(down[v])
    BY DEF Typing, Rest, UpInv, DownInv
  <2>3. "abort" \in Up /\ "abort" \in Down
    BY DEF Up, Down
  <2> QED BY <2>1, <2>2, <2>3, FramedKeeps
<1>6. ArmInv'
  BY <1>1, <1>2 DEF Rest, ArmInv, InFence
<1>7. \A q \in Ranks : Fenced(q)' <=> Fenced(q)
  BY <1>1, <1>2 DEF Fenced
<1>8. \A v \in Workers : (Taken(v)' => Taken(v)) /\ (Answered(v)' <=> Answered(v))
  BY <1>1, <1>2 DEF Taken, Answered
<1>9. UpInv'
  <2>1. \A v \in Workers : ~Fenced(v) => up'[v] = <<>>
    <3> SUFFICES ASSUME NEW v \in Workers, ~Fenced(v) PROVE up'[v] = <<>>
      OBVIOUS
    <3>1. up[v] = <<>> /\ v # r
      BY <1>2 DEF Rest, UpInv, Fenced
    <3> QED BY <1>3, <1>4, <3>1 DEF Polled
  <2> QED BY <1>5, <1>7, <1>8, <2>1 DEF Rest, UpInv, FirstOnly, Frames
<1>10. DownInv'
  <2>1. \A v \in Workers : ~Answered(v) => down'[v] = <<>>
    <3> SUFFICES ASSUME NEW v \in Workers, ~Answered(v) PROVE down'[v] = <<>>
      OBVIOUS
    <3>1. down[v] = <<>> /\ r # 0
      BY <1>2 DEF Rest, DownInv, Answered
    <3> QED BY <1>3, <1>4, <3>1 DEF Polled
  <2> QED BY <1>1, <1>5, <1>8, <2>1 DEF Rest, DownInv, FirstOnly, Frames
<1>11. GrantInv'
  <2>1. \A q \in Ranks : Fenced(q)
    BY <1>2 DEF Rest, GrantInv, Granted
  <2> QED BY <2>1, <1>7 DEF GrantInv
<1> QED BY <1>6, <1>9, <1>10, <1>11 DEF Rest

LEMMA MeetKeeps ==
  ASSUME Typing, Rest, Meet
  PROVE  Rest'
<1> USE RankFacts
<1>1. /\ \A q \in Ranks : pc[q] = "ar2" /\ pc'[q] = "run"
      /\ UNCHANGED <<arm, next, up, down, ar2>>
  BY DEF Meet, AllMeet, wires, launched
<1>2. \A q \in Ranks : arm[q] = "armed"
  BY <1>1 DEF Rest, ArmInv
<1>3. ArmInv'
  BY <1>1, <1>2 DEF ArmInv, InFence
<1>4. \A q \in Ranks : Fenced(q) /\ Fenced(q)'
  BY <1>1, <1>2 DEF Fenced
<1>5. \A v \in Workers : Taken(v) /\ Answered(v)'
  BY <1>1, <1>2 DEF Taken, Answered
<1>6. UpInv' /\ DownInv'
  BY <1>1, <1>4, <1>5 DEF Rest, UpInv, DownInv, FirstOnly, Frames
<1>7. GrantInv'
  BY <1>4 DEF GrantInv
<1> QED BY <1>3, <1>6, <1>7 DEF Rest

LEMMA BreakKeeps ==
  ASSUME Typing, Rest, NEW w \in Workers, Break(w)
  PROVE  Rest'
<1> USE RankFacts
<1>1. /\ \A v \in Workers : /\ up'[v] = <<>> \/ up'[v] = up[v]
                            /\ down'[v] = <<>> \/ down'[v] = down[v]
      /\ UNCHANGED <<pc, next, arm, ar2>>
  BY DEF Break, hook, launched, Typing
<1>2. FirstOnly(<<>>) /\ Frames(<<>>)
  BY DEF FirstOnly, Frames
<1>3. \A v \in Workers : /\ FirstOnly(up'[v]) /\ (Frames(up[v]) => Frames(up'[v]))
                         /\ FirstOnly(down'[v]) /\ (Frames(down[v]) => Frames(down'[v]))
  <2>1. \A v \in Workers : FirstOnly(up[v]) /\ FirstOnly(down[v])
    BY DEF Rest, UpInv, DownInv
  <2> QED BY <1>1, <1>2, <2>1
<1>4. \A q \in Ranks : Fenced(q)' <=> Fenced(q)
  BY <1>1 DEF Fenced
<1>5. \A v \in Workers : (Taken(v)' <=> Taken(v)) /\ (Answered(v)' <=> Answered(v))
  BY <1>1 DEF Taken, Answered
<1>6. ArmInv'
  BY <1>1 DEF Rest, ArmInv
<1>7. UpInv'
  BY <1>1, <1>3, <1>4, <1>5 DEF Rest, UpInv, FirstOnly, Frames
<1>8. DownInv'
  BY <1>1, <1>3, <1>5 DEF Rest, DownInv, FirstOnly, Frames
<1>9. GrantInv'
  BY <1>1, <1>4 DEF Rest, GrantInv, Granted
<1> QED BY <1>6, <1>7, <1>8, <1>9 DEF Rest

LEMMA FenceKeeps ==
  ASSUME FenceInv, [Next]_vars
  PROVE  FenceInv'
<1>1. Typing /\ Rest
  BY DEF FenceInv, Rest
<1>2. Typing'
  BY <1>1, TypeKeeps
<1>3. ASSUME NEW r \in Ranks, Rank(r) PROVE Rest'
  <2>1. CASE Capture(r) \/ GroupStart(r) \/ GroupEnd(r)
    <3>1. UNCHANGED <<pc, next, arm, up, down, ar2>>
      BY <2>1 DEF Capture, GroupStart, GroupEnd, wires, launched
    <3> QED BY <1>1, <3>1, SameKeeps
  <2>2. CASE CallNative(r)
    <3>1. pc' = pc
      BY <1>1, <2>2 DEF CallNative, Native, Small, Large, At, Typing
    <3> QED BY <1>1, <2>2, <3>1, SameKeeps DEF CallNative, wires
  <2>3. CASE WorkerEnter(r)
    BY <1>1, <2>3, WorkerEnterKeeps
  <2>4. CASE WorkerAnswer(r) \/ WorkerGiveUp(r)
    BY <1>1, <2>4, WorkerLeaveKeeps
  <2>5. CASE RootEnter \/ Collect \/ Refuse \/ Grant
    BY <1>1, <2>5, RootEnterKeeps, CollectKeeps, RefuseKeeps, GrantKeeps
  <2>6. CASE Dispatch(r)
    BY <1>1, <2>6, DispatchKeeps
  <2>7. CASE GiveUp(r) \/ Notice(r)
    BY <1>1, <2>7, AbortKeeps
  <2> QED BY <1>3, <2>1, <2>2, <2>3, <2>4, <2>5, <2>6, <2>7 DEF Rank
<1>4. ASSUME UNCHANGED vars PROVE Rest'
  BY <1>1, <1>4, SameKeeps DEF vars
<1>5. Rest'
  BY <1>1, <1>3, <1>4, BreakKeeps, MeetKeeps DEF Next, Stop
<1> QED BY <1>2, <1>5 DEF FenceInv, Rest


-----------------------------------------------------------------------------
(***************************************************************************)
(* The order of the calls, for programs whose groups do not nest.          *)
(*                                                                         *)
(* A rank has run natively, or queued in its group, every all-reduce that  *)
(* it is past, except those that met in ar2.  These are the same for all   *)
(* ranks, because ranks can only meet at one call: the lengths of their    *)
(* streams are equal then, and a rank that is ahead would have a stream    *)
(* that has the call of the other one in addition.                         *)
(***************************************************************************)

Reduces(i) == i \in DOMAIN program /\ program[i] \in {"large", "small"}

\* Rank r is in a group.
InGroup(r) ==
  \E i \in DOMAIN program :
    /\ i < pos[r] /\ program[i] = "start"
    /\ \A k \in DOMAIN program : i < k /\ k < pos[r] => program[k] # "end"

\* A group whose operations the hook has not seen yet has nothing in its queue.
GroupOf(r) ==
  /\ depth[r] = 1 => InGroup(r)
  /\ depth[r] = 0 \/ ops[r] = 0 => queue[r] = <<>>
  /\ pc[r] = "ar2" => depth[r] = 0 \/ ops[r] = 0

GroupInv ==
  /\ program \in Programs
  /\ depth \in [Ranks -> {0, 1}] /\ ops \in [Ranks -> Nat]
  /\ stream \in [Ranks -> Seq(Nat)] /\ queue \in [Ranks -> Seq(Nat)]
  /\ \A r \in Ranks : GroupOf(r)

\* What rank r has run natively or will at the end of its group.
Ran(r) == stream[r] \o queue[r]
Has(s, i) == \E n \in DOMAIN s : s[n] = i

Increasing(s) == \A m, n \in DOMAIN s : m < n => s[m] < s[n]
Below(s, b) == \A n \in DOMAIN s : s[n] < b
Agree(s, t) == \A n \in DOMAIN s \cap DOMAIN t : s[n] = t[n]

RanInv ==
  \A r \in Ranks :
    /\ Increasing(Ran(r)) /\ Below(Ran(r), pos[r])
    /\ \A n \in DOMAIN Ran(r) : Reduces(Ran(r)[n])
    /\ pc[r] # "run" => Reduces(pos[r])

\* An all-reduce that one rank is past and has not run natively, all are past
\* and have not run natively.
MetInv ==
  \A q \in Ranks : \A i \in Nat :
    Reduces(i) /\ i < pos[q] /\ ~Has(Ran(q), i) =>
      \A r \in Ranks : i < pos[r] /\ ~Has(Ran(r), i)

AgreeInv == \A r, q \in Ranks : Agree(Ran(r), Ran(q))

OrderInv == GroupInv /\ RanInv /\ MetInv /\ AgreeInv

\* A rank stays at its call, is past one that is no all-reduce, or has run its
\* call natively.
Stays(r) ==
  /\ pos'[r] = pos[r] /\ Ran(r)' = Ran(r)
  /\ pc'[r] # "run" => pc[r] # "run" \/ Reduces(pos[r])
Skips(r) ==
  /\ ~Reduces(pos[r]) /\ pc'[r] = "run"
  /\ pos'[r] = pos[r] + 1 /\ Ran(r)' = Ran(r)
Natives(r) ==
  /\ Reduces(pos[r]) /\ pc'[r] = "run"
  /\ pos'[r] = pos[r] + 1 /\ Ran(r)' = Append(Ran(r), pos[r])

Moves(r) ==
  /\ program' = program
  /\ Stays(r) \/ Skips(r) \/ Natives(r)
  /\ \A q \in Ranks \ {r} : Stays(q)

LEMMA RanTypes ==
  ASSUME GroupInv, NEW r \in Ranks
  PROVE  Ran(r) \in Seq(Nat)
BY DEF GroupInv, Ran

LEMMA ProgramTypes ==
  ASSUME GroupInv
  PROVE  program \in Seq(Calls) /\ \A i : Reduces(i) => i \in Nat
BY ProgramsAssumption DEF GroupInv, Reduces

\* One entry more.
LEMMA AppendHas ==
  ASSUME NEW s \in Seq(Nat), NEW p \in Nat
  PROVE  /\ Append(s, p) \in Seq(Nat)
         /\ \A i : Has(Append(s, p), i) <=> Has(s, i) \/ i = p
         /\ Has(Append(s, p), p)
<1>1. /\ Append(s, p) \in Seq(Nat)
      /\ DOMAIN Append(s, p) = DOMAIN s \cup {Len(s) + 1}
      /\ Append(s, p)[Len(s) + 1] = p
      /\ \A n \in DOMAIN s : Append(s, p)[n] = s[n]
  OBVIOUS
<1> QED BY <1>1 DEF Has

LEMMA AppendGrows ==
  ASSUME NEW s \in Seq(Nat), NEW p \in Nat, Increasing(s), Below(s, p)
  PROVE  Increasing(Append(s, p)) /\ Below(Append(s, p), p + 1)
<1>1. /\ DOMAIN Append(s, p) = 1 .. Len(s) + 1 /\ DOMAIN s = 1 .. Len(s)
      /\ Append(s, p)[Len(s) + 1] = p
      /\ \A n \in 1 .. Len(s) : Append(s, p)[n] = s[n] /\ s[n] \in Nat
      /\ Len(s) \in Nat
  OBVIOUS
<1>2. \A n \in 1 .. Len(s) : s[n] < p
  BY <1>1 DEF Below
<1>3. \A m, n \in 1 .. Len(s) : m < n => s[m] < s[n]
  BY <1>1 DEF Increasing
<1>4. Below(Append(s, p), p + 1)
  BY <1>1, <1>2 DEF Below
<1>5. Increasing(Append(s, p))
  <2> SUFFICES ASSUME NEW m \in 1 .. Len(s) + 1, NEW n \in 1 .. Len(s) + 1, m < n
               PROVE  Append(s, p)[m] < Append(s, p)[n]
    BY <1>1 DEF Increasing
  <2>1. m \in 1 .. Len(s)
    BY <1>1
  <2>2. CASE n = Len(s) + 1
    BY <1>1, <1>2, <2>1, <2>2
  <2>3. CASE n # Len(s) + 1
    BY <1>1, <1>3, <2>1, <2>3
  <2> QED BY <2>2, <2>3
<1> QED BY <1>4, <1>5

\* Who appends the next call that the other one has agrees with it still.
LEMMA AppendAgrees ==
  ASSUME NEW s \in Seq(Nat), NEW t \in Seq(Nat), NEW p \in Nat, NEW b \in Nat,
         Increasing(s), Increasing(t), Agree(s, t), Below(s, p), Below(t, b),
         \A n \in DOMAIN t : t[n] < p => Has(s, t[n]),
         p < b => Has(t, p)
  PROVE  Agree(Append(s, p), t) /\ Agree(t, Append(s, p))
<1>1. /\ DOMAIN Append(s, p) = 1 .. Len(s) + 1 /\ DOMAIN s = 1 .. Len(s)
      /\ DOMAIN t = 1 .. Len(t) /\ Len(t) \in Nat /\ Len(s) \in Nat
      /\ Append(s, p)[Len(s) + 1] = p
      /\ \A n \in 1 .. Len(s) : Append(s, p)[n] = s[n] /\ s[n] \in Nat
      /\ \A n \in 1 .. Len(t) : t[n] \in Nat
  OBVIOUS
<1>2. \A n \in 1 .. Len(s) : n \in DOMAIN t => s[n] = t[n]
  BY <1>1 DEF Agree
<1>3. ASSUME Len(s) + 1 \in DOMAIN t PROVE t[Len(s) + 1] = p
  <2> DEFINE n == Len(s) + 1
  <2>0. n \in 1 .. Len(t) /\ t[n] \in Nat
    BY <1>1, <1>3
  <2>1. CASE t[n] < p
    <3>1. PICK m \in 1 .. Len(s) : s[m] = t[n]
      BY <1>1, <1>3, <2>1 DEF Has
    <3>2. m < n /\ m \in DOMAIN t /\ n \in DOMAIN t
      BY <1>1, <1>3, <3>1
    <3>3. t[m] < t[n] /\ t[m] = s[m]
      BY <1>2, <3>1, <3>2 DEF Increasing
    <3> HIDE DEF n
    <3> QED BY <2>0, <3>1, <3>3
  <2>2. CASE t[n] > p
    <3>1. t[n] < b
      BY <1>1, <2>0 DEF Below
    <3>2. p < b
      BY <2>0, <2>2, <3>1
    <3>3. PICK m \in 1 .. Len(t) : t[m] = p
      BY <1>1, <3>2 DEF Has
    <3>4. n < m => t[n] < t[m]
      BY <1>1, <2>0, <3>3 DEF Increasing
    <3>5. ~(n < m) /\ n # m
      <4> HIDE DEF n
      <4> QED BY <2>0, <2>2, <3>3, <3>4
    <3>6. m \in 1 .. Len(s)
      BY <1>1, <3>3, <3>5
    <3>7. s[m] = p /\ s[m] < p
      BY <1>1, <1>2, <3>3, <3>6 DEF Below
    <3> QED BY <3>7
  <2> QED BY <2>0, <2>1, <2>2
<1>4. \A n \in DOMAIN Append(s, p) \cap DOMAIN t : Append(s, p)[n] = t[n]
  BY <1>1, <1>2, <1>3
<1> QED BY <1>4 DEF Agree

\* A rank that is past a call that is no end is in its group still.
LEMMA StillInGroup ==
  ASSUME GroupInv, NEW r \in Ranks, pos[r] \in Nat, InGroup(r), program' = program,
         pos'[r] = pos[r] + 1, pos[r] \in DOMAIN program => program[pos[r]] # "end"
  PROVE  InGroup(r)'
<1>1. DOMAIN program = 1 .. Len(program) /\ Len(program) \in Nat
  BY ProgramTypes
<1>2. PICK i \in DOMAIN program :
        /\ i < pos[r] /\ program[i] = "start"
        /\ \A k \in DOMAIN program : i < k /\ k < pos[r] => program[k] # "end"
  BY DEF InGroup
<1>3. i < pos[r] + 1
  BY <1>1, <1>2
<1>4. \A k \in DOMAIN program : i < k /\ k < pos[r] + 1 => program[k] # "end"
  BY <1>1, <1>2
<1> QED BY <1>2, <1>3, <1>4 DEF InGroup

\* The others are where they were.
LEMMA OthersStay ==
  ASSUME GroupInv, NEW q \in Ranks, program' = program,
         pos'[q] = pos[q], pc'[q] = pc[q], depth'[q] = depth[q], ops'[q] = ops[q],
         queue'[q] = queue[q], stream'[q] = stream[q]
  PROVE  GroupOf(q)' /\ Stays(q)
BY DEF GroupInv, GroupOf, InGroup, Stays, Ran

\* Nothing but the place of rank r changes, and that only at an all-reduce.
LEMMA QuietStep ==
  ASSUME Typing, GroupInv, NEW r \in Ranks,
         UNCHANGED <<program, pos, depth, ops, queue, stream>>,
         \A q \in Ranks \ {r} : pc'[q] = pc[q],
         pc'[r] # "run" => pc[r] # "run" \/ Reduces(pos[r]),
         pc'[r] = "ar2" => depth[r] = 0 \/ ops[r] = 0
  PROVE  GroupInv' /\ Moves(r)
<1>1. \A q \in Ranks \ {r} : GroupOf(q)' /\ Stays(q)
  BY OthersStay
<1>2. GroupOf(r)'
  BY DEF GroupInv, GroupOf, InGroup
<1>3. Stays(r)
  BY DEF Stays, Ran
<1> QED BY <1>1, <1>2, <1>3 DEF GroupInv, Moves

LEMMA NativeStep ==
  ASSUME Typing, GroupInv, NEW r \in Ranks, Reduces(pos[r]), Native(r),
         UNCHANGED <<program, depth>>
  PROVE  GroupInv' /\ Moves(r)
<1>1. /\ pos'[r] = pos[r] + 1 /\ pc'[r] = "run" /\ ops'[r] = ops[r] + 2
      /\ \A q \in Ranks \ {r} : /\ pos'[q] = pos[q] /\ pc'[q] = pc[q] /\ ops'[q] = ops[q]
                                /\ stream'[q] = stream[q] /\ queue'[q] = queue[q]
      /\ pos[r] \in Nat /\ ops[r] \in Nat
  BY DEF Typing, GroupInv, Native
<1>2. /\ stream' \in [Ranks -> Seq(Nat)] /\ queue' \in [Ranks -> Seq(Nat)]
      /\ ops' \in [Ranks -> Nat]
  <2>1. /\ Append(stream[r], pos[r]) \in Seq(Nat) /\ Append(queue[r], pos[r]) \in Seq(Nat)
        /\ stream \in [Ranks -> Seq(Nat)] /\ queue \in [Ranks -> Seq(Nat)]
        /\ ops \in [Ranks -> Nat] /\ ops[r] + 2 \in Nat
    BY <1>1 DEF GroupInv
  <2>2. ops' = [ops EXCEPT ![r] = @ + 2]
    BY DEF Native
  <2>3. /\ stream' = [stream EXCEPT ![r] = Append(@, pos[r])] \/ stream' = stream
        /\ queue' = [queue EXCEPT ![r] = Append(@, pos[r])] \/ queue' = queue
    BY DEF Native
  <2> QED BY <2>1, <2>2, <2>3
<1>3. GroupOf(r)' /\ Ran(r)' = Append(Ran(r), pos[r])
  <2>1. InGroup(r) => InGroup(r)'
    BY <1>1, StillInGroup DEF Reduces
  <2>2. CASE depth[r] = 0
    <3>1. queue[r] = <<>> /\ queue'[r] = <<>> /\ stream'[r] = Append(stream[r], pos[r])
      BY <2>2 DEF GroupInv, GroupOf, Native
    <3>2. stream[r] \in Seq(Nat)
      BY DEF GroupInv
    <3>3. Ran(r) = stream[r] /\ Ran(r)' = Append(stream[r], pos[r])
      BY <1>1, <3>1, <3>2 DEF Ran
    <3> QED BY <1>1, <2>2, <3>1, <3>3 DEF GroupOf
  <2>3. CASE depth[r] = 1
    <3>1. queue'[r] = Append(queue[r], pos[r]) /\ stream'[r] = stream[r]
      BY <2>3 DEF GroupInv, Native
    <3>2. stream[r] \in Seq(Nat) /\ queue[r] \in Seq(Nat)
      BY DEF GroupInv
    <3>3. Ran(r)' = Append(Ran(r), pos[r])
      <4>1. \A s, t \in Seq(Nat), p \in Nat : s \o Append(t, p) = Append(s \o t, p)
        OBVIOUS
      <4> QED BY <1>1, <3>1, <3>2, <4>1 DEF Ran
    <3>4. ops'[r] # 0
      BY <1>1
    <3> QED BY <1>1, <2>1, <2>3, <3>3, <3>4 DEF GroupInv, GroupOf
  <2> QED BY <2>2, <2>3 DEF GroupInv
<1>4. \A q \in Ranks \ {r} : GroupOf(q)' /\ Stays(q)
  BY <1>1, OthersStay
<1> QED BY <1>1, <1>2, <1>3, <1>4 DEF GroupInv, Moves, Natives

LEMMA CaptureStep ==
  ASSUME Typing, GroupInv, NEW r \in Ranks, Capture(r)
  PROVE  GroupInv' /\ Moves(r)
<1>1. /\ pos'[r] = pos[r] + 1 /\ ops'[r] = ops[r] + 2 /\ ops' \in [Ranks -> Nat]
      /\ \A q \in Ranks \ {r} : pos'[q] = pos[q] /\ ops'[q] = ops[q]
      /\ pos[r] \in Nat /\ ops[r] \in Nat
      /\ pc[r] = "run" /\ program[pos[r]] = "capture"
      /\ UNCHANGED <<program, pc, depth, queue, stream>>
  BY DEF Capture, At, launched, Typing, GroupInv
<1>2. InGroup(r) => InGroup(r)'
  BY <1>1, StillInGroup
<1>3. GroupOf(r)'
  BY <1>1, <1>2 DEF GroupInv, GroupOf
<1>4. Skips(r)
  BY <1>1 DEF Skips, Reduces, Ran
<1>5. \A q \in Ranks \ {r} : GroupOf(q)' /\ Stays(q)
  BY <1>1, OthersStay
<1> QED BY <1>1, <1>3, <1>4, <1>5 DEF GroupInv, Moves

LEMMA StartStep ==
  ASSUME FlatGroups, Typing, GroupInv, NEW r \in Ranks, GroupStart(r)
  PROVE  GroupInv' /\ Moves(r)
<1>1. /\ pos'[r] = pos[r] + 1 /\ ops'[r] = 0 /\ ops' \in [Ranks -> Nat]
      /\ depth'[r] = depth[r] + 1
      /\ \A q \in Ranks \ {r} : pos'[q] = pos[q] /\ ops'[q] = ops[q] /\ depth'[q] = depth[q]
      /\ pos[r] \in Nat /\ pos[r] \in DOMAIN program
      /\ pc[r] = "run" /\ program[pos[r]] = "start"
      /\ UNCHANGED <<program, pc, queue, stream>>
  BY DEF GroupStart, At, launched, Typing, GroupInv
<1>2. ~InGroup(r)
  BY <1>1 DEF FlatGroups, InGroup, GroupInv
<1>3. depth[r] = 0
  BY <1>2 DEF GroupInv, GroupOf
<1>4. depth' \in [Ranks -> {0, 1}]
  BY <1>3 DEF GroupInv, GroupStart
<1>5. InGroup(r)'
  <2>1. program \in Seq(Calls)
    BY ProgramTypes
  <2>2. \A k \in DOMAIN program : ~(pos[r] < k /\ k < pos[r] + 1)
    BY <1>1, <2>1
  <2>3. pos[r] < pos[r] + 1
    BY <1>1
  <2> QED BY <1>1, <2>2, <2>3 DEF InGroup
<1>6. GroupOf(r)'
  BY <1>1, <1>3, <1>5 DEF GroupInv, GroupOf
<1>7. Skips(r)
  BY <1>1 DEF Skips, Reduces, Ran
<1>8. \A q \in Ranks \ {r} : GroupOf(q)' /\ Stays(q)
  BY <1>1, OthersStay
<1> QED BY <1>1, <1>4, <1>6, <1>7, <1>8 DEF GroupInv, Moves

\* The queue goes to the stream as it is.
LEMMA EndStep ==
  ASSUME Typing, GroupInv, NEW r \in Ranks, GroupEnd(r)
  PROVE  GroupInv' /\ Moves(r)
<1>1. /\ pos'[r] = pos[r] + 1 /\ depth' \in [Ranks -> {0, 1}] /\ depth'[r] = 0
      /\ \A q \in Ranks \ {r} : pos'[q] = pos[q] /\ depth'[q] = depth[q]
      /\ pc[r] = "run" /\ program[pos[r]] = "end"
      /\ UNCHANGED <<program, pc, ops>>
  BY DEF GroupEnd, At, Typing, GroupInv
<1>2. /\ stream' = [stream EXCEPT ![r] = @ \o queue[r]]
      /\ queue' = [queue EXCEPT ![r] = <<>>]
  BY <1>1 DEF GroupEnd
<1>3. stream[r] \in Seq(Nat) /\ queue[r] \in Seq(Nat)
  BY DEF GroupInv
<1>4. /\ stream' \in [Ranks -> Seq(Nat)] /\ queue' \in [Ranks -> Seq(Nat)]
      /\ stream'[r] = stream[r] \o queue[r] /\ queue'[r] = <<>>
      /\ \A q \in Ranks \ {r} : stream'[q] = stream[q] /\ queue'[q] = queue[q]
  BY <1>2, <1>3 DEF GroupInv
<1>5. Ran(r)' = Ran(r)
  <2>1. (stream[r] \o queue[r]) \o <<>> = stream[r] \o queue[r]
    BY <1>3
  <2> QED BY <1>4, <2>1 DEF Ran
<1>6. GroupOf(r)'
  BY <1>1, <1>4 DEF GroupOf
<1>7. Skips(r)
  BY <1>1, <1>5 DEF Skips, Reduces
<1>8. \A q \in Ranks \ {r} : GroupOf(q)' /\ Stays(q)
  BY <1>1, <1>4, OthersStay
<1> QED BY <1>1, <1>4, <1>6, <1>7, <1>8 DEF GroupInv, Moves

LEMMA RankStep ==
  ASSUME FlatGroups, Typing, GroupInv, RanInv, NEW r \in Ranks, Rank(r)
  PROVE  GroupInv' /\ Moves(r)
<1>0. /\ pc[r] # "run" => Reduces(pos[r])
      /\ Small(r) \/ Large(r) => Reduces(pos[r])
  BY DEF RanInv, Small, Large, At, Reduces
<1>1. CASE Capture(r) \/ GroupStart(r) \/ GroupEnd(r)
  BY <1>1, CaptureStep, StartStep, EndStep
<1>2. CASE CallNative(r)
  <2>1. Native(r) /\ Reduces(pos[r]) /\ UNCHANGED <<program, depth>>
    BY <1>0, <1>2 DEF CallNative
  <2> QED BY <2>1, NativeStep
<1>3. CASE WorkerEnter(r)
  <2>1. Reduces(pos[r]) /\ UNCHANGED <<program, depth>>
    BY <1>0, <1>3 DEF WorkerEnter, Trigger
  <2>2. \/ pc' = [pc EXCEPT ![r] = "fence"] /\ UNCHANGED <<pos, ops, queue, stream>>
        \/ Native(r)
    BY <1>3 DEF WorkerEnter, Leave
  <2>3. CASE pc' = [pc EXCEPT ![r] = "fence"] /\ UNCHANGED <<pos, ops, queue, stream>>
    <3>1. pc'[r] = "fence" /\ \A q \in Ranks \ {r} : pc'[q] = pc[q]
      BY <2>3 DEF Typing
    <3> QED BY <2>1, <2>3, <3>1, QuietStep
  <2> QED BY <2>1, <2>2, <2>3, NativeStep
<1>4. CASE WorkerAnswer(r) \/ WorkerGiveUp(r)
  <2>1. Native(r) /\ Reduces(pos[r]) /\ UNCHANGED <<program, depth>>
    BY <1>0, <1>4 DEF WorkerAnswer, WorkerGiveUp, Leave
  <2> QED BY <2>1, NativeStep
<1>5. CASE r = 0 /\ RootEnter
  <2>1. /\ Reduces(pos[r]) /\ UNCHANGED <<program, pos, depth, ops, queue, stream>>
        /\ pc' = [pc EXCEPT ![r] = "collect"]
    BY <1>0, <1>5 DEF RootEnter, Trigger, hook, launched
  <2>2. pc'[r] = "collect" /\ \A q \in Ranks \ {r} : pc'[q] = pc[q]
    BY <2>1 DEF Typing
  <2> QED BY <2>1, <2>2, QuietStep
<1>6. CASE r = 0 /\ Collect
  <2>1. /\ pc[r] = "collect" /\ UNCHANGED <<program, pos, depth, ops, queue, stream>>
        /\ pc' = [pc EXCEPT ![r] = "grant"] \/ pc' = pc
    BY <1>6 DEF Collect, hook, launched
  <2>2. pc'[r] \in {"collect", "grant"} /\ \A q \in Ranks \ {r} : pc'[q] = pc[q]
    BY <2>1 DEF Typing
  <2> QED BY <2>1, <2>2, QuietStep
<1>7. CASE r = 0 /\ Refuse
  <2>1. Native(r) /\ Reduces(pos[r]) /\ UNCHANGED <<program, depth>>
    BY <1>0, <1>7 DEF Refuse, Leave
  <2> QED BY <2>1, NativeStep
<1>8. CASE r = 0 /\ Grant
  <2>1. Reduces(pos[r]) /\ UNCHANGED <<program, depth>> /\ pc[r] = "grant"
    BY <1>0, <1>8 DEF Grant
  <2>2. UNCHANGED <<pos, pc, ops, queue, stream>> \/ Native(r)
    BY <1>8 DEF Grant, Leave
  <2> QED BY <2>1, <2>2, NativeStep, QuietStep
<1>9. CASE Dispatch(r)
  <2>1. /\ Reduces(pos[r]) /\ UNCHANGED <<program, pos, depth, ops, queue, stream>>
        /\ pc' = [pc EXCEPT ![r] = "ar2"]
        /\ depth[r] = 0 \/ ops[r] = 0
    BY <1>0, <1>9 DEF Dispatch, hook, Eligible, GroupInv
  <2>2. pc'[r] = "ar2" /\ \A q \in Ranks \ {r} : pc'[q] = pc[q]
    BY <2>1 DEF Typing
  <2> QED BY <2>1, <2>2, QuietStep
<1>10. CASE GiveUp(r) \/ Notice(r)
  <2>1. Native(r) /\ Reduces(pos[r]) /\ UNCHANGED <<program, depth>>
    BY <1>0, <1>10 DEF GiveUp, Notice, Degrade
  <2> QED BY <2>1, NativeStep
<1> QED BY <1>1, <1>2, <1>3, <1>4, <1>5, <1>6, <1>7, <1>8, <1>9, <1>10 DEF Rank

LEMMA MovesKeeps ==
  ASSUME Typing, Typing', GroupInv, GroupInv', RanInv, MetInv, AgreeInv,
         NEW r \in Ranks, Moves(r)
  PROVE  (RanInv /\ MetInv /\ AgreeInv)'
<1>1. /\ \A q \in Ranks : Ran(q) \in Seq(Nat) /\ pos[q] \in Nat
      /\ \A i : Reduces(i)' <=> Reduces(i)
      /\ \A i : Reduces(i) => i \in Nat
  BY RanTypes, ProgramTypes DEF Typing, Moves, Reduces
<1>2. \A q \in Ranks : Stays(q) \/ (q = r /\ (Skips(r) \/ Natives(r)))
  BY DEF Moves
<1>3. /\ \A q \in Ranks : pos'[q] = pos[q] \/ pos'[q] = pos[q] + 1
      /\ \A q \in Ranks, i \in Nat : i < pos'[q] => i < pos[q] \/ i = pos[q]
      /\ \A q \in Ranks, i \in Nat : i < pos[q] => i < pos'[q]
  BY <1>1, <1>2 DEF Stays, Skips, Natives
<1>4. \A q \in Ranks : \/ Ran(q)' = Ran(q)
                       \/ /\ q = r /\ Natives(r)
                          /\ Ran(q)' = Append(Ran(q), pos[q])
  BY <1>2 DEF Stays, Skips, Natives
<1>5. RanInv'
  <2> SUFFICES ASSUME NEW q \in Ranks
               PROVE  (/\ Increasing(Ran(q)) /\ Below(Ran(q), pos[q])
                       /\ \A n \in DOMAIN Ran(q) : Reduces(Ran(q)[n])
                       /\ pc[q] # "run" => Reduces(pos[q]))'
    BY DEF RanInv
  <2>1. /\ Increasing(Ran(q)) /\ Below(Ran(q), pos[q])
        /\ \A n \in DOMAIN Ran(q) : Reduces(Ran(q)[n])
        /\ pc[q] # "run" => Reduces(pos[q])
    BY DEF RanInv
  <2>2. CASE Ran(q)' = Ran(q)
    <3>1. Increasing(Ran(q))' /\ (\A n \in DOMAIN Ran(q) : Reduces(Ran(q)[n]))'
      BY <1>1, <2>1, <2>2 DEF Increasing
    <3>2. Below(Ran(q), pos[q])'
      BY <1>1, <1>3, <2>1, <2>2 DEF Below
    <3>3. (pc[q] # "run" => Reduces(pos[q]))'
      <4>1. CASE Stays(q)
        BY <1>1, <2>1, <4>1 DEF Stays
      <4>2. CASE q = r /\ (Skips(r) \/ Natives(r))
        BY <4>2 DEF Skips, Natives
      <4> QED BY <1>2, <4>1, <4>2
    <3> QED BY <3>1, <3>2, <3>3
  <2>3. CASE q = r /\ Natives(r) /\ Ran(q)' = Append(Ran(q), pos[q])
    <3>1. Increasing(Ran(q)') /\ Below(Ran(q)', pos[q] + 1)
      BY <1>1, <2>1, <2>3, AppendGrows
    <3>2. pos'[q] = pos[q] + 1 /\ pc'[q] = "run" /\ Reduces(pos[q])
      BY <2>3 DEF Natives
    <3>3. (\A n \in DOMAIN Ran(q) : Reduces(Ran(q)[n]))'
      <4>1. \A n \in DOMAIN Append(Ran(q), pos[q]) :
              \/ n \in DOMAIN Ran(q) /\ Append(Ran(q), pos[q])[n] = Ran(q)[n]
              \/ Append(Ran(q), pos[q])[n] = pos[q]
        BY <1>1
      <4> QED BY <1>1, <2>1, <2>3, <3>2, <4>1
    <3> QED BY <3>1, <3>2, <3>3 DEF Increasing, Below
  <2> QED BY <1>4, <2>2, <2>3
<1>6. \A q \in Ranks, i \in Nat :
        Has(Ran(q), i)' <=> Has(Ran(q), i) \/ (q = r /\ Natives(r) /\ i = pos[q])
  <2> SUFFICES ASSUME NEW q \in Ranks, NEW i \in Nat
               PROVE  Has(Ran(q)', i) <=> Has(Ran(q), i) \/ (q = r /\ Natives(r) /\ i = pos[q])
    BY DEF Has
  <2>1. CASE q = r /\ Natives(r)
    BY <1>1, <2>1, AppendHas DEF Natives
  <2>2. CASE ~(q = r /\ Natives(r))
    BY <1>4, <2>2
  <2> QED BY <2>1, <2>2
<1>7. MetInv'
  <2> SUFFICES ASSUME NEW q \in Ranks, NEW i \in Nat, Reduces(i), i < pos'[q],
                      ~Has(Ran(q), i)', NEW v \in Ranks
               PROVE  i < pos'[v] /\ ~Has(Ran(v), i)'
    BY <1>1 DEF MetInv
  <2>1. ~Has(Ran(q), i)
    BY <1>6
  <2>2. i < pos[q]
    <3>1. i = pos[q] => ~Skips(q)
      BY DEF Skips
    <3>2. i = pos[q] => ~Stays(q)
      BY <1>1 DEF Stays
    <3>3. i = pos[q] => ~(q = r /\ Natives(r))
      BY <1>6
    <3> QED BY <1>2, <1>3, <3>1, <3>2, <3>3
  <2>3. i < pos[v] /\ ~Has(Ran(v), i)
    BY <2>1, <2>2 DEF MetInv
  <2>4. i # pos[v]
    BY <1>1, <2>3
  <2> QED BY <1>3, <1>6, <2>3, <2>4
<1>8. AgreeInv'
  <2>1. ASSUME Natives(r), NEW q \in Ranks, q # r
        PROVE  Agree(Append(Ran(r), pos[r]), Ran(q)) /\ Agree(Ran(q), Append(Ran(r), pos[r]))
    <3>1. /\ Increasing(Ran(r)) /\ Increasing(Ran(q))
          /\ Below(Ran(r), pos[r]) /\ Below(Ran(q), pos[q])
          /\ Agree(Ran(r), Ran(q)) /\ Reduces(pos[r])
      BY <2>1 DEF RanInv, AgreeInv, Natives
    <3>2. \A n \in DOMAIN Ran(q) : Ran(q)[n] < pos[r] => Has(Ran(r), Ran(q)[n])
      <4> SUFFICES ASSUME NEW n \in DOMAIN Ran(q), Ran(q)[n] < pos[r],
                          ~Has(Ran(r), Ran(q)[n])
                   PROVE  FALSE
        OBVIOUS
      <4>1. Reduces(Ran(q)[n]) /\ Ran(q)[n] \in Nat
        BY <1>1 DEF RanInv
      <4>2. ~Has(Ran(q), Ran(q)[n])
        BY <4>1 DEF MetInv
      <4> QED BY <4>2 DEF Has
    <3>3. pos[r] < pos[q] => Has(Ran(q), pos[r])
      BY <1>1, <3>1 DEF MetInv
    <3> QED BY <1>1, <3>1, <3>2, <3>3, AppendAgrees
  <2>2. \A q \in Ranks : Agree(Ran(q), Ran(q))'
    BY DEF Agree
  <2>3. \A p, q \in Ranks : Agree(Ran(p)', Ran(q)')
    BY <1>4, <2>1, <2>2 DEF AgreeInv, Agree
  <2> QED BY <2>3 DEF AgreeInv, Agree
<1> QED BY <1>5, <1>7, <1>8

\* Who can meet is at the same call.
LEMMA MeetTogether ==
  ASSUME Typing, GroupInv, RanInv, MetInv, AgreeInv, AllMeet
  PROVE  \A r, q \in Ranks : pos[r] = pos[q]
<1>1. /\ \A q \in Ranks : Ran(q) \in Seq(Nat) /\ pos[q] \in Nat
      /\ \A q \in Ranks : Reduces(pos[q])
  BY RanTypes DEF Typing, AllMeet, RanInv
<1>2. \A q \in Ranks : Ran(q) = stream[q]
  BY DEF Ran, GroupInv, GroupOf, AllMeet
<1>3. \A r, q \in Ranks : DOMAIN Ran(r) = DOMAIN Ran(q)
  <2>1. \A q \in Ranks : Len(stream[q]) \in Nat /\ DOMAIN stream[q] = 1 .. Len(stream[q])
    BY DEF GroupInv
  <2>2. \A r, q \in Ranks : Len(stream[q]) >= Len(stream[r])
    BY DEF AllMeet, KernelRuns
  <2> QED BY <1>2, <2>1, <2>2
<1>4. \A r, q \in Ranks, i \in Nat : Has(Ran(q), i) => Has(Ran(r), i)
  BY <1>3 DEF AgreeInv, Agree, Has
<1>5. \A r \in Ranks : ~Has(Ran(r), pos[r])
  BY <1>1 DEF RanInv, Below, Has
<1>6. ASSUME NEW r \in Ranks, NEW q \in Ranks, pos[r] < pos[q] PROVE FALSE
  <2>1. ~Has(Ran(q), pos[r])
    BY <1>1, <1>4, <1>5
  <2>2. pos[r] < pos[r]
    BY <1>1, <1>6, <2>1 DEF MetInv
  <2> QED BY <1>1, <2>2
<1> QED BY <1>1, <1>6

LEMMA MeetOrder ==
  ASSUME Typing, GroupInv, RanInv, MetInv, AgreeInv, Meet
  PROVE  (GroupInv /\ RanInv /\ MetInv /\ AgreeInv)'
<1>1. \A r, q \in Ranks : pos[r] = pos[q]
  BY MeetTogether DEF Meet
<1>2. /\ \A q \in Ranks : Ran(q) \in Seq(Nat) /\ pos[q] \in Nat /\ Reduces(pos[q])
      /\ \A i : Reduces(i) => i \in Nat
  BY RanTypes, ProgramTypes DEF Typing, Meet, AllMeet, RanInv
<1>3. /\ \A q \in Ranks : /\ pos'[q] = pos[q] + 1 /\ pc'[q] = "run"
                          /\ ops'[q] = ops[q] + 1 /\ pc[q] = "ar2"
      /\ ops' \in [Ranks -> Nat]
      /\ UNCHANGED <<program, depth, queue, stream>>
  BY DEF Meet, AllMeet, launched, GroupInv
<1>4. \A i : Reduces(i)' <=> Reduces(i)
  BY <1>3 DEF Reduces
<1>5. GroupInv'
  <2>1. ASSUME NEW q \in Ranks PROVE GroupOf(q)'
    <3>1. InGroup(q) => InGroup(q)'
      BY <1>2, <1>3, StillInGroup DEF Reduces
    <3> QED BY <1>3, <3>1 DEF GroupInv, GroupOf
  <2> QED BY <1>3, <2>1 DEF GroupInv
<1>6. \A q \in Ranks : Ran(q)' = Ran(q)
  BY <1>3 DEF Ran
<1>7. \A q \in Ranks, i \in Nat : i < pos'[q] <=> i < pos[q] \/ i = pos[q]
  BY <1>2, <1>3
<1>8. RanInv'
  BY <1>2, <1>3, <1>4, <1>6 DEF RanInv, Increasing, Below
<1>9. MetInv'
  <2> SUFFICES ASSUME NEW q \in Ranks, NEW i \in Nat, Reduces(i), i < pos'[q],
                      ~Has(Ran(q), i), NEW v \in Ranks
               PROVE  i < pos'[v] /\ ~Has(Ran(v), i)
    BY <1>4, <1>6 DEF MetInv, Has
  <2>1. CASE i < pos[q]
    BY <1>7, <2>1 DEF MetInv
  <2>2. CASE i = pos[q]
    BY <1>1, <1>2, <1>7, <2>2 DEF RanInv, Below, Has
  <2> QED BY <1>7, <2>1, <2>2
<1>10. AgreeInv'
  BY <1>6 DEF AgreeInv, Agree
<1> QED BY <1>5, <1>8, <1>9, <1>10

LEMMA OrderInit == Init => OrderInv
<1> SUFFICES ASSUME Init PROVE OrderInv
  OBVIOUS
<1>1. \A r \in Ranks : Ran(r) = <<>> /\ DOMAIN Ran(r) = {}
  BY DEF Init, Ran
<1>2. GroupInv
  BY DEF Init, GroupInv, GroupOf
<1>3. RanInv
  BY <1>1 DEF Init, RanInv, Increasing, Below
<1>4. MetInv
  BY ProgramsAssumption DEF Init, MetInv, Reduces
<1>5. AgreeInv
  BY <1>1 DEF AgreeInv, Agree
<1> QED BY <1>2, <1>3, <1>4, <1>5 DEF OrderInv

LEMMA OrderKeeps ==
  ASSUME FlatGroups, Typing, OrderInv, [Next]_vars
  PROVE  OrderInv'
<1>1. Typing' /\ GroupInv /\ RanInv /\ MetInv /\ AgreeInv
  BY TypeKeeps DEF OrderInv
<1>2. ASSUME NEW r \in Ranks, GroupInv' /\ Moves(r) PROVE OrderInv'
  BY <1>1, <1>2, MovesKeeps DEF OrderInv
<1>3. CASE \E r \in Ranks : Rank(r)
  BY <1>1, <1>2, <1>3, RankStep
<1>4. CASE (\E w \in Workers : Break(w)) \/ UNCHANGED vars
  <2>1. UNCHANGED <<program, pos, pc, depth, ops, queue, stream>>
    BY <1>4 DEF Break, hook, launched, vars
  <2>2. GroupInv' /\ Moves(0)
    BY <1>1, <2>1, QuietStep, RankFacts DEF GroupInv, GroupOf
  <2> QED BY <1>2, <2>2, RankFacts
<1>5. CASE Meet
  BY <1>1, <1>5, MeetOrder DEF OrderInv
<1> QED BY <1>3, <1>4, <1>5 DEF Next, Stop

-----------------------------------------------------------------------------
(***************************************************************************)
(* Theorems.                                                               *)
(***************************************************************************)

\* The invariant holds for every program and whatever connections break.
THEOREM FenceInductive == Spec => []FenceInv
<1>1. Init => FenceInv
  BY TypeInit, RestInit DEF FenceInv, Rest
<1>2. FenceInv /\ [Next]_vars => FenceInv'
  BY FenceKeeps
<1> QED BY <1>1, <1>2, PTL DEF Spec

\* Nothing goes to ar2 before every rank has come to its fence (ctrl_arm_fence:
\* rank 0 answers only when it has a byte of each of them).
THEOREM FenceFirst == Spec => []DispatchAfterFence
<1>1. FenceInv => DispatchAfterFence
  BY DEF FenceInv, ArmInv, GrantInv, Granted, DispatchAfterFence
<1> QED BY <1>1, FenceInductive, PTL

\* The bytes of the fence never get between abort frames (ctrl_poll_abort reads
\* the same connections eight bytes at a time).
THEOREM FramesStayAligned == Spec => []FramesAligned
<1>1. FenceInv => FramesAligned
  <2> SUFFICES ASSUME FenceInv, NEW w \in Workers
               PROVE  /\ pc[w] = "ar2" => Frames(down[w])
                      /\ pc[0] = "ar2" => Frames(up[w])
    BY DEF FramesAligned
  <2>1. pc[w] = "ar2" => Frames(down[w])
    BY RankFacts DEF FenceInv, ArmInv, DownInv
  <2>2. pc[0] = "ar2" => Frames(up[w])
    BY RankFacts DEF FenceInv, ArmInv, UpInv, Taken
  <2> QED BY <2>1, <2>2
<1> QED BY <1>1, FenceInductive, PTL

\* The invariant about the order, for programs whose groups do not nest.
THEOREM OrderInductive == ASSUME FlatGroups PROVE Spec => []OrderInv
<1>1. Init => OrderInv
  BY OrderInit
<1>2. Typing /\ OrderInv /\ [Next]_vars => OrderInv'
  BY OrderKeeps
<1>3. FenceInv => Typing
  BY DEF FenceInv
<1> QED BY <1>1, <1>2, <1>3, FenceInductive, PTL DEF Spec

\* What meets in ar2 is the same all-reduce on all ranks, and so is what meets on
\* the streams, though each rank decides by its own clock and its own failures
\* which way a call takes (v5Dispatch of the hook).
THEOREM SameCalls == ASSUME FlatGroups PROVE Spec => []SameCallMeets
<1>1. Typing /\ OrderInv => SameCallMeets
  <2> SUFFICES ASSUME Typing, OrderInv PROVE SameCallMeets
    OBVIOUS
  <2>1. AllMeet => \A r, q \in Ranks : pos[r] = pos[q]
    BY MeetTogether DEF OrderInv
  <2>2. \A r, q \in Ranks : \A n \in DOMAIN stream[r] \cap DOMAIN stream[q] :
          stream[r][n] = stream[q][n]
    <3>1. \A r \in Ranks : \A n \in DOMAIN stream[r] :
            n \in DOMAIN Ran(r) /\ Ran(r)[n] = stream[r][n]
      BY DEF OrderInv, GroupInv, Ran
    <3> QED BY <3>1 DEF OrderInv, AgreeInv, Agree
  <2> QED BY <2>1, <2>2 DEF SameCallMeets
<1>2. FenceInv => Typing
  BY DEF FenceInv
<1> QED BY <1>1, <1>2, OrderInductive, FenceInductive, PTL

\* A rank that waits for ar2 has nothing in the queue of its group (the hook lets
\* only the first operation of a group through).
THEOREM GroupOrder == ASSUME FlatGroups PROVE Spec => []GroupOrderKept
<1>1. OrderInv => GroupOrderKept
  BY DEF OrderInv, GroupInv, GroupOf, GroupOrderKept
<1> QED BY <1>1, OrderInductive, PTL
=============================================================================
