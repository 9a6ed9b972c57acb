----------------------------- MODULE AllReduce -----------------------------
(***************************************************************************)
(* What the ar2 engine promises its caller (ar2.h: ar2_allreduce leaves in *)
(* every rank's buffer the sum over the ranks), without rounds, slots,     *)
(* doorbells or kernels: a sequence of in-place all-reduces, op 1, op 2,   *)
(* ..., that every rank performs one after the other.                      *)
(*                                                                         *)
(* A value is the set of the contributions <<rank, op>> it is the sum of.  *)
(***************************************************************************)
EXTENDS Naturals

CONSTANTS
  Ranks,   \* the ranks of the communicator
  MaxOps   \* the operations of the workload; bounds the model

VARIABLES
  entered,    \* entered[r]:   the ops whose input rank r has contributed
  reduced,    \* reduced[r]:   the ops whose result is in rank r's buffer
  completed,  \* completed[r]: the ops whose call has returned on rank r
  buf         \* buf[r][m]:    the value in the buffer of op m on rank r

vars == <<entered, reduced, completed, buf>>

Own(r, m) == {<<r, m>>}
Total(m) == Ranks \X {m}

Init ==
  /\ entered = [r \in Ranks |-> 0]
  /\ reduced = [r \in Ranks |-> 0]
  /\ completed = [r \in Ranks |-> 0]
  /\ buf = [r \in Ranks |-> [m \in 1..MaxOps |-> Own(r, m)]]

\* Rank r contributes the input of its next op, its previous one reduced.
Enter(r) ==
  /\ entered[r] < MaxOps
  /\ entered[r] = reduced[r]
  /\ entered' = [entered EXCEPT ![r] = @ + 1]
  /\ UNCHANGED <<reduced, completed, buf>>

\* The result of rank r's op reaches its buffer: not before every rank has
\* contributed to that op.
Reduce(r) ==
  LET m == reduced[r] + 1 IN
  /\ m <= entered[r]
  /\ \A q \in Ranks : entered[q] >= m
  /\ reduced' = [reduced EXCEPT ![r] = m]
  /\ buf' = [buf EXCEPT ![r][m] = Total(m)]
  /\ UNCHANGED <<entered, completed>>

\* The call returns: its result is in the buffer.
Return(r) ==
  /\ completed[r] < reduced[r]
  /\ completed' = [completed EXCEPT ![r] = @ + 1]
  /\ UNCHANGED <<entered, reduced, buf>>

Next == \E r \in Ranks : Enter(r) \/ Reduce(r) \/ Return(r)

Spec == Init /\ [][Next]_vars
=============================================================================
