------------------------------ MODULE MCTwoHop ------------------------------
(***************************************************************************)
(* Instances of TwoHop for TLC: the combinations that twohop_bench.py,     *)
(* p0_inversion.py and the patched library run.                            *)
(***************************************************************************)
EXTENDS TwoHop

Mode(alg, align, groups, slots) ==
  [alg |-> alg, align |-> align, groups |-> groups, slots |-> slots]

BenchModes ==
  {Mode(a, TRUE, 1, 0) : a \in {"twohop", "ring", "pair"}}
    \cup {Mode(a, FALSE, g, s) : a \in {"twohop", "ring"}, g \in {1, 2}, s \in {0, 1}}
    \cup {Mode("kernel", FALSE, 1, 2)}

\* Every contribution to a sum stands in a digit of its own.
Digits == [m \in 1..MaxOps |-> [r \in Ranks |-> [c \in Ranks |->
            (10 ^ r) * (4 * (m - 1) + c + 1)]]]
=============================================================================
