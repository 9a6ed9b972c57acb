------------------------------ MODULE MCV5Hook ------------------------------
(***************************************************************************)
(* Instances of V5Hook for TLC.                                            *)
(***************************************************************************)
EXTENDS V5Hook

\* Two triggers, a small all-reduce after each; a group in which a small one
\* follows a trigger.
Service == <<"capture", "large", "small", "large", "small">>
Grouped == <<"capture", "large", "start", "large", "small", "end">>

BothPrograms == {Service, Grouped}

\* What the proofs about the order of the calls suppose of the programs.
ASSUME GroupsAreFlat == FlatGroups
=============================================================================
