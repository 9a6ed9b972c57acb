----------------------------- MODULE PatchTree -----------------------------
(***************************************************************************)
(* src/patches/apply_2hop_patch.py: seven changes to five files of a NCCL  *)
(* source tree, each one a replacement of an anchor by a text that a       *)
(* marker recognises, the last one an append.  The script is run again     *)
(* after a failure or a crash, on the tree as it was left.                 *)
(*                                                                         *)
(* A file is the sequence of the places the script looks at: anchors, what *)
(* was put there, and the rest.  A file is opened for writing before it is *)
(* written: a crash leaves any prefix of its new content.                  *)
(***************************************************************************)
EXTENDS Integers, Sequences, SequencesExt, FiniteSets

CONSTANT MaxRuns   \* times the script is started; bounds the model

VARIABLES
  tree,   \* tree[f]: the content of file f
  run,    \* the runs started
  step,   \* the step of the current run, 0 when none is on its way
  ended,  \* how the last run ended: "none", "done", "failed" or "crashed"
  torn    \* a crash has left a file half written

vars == <<tree, run, step, ended, torn>>

Pristine ==
  [tuner    |-> <<"pat 6", "rest">>,
   tuner_v5 |-> <<"algorithms 7", "rest">>,
   init     |-> <<"algo names", "graphs", "rest">>,
   tuning   |-> <<"threads", "rest">>,
   kernels  |-> <<"namespace end", "rest">>]

Files == DOMAIN Pristine

\* A step replaces its anchor by the texts of "new"; it has been applied when
\* the text "marker" is found. The marker of step 4 is in none of the new texts.
Replace(f, anchor, new, marker) ==
  [file |-> f, anchor |-> anchor, new |-> new, marker |-> marker]

Steps ==
  << Replace("tuner", "pat 6", <<"pat 6, 2hop 7">>, "pat 6, 2hop 7"),
     Replace("tuner_v5", "algorithms 7", <<"algorithms 8">>, "algorithms 8"),
     Replace("init", "algo names", <<"algo names, 2hop">>, "algo names, 2hop"),
     Replace("init", "graphs", <<"graphs, ring">>, "aicad 2hop"),
     Replace("tuning", "threads", <<"threads", "2hop threads">>, "2hop threads"),
     Replace("kernels", "namespace end", <<"run2Hop", "namespace end">>, "run2Hop") >>

Dispatch == <<"simple", "ll", "ll128">>
FinalStep == Len(Steps) + 1

Has(f, t) == \E i \in DOMAIN tree[f] : tree[f][i] = t

Init ==
  /\ tree = Pristine
  /\ run = 0
  /\ step = 0
  /\ ended = "none"
  /\ torn = FALSE

Start ==
  /\ step = 0 /\ run < MaxRuns
  /\ run' = run + 1
  /\ step' = 1
  /\ ended' = "none"
  /\ UNCHANGED <<tree, torn>>

\* Variant for a mutant: a file is done when any of its markers is there.
FileApplied ==
  IF step = FinalStep THEN Has("kernels", Head(Dispatch))
  ELSE \E i \in DOMAIN Steps : /\ Steps[i].file = Steps[step].file
                              /\ Has(Steps[i].file, Steps[i].marker)

\* The marker is there: the step is skipped.
Applied ==
  IF step = FinalStep THEN Has("kernels", Head(Dispatch))
                 ELSE Has(Steps[step].file, Steps[step].marker)

Anchored == IF step = FinalStep THEN TRUE ELSE Has(Steps[step].file, Steps[step].anchor)

Target == IF step = FinalStep THEN "kernels" ELSE Steps[step].file

\* Variant for a mutant: every file is opened to append, as the last one is.
AppendWritten ==
  IF step = FinalStep THEN tree["kernels"] \o Dispatch
  ELSE tree[Target]
         \o ReplaceFirstSubSeq(Steps[step].new, <<Steps[step].anchor>>, tree[Target])

\* The new content of the file of this step.
Written ==
  IF step = FinalStep THEN tree["kernels"] \o Dispatch
  ELSE ReplaceFirstSubSeq(Steps[step].new, <<Steps[step].anchor>>, tree[Target])

Advance ==
  IF step = FinalStep THEN step' = 0 /\ ended' = "done"
                 ELSE step' = step + 1 /\ UNCHANGED ended

Skip ==
  /\ step # 0 /\ Applied
  /\ Advance
  /\ UNCHANGED <<tree, run, torn>>

Fail ==
  /\ step # 0 /\ ~Applied /\ ~Anchored
  /\ step' = 0
  /\ ended' = "failed"
  /\ UNCHANGED <<tree, run, torn>>

Write ==
  /\ step # 0 /\ ~Applied /\ Anchored
  /\ tree' = [tree EXCEPT ![Target] = Written]
  /\ Advance
  /\ UNCHANGED <<run, torn>>

\* The process dies between two steps, or with a part of the file written: an
\* append keeps what was there.
Crash ==
  /\ step # 0
  /\ step' = 0
  /\ ended' = "crashed"
  /\ UNCHANGED run
  /\ \/ UNCHANGED <<tree, torn>>
     \/ /\ ~Applied /\ Anchored
        /\ \E n \in 0 .. Len(Written) - 1 :
             /\ step = FinalStep => n >= Len(tree[Target])
             /\ tree' = [tree EXCEPT ![Target] = SubSeq(Written, 1, n)]
        /\ torn' = TRUE

\* Nobody starts the script again.
Stop == step = 0 /\ run = MaxRuns /\ UNCHANGED vars

Next == Start \/ Skip \/ Fail \/ Write \/ Crash \/ Stop

Spec == Init /\ [][Next]_vars

-----------------------------------------------------------------------------
(***************************************************************************)
(* Properties.                                                             *)
(***************************************************************************)

\* Whatever was interrupted and run again, no change is in the tree twice: two
\* kernels, or two sets of thread limits, would not compile or not agree.
NothingTwice ==
  \A f \in Files : \A i, j \in DOMAIN tree[f] : tree[f][i] = tree[f][j] => i = j

\* The tree that the seven steps are meant to lead to.
Patched ==
  [tuner    |-> <<"pat 6, 2hop 7", "rest">>,
   tuner_v5 |-> <<"algorithms 8", "rest">>,
   init     |-> <<"algo names, 2hop", "graphs, ring", "rest">>,
   tuning   |-> <<"threads", "2hop threads", "rest">>,
   kernels  |-> <<"run2Hop", "namespace end", "rest">> \o Dispatch]

\* A run that reports DONE leaves the whole patch, unless a file was torn (a
\* prefix with the marker in it is taken for the whole). A run that comes after
\* the graphs were changed cannot report DONE: their marker is never written.
DoneMeansPatched == ended = "done" /\ ~torn => tree = Patched
=============================================================================
