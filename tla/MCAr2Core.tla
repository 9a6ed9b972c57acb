----------------------------- MODULE MCAr2Core -----------------------------
(***************************************************************************)
(* Instances of Ar2Core for TLC.                                           *)
(***************************************************************************)
EXTENDS Ar2CoreInv

NoLayers == {}

\* Ops 1 to 3 are one layer: it reuses the first slot of two.
LayerOfThree == {<<1, 3>>}
=============================================================================
