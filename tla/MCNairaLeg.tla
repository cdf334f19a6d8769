----------------------------- MODULE MCNairaLeg -----------------------------
(***************************************************************************)
(* Instances of NairaLeg for TLC.                                          *)
(***************************************************************************)
EXTENDS NairaLeg

\* One unit per leg; the merchant is owed the legs' total, or more.
OneEach == [t \in Tap |-> 1]
=============================================================================
