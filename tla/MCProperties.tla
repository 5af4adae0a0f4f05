---------------------------- MODULE MCProperties -----------------------------
(* Instances of Properties for TLC.                                         *)
EXTENDS Properties, TLC
==============================================================================
