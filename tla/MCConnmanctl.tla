----------------------------- MODULE MCConnmanctl -----------------------------
(* Instances of Connmanctl for TLC.                                         *)
EXTENDS Connmanctl, TLC

CONSTANTS r1, r2

TwoRequests == {r1, r2}
==============================================================================
