------------------------------ MODULE MCConnman ------------------------------
(* Instances of Connman for TLC.                                            *)
EXTENDS Connman, TLC

CONSTANTS u1, u2

TwoCalls == {u1, u2}
==============================================================================
