------------------------------ MODULE MCManager ------------------------------
(* Instances of Manager for TLC.                                            *)
EXTENDS Manager, TLC

CONSTANTS s1, s2, t1

MCServices == {s1, s2}
MCTechnologies == {t1}
==============================================================================
