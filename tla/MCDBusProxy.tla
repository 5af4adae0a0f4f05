----------------------------- MODULE MCDBusProxy -----------------------------
(* Instances of DBusProxy for TLC.                                          *)
EXTENDS DBusProxy, TLC

CONSTANTS main, worker, glib, c1, c2, c3, p1, p2

MCAppThreads == {main, worker}
TwoCalls == {c1, c2}
ThreeCalls == {c1, c2, c3}
OneProxy == {p1}
TwoProxies == {p1, p2}
AllOnP1 == [c \in Calls |-> p1]
\* c1 and c3 on one proxy, c2 on the other.
Split == [c \in Calls |-> IF c = c2 THEN p2 ELSE p1]
\* c3, when there is one, is made without a callback.
WithoutC3 == Calls \ {c3}
==============================================================================
