---------------------------- MODULE MCSyncInvoke -----------------------------
(* Instances of SyncInvoke for TLC.                                         *)
EXTENDS SyncInvoke, TLC

CONSTANTS clock, manager, signal, service1, service2

AllHandovers == {clock, manager, signal, service1, service2}
ByHandlers == {service1, service2}
Constructors == AllHandovers \ {signal}
==============================================================================
