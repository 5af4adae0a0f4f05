----------------------------- MODULE MCCallbacks ------------------------------
(* Instances of Callbacks for TLC.                                          *)
EXTENDS Callbacks, TLC

CONSTANTS app, input, manager, service

MCApp == {app}
MCInputs == {input}
MCProxies == {manager, service}
MCWatched == {manager, service}
MCLists == {"services"}
==============================================================================
