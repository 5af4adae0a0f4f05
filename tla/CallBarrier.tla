----------------------------- MODULE CallBarrier -----------------------------
(***************************************************************************)
(* What DBus::stop promises to the code that makes asynchronous calls,     *)
(* without threads, loop, counter or locks: when stop() returns, every     *)
(* call that was started before it, and every call made on behalf of such  *)
(* a call, has been answered.  Calls made on nobody's behalf after stop()  *)
(* began may be left behind.                                               *)
(***************************************************************************)
CONSTANT Calls

VARIABLES
    phase,   \* of the DBus object
    status,  \* of each call
    awaited  \* the calls stop() has to wait for

barrierVars == <<phase, status, awaited>>

With(s) == {c \in Calls : status[c] = s}

Init ==
    /\ phase = "open"
    /\ status = [c \in Calls |-> "idle"]
    /\ awaited = {}

Begin(c) ==
    /\ status[c] = "idle"
    /\ status' = [status EXCEPT ![c] = "pending"]
    /\ UNCHANGED phase

\* A call on nobody's behalf.
StartCall(c) == Begin(c) /\ UNCHANGED awaited

\* A call from the callback of a call that is being waited for: it is waited
\* for too, so it can only be made before stop() returns.
ChainCall(c) ==
    /\ Begin(c)
    /\ phase = "stopping"
    /\ awaited \cap With("pending") # {}
    /\ awaited' = awaited \cup {c}

FinishCall(c) ==
    /\ status[c] = "pending"
    /\ status' = [status EXCEPT ![c] = "done"]
    /\ UNCHANGED <<phase, awaited>>

BeginStop ==
    /\ phase = "open"
    /\ phase' = "stopping"
    /\ awaited' = Calls \ With("idle")
    /\ UNCHANGED status

StopReturns ==
    /\ phase = "stopping"
    /\ awaited \subseteq With("done")
    /\ phase' = "stopped"
    /\ UNCHANGED <<status, awaited>>

Next ==
    \/ \E c \in Calls : StartCall(c) \/ ChainCall(c) \/ FinishCall(c)
    \/ BeginStop
    \/ StopReturns

Spec == Init /\ [][Next]_barrierVars
==============================================================================
