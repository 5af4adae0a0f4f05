------------------------------ MODULE SyncInvoke -----------------------------
(***************************************************************************)
(* How the constructors of DBusProxy and Agent and DBusProxy::connectSignal *)
(* have their work done on the thread that dispatches ctx_: a Data on the  *)
(* stack of the caller is handed to g_main_context_invoke_full, and the    *)
(* caller waits on its condition variable.                                 *)
(*                                                                         *)
(* Connman's constructor hands over from the thread of the application,    *)
(* one after the other.  The handlers of Manager make proxies on the       *)
(* thread that dispatches ctx_, where g_main_context_invoke_full does the  *)
(* work at once.  Sources are dispatched in any order here: priorities     *)
(* matter to none of the properties.                                       *)
(***************************************************************************)
CONSTANTS
    Handovers,  \* the calls of the constructors and of connectSignal
    Inline,     \* the ones made by a handler
    CanFail     \* the ones of constructors

ASSUME HandoversAssumption == Inline \subseteq Handovers /\ CanFail \subseteq Handovers

VARIABLES
    caller,  \* where each caller is
    source,  \* what has become of its source
    done,    \* data.done
    outcome  \* whether data.error is set or the work was done

vars == <<caller, source, done, outcome>>

Callers == {"idle", "invoked", "tested", "waiting", "woken", "returned", "threw"}
Sources == {"none", "attached", "direct", "called", "done", "gone"}

TypeOK ==
    /\ caller \in [Handovers -> Callers]
    /\ source \in [Handovers -> Sources]
    /\ done \in [Handovers -> BOOLEAN]
    /\ outcome \in [Handovers -> {"none", "made", "failed"}]
    /\ \A h \in Handovers : done[h] => outcome[h] # "none"

\* Data's done{false}
MutantUninitialized == [h \in Handovers |-> TRUE]
NotDone == [h \in Handovers |-> FALSE]

Init ==
    /\ caller = [h \in Handovers |-> "idle"]
    /\ source = [h \in Handovers |-> "none"]
    /\ done = NotDone
    /\ outcome = [h \in Handovers |-> "none"]

Returned(h) == caller[h] \in {"returned", "threw"}
InProgress(h) == caller[h] # "idle" /\ ~Returned(h)

\* An exception that leaves a handler ends the program.
Terminated == \E h \in Inline : caller[h] = "threw"

\* The dispatching thread is inside a source, or inside a handler.
Busy == \E h \in Handovers :
    source[h] \in {"direct", "called", "done"} \/ (h \in Inline /\ InProgress(h))

------------------------------------------------------------------------------
(* The caller.                                                              *)

\* Connman's constructor goes on if nothing has thrown, a handler is run by a
\* thread that does nothing else.
MayInvoke(h) ==
    IF h \in Inline
    THEN ~Busy
    ELSE \A g \in Handovers \ Inline : caller[g] \in {"idle", "returned"}

MutantAttach(h) == "attached"
Invoked(h) == IF h \in Inline THEN "direct" ELSE "attached"

Invoke(h) ==
    /\ caller[h] = "idle"
    /\ MayInvoke(h)
    /\ caller' = [caller EXCEPT ![h] = "invoked"]
    /\ source' = [source EXCEPT ![h] = Invoked(h)]
    /\ UNCHANGED <<done, outcome>>

\* g_main_context_invoke_full returns when its work is done or attached.
InvokeReturned(h) == h \in Inline => source[h] \in {"attached", "gone"}

\* The caller has data.mtx and tests data.done.  Its Data is gone with its
\* stack frame when it returns.
MutantNoPredicate(h) == done[h] \/ caller[h] = "woken"
MayReturn(h) == done[h]

MutantIgnoreError(h) == "returned"
Result(h) == IF outcome[h] = "failed" THEN "threw" ELSE "returned"

Test(h) ==
    /\ caller[h] \in {"invoked", "woken"}
    /\ InvokeReturned(h)
    /\ caller' = [caller EXCEPT ![h] = IF MayReturn(h) THEN Result(h) ELSE "tested"]
    /\ UNCHANGED <<source, done, outcome>>

\* data.mtx is released when the thread waits.
Block(h) ==
    /\ caller[h] = "tested"
    /\ caller' = [caller EXCEPT ![h] = "waiting"]
    /\ UNCHANGED <<source, done, outcome>>

SpuriousWakeup(h) ==
    /\ caller[h] = "waiting"
    /\ caller' = [caller EXCEPT ![h] = "woken"]
    /\ UNCHANGED <<source, done, outcome>>

------------------------------------------------------------------------------
(* The thread that dispatches ctx_.                                         *)

\* g_dbus_proxy_new_sync, g_dbus_connection_register_object or g_signal_connect
Run(h) ==
    /\ source[h] = "direct" \/ (source[h] = "attached" /\ ~Busy)
    /\ source' = [source EXCEPT ![h] = "called"]
    /\ \E result \in {"made"} \cup (IF h \in CanFail THEN {"failed"} ELSE {}) :
          outcome' = [outcome EXCEPT ![h] = result]
    /\ UNCHANGED <<caller, done>>

MutantNoLock(h) == TRUE
MutexFree(h) == caller[h] # "tested"

SetDone(h) ==
    /\ source[h] = "called"
    /\ MutexFree(h)
    /\ source' = [source EXCEPT ![h] = "done"]
    /\ done' = [done EXCEPT ![h] = TRUE]
    /\ UNCHANGED <<caller, outcome>>

\* data->cv.notify_all(), without the mutex: the caller may have returned, and
\* the condition variable with it.  The notification is then taken to be lost.
NotifyAll(h) ==
    /\ source[h] = "done"
    /\ source' = [source EXCEPT ![h] = "gone"]
    /\ caller' = IF caller[h] = "waiting" THEN [caller EXCEPT ![h] = "woken"] ELSE caller
    /\ UNCHANGED <<done, outcome>>

------------------------------------------------------------------------------

Caller(h) == Invoke(h) \/ Test(h) \/ Block(h) \/ SpuriousWakeup(h)
Dispatcher(h) == Run(h) \/ SetDone(h) \/ NotifyAll(h)

Next == ~Terminated /\ \E h \in Handovers : Caller(h) \/ Dispatcher(h)

Spec == Init /\ [][Next]_vars

\* A caller that can go on does, the loop dispatches its sources until the
\* program ends, and data.mtx is not kept from a thread for ever by a caller
\* that takes it for a moment at each spurious wakeup.
Fairness == \A h \in Handovers :
    /\ WF_vars(~Terminated /\ (Test(h) \/ Block(h)))
    /\ WF_vars(~Terminated /\ (Run(h) \/ NotifyAll(h)))
    /\ SF_vars(~Terminated /\ SetDone(h))

FairSpec == Spec /\ Fairness

------------------------------------------------------------------------------
(* Properties.                                                              *)

\* A Data is there as long as the work, its result or done is written to it:
\* a caller that wakes up early must not leave (gproxy.hpp:120-123, 271).
FrameInUse == \A h \in Handovers :
    Returned(h) => source[h] \notin {"attached", "direct", "called"}

\* The hand-over is a RemoteCall (gproxy.hpp:85-124, 219-278,
\* gconnman_agent.cpp:54-92).
statusBar == [h \in Handovers |->
    IF caller[h] = "idle" THEN "idle"
    ELSE IF Returned(h) THEN caller[h]
    ELSE IF outcome[h] = "none" THEN "pending"
    ELSE outcome[h]]

Remote == INSTANCE RemoteCall WITH Calls <- Handovers, status <- statusBar
ImplementsRemoteCall == Remote!Spec

\* Whoever hands over gets an answer, also a handler, on the very thread that
\* would have to do the work (gproxy.hpp:100, 239, 272).
HandoverReturns == \A h \in Handovers :
    InProgress(h) ~> Returned(h) \/ Terminated
==============================================================================
