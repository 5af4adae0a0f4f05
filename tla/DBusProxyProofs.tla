--------------------------- MODULE DBusProxyProofs ---------------------------
(***************************************************************************)
(* Proofs about DBusProxy, for every set of threads, calls and proxies.    *)
(***************************************************************************)
EXTENDS DBusProxy, FiniteSetTheorems, TLAPS

------------------------------------------------------------------------------
(* Type correctness.                                                        *)

\* Attaching a source keeps the queue well formed.
LEMMA AttachType ==
    ASSUME QueueOK, NEW s \in Calls \cup {Started, Signal}, Attach(s), UNCHANGED left
    PROVE  QueueOK'
    BY DEF QueueOK, Attach

\* So does dispatching the oldest one, which is one of those attached.
LEMMA TakeType ==
    ASSUME QueueOK, NEW s, Take(s)
    PROVE  QueueOK' /\ s \in Calls \cup {Started, Signal}
    BY DEF QueueOK, Take

\* Unsigned arithmetic stays in range.
LEMMA UIntType ==
    ASSUME NEW n \in 0..UIntMax
    PROVE  Inc(n) \in 0..UIntMax /\ Dec(n) \in 0..UIntMax
    BY UIntAssumption DEF Inc, Dec

\* Inserting into and erasing from callbacks_.
LEMMA MapType ==
    ASSUME NEW m \in SUBSET (Nat \X Calls), NEW k \in Nat, NEW c \in Calls
    PROVE  /\ Put(m, k, c) \in SUBSET (Nat \X Calls)
           /\ Erase(m, k) \in SUBSET (Nat \X Calls)
    BY DEF Put, Erase

\* Every state of the library is well typed: pending_calls_ stays an unsigned
\* int, the iteration in progress never collects more sources than ctx_ has.
THEOREM TypeCorrect == Spec => []TypeOK
<1>1. Init => TypeOK
    <2> SUFFICES ASSUME Init PROVE TypeOK
        OBVIOUS
    <2> USE ThreadAssumption, UIntAssumption, CallAssumption
    <2>1. QueueOK
        BY DEF Init, DBusInit, ContextInit, QueueOK
    <2>2. running_ \in BOOLEAN /\ is_running \in BOOLEAN
        BY Zenon DEF Init, DBusInit, ContextInit
    <2>3. pc \in [Threads -> MainLabels \cup DispatchLabels \cup GlibLabels]
        BY DEF Init, DBusInit, MainLabels, GlibLabels
    <2>4. DBusTypeOK
        BY <2>2, <2>3 DEF Init, DBusInit, DBusTypeOK
    <2> QED
        BY <2>1, <2>2, <2>4 DEF Init, TypeOK, Stages
<1>2. TypeOK /\ [Next]_vars => TypeOK'
    <2> SUFFICES ASSUME TypeOK, [Next]_vars PROVE TypeOK'
        OBVIOUS
    <2> USE ThreadAssumption, UIntAssumption, CallAssumption
    <2> USE DEF TypeOK, DBusTypeOK, Threads, Goto, MoveTo, callVars
    <2> UNCHANGED <<queue, left>> => QueueOK'
        BY DEF QueueOK
    <2>1. CASE Start
        BY <2>1 DEF Start, ConstructorThrows, CreateThread, StartReturns,
                    contextVars, MainLabels, GlibLabels
    <2>2. CASE GlibThread
        <3>1. CASE InvokeOnLoopStarted
            BY <3>1, <2>2, AttachType DEF GlibThread, InvokeOnLoopStarted,
               GlibLabels
        <3>2. CASE NewLoop \/ RunLoop \/ LoopReturns \/ UnrefLoop \/ ClearLoop
            BY <3>2, <2>2 DEF GlibThread, NewLoop, RunLoop, LoopReturns, UnrefLoop,
                              ClearLoop, contextVars, GlibLabels, DispatchLabels
        <3>3. CASE OnLoopStarted
            BY <3>3, <2>2, TakeType DEF GlibThread, OnLoopStarted
        <3> QED
            BY <2>2, <3>1, <3>2, <3>3 DEF GlibThread
    <2>3. CASE BeginStop
        BY <2>3 DEF BeginStop, ClearRunning, contextVars, StopLabels, MainLabels,
           InFlight, Done
    <2>4. CASE Stop
        <3> pc' \in [Threads -> MainLabels \cup DispatchLabels \cup GlibLabels]
            BY <2>4 DEF Stop, StopTestLoop, StopTestRunning, StopTestPending,
               StopQuit,
                        Join, StopLabels, MainLabels
        <3> QED
            BY <2>4 DEF Stop, StopTestLoop, StopTestRunning, StopTestPending,
               StopQuit,
                        Join, contextVars
    <2>5. CASE Destroy
        BY <2>5 DEF Destroy, BeginDrain, EndDrain, contextVars, MainLabels,
           DispatchLabels
    <2>6. ASSUME NEW t \in {Main, Glib}, Dispatch(t) PROVE TypeOK'
        <3> t \in Threads
            OBVIOUS
        <3>1. CASE Iterate(t) /\ UNCHANGED callVars
            BY <3>1 DEF Iterate, Collect, QueueOK, dbusVars
        <3>2. ASSUME NEW c \in Calls, DispatchCall(t, c) PROVE TypeOK'
            BY <3>2, TakeType DEF DispatchCall, dbusVars, Stages, Counted
        <3>3. ASSUME NEW c \in Calls, RunCallback(t, c) PROVE TypeOK'
            BY <3>3, TakeType DEF RunCallback, Stages, Counted, DispatchLabels
        <3>4. ASSUME NEW c \in Calls, CallbackReturns(t, c) PROVE TypeOK'
            <4>1. Erase(callbacks_[ProxyOf[c]], counter[c]) \in SUBSET (Nat \X Calls)
                BY MapType
            <4> QED
                BY <3>4, <4>1 DEF CallbackReturns, contextVars, DispatchLabels
        <3>5. ASSUME NEW c \in Calls, SkipCallback(t, c) PROVE TypeOK'
            BY <3>5, TakeType DEF SkipCallback, Stages, Counted, DispatchLabels
        <3>6. ASSUME NEW c \in Calls, DoneStore(t, c) PROVE TypeOK'
            BY <3>6, UIntType DEF DoneStore, AsyncDoneStore, Stages, DispatchLabels
        <3>7. CASE DoneLoad(t)
            BY <3>7 DEF DoneLoad, AsyncDoneLoad, contextVars, DispatchLabels
        <3>8. CASE DispatchSignal(t)
            BY <3>8, TakeType DEF DispatchSignal, DispatchLabels
        <3>9. CASE SignalReturns(t)
            BY <3>9 DEF SignalReturns, contextVars, DispatchLabels
        <3> QED
            BY <2>6, <3>1, <3>2, <3>3, <3>4, <3>5, <3>6, <3>7, <3>8, <3>9
            DEF Dispatch
    <2>7. ASSUME NEW t \in Threads, NEW c \in Calls, PrepareLock(t, c) PROVE TypeOK'
        BY <2>7 DEF PrepareLock, AsyncStartLoad, contextVars, Stages
    <2>8. ASSUME NEW t \in Threads, NEW c \in Calls, PrepareCommit(t, c)
          PROVE  TypeOK'
        <3>1. NextKey(ProxyOf[c]) \in Nat
            BY DEF NextKey
        <3>2. /\ callback_counter_' \in [Proxies -> Nat]
              /\ callbacks_' \in [Proxies -> SUBSET (Nat \X Calls)]
              /\ counter' \in [Calls -> Nat]
            <4>1. Put(callbacks_[ProxyOf[c]], NextKey(ProxyOf[c]), c)
                      \in SUBSET (Nat \X Calls)
                BY <3>1, MapType
            <4> QED
                BY <2>8, <3>1, <4>1 DEF PrepareCommit, Register
        <3> QED
            BY <2>8, <3>2, UIntType DEF PrepareCommit, AsyncStartStore, contextVars,
                                       Stages, Counted
    <2>9. ASSUME NEW t \in Threads, NEW c \in Calls, CallMethod(t, c) PROVE TypeOK'
        BY <2>9, AttachType DEF CallMethod, dbusVars, Stages, Counted
    <2>10. ASSUME NEW c \in Calls, Reply(c) PROVE TypeOK'
        BY <2>10, AttachType DEF Reply, dbusVars, Stages, Counted
    <2>11. CASE EmitSignal
        BY <2>11, AttachType DEF EmitSignal, dbusVars
    <2>12. CASE UNCHANGED vars
        BY <2>12 DEF vars, contextVars, dbusVars
    <2> QED
        BY <2>1, <2>2, <2>3, <2>4, <2>5, <2>6, <2>7, <2>8, <2>9, <2>10, <2>11, <2>12
        DEF Next, Issue, Terminated
<1> QED
    BY <1>1, <1>2, PTL DEF Spec
------------------------------------------------------------------------------
(* Who is where, and who owns what.                                         *)

Executing == {"cb", "dec", "dec_store"}

\* The threads other than Main and Glib never leave the application; the
\* sources of ctx_ are dispatched by Glib and, once it is gone, by Main.
Control ==
    /\ \A t \in AppThreads \ {Main} : pc[t] = "app"
    /\ pc[Main] \in MainLabels \cup DispatchLabels
    /\ pc[Glib] \in GlibLabels \cup DispatchLabels
    /\ pc[Main] \in DispatchLabels \cup {"joined", "destroyed"}
          => pc[Glib] = "finished"
    /\ pc[Main] \in {"ctor", "failed"} => pc[Glib] = "none"

\* Calls are made in user code only; a thread that is in the middle of
\* prepareCallback owns the proxy's mtx_, and so does the thread that runs
\* onAnyAsyncDone; at most one completion is being dispatched.
Owners ==
    /\ \A t \in Threads : issuing[t] # None =>
          InUserCode(t) /\ stage[issuing[t]] \in {"locked", "prepared"}
    /\ \A t, u \in Threads : issuing[t] = issuing[u] /\ issuing[t] # None => t = u
    /\ \A c \in Calls : stage[c] = "locked" =>
          \E t \in Threads : issuing[t] = c /\ pmtx[ProxyOf[c]] = t
    /\ \A t \in Threads : pc[t] \in Executing => cur # None
    /\ \A t \in Threads : pc[t] \in {"dec", "dec_store"} => pmtx[ProxyOf[cur]] = t
    /\ \A c \in Calls : stage[c] = "running" <=> cur = c
    /\ cur # None => \E t \in {Main, Glib} : pc[t] \in Executing

\* Only one thread dispatches.
LEMMA OneDispatcher ==
    ASSUME Control, NEW t \in Threads, NEW u \in Threads,
           pc[t] \in DispatchLabels, pc[u] \in DispatchLabels
    PROVE  t = u /\ t \in {Main, Glib}
<1>1. t \in {Main, Glib} /\ u \in {Main, Glib}
    BY DEF Control, Threads, DispatchLabels
<1>2. ~(pc[Main] \in DispatchLabels /\ pc[Glib] \in DispatchLabels)
    BY DEF Control, DispatchLabels
<1> QED
    BY <1>1, <1>2

\* Every thread is where its code can be, and Main drains ctx_ only when
\* glib_thread_ has finished: at most one of them dispatches.
THEOREM ControlCorrect == Spec => []Control
<1>1. Init => Control
    <2> SUFFICES ASSUME Init PROVE Control
        OBVIOUS
    <2>1. /\ pc[Main] = "ctor" /\ pc[Glib] = "none"
          /\ \A t \in AppThreads \ {Main} : pc[t] = "app"
        BY ThreadAssumption DEF Init, DBusInit, Threads
    <2> QED
        BY <2>1 DEF Control, MainLabels, GlibLabels, DispatchLabels
<1>2. TypeOK /\ Control /\ [Next]_vars => Control'
    <2> SUFFICES ASSUME TypeOK, Control, [Next]_vars PROVE Control'
        OBVIOUS
    <2> USE ThreadAssumption
    <2> USE DEF Control, TypeOK, DBusTypeOK, Threads, Goto, MainLabels, DispatchLabels,
                GlibLabels, StopLabels
    <2>1. CASE Start
        BY <2>1 DEF Start, ConstructorThrows, CreateThread, StartReturns
    <2>2. CASE GlibThread
        BY <2>2 DEF GlibThread, InvokeOnLoopStarted, NewLoop, RunLoop,
           OnLoopStarted, LoopReturns, UnrefLoop, ClearLoop
    <2>3. CASE BeginStop
        BY <2>3 DEF BeginStop, ClearRunning
    <2>4. CASE Stop
        BY <2>4 DEF Stop, StopTestLoop, StopTestRunning, StopTestPending,
           StopQuit, Join
    <2>5. CASE Destroy
        BY <2>5 DEF Destroy, BeginDrain, EndDrain
    <2>6. ASSUME NEW t \in {Main, Glib}, Dispatch(t) PROVE Control'
        <3> t \in Threads
            BY ThreadAssumption DEF Threads
        <3>1. CASE Iterate(t) /\ UNCHANGED callVars
            BY <3>1 DEF Iterate, dbusVars
        <3>2. ASSUME NEW c \in Calls, DispatchCall(t, c) PROVE Control'
            BY <3>2 DEF DispatchCall, dbusVars
        <3>3. ASSUME NEW c \in Calls, RunCallback(t, c) PROVE Control'
            BY <3>3 DEF RunCallback
        <3>4. ASSUME NEW c \in Calls, CallbackReturns(t, c) PROVE Control'
            BY <3>4 DEF CallbackReturns
        <3>5. ASSUME NEW c \in Calls, SkipCallback(t, c) PROVE Control'
            BY <3>5 DEF SkipCallback
        <3>6. ASSUME NEW c \in Calls, DoneStore(t, c) PROVE Control'
            BY <3>6 DEF DoneStore, AsyncDoneStore
        <3>7. CASE DoneLoad(t)
            BY <3>7 DEF DoneLoad, AsyncDoneLoad
        <3>8. CASE DispatchSignal(t)
            BY <3>8 DEF DispatchSignal
        <3>9. CASE SignalReturns(t)
            BY <3>9 DEF SignalReturns
        <3> QED
            BY <2>6, <3>1, <3>2, <3>3, <3>4, <3>5, <3>6, <3>7, <3>8, <3>9
            DEF Dispatch
    <2>7. ASSUME NEW t \in Threads, NEW c \in Calls, PrepareLock(t, c)
          PROVE  Control'
        BY <2>7 DEF PrepareLock, AsyncStartLoad
    <2>8. ASSUME NEW t \in Threads, NEW c \in Calls, PrepareCommit(t, c)
          PROVE  Control'
        BY <2>8 DEF PrepareCommit, AsyncStartStore
    <2>9. ASSUME NEW t \in Threads, NEW c \in Calls, CallMethod(t, c) PROVE Control'
        BY <2>9 DEF CallMethod, dbusVars
    <2>10. ASSUME NEW c \in Calls, Reply(c) PROVE Control'
        BY <2>10 DEF Reply, dbusVars
    <2>11. CASE EmitSignal
        BY <2>11 DEF EmitSignal, dbusVars
    <2>12. CASE UNCHANGED vars
        BY <2>12 DEF vars, dbusVars
    <2> QED
        BY <2>1, <2>2, <2>3, <2>4, <2>5, <2>6, <2>7, <2>8, <2>9, <2>10, <2>11,
           <2>12 DEF Next, Issue, Terminated
<1> QED
    BY <1>1, <1>2, TypeCorrect, PTL DEF Spec

\* A step that moves threads, none of them into or out of a completion and
\* none out of a call it is making, changes no ownership.
LEMMA MovesKeepOwners ==
    ASSUME TypeOK, Owners, UNCHANGED <<pmtx, stage, issuing, cur>>,
           \A t \in Threads : issuing[t] # None => InUserCode(t)',
           \A t \in Threads : pc'[t] \in Executing <=> pc[t] \in Executing,
           \A t \in Threads : pc'[t] \in {"dec", "dec_store"}
                                <=> pc[t] \in {"dec", "dec_store"}
    PROVE  Owners'
    BY ThreadAssumption DEF Owners, Threads

\* What each thread in the middle of a call, or of a completion, owns.
THEOREM OwnersCorrect == Spec => []Owners
<1>1. Init => Owners
    BY ThreadAssumption, CallAssumption
    DEF Init, DBusInit, Owners, Threads, Executing
<1>2. TypeOK /\ Control /\ Owners /\ [Next]_vars => Owners'
    <2> SUFFICES ASSUME TypeOK, Control, Owners, [Next]_vars PROVE Owners'
        OBVIOUS
    <2> USE ThreadAssumption, CallAssumption
    <2> USE DEF Owners, TypeOK, DBusTypeOK, Threads, Goto, MoveTo, Executing, InUserCode,
                callVars
    <2>1. CASE Start
        <3>1. /\ pc[Main] \in {"ctor", "waiting"}
              /\ pc'[Main] \in {"failed", "waiting", "app"}
              /\ \/ pc'[Glib] = pc[Glib]
                 \/ pc[Glib] = "none" /\ pc'[Glib] = "invoke"
              /\ \A t \in Threads \ {Main, Glib} : pc'[t] = pc[t]
            <4>1. CASE ConstructorThrows
                BY <4>1 DEF ConstructorThrows
            <4>2. CASE CreateThread
                BY <4>2 DEF CreateThread, Control
            <4>3. CASE StartReturns
                BY <4>3 DEF StartReturns
            <4> QED
                BY <2>1, <4>1, <4>2, <4>3 DEF Start
        <3>2. UNCHANGED callVars
            BY <2>1 DEF Start
        <3> QED
            BY <3>1, <3>2, MovesKeepOwners
    <2>2. CASE GlibThread
        BY <2>2 DEF GlibThread, InvokeOnLoopStarted, NewLoop, RunLoop,
           OnLoopStarted, LoopReturns, UnrefLoop, ClearLoop
    <2>3. CASE BeginStop
        BY <2>3 DEF BeginStop, ClearRunning
    <2>4. CASE Stop
        BY <2>4 DEF Stop, StopTestLoop, StopTestRunning, StopTestPending,
           StopQuit, Join
    <2>5. CASE Destroy
        <3>1. /\ pc[Main] \in {"joined", "iter"}
              /\ pc' = [pc EXCEPT ![Main] = pc'[Main]]
              /\ pc'[Main] \in {"iter", "destroyed"}
            BY <2>5 DEF Destroy, BeginDrain, EndDrain
        <3>2. UNCHANGED callVars
            BY <2>5 DEF Destroy
        <3> QED
            BY <3>1, <3>2, MovesKeepOwners
    <2>6. ASSUME NEW t \in {Main, Glib}, Dispatch(t) PROVE Owners'
        <3> t \in Threads
            BY ThreadAssumption DEF Threads
        <3>1. CASE Iterate(t) /\ UNCHANGED callVars
            BY <3>1 DEF Iterate, dbusVars
        <3>2. ASSUME NEW c \in Calls, DispatchCall(t, c) PROVE Owners'
            BY <3>2 DEF DispatchCall, dbusVars
        <3>3. ASSUME NEW c \in Calls, RunCallback(t, c) PROVE Owners'
            <4>1. cur = None /\ \A u \in Threads : pc[u] \notin Executing
                BY <3>3, OneDispatcher DEF RunCallback, DispatchLabels
            <4> QED
                BY <3>3, <4>1 DEF RunCallback
        <3>4. ASSUME NEW c \in Calls, CallbackReturns(t, c) PROVE Owners'
            BY <3>4 DEF CallbackReturns
        <3>5. ASSUME NEW c \in Calls, SkipCallback(t, c) PROVE Owners'
            <4>1. cur = None /\ \A u \in Threads : pc[u] \notin Executing
                BY <3>5, OneDispatcher DEF SkipCallback, DispatchLabels
            <4> QED
                BY <3>5, <4>1 DEF SkipCallback
        <3>6. ASSUME NEW c \in Calls, DoneStore(t, c) PROVE Owners'
            <4>1. \A u \in Threads : pc[u] \in Executing => u = t
                BY <3>6, OneDispatcher DEF DoneStore, AsyncDoneStore, DispatchLabels
            <4>2. \A u \in Threads : pc'[u] \notin Executing
                BY <3>6, <4>1 DEF DoneStore, AsyncDoneStore
            <4> QED
                BY <3>6, <4>1, <4>2 DEF DoneStore, AsyncDoneStore
        <3>7. CASE DoneLoad(t)
            BY <3>7 DEF DoneLoad, AsyncDoneLoad
        <3>8. CASE DispatchSignal(t)
            BY <3>8 DEF DispatchSignal
        <3>9. CASE SignalReturns(t)
            BY <3>9 DEF SignalReturns
        <3> QED
            BY <2>6, <3>1, <3>2, <3>3, <3>4, <3>5, <3>6, <3>7, <3>8, <3>9
            DEF Dispatch
    <2>7. ASSUME NEW t \in Threads, NEW c \in Calls, PrepareLock(t, c) PROVE Owners'
        BY <2>7 DEF PrepareLock, AsyncStartLoad, ProxyFree
    <2>8. ASSUME NEW t \in Threads, NEW c \in Calls, PrepareCommit(t, c)
          PROVE  Owners'
        BY <2>8 DEF PrepareCommit, AsyncStartStore
    <2>9. ASSUME NEW t \in Threads, NEW c \in Calls, CallMethod(t, c) PROVE Owners'
        BY <2>9 DEF CallMethod, dbusVars
    <2>10. ASSUME NEW c \in Calls, Reply(c) PROVE Owners'
        BY <2>10 DEF Reply, dbusVars
    <2>11. CASE EmitSignal
        BY <2>11 DEF EmitSignal, dbusVars
    <2>12. CASE UNCHANGED vars
        BY <2>12 DEF vars, dbusVars
    <2> QED
        BY <2>1, <2>2, <2>3, <2>4, <2>5, <2>6, <2>7, <2>8, <2>9, <2>10, <2>11,
           <2>12 DEF Next, Issue, Terminated
<1> QED
    BY <1>1, <1>2, TypeCorrect, ControlCorrect, PTL DEF Spec

------------------------------------------------------------------------------
(* The counter.                                                             *)

\* Thread t is inside a read-modify-write of pending_calls_.
Updating(t) ==
    \/ pc[t] = "dec_store"
    \/ issuing[t] # None /\ stage[issuing[t]] = "locked"

\* pending_calls_ is free of data races between its updates.
NoRace == \A t, u \in Threads : Updating(t) /\ Updating(u) => t = u

SingleProxy == \A p, q \in Proxies : p = q

Count ==
    /\ PendingExact
    /\ \A t \in Threads : Updating(t) => reg[t] = pending_calls_


\* One proxy's mtx_ serialises all the updates.
LEMMA SingleProxyNoRace ==
    ASSUME TypeOK, Owners, SingleProxy
    PROVE  NoRace
<1>1. ASSUME NEW t \in Threads, Updating(t)
      PROVE  \E c \in Calls : pmtx[ProxyOf[c]] = t
    <2>1. CASE pc[t] = "dec_store"
        BY <2>1 DEF TypeOK, Owners, Executing
    <2>2. CASE issuing[t] # None /\ stage[issuing[t]] = "locked"
        BY <2>2 DEF TypeOK, Owners
    <2> QED
        BY <1>1, <2>1, <2>2 DEF Updating
<1> QED
    BY <1>1, CallAssumption DEF NoRace, SingleProxy

\* The calls in flight are a finite set, so they can be counted.
LEMMA InFlightFinite ==
    /\ IsFiniteSet(InFlight)
    /\ Cardinality(InFlight) \in Nat
    /\ Cardinality(InFlight) <= UIntMax
<1>1. InFlight \subseteq Calls
    BY DEF InFlight
<1> QED
    BY <1>1, CallAssumption, UIntAssumption, FS_Subset, FS_CardinalityType

\* A call that is counted adds one to the calls in flight, and there is room.
LEMMA InFlightGrows ==
    ASSUME TypeOK, NEW c \in Calls, stage[c] = "locked", MoveTo(c, "prepared")
    PROVE  /\ Cardinality(InFlight') = Cardinality(InFlight) + 1
           /\ Cardinality(InFlight) < UIntMax
<1>1. InFlight' = InFlight \cup {c} /\ c \notin InFlight
    BY DEF InFlight, Counted, MoveTo, TypeOK
<1>2. Cardinality(InFlight') = Cardinality(InFlight) + 1
    BY <1>1, InFlightFinite, FS_AddElement
<1>3. IsFiniteSet(Calls) /\ InFlight' \subseteq Calls
    BY CallAssumption DEF InFlight
<1>4. Cardinality(InFlight') <= Cardinality(Calls) /\ Cardinality(Calls) \in Nat
    BY <1>3, FS_Subset, FS_CardinalityType
<1> QED
    BY <1>2, <1>4, InFlightFinite, CallAssumption, UIntAssumption

\* A call that is answered takes one away.
LEMMA InFlightShrinks ==
    ASSUME TypeOK, NEW c \in Calls, stage[c] = "running", MoveTo(c, "done")
    PROVE  /\ Cardinality(InFlight') = Cardinality(InFlight) - 1
           /\ Cardinality(InFlight) > 0
<1>1. InFlight' = InFlight \ {c} /\ c \in InFlight
    BY DEF InFlight, Counted, MoveTo, TypeOK
<1> QED
    BY <1>1, InFlightFinite, FS_RemoveElement, FS_EmptySet

\* No other step changes the calls in flight.
LEMMA InFlightStays ==
    ASSUME TypeOK, NEW c \in Calls, NEW s \in Stages, MoveTo(c, s),
           stage[c] \in Counted <=> s \in Counted
    PROVE  InFlight' = InFlight
    BY DEF InFlight, MoveTo, TypeOK

\* Steps that leave the calls alone keep the count, and so does a call in
\* flight that gets further, if no thread starts an update.
LEMMA MovesKeepCount ==
    ASSUME Count, UNCHANGED <<stage, issuing, reg, pending_calls_>>,
           \A t \in Threads : pc'[t] = "dec_store" => pc[t] = "dec_store"
    PROVE  Count'
    BY DEF Count, PendingExact, InFlight, Updating

\* The second of these: a call that moves on within the stages in flight.
LEMMA ProgressKeepsCount ==
    ASSUME TypeOK, Count, UNCHANGED <<reg, pending_calls_>>,
           NEW c \in Calls, NEW s \in Counted, stage[c] \in Counted, MoveTo(c, s),
           \A t \in Threads : issuing'[t] \in {issuing[t], None},
           \A t \in Threads : pc'[t] = "dec_store" => pc[t] = "dec_store"
    PROVE  Count'
<1>1. InFlight' = InFlight
    BY InFlightStays DEF Stages
<1>2. ASSUME NEW t \in Threads, Updating(t)' PROVE Updating(t)
    BY <1>2 DEF Updating, MoveTo, TypeOK, Counted
<1> QED
    BY <1>1, <1>2 DEF Count, PendingExact

\* pending_calls_ counts the calls in flight as long as no two of its updates
\* overlap (gdbus.cpp:13-20).
THEOREM CountCorrect == Spec /\ []NoRace => []Count
<1>1. Init => Count
    <2> SUFFICES ASSUME Init PROVE Count
        OBVIOUS
    <2>1. InFlight = {}
        BY DEF Init, InFlight, Counted
    <2> QED
        BY <2>1, ThreadAssumption, FS_EmptySet
        DEF Init, DBusInit, Count, PendingExact, Updating, Threads
<1>2. TypeOK /\ Control /\ Owners /\ NoRace /\ Count /\ [Next]_vars => Count'
    <2> SUFFICES ASSUME TypeOK, Control, Owners, NoRace, Count, [Next]_vars PROVE Count'
        OBVIOUS
    <2> USE ThreadAssumption, CallAssumption
    <2> USE DEF Count, PendingExact, Updating, Threads, Goto, callVars
    <2>1. CASE Start
        BY <2>1, MovesKeepCount DEF Start, ConstructorThrows, CreateThread,
           StartReturns,
                    TypeOK, DBusTypeOK
    <2>2. CASE GlibThread
        BY <2>2, MovesKeepCount DEF GlibThread, InvokeOnLoopStarted, NewLoop,
           RunLoop, OnLoopStarted, LoopReturns, UnrefLoop, ClearLoop, TypeOK,
           DBusTypeOK
    <2>3. CASE BeginStop
        BY <2>3, MovesKeepCount DEF BeginStop, ClearRunning, TypeOK, DBusTypeOK
    <2>4. CASE Stop
        BY <2>4, MovesKeepCount DEF Stop, StopTestLoop, StopTestRunning,
           StopTestPending, StopQuit, Join, TypeOK, DBusTypeOK
    <2>5. CASE Destroy
        BY <2>5, MovesKeepCount DEF Destroy, BeginDrain, EndDrain, TypeOK,
           DBusTypeOK
    <2>6. ASSUME NEW t \in {Main, Glib}, Dispatch(t) PROVE Count'
        <3> t \in Threads
            BY ThreadAssumption DEF Threads
        <3>1. CASE Iterate(t) /\ UNCHANGED callVars
            BY <3>1, MovesKeepCount DEF Iterate, dbusVars, TypeOK, DBusTypeOK
        <3>2. ASSUME NEW c \in Calls, DispatchCall(t, c) PROVE Count'
            BY <3>2, ProgressKeepsCount DEF DispatchCall, dbusVars, Counted,
               TypeOK, DBusTypeOK
        <3>3. ASSUME NEW c \in Calls, RunCallback(t, c) PROVE Count'
            BY <3>3, ProgressKeepsCount DEF RunCallback, Counted, TypeOK, DBusTypeOK
        <3>4. ASSUME NEW c \in Calls, CallbackReturns(t, c) PROVE Count'
            BY <3>4, MovesKeepCount DEF CallbackReturns, TypeOK, DBusTypeOK
        <3>5. ASSUME NEW c \in Calls, SkipCallback(t, c) PROVE Count'
            BY <3>5, ProgressKeepsCount DEF SkipCallback, Counted, TypeOK,
               DBusTypeOK
        <3>6. ASSUME NEW c \in Calls, DoneStore(t, c) PROVE Count'
            <4>1. /\ Updating(t) /\ stage[c] = "running" /\ MoveTo(c, "done")
                  /\ pending_calls_' = Dec(pending_calls_)
                BY <3>6 DEF DoneStore, AsyncDoneStore, Owners
            <4>2. PendingExact'
                BY <4>1, InFlightShrinks, InFlightFinite DEF Dec
            <4>3. ASSUME NEW u \in Threads, Updating(u)' PROVE FALSE
                <5>1. u # t => Updating(u)
                    BY <3>6, <4>1, <4>3 DEF DoneStore, AsyncDoneStore, MoveTo,
                       TypeOK, DBusTypeOK
                <5>2. ~Updating(t)'
                    <6>1. pc'[t] = "iter" /\ issuing[t] = None /\ issuing' = issuing
                        BY <3>6 DEF DoneStore, AsyncDoneStore, Owners, InUserCode,
                           TypeOK, DBusTypeOK
                    <6> QED
                        BY <6>1
                <5> QED
                    BY <4>1, <4>3, <5>1, <5>2 DEF NoRace
            <4> QED
                BY <4>2, <4>3
        <3>7. CASE DoneLoad(t)
            <4>1. UNCHANGED <<stage, issuing, pending_calls_>> /\ InFlight' = InFlight
                BY <3>7 DEF DoneLoad, AsyncDoneLoad, InFlight
            <4>2. ASSUME NEW u \in Threads, Updating(u)'
                  PROVE  reg'[u] = pending_calls_
                BY <3>7, <4>1, <4>2 DEF DoneLoad, AsyncDoneLoad, TypeOK, DBusTypeOK
            <4> QED
                BY <4>1, <4>2
        <3>8. CASE DispatchSignal(t)
            BY <3>8, MovesKeepCount DEF DispatchSignal, TypeOK, DBusTypeOK
        <3>9. CASE SignalReturns(t)
            BY <3>9, MovesKeepCount DEF SignalReturns, TypeOK, DBusTypeOK
        <3> QED
            BY <2>6, <3>1, <3>2, <3>3, <3>4, <3>5, <3>6, <3>7, <3>8, <3>9
            DEF Dispatch
    <2>7. ASSUME NEW t \in Threads, NEW c \in Calls, PrepareLock(t, c) PROVE Count'
        <3>1. InFlight' = InFlight
            BY <2>7, InFlightStays DEF PrepareLock, Stages, Counted
        <3>2. ASSUME NEW u \in Threads, Updating(u)' PROVE reg'[u] = pending_calls_
            <4>1. CASE u = t
                BY <2>7, <4>1 DEF PrepareLock, AsyncStartLoad, TypeOK, DBusTypeOK
            <4>2. CASE u # t
                <5>1. issuing[u] # c
                    BY <2>7 DEF PrepareLock, Owners
                <5>2. Updating(u)
                    BY <2>7, <3>2, <4>2, <5>1 DEF PrepareLock, MoveTo, TypeOK
                <5> QED
                    BY <2>7, <4>2, <5>2 DEF PrepareLock, AsyncStartLoad, TypeOK,
                       DBusTypeOK
            <4> QED
                BY <4>1, <4>2
        <3> QED
            BY <2>7, <3>1, <3>2 DEF PrepareLock
    <2>8. ASSUME NEW t \in Threads, NEW c \in Calls, PrepareCommit(t, c)
          PROVE  Count'
        <3>1. Updating(t) /\ pending_calls_' = Inc(pending_calls_)
            BY <2>8 DEF PrepareCommit, AsyncStartStore
        <3>2. PendingExact'
            BY <2>8, <3>1, InFlightGrows, InFlightFinite, UIntAssumption
            DEF PrepareCommit, Inc
        <3>3. ASSUME NEW u \in Threads, Updating(u)' PROVE FALSE
            <4>1. Updating(u) /\ u # t
                BY <2>8, <3>3 DEF PrepareCommit, MoveTo, TypeOK, Owners, InUserCode
            <4> QED
                BY <3>1, <4>1 DEF NoRace
        <3> QED
            BY <3>2, <3>3
    <2>9. ASSUME NEW t \in Threads, NEW c \in Calls, CallMethod(t, c) PROVE Count'
        BY <2>9, ProgressKeepsCount DEF CallMethod, dbusVars, Counted, TypeOK,
           DBusTypeOK
    <2>10. ASSUME NEW c \in Calls, Reply(c) PROVE Count'
        BY <2>10, ProgressKeepsCount DEF Reply, dbusVars, Counted, TypeOK,
           DBusTypeOK
    <2>11. CASE EmitSignal
        BY <2>11, MovesKeepCount DEF EmitSignal, dbusVars, TypeOK, DBusTypeOK
    <2>12. CASE UNCHANGED vars
        BY <2>12, MovesKeepCount DEF vars, dbusVars, callVars, TypeOK, DBusTypeOK
    <2> QED
        BY <2>1, <2>2, <2>3, <2>4, <2>5, <2>6, <2>7, <2>8, <2>9, <2>10, <2>11,
           <2>12 DEF Next, Issue, Terminated
<1> QED
    BY <1>1, <1>2, TypeCorrect, ControlCorrect, OwnersCorrect, PTL DEF Spec

\* pending_calls_ is the number of calls in flight, provided that no two of
\* its updates overlap: the premise the code does not establish by itself.
THEOREM PendingCorrect == Spec /\ []NoRace => []PendingExact
<1>1. Count => PendingExact
    BY DEF Count
<1> QED
    BY <1>1, CountCorrect, PTL

\* With one proxy its mtx_ establishes it: pending_calls_ is exact.
THEOREM SingleProxyPendingCorrect == SingleProxy => (Spec => []PendingExact)
<1> SUFFICES ASSUME SingleProxy PROVE Spec => []PendingExact
    OBVIOUS
<1>1. TypeOK /\ Owners => NoRace
    BY SingleProxyNoRace
<1> QED
    BY <1>1, TypeCorrect, OwnersCorrect, PendingCorrect, PTL

------------------------------------------------------------------------------
(* The loop, from its start to the end of stop().                           *)

\* Until the constructor returns, no call exists and the only source of ctx_
\* is on_loop_started; from then until stop() begins the loop runs.
Startup ==
    /\ pc[Main] \in {"ctor", "failed", "waiting"} =>
          /\ \A c \in Calls : stage[c] = "new"
          /\ queue \in Seq({Started})
          /\ pc[Glib] \in {"none", "invoke", "new", "run", "iter"}
    /\ pc[Main] \in {"ctor", "failed"} => ~running_
    /\ pc[Main] = "waiting" /\ running_ => pc[Glib] = "iter"
    /\ pc[Main] = "app" => running_ /\ pc[Glib] \in DispatchLabels
    /\ pc[Main] \in {"waiting", "app"} /\ pc[Glib] \in DispatchLabels
          => is_running /\ loop_ = "live"
    /\ pc[Glib] = "run" => loop_ = "live"

\* Once the loop has been told to quit, and when it is about to be, nothing
\* that stop() waits for is left.
Waiting ==
    /\ awaited \subseteq InFlight \cup Done
    /\ pc[Main] \in {"ctor", "failed", "waiting", "app"} => awaited = {}
    /\ pc[Main] \in StopLabels /\ ~is_running => awaited \subseteq Done
    /\ pc[Main] = "stop_quit" => awaited \subseteq Done
    /\ pc[Glib] \in {"unref", "null", "finished"} => ~is_running
    /\ StopWaits

\* While ctx_ holds nothing but Started, nothing else can be dispatched.
LEMMA StartupTake ==
    ASSUME QueueOK, queue \in Seq({Started}), NEW s, Take(s)
    PROVE  s = Started /\ queue' \in Seq({Started})
    BY DEF QueueOK, Take

\* The constructor of DBus returns only when its loop runs, and the loop runs
\* until stop() begins.
THEOREM StartupCorrect == Spec => []Startup
<1>1. Init => Startup
    <2> SUFFICES ASSUME Init PROVE Startup
        OBVIOUS
    <2>1. pc[Main] = "ctor" /\ pc[Glib] = "none"
        BY ThreadAssumption DEF Init, DBusInit, Threads
    <2>2. queue \in Seq({Started}) /\ ~running_ /\ \A c \in Calls : stage[c] = "new"
        BY DEF Init, DBusInit, ContextInit
    <2> QED
        BY <2>1, <2>2 DEF Startup, DispatchLabels
<1>2. TypeOK /\ Control /\ Owners /\ Startup /\ [Next]_vars => Startup'
    <2> SUFFICES ASSUME TypeOK, Control, Owners, Startup, [Next]_vars PROVE Startup'
        OBVIOUS
    <2> USE ThreadAssumption, CallAssumption
    <2> USE DEF Startup, TypeOK, DBusTypeOK, Control, Threads, Goto, MoveTo,
        callVars, contextVars, DispatchLabels, StopLabels
    <2>1. CASE Start
        BY <2>1 DEF Start, ConstructorThrows, CreateThread, StartReturns
    <2>2. CASE GlibThread
        <3>1. CASE InvokeOnLoopStarted
            BY <2>2, <3>1 DEF GlibThread, InvokeOnLoopStarted, Attach
        <3>2. CASE NewLoop
            BY <2>2, <3>2 DEF GlibThread, NewLoop
        <3>3. CASE RunLoop
            BY <2>2, <3>3 DEF GlibThread, RunLoop
        <3>4. CASE OnLoopStarted
            BY <2>2, <3>4, StartupTake DEF GlibThread, OnLoopStarted
        <3>5. CASE LoopReturns \/ UnrefLoop \/ ClearLoop
            BY <2>2, <3>5 DEF GlibThread, LoopReturns, UnrefLoop, ClearLoop
        <3> QED
            BY <2>2, <3>1, <3>2, <3>3, <3>4, <3>5 DEF GlibThread
    <2>3. CASE BeginStop
        BY <2>3 DEF BeginStop, ClearRunning
    <2>4. CASE Stop
        BY <2>4 DEF Stop, StopTestLoop, StopTestRunning, StopTestPending,
           StopQuit, Join
    <2>5. CASE Destroy
        BY <2>5 DEF Destroy, BeginDrain, EndDrain
    <2>6. ASSUME NEW t \in {Main, Glib}, Dispatch(t) PROVE Startup'
        <3> t \in Threads
            BY ThreadAssumption DEF Threads
        <3>1. CASE Iterate(t) /\ UNCHANGED callVars
            BY <3>1 DEF Iterate, Collect, dbusVars
        <3>2. ASSUME NEW c \in Calls, DispatchCall(t, c) PROVE Startup'
            BY <3>2 DEF DispatchCall, dbusVars
        <3>3. ASSUME NEW c \in Calls, RunCallback(t, c) PROVE Startup'
            BY <3>3 DEF RunCallback
        <3>4. ASSUME NEW c \in Calls, CallbackReturns(t, c) PROVE Startup'
            BY <3>4 DEF CallbackReturns
        <3>5. ASSUME NEW c \in Calls, SkipCallback(t, c) PROVE Startup'
            BY <3>5 DEF SkipCallback
        <3>6. ASSUME NEW c \in Calls, DoneStore(t, c) PROVE Startup'
            <4>1. pc[Main] \notin {"ctor", "failed", "waiting"}
                BY <3>6 DEF DoneStore, AsyncDoneStore
            <4>2. pc[Main] = "app" => is_running' = is_running
                BY <3>6 DEF DoneStore, AsyncDoneStore, QuitAfter
            <4> QED
                BY <3>6, <4>1, <4>2 DEF DoneStore, AsyncDoneStore
        <3>7. CASE DoneLoad(t)
            BY <3>7 DEF DoneLoad, AsyncDoneLoad
        <3>8. CASE DispatchSignal(t)
            BY <3>8, StartupTake DEF DispatchSignal
        <3>9. CASE SignalReturns(t)
            BY <3>9 DEF SignalReturns
        <3> QED
            BY <2>6, <3>1, <3>2, <3>3, <3>4, <3>5, <3>6, <3>7, <3>8, <3>9
            DEF Dispatch
    <2>7. ASSUME NEW t \in Threads, NEW c \in Calls, PrepareLock(t, c)
          PROVE  Startup'
        <3>1. pc[Main] \notin {"ctor", "failed", "waiting"}
            BY <2>7 DEF PrepareLock, InUserCode
        <3> QED
            BY <2>7, <3>1 DEF PrepareLock, AsyncStartLoad
    <2>8. ASSUME NEW t \in Threads, NEW c \in Calls, PrepareCommit(t, c)
          PROVE  Startup'
        BY <2>8 DEF PrepareCommit, AsyncStartStore
    <2>9. ASSUME NEW t \in Threads, NEW c \in Calls, CallMethod(t, c) PROVE Startup'
        BY <2>9 DEF CallMethod, dbusVars
    <2>10. ASSUME NEW c \in Calls, Reply(c) PROVE Startup'
        BY <2>10 DEF Reply, dbusVars
    <2>11. CASE EmitSignal
        BY <2>11 DEF EmitSignal, dbusVars
    <2>12. CASE UNCHANGED vars
        BY <2>12 DEF vars, dbusVars, contextVars, callVars
    <2> QED
        BY <2>1, <2>2, <2>3, <2>4, <2>5, <2>6, <2>7, <2>8, <2>9, <2>10, <2>11,
           <2>12 DEF Next, Issue, Terminated
<1> QED
    BY <1>1, <1>2, TypeCorrect, ControlCorrect, OwnersCorrect, PTL DEF Spec

\* Whatever the interleaving of start() with glib_thread_, the loop runs when
\* the constructor has returned (gdbus.cpp:99-115).
THEOREM LoopReadyCorrect == Spec => []LoopReady
<1>1. Startup => LoopReady
    BY DEF Startup, LoopReady
<1> QED
    BY <1>1, StartupCorrect, PTL

\* Answered calls stay answered, started calls stay started.
LEMMA CallsOnlyAdvance ==
    ASSUME TypeOK, NEW c \in Calls, NEW s, MoveTo(c, s), stage[c] # "done",
           stage[c] \in Counted => s \in Counted \cup {"done"}
    PROVE  Done \subseteq Done' /\ InFlight \cup Done \subseteq (InFlight \cup Done)'
    BY DEF TypeOK, MoveTo, InFlight, Done, Counted

\* A step that moves no call keeps both sets.
LEMMA NoCallMoves ==
    ASSUME UNCHANGED stage
    PROVE  Done' = Done /\ InFlight' = InFlight
    BY DEF InFlight, Done

\* When the count is exact and zero, every started call is done.
LEMMA NothingLeft ==
    ASSUME PendingExact, NothingPending
    PROVE  InFlight = {}
    BY InFlightFinite, FS_EmptySet DEF PendingExact, NothingPending

\* Once stop() has returned, and at any earlier moment from which nothing
\* keeps it from returning, what it waits for is done.
THEOREM WaitingCorrect == Spec /\ []NoRace => []Waiting
<1>1. Init => Waiting
    BY ThreadAssumption DEF Init, DBusInit, Waiting, StopWaits, Threads, StopLabels
<1>2. TypeOK /\ Control /\ Owners /\ Startup /\ Count /\ Waiting /\ [Next]_vars
         => Waiting'
    <2> SUFFICES ASSUME TypeOK, Control, Owners, Startup, Count, Waiting, [Next]_vars
                 PROVE  Waiting'
        OBVIOUS
    <2> USE ThreadAssumption, CallAssumption
    <2> USE DEF Waiting, StopWaits, TypeOK, DBusTypeOK, Control, Threads, Goto, callVars,
                contextVars, DispatchLabels, StopLabels
    <2>1. CASE Start
        BY <2>1, NoCallMoves DEF Start, ConstructorThrows, CreateThread,
           StartReturns
    <2>2. CASE GlibThread
        BY <2>2, NoCallMoves DEF GlibThread, InvokeOnLoopStarted, NewLoop,
           RunLoop, OnLoopStarted, LoopReturns, UnrefLoop, ClearLoop
    <2>3. CASE BeginStop
        <3>1. is_running /\ pc[Glib] \in DispatchLabels /\ pc'[Glib] = pc[Glib]
            BY <2>3 DEF BeginStop, ClearRunning, Startup
        <3>2. awaited' = (InFlight \cup Done)' /\ is_running' /\ pc'[Main] = "stop_loop"
            BY <2>3, <3>1, NoCallMoves DEF BeginStop, ClearRunning
        <3> QED
            BY <3>1, <3>2
    <2>4. CASE Stop
        <3>1. CASE StopTestLoop \/ StopTestRunning
            BY <2>4, <3>1, NoCallMoves DEF Stop, StopTestLoop, StopTestRunning
        <3>2. CASE StopTestPending
            <4>1. NothingPending => awaited \subseteq Done
                BY NothingLeft DEF Count
            <4> QED
                BY <2>4, <3>2, <4>1, NoCallMoves DEF Stop, StopTestPending
        <3>3. CASE StopQuit \/ Join
            BY <2>4, <3>3, NoCallMoves DEF Stop, StopQuit, Join
        <3> QED
            BY <2>4, <3>1, <3>2, <3>3 DEF Stop
    <2>5. CASE Destroy
        BY <2>5, NoCallMoves DEF Destroy, BeginDrain, EndDrain
    <2>6. ASSUME NEW t \in {Main, Glib}, Dispatch(t) PROVE Waiting'
        <3> t \in Threads
            BY ThreadAssumption DEF Threads
        <3>1. CASE Iterate(t) /\ UNCHANGED callVars
            BY <3>1, NoCallMoves DEF Iterate, Collect, dbusVars
        <3>2. ASSUME NEW c \in Calls, DispatchCall(t, c) PROVE Waiting'
            BY <3>2, CallsOnlyAdvance DEF Counted, DispatchCall, dbusVars
        <3>3. ASSUME NEW c \in Calls, RunCallback(t, c) PROVE Waiting'
            BY <3>3, CallsOnlyAdvance DEF Counted, RunCallback
        <3>4. ASSUME NEW c \in Calls, CallbackReturns(t, c) PROVE Waiting'
            BY <3>4, NoCallMoves DEF CallbackReturns
        <3>5. ASSUME NEW c \in Calls, SkipCallback(t, c) PROVE Waiting'
            BY <3>5, CallsOnlyAdvance DEF Counted, SkipCallback
        <3>6. ASSUME NEW c \in Calls, DoneStore(t, c) PROVE Waiting'
            <4>1. /\ Updating(t) /\ stage[c] = "running" /\ MoveTo(c, "done")
                  /\ UNCHANGED awaited
                BY <3>6 DEF DoneStore, AsyncDoneStore, Owners, Updating
            <4>2. Done \subseteq Done' /\ awaited' \subseteq (InFlight \cup Done)'
                BY <4>1, CallsOnlyAdvance DEF Counted
            <4>3. QuitAfter(reg[t]) => awaited' \subseteq Done'
                <5>1. QuitAfter(reg[t]) => Cardinality(InFlight) = 1
                    BY <4>1 DEF QuitAfter, Count, PendingExact
                <5>2. Cardinality(InFlight) = 1 => InFlight' = {}
                    <6>1. Cardinality(InFlight') = Cardinality(InFlight) - 1
                        BY <4>1, InFlightShrinks
                    <6>2. IsFiniteSet(InFlight')
                        <7>1. InFlight' \subseteq Calls
                            BY DEF InFlight
                        <7> QED
                            BY <7>1, FS_Subset
                    <6> QED
                        BY <6>1, <6>2, FS_EmptySet
                <5> QED
                    BY <4>2, <5>1, <5>2
            <4>4. /\ pc' = [pc EXCEPT ![t] = "iter"]
                  /\ is_running' = (is_running /\ ~QuitAfter(reg[t]))
                BY <3>6 DEF DoneStore, AsyncDoneStore
            <4>5. pc[t] = "dec_store"
                BY <3>6 DEF DoneStore, AsyncDoneStore
            <4> QED
                BY <4>1, <4>2, <4>3, <4>4, <4>5
        <3>7. CASE DoneLoad(t)
            BY <3>7, NoCallMoves DEF DoneLoad, AsyncDoneLoad
        <3>8. CASE DispatchSignal(t)
            BY <3>8, NoCallMoves DEF DispatchSignal
        <3>9. CASE SignalReturns(t)
            BY <3>9, NoCallMoves DEF SignalReturns
        <3> QED
            BY <2>6, <3>1, <3>2, <3>3, <3>4, <3>5, <3>6, <3>7, <3>8, <3>9
            DEF Dispatch
    <2>7. ASSUME NEW t \in Threads, NEW c \in Calls, PrepareLock(t, c)
          PROVE  Waiting'
        BY <2>7, CallsOnlyAdvance DEF Counted, PrepareLock, AsyncStartLoad
    <2>8. ASSUME NEW t \in Threads, NEW c \in Calls, PrepareCommit(t, c)
          PROVE  Waiting'
        <3>1. /\ Done \subseteq Done' /\ InFlight \cup Done \subseteq (InFlight \cup Done)'
              /\ c \in InFlight'
            BY <2>8, CallsOnlyAdvance DEF PrepareCommit, Counted, InFlight, MoveTo
        <3>2. cur \in awaited => ~(awaited \subseteq Done) /\ awaited # {}
            BY DEF Owners, Done
        <3>3. UNCHANGED <<pc, is_running>>
            BY <2>8 DEF PrepareCommit
        <3>4. awaited' \subseteq awaited \cup {c} /\ (awaited' = awaited \/ cur \in awaited)
            BY <2>8 DEF PrepareCommit
        <3> QED
            BY <3>1, <3>2, <3>3, <3>4
    <2>9. ASSUME NEW t \in Threads, NEW c \in Calls, CallMethod(t, c) PROVE Waiting'
        BY <2>9, CallsOnlyAdvance DEF Counted, CallMethod, dbusVars
    <2>10. ASSUME NEW c \in Calls, Reply(c) PROVE Waiting'
        BY <2>10, CallsOnlyAdvance DEF Counted, Reply, dbusVars
    <2>11. CASE EmitSignal
        BY <2>11, NoCallMoves DEF EmitSignal, dbusVars
    <2>12. CASE UNCHANGED vars
        BY <2>12, NoCallMoves DEF vars, dbusVars, contextVars, callVars
    <2> QED
        BY <2>1, <2>2, <2>3, <2>4, <2>5, <2>6, <2>7, <2>8, <2>9, <2>10, <2>11,
           <2>12 DEF Next, Issue, Terminated
<1> QED
    BY <1>1, <1>2, TypeCorrect, ControlCorrect, OwnersCorrect, StartupCorrect,
       CountCorrect, PTL DEF Spec

\* stop() returns only when what it waits for is done, if pending_calls_ is
\* free of races.
THEOREM StopWaitsCorrect == Spec /\ []NoRace => []StopWaits
<1>1. Waiting => StopWaits
    BY DEF Waiting
<1> QED
    BY <1>1, WaitingCorrect, PTL

\* With one proxy it always is.
THEOREM SingleProxyStopWaits == SingleProxy => (Spec => []StopWaits)
<1> SUFFICES ASSUME SingleProxy PROVE Spec => []StopWaits
    OBVIOUS
<1>1. TypeOK /\ Owners => NoRace
    BY SingleProxyNoRace
<1> QED
    BY <1>1, TypeCorrect, OwnersCorrect, StopWaitsCorrect, PTL

------------------------------------------------------------------------------
(* The callbacks.                                                           *)

\* The completion of c has erased its callback.
Erased(c) == cur = c /\ \E t \in {Main, Glib} : pc[t] \in {"dec", "dec_store"}

KeyBound ==
    \A c \in Calls : counter[c] <= callback_counter_[ProxyOf[c]]

KeyGiven ==
    \A c \in Calls : counter[c] # 0 <=>
       c \in WithCallback /\ stage[c] \in Counted \cup {"done"}

KeyUnique ==
    \A c, d \in Calls :
       ProxyOf[c] = ProxyOf[d] /\ counter[c] = counter[d] /\ counter[c] # 0 => c = d

EntriesSound ==
    \A p \in Proxies : \A k \in Nat, d \in Calls :
       <<k, d>> \in callbacks_[p] =>
          /\ ProxyOf[d] = p
          /\ counter[d] = k
          /\ k # 0
          /\ stage[d] \in Counted
          /\ ~Erased(d)

EntriesComplete ==
    \A c \in InFlight \cap WithCallback :
       ~Erased(c) => <<counter[c], c>> \in callbacks_[ProxyOf[c]]

\* The keys of callbacks_: bounded by callback_counter_, never shared by two
\* calls of a proxy, and present exactly while their callback is needed.
Keys == KeyBound /\ KeyGiven /\ KeyUnique /\ EntriesSound /\ EntriesComplete

\* A step that neither starts, ends nor erases a call keeps the keys.
LEMMA MovesKeepKeys ==
    ASSUME TypeOK, Keys, UNCHANGED <<callback_counter_, callbacks_, counter>>,
           \A c \in Calls : stage'[c] \in Counted <=> stage[c] \in Counted,
           \A c \in Calls : stage'[c] = "done" <=> stage[c] = "done",
           \A c \in Calls : Erased(c)' <=> Erased(c)
    PROVE  Keys'
    BY CallAssumption DEF Keys, KeyBound, KeyGiven, KeyUnique, EntriesSound,
                         EntriesComplete, InFlight, TypeOK

\* Calls with a callback on one proxy have different keys, and callbacks_ holds
\* for each key the callback of the call it was given to, while it is needed.
THEOREM KeysCorrect == Spec => []Keys
<1>1. Init => Keys
    BY ThreadAssumption, CallAssumption 
    DEF Init, DBusInit, Keys, KeyBound, KeyGiven, KeyUnique, EntriesSound,
        EntriesComplete, InFlight, Counted
<1>2. TypeOK /\ Control /\ Owners /\ Keys /\ [Next]_vars => Keys'
    <2> SUFFICES ASSUME TypeOK, Control, Owners, Keys, [Next]_vars PROVE Keys'
        OBVIOUS
    <2> USE ThreadAssumption, CallAssumption
    <2> USE DEF Erased, Counted, TypeOK, DBusTypeOK, Threads, Goto, MoveTo, callVars
    <2>1. CASE Start
        <3>1. \A u \in {Main, Glib} :
                 pc'[u] \in {"dec", "dec_store"} <=> pc[u] \in {"dec", "dec_store"}
            <4>1. CASE ConstructorThrows
                BY <4>1 DEF ConstructorThrows
            <4>2. CASE CreateThread
                BY <4>2 DEF CreateThread, Control
            <4>3. CASE StartReturns
                BY <4>3 DEF StartReturns
            <4> QED
                BY <2>1, <4>1, <4>2, <4>3 DEF Start
        <3>2. UNCHANGED callVars
            BY <2>1 DEF Start
        <3> QED
            BY <3>1, <3>2, MovesKeepKeys
    <2>2. CASE GlibThread
        BY <2>2, MovesKeepKeys DEF GlibThread, InvokeOnLoopStarted, NewLoop,
           RunLoop, OnLoopStarted, LoopReturns, UnrefLoop, ClearLoop
    <2>3. CASE BeginStop
        BY <2>3, MovesKeepKeys DEF BeginStop, ClearRunning
    <2>4. CASE Stop
        BY <2>4, MovesKeepKeys DEF Stop, StopTestLoop, StopTestRunning,
           StopTestPending, StopQuit, Join
    <2>5. CASE Destroy
        BY <2>5, MovesKeepKeys DEF Destroy, BeginDrain, EndDrain
    <2>6. ASSUME NEW t \in {Main, Glib}, Dispatch(t) PROVE Keys'
        <3> t \in Threads
            BY ThreadAssumption DEF Threads
        <3>1. CASE Iterate(t) /\ UNCHANGED callVars
            BY <3>1, MovesKeepKeys DEF Iterate, dbusVars
        <3>2. ASSUME NEW c \in Calls, DispatchCall(t, c) PROVE Keys'
            BY <3>2, MovesKeepKeys DEF DispatchCall, dbusVars
        <3>3. ASSUME NEW c \in Calls, RunCallback(t, c) PROVE Keys'
            <4>1. cur = None /\ \A u \in Threads : pc[u] \notin Executing
                BY <3>3, OneDispatcher DEF RunCallback, DispatchLabels, Owners,
                   Executing
            <4>2. \A d \in Calls : ~Erased(d) /\ ~Erased(d)'
                BY <3>3, <4>1 DEF RunCallback, Executing
            <4> QED
                BY <3>3, <4>2, MovesKeepKeys DEF RunCallback
        <3>4. ASSUME NEW c \in Calls, CallbackReturns(t, c) PROVE Keys'
            <4> DEFINE p == ProxyOf[c]
            <4>1. /\ pc[t] = "cb" /\ cur = c /\ cur' = c /\ pc' = [pc EXCEPT ![t] = "dec"]
                  /\ callbacks_' = [callbacks_ EXCEPT ![p] = Erase(callbacks_[p], counter[c])]
                  /\ UNCHANGED <<callback_counter_, counter, stage>>
                BY <3>4 DEF CallbackReturns
            <4>2. \A d \in Calls : ~Erased(d) /\ (Erased(d)' <=> d = c)
                BY <4>1, OneDispatcher DEF DispatchLabels
            <4>3. p \in Proxies
                OBVIOUS
            <4>4. \A q \in Proxies : \A k \in Nat, d \in Calls :
                     <<k, d>> \in callbacks_'[q] <=>
                        <<k, d>> \in callbacks_[q] /\ (q = p => k # counter[c])
                BY <4>1, <4>3 DEF Erase
            <4>5. EntriesSound'
                BY <4>1, <4>2, <4>4 DEF EntriesSound, Keys
            <4>6. EntriesComplete'
                <5>1. SUFFICES ASSUME NEW d \in InFlight' \cap WithCallback, d # c
                               PROVE  <<counter[d], d>> \in callbacks_'[ProxyOf[d]]
                    BY <4>1, <4>2 DEF EntriesComplete, InFlight
                <5>2. d \in Calls /\ <<counter[d], d>> \in callbacks_[ProxyOf[d]]
                    BY <4>1, <4>2 DEF EntriesComplete, InFlight, Keys
                <5>3. ProxyOf[d] = p => counter[d] # counter[c]
                    BY <5>1, <5>2 DEF KeyUnique, EntriesSound, Keys
                <5> QED
                    BY <4>4, <5>2, <5>3
            <4> QED
                BY <4>1, <4>5, <4>6 DEF Keys, KeyBound, KeyGiven, KeyUnique
        <3>5. ASSUME NEW c \in Calls, SkipCallback(t, c) PROVE Keys'
            <4>1. cur = None /\ \A u \in Threads : pc[u] \notin Executing
                BY <3>5, OneDispatcher DEF SkipCallback, DispatchLabels, Owners,
                   Executing
            <4>2. \A d \in Calls : ~Erased(d) /\ (Erased(d)' => d = c)
                BY <3>5, <4>1 DEF SkipCallback, Executing
            <4>3. /\ counter[c] = 0 /\ stage[c] = "replied" /\ MoveTo(c, "running")
                  /\ UNCHANGED <<callback_counter_, callbacks_, counter>>
                BY <3>5 DEF SkipCallback
            <4>4. c \notin WithCallback
                BY <4>3 DEF KeyGiven, Keys
            <4>5. EntriesSound'
                BY <4>2, <4>3 DEF EntriesSound, Keys
            <4>6. EntriesComplete'
                BY <4>2, <4>3, <4>4 DEF EntriesComplete, InFlight, Keys
            <4>7. KeyGiven'
                BY <4>3 DEF KeyGiven, Keys
            <4> QED
                BY <4>3, <4>5, <4>6, <4>7 DEF Keys, KeyBound, KeyUnique
        <3>6. ASSUME NEW c \in Calls, DoneStore(t, c) PROVE Keys'
            <4>1. /\ pc[t] = "dec_store" /\ cur = c /\ stage[c] = "running"
                  /\ MoveTo(c, "done") /\ cur' = None
                  /\ UNCHANGED <<callback_counter_, callbacks_, counter>>
                BY <3>6 DEF DoneStore, AsyncDoneStore, Owners
            <4>2. \A d \in Calls : (Erased(d) <=> d = c) /\ ~Erased(d)'
                BY <4>1
            <4>3. EntriesSound'
                BY <4>1, <4>2 DEF EntriesSound, Keys
            <4>4. EntriesComplete'
                BY <4>1, <4>2 DEF EntriesComplete, InFlight, Keys
            <4>5. KeyGiven'
                BY <4>1 DEF KeyGiven, Keys
            <4> QED
                BY <4>1, <4>3, <4>4, <4>5 DEF Keys, KeyBound, KeyUnique
        <3>7. CASE DoneLoad(t)
            BY <3>7, MovesKeepKeys DEF DoneLoad, AsyncDoneLoad
        <3>8. CASE DispatchSignal(t)
            BY <3>8, MovesKeepKeys DEF DispatchSignal
        <3>9. CASE SignalReturns(t)
            BY <3>9, MovesKeepKeys DEF SignalReturns
        <3> QED
            BY <2>6, <3>1, <3>2, <3>3, <3>4, <3>5, <3>6, <3>7, <3>8, <3>9
            DEF Dispatch
    <2>7. ASSUME NEW t \in Threads, NEW c \in Calls, PrepareLock(t, c) PROVE Keys'
        BY <2>7, MovesKeepKeys DEF PrepareLock, AsyncStartLoad
    <2>8. ASSUME NEW t \in Threads, NEW c \in Calls, PrepareCommit(t, c) PROVE Keys'
        <3> DEFINE p == ProxyOf[c]
                   k == callback_counter_[p] + 1
        <3>1. /\ stage[c] = "locked" /\ MoveTo(c, "prepared") /\ counter[c] = 0
              /\ \A d \in Calls : ~(Erased(d) /\ d = c)
              /\ \A d \in Calls : Erased(d)' <=> Erased(d)
              /\ p \in Proxies /\ k \in Nat
            BY <2>8 DEF PrepareCommit, Owners, Keys, KeyGiven
        <3>2. CASE c \in WithCallback
            <4>1. /\ callback_counter_' = [callback_counter_ EXCEPT ![p] = k]
                  /\ callbacks_' = [callbacks_ EXCEPT ![p] = Put(callbacks_[p], k, c)]
                  /\ counter' = [counter EXCEPT ![c] = k]
                BY <2>8, <3>2 DEF PrepareCommit, Register, NextKey
            <4>2. \A d \in Calls : ProxyOf[d] = p => counter[d] < k
                BY <3>1 DEF Keys, KeyBound
            <4>3. \A q \in Proxies : \A n \in Nat, d \in Calls :
                     <<n, d>> \in callbacks_'[q] <=>
                        \/ <<n, d>> \in callbacks_[q] /\ (q = p => n # k)
                        \/ q = p /\ n = k /\ d = c
                BY <3>1, <4>1 DEF Put
            <4>4. KeyBound'
                BY <3>1, <4>1 DEF Keys, KeyBound
            <4>5. KeyGiven'
                BY <3>1, <3>2, <4>1 DEF Keys, KeyGiven
            <4>6. KeyUnique'
                BY <3>1, <4>1, <4>2 DEF Keys, KeyUnique
            <4>7. EntriesSound'
                BY <3>1, <4>1, <4>2, <4>3 DEF Keys, EntriesSound
            <4>8. EntriesComplete'
                <5>1. SUFFICES ASSUME NEW d \in InFlight' \cap WithCallback, d # c, ~Erased(d)
                               PROVE  <<counter[d], d>> \in callbacks_'[ProxyOf[d]]
                    BY <3>1, <4>1, <4>3 DEF EntriesComplete, InFlight
                <5>2. d \in Calls /\ <<counter[d], d>> \in callbacks_[ProxyOf[d]]
                    BY <3>1, <5>1 DEF EntriesComplete, InFlight, Keys
                <5> QED
                    BY <4>2, <4>3, <5>2
            <4> QED
                BY <4>4, <4>5, <4>6, <4>7, <4>8 DEF Keys
        <3>3. CASE c \notin WithCallback
            <4>1. UNCHANGED <<callback_counter_, callbacks_, counter>>
                BY <2>8, <3>3 DEF PrepareCommit, Register
            <4>2. KeyGiven'
                BY <3>1, <3>3, <4>1 DEF Keys, KeyGiven
            <4>3. EntriesSound'
                BY <3>1, <4>1 DEF Keys, EntriesSound
            <4>4. EntriesComplete'
                BY <3>1, <3>3, <4>1 DEF Keys, EntriesComplete, InFlight
            <4> QED
                BY <4>1, <4>2, <4>3, <4>4 DEF Keys, KeyBound, KeyUnique
        <3> QED
            BY <3>2, <3>3
    <2>9. ASSUME NEW t \in Threads, NEW c \in Calls, CallMethod(t, c) PROVE Keys'
        BY <2>9, MovesKeepKeys DEF CallMethod, dbusVars
    <2>10. ASSUME NEW c \in Calls, Reply(c) PROVE Keys'
        BY <2>10, MovesKeepKeys DEF Reply, dbusVars
    <2>11. CASE EmitSignal
        BY <2>11, MovesKeepKeys DEF EmitSignal, dbusVars
    <2>12. CASE UNCHANGED vars
        BY <2>12, MovesKeepKeys DEF vars, dbusVars, contextVars, callVars
    <2> QED
        BY <2>1, <2>2, <2>3, <2>4, <2>5, <2>6, <2>7, <2>8, <2>9, <2>10, <2>11,
           <2>12 DEF Next, Issue, Terminated
<1> QED
    BY <1>1, <1>2, TypeCorrect, ControlCorrect, OwnersCorrect, PTL DEF Spec

\* Every callback runs once, for its own call, in every interleaving and with
\* any number of proxies.
THEOREM CallbackCorrect == Spec => []CallbackExactlyOnce
<1>1. Init => CallbackExactlyOnce
    BY DEF Init, CallbackExactlyOnce
<1>2. /\ TypeOK /\ Control /\ Owners /\ Keys
      /\ CallbackExactlyOnce /\ [Next]_vars
      => CallbackExactlyOnce'
    <2> SUFFICES ASSUME TypeOK, Control, Owners, Keys, CallbackExactlyOnce, [Next]_vars
                 PROVE  CallbackExactlyOnce'
        OBVIOUS
    <2> USE ThreadAssumption, CallAssumption
    <2> USE DEF CallbackExactlyOnce, TypeOK, Threads, MoveTo, callVars
    <2>1. CASE Start
        BY <2>1 DEF Start, ConstructorThrows, CreateThread, StartReturns
    <2>2. CASE GlibThread
        BY <2>2 DEF GlibThread, InvokeOnLoopStarted, NewLoop, RunLoop,
           OnLoopStarted, LoopReturns, UnrefLoop, ClearLoop
    <2>3. CASE BeginStop
        BY <2>3 DEF BeginStop, ClearRunning
    <2>4. CASE Stop
        BY <2>4 DEF Stop, StopTestLoop, StopTestRunning, StopTestPending,
           StopQuit, Join
    <2>5. CASE Destroy
        BY <2>5 DEF Destroy, BeginDrain, EndDrain
    <2>6. ASSUME NEW t \in {Main, Glib}, Dispatch(t) PROVE CallbackExactlyOnce'
        <3> t \in Threads
            BY ThreadAssumption DEF Threads
        <3>1. CASE Iterate(t) /\ UNCHANGED callVars
            BY <3>1 DEF Iterate, dbusVars
        <3>2. ASSUME NEW c \in Calls, DispatchCall(t, c) PROVE CallbackExactlyOnce'
            BY <3>2 DEF DispatchCall, dbusVars
        <3>3. ASSUME NEW c \in Calls, RunCallback(t, c) PROVE CallbackExactlyOnce'
            <4>1. cur = None /\ \A u \in Threads : pc[u] \notin Executing
                BY <3>3, OneDispatcher DEF RunCallback, DispatchLabels, Owners,
                   Executing
            <4>2. c \in InFlight \cap WithCallback /\ ~Erased(c)
                BY <3>3, <4>1 DEF RunCallback, Keys, KeyGiven, InFlight, Counted,
                   Erased
            <4>3. \A d \in Calls : <<counter[c], d>> \in callbacks_[ProxyOf[c]] <=> d = c
                BY <3>3, <4>2 DEF RunCallback, Keys, KeyUnique, EntriesSound,
                   EntriesComplete
            <4>4. ran' = [d \in Calls |-> IF d = c THEN ran[d] + 1 ELSE ran[d]]
                BY <3>3, <4>3 DEF RunCallback
            <4> QED
                BY <3>3, <4>2, <4>4 DEF RunCallback
        <3>4. ASSUME NEW c \in Calls, CallbackReturns(t, c)
              PROVE  CallbackExactlyOnce'
            BY <3>4 DEF CallbackReturns
        <3>5. ASSUME NEW c \in Calls, SkipCallback(t, c) PROVE CallbackExactlyOnce'
            <4>1. c \notin WithCallback
                BY <3>5 DEF SkipCallback, Keys, KeyGiven, Counted
            <4> QED
                BY <3>5, <4>1 DEF SkipCallback
        <3>6. ASSUME NEW c \in Calls, DoneStore(t, c) PROVE CallbackExactlyOnce'
            BY <3>6 DEF DoneStore, AsyncDoneStore, Owners
        <3>7. CASE DoneLoad(t)
            BY <3>7 DEF DoneLoad, AsyncDoneLoad
        <3>8. CASE DispatchSignal(t)
            BY <3>8 DEF DispatchSignal
        <3>9. CASE SignalReturns(t)
            BY <3>9 DEF SignalReturns
        <3> QED
            BY <2>6, <3>1, <3>2, <3>3, <3>4, <3>5, <3>6, <3>7, <3>8, <3>9
            DEF Dispatch
    <2>7. ASSUME NEW t \in Threads, NEW c \in Calls, PrepareLock(t, c)
          PROVE  CallbackExactlyOnce'
        BY <2>7 DEF PrepareLock, AsyncStartLoad
    <2>8. ASSUME NEW t \in Threads, NEW c \in Calls, PrepareCommit(t, c)
          PROVE  CallbackExactlyOnce'
        BY <2>8 DEF PrepareCommit, AsyncStartStore
    <2>9. ASSUME NEW t \in Threads, NEW c \in Calls, CallMethod(t, c)
          PROVE  CallbackExactlyOnce'
        BY <2>9 DEF CallMethod, dbusVars
    <2>10. ASSUME NEW c \in Calls, Reply(c) PROVE CallbackExactlyOnce'
        BY <2>10 DEF Reply, dbusVars
    <2>11. CASE EmitSignal
        BY <2>11 DEF EmitSignal, dbusVars
    <2>12. CASE UNCHANGED vars
        BY <2>12 DEF vars, dbusVars, contextVars, callVars
    <2> QED
        BY <2>1, <2>2, <2>3, <2>4, <2>5, <2>6, <2>7, <2>8, <2>9, <2>10, <2>11,
           <2>12 DEF Next, Issue, Terminated
<1> QED
    BY <1>1, <1>2, TypeCorrect, ControlCorrect, OwnersCorrect, KeysCorrect,
       PTL DEF Spec

\* callbacks_ never loses the callback of a call in flight and never keeps
\* one that has run.
THEOREM CallbacksKept == Spec => []CallbacksOfInFlight
<1>1. TypeOK /\ Keys => CallbacksOfInFlight
    <2> SUFFICES ASSUME TypeOK, Keys, NEW p \in Proxies
                 PROVE  {e[2] : e \in callbacks_[p]} =
                           {c \in InFlight \cap WithCallback : ProxyOf[c] = p /\ ~Erased(c)}
        BY DEF CallbacksOfInFlight, Erased
    <2>1. ASSUME NEW e \in callbacks_[p]
          PROVE  e[2] \in InFlight \cap WithCallback /\ ProxyOf[e[2]] = p /\ ~Erased(e[2])
        <3>1. e = <<e[1], e[2]>> /\ e[1] \in Nat /\ e[2] \in Calls
            BY DEF TypeOK
        <3> QED
            BY <3>1 DEF Keys, KeyGiven, EntriesSound, InFlight
    <2>2. ASSUME NEW c \in InFlight \cap WithCallback, ProxyOf[c] = p, ~Erased(c)
          PROVE  \E e \in callbacks_[p] : e[2] = c
        BY <2>2 DEF Keys, EntriesComplete
    <2> QED
        BY <2>1, <2>2
<1> QED
    BY <1>1, TypeCorrect, KeysCorrect, PTL

------------------------------------------------------------------------------
(* The refinement.                                                          *)

BarStep == [Barrier!Next]_<<phaseBar, statusBar, awaited>>

\* What the status of a call says about its stage.
LEMMA StatusTells ==
    /\ Barrier!With("pending") = InFlight
    /\ Barrier!With("done") = Done
    /\ Calls \ Barrier!With("idle") = InFlight \cup Done
    BY DEF Barrier!With, statusBar, InFlight, Done, Counted

\* The abstract phase is that of Main, so other threads and Main's steps
\* within a phase are invisible.
LEMMA Stutter ==
    ASSUME UNCHANGED <<stage, awaited>>,
           \/ pc'[Main] = pc[Main]
           \/ /\ pc[Main] \in {"ctor", "waiting", "app"}
              /\ pc'[Main] \in {"failed", "waiting", "app"}
           \/ pc[Main] \in StopLabels /\ pc'[Main] \in StopLabels
           \/ /\ pc[Main] \in {"joined"} \cup DispatchLabels
              /\ pc'[Main] \in {"destroyed"} \cup DispatchLabels
    PROVE  BarStep
<1>1. statusBar' = statusBar
    BY DEF statusBar, InFlight, Done
<1>2. phaseBar' = phaseBar
    BY DEF phaseBar, StopLabels, DispatchLabels
<1> QED
    BY <1>1, <1>2 DEF BarStep

\* So is the progress of a call that stays in flight, or stays unprepared.
LEMMA CallStutter ==
    ASSUME TypeOK, NEW c \in Calls, NEW s \in Stages \ {"done"}, MoveTo(c, s),
           stage[c] # "done", s \in Counted <=> stage[c] \in Counted,
           UNCHANGED awaited,
           \/ pc'[Main] = pc[Main]
           \/ pc[Main] \in DispatchLabels /\ pc'[Main] \in DispatchLabels
    PROVE  BarStep
<1>1. statusBar' = statusBar
    BY DEF statusBar, InFlight, Done, MoveTo, TypeOK
<1>2. phaseBar' = phaseBar
    BY DEF phaseBar, StopLabels, DispatchLabels
<1> QED
    BY <1>1, <1>2 DEF BarStep

\* DBus and DBusProxy implement CallBarrier as long as pending_calls_ is free
\* of races, so with one proxy always.
THEOREM Refinement == Spec /\ []NoRace => ImplementsBarrier
<1>1. Init => Barrier!Init
    <2> SUFFICES ASSUME Init PROVE Barrier!Init
        OBVIOUS
    <2>1. pc[Main] = "ctor"
        BY ThreadAssumption DEF Init, DBusInit, Threads
    <2>2. InFlight = {} /\ Done = {}
        BY DEF Init, InFlight, Done, Counted
    <2>3. statusBar = [c \in Calls |-> "idle"]
        BY <2>2 DEF statusBar
    <2>4. phaseBar = "open"
        BY <2>1 DEF phaseBar, StopLabels
    <2>5. awaited = {}
        BY DEF Init
    <2> QED
        BY <2>3, <2>4, <2>5 DEF Barrier!Init
<1>2. TypeOK /\ Control /\ Owners /\ Waiting /\ [Next]_vars => BarStep
    <2> SUFFICES ASSUME TypeOK, Control, Owners, Waiting, [Next]_vars
                 PROVE  BarStep
        OBVIOUS
    <2> USE ThreadAssumption, CallAssumption
    <2> USE DEF TypeOK, DBusTypeOK, Threads, Goto, callVars, DispatchLabels, StopLabels,
                Stages
    <2>1. CASE Start
        BY <2>1, Stutter DEF Start, ConstructorThrows, CreateThread, StartReturns
    <2>2. CASE GlibThread
        BY <2>2, Stutter DEF GlibThread, InvokeOnLoopStarted, NewLoop, RunLoop,
           OnLoopStarted, LoopReturns, UnrefLoop, ClearLoop
    <2>3. CASE BeginStop
        <3>1. phaseBar = "open" /\ phaseBar' = "stopping"
            BY <2>3 DEF BeginStop, ClearRunning, phaseBar
        <3>2. statusBar' = statusBar /\ awaited' = Calls \ Barrier!With("idle")
            BY <2>3, StatusTells DEF BeginStop, statusBar, InFlight, Done
        <3> QED
            BY <3>1, <3>2 DEF BarStep, Barrier!Next, Barrier!BeginStop
    <2>4. CASE Stop
        <3>1. CASE Join
            <4>1. awaited \subseteq Done
                BY <2>4, <3>1 DEF Waiting, Join
            <4>2. phaseBar = "stopping" /\ phaseBar' = "stopped"
                BY <2>4, <3>1 DEF Stop, Join, phaseBar
            <4>3. statusBar' = statusBar /\ awaited' = awaited
                BY <2>4 DEF Stop, statusBar, InFlight, Done
            <4> QED
                BY <4>1, <4>2, <4>3, StatusTells
                DEF BarStep, Barrier!Next, Barrier!StopReturns
        <3>2. CASE StopTestLoop \/ StopTestRunning \/ StopTestPending \/ StopQuit
            <4>1. pc[Main] \in StopLabels /\ pc'[Main] \in StopLabels
                BY <3>2 DEF StopTestLoop, StopTestRunning, StopTestPending, StopQuit
            <4> QED
                BY <2>4, <4>1, Stutter DEF Stop
        <3> QED
            BY <2>4, <3>1, <3>2 DEF Stop
    <2>5. CASE Destroy
        BY <2>5, Stutter DEF Destroy, BeginDrain, EndDrain
    <2>6. ASSUME NEW t \in {Main, Glib}, Dispatch(t) PROVE BarStep
        <3> t \in Threads
            BY ThreadAssumption DEF Threads
        <3>1. CASE Iterate(t) /\ UNCHANGED callVars
            BY <3>1, Stutter DEF Iterate, dbusVars
        <3>2. ASSUME NEW c \in Calls, DispatchCall(t, c) PROVE BarStep
            BY <3>2, CallStutter DEF Counted, DispatchCall, dbusVars
        <3>3. ASSUME NEW c \in Calls, RunCallback(t, c) PROVE BarStep
            BY <3>3, CallStutter DEF Counted, RunCallback
        <3>4. ASSUME NEW c \in Calls, CallbackReturns(t, c) PROVE BarStep
            BY <3>4, Stutter DEF CallbackReturns
        <3>5. ASSUME NEW c \in Calls, SkipCallback(t, c) PROVE BarStep
            BY <3>5, CallStutter DEF Counted, SkipCallback
        <3>6. ASSUME NEW c \in Calls, DoneStore(t, c) PROVE BarStep
            <4>1. stage[c] = "running" /\ MoveTo(c, "done") /\ UNCHANGED awaited
                BY <3>6 DEF DoneStore, Owners
            <4>2. phaseBar' = phaseBar
                BY <3>6 DEF DoneStore, AsyncDoneStore, phaseBar
            <4>3. statusBar' = [statusBar EXCEPT ![c] = "done"] /\ statusBar[c] = "pending"
                BY <4>1 DEF statusBar, InFlight, Done, Counted, MoveTo
            <4> QED
                BY <4>1, <4>2, <4>3 DEF BarStep, Barrier!Next, Barrier!FinishCall
        <3>7. CASE DoneLoad(t)
            BY <3>7, Stutter DEF DoneLoad, AsyncDoneLoad
        <3>8. CASE DispatchSignal(t)
            BY <3>8, Stutter DEF DispatchSignal
        <3>9. CASE SignalReturns(t)
            BY <3>9, Stutter DEF SignalReturns
        <3> QED
            BY <2>6, <3>1, <3>2, <3>3, <3>4, <3>5, <3>6, <3>7, <3>8, <3>9
            DEF Dispatch
    <2>7. ASSUME NEW t \in Threads, NEW c \in Calls, PrepareLock(t, c) PROVE BarStep
        BY <2>7, CallStutter DEF Counted, PrepareLock, AsyncStartLoad
    <2>8. ASSUME NEW t \in Threads, NEW c \in Calls, PrepareCommit(t, c)
          PROVE  BarStep
        <3>1. stage[c] = "locked" /\ MoveTo(c, "prepared") /\ UNCHANGED pc
            BY <2>8 DEF PrepareCommit
        <3>2. phaseBar' = phaseBar
            BY <3>1 DEF phaseBar
        <3>3. statusBar' = [statusBar EXCEPT ![c] = "pending"] /\ statusBar[c] = "idle"
            BY <3>1 DEF statusBar, InFlight, Done, Counted, MoveTo
        <3>4. Barrier!Begin(c)
            BY <3>2, <3>3 DEF Barrier!Begin
        <3>5. CASE cur \in awaited
            <4>1. cur \in Calls /\ stage[cur] = "running" /\ cur \notin Done
                BY <3>5 DEF Owners, Done
            <4>2. phaseBar = "stopping"
                <5>1. pc[Main] \in StopLabels
                    BY <3>5, <4>1 DEF Waiting, StopWaits, Control, MainLabels
                <5> QED
                    BY <5>1 DEF phaseBar
            <4>3. cur \in Barrier!With("pending")
                BY <4>1, StatusTells DEF InFlight, Counted
            <4>4. awaited' = awaited \cup {c}
                BY <2>8, <3>5 DEF PrepareCommit
            <4> QED
                BY <3>4, <3>5, <4>2, <4>3, <4>4 DEF BarStep, Barrier!Next,
                   Barrier!ChainCall
        <3>6. CASE cur \notin awaited
            <4>1. awaited' = awaited
                BY <2>8, <3>6 DEF PrepareCommit
            <4> QED
                BY <3>4, <4>1 DEF BarStep, Barrier!Next, Barrier!StartCall
        <3> QED
            BY <3>5, <3>6
    <2>9. ASSUME NEW t \in Threads, NEW c \in Calls, CallMethod(t, c) PROVE BarStep
        BY <2>9, CallStutter DEF Counted, CallMethod, dbusVars
    <2>10. ASSUME NEW c \in Calls, Reply(c) PROVE BarStep
        BY <2>10, CallStutter DEF Counted, Reply, dbusVars
    <2>11. CASE EmitSignal
        BY <2>11, Stutter DEF EmitSignal, dbusVars
    <2>12. CASE UNCHANGED vars
        BY <2>12, Stutter DEF vars, dbusVars, contextVars, callVars
    <2> QED
        BY <2>1, <2>2, <2>3, <2>4, <2>5, <2>6, <2>7, <2>8, <2>9, <2>10, <2>11,
           <2>12 DEF Next, Issue, Terminated
<1> QED
    BY <1>1, <1>2, TypeCorrect, ControlCorrect, OwnersCorrect, WaitingCorrect, PTL
    DEF Spec, ImplementsBarrier, Barrier!Spec, BarStep, Barrier!barrierVars

\* With one proxy they always do.
THEOREM SingleProxyRefinement == SingleProxy => (Spec => ImplementsBarrier)
<1> SUFFICES ASSUME SingleProxy PROVE Spec => ImplementsBarrier
    OBVIOUS
<1>1. TypeOK /\ Owners => NoRace
    BY SingleProxyNoRace
<1> QED
    BY <1>1, TypeCorrect, OwnersCorrect, Refinement, PTL
==============================================================================
