------------------------------ MODULE DBusProxy ------------------------------
(***************************************************************************)
(* The asynchronous calls of class DBusProxy                               *)
(* (include/amarula/dbus/gproxy.hpp), composed with the DBus object that   *)
(* counts them: prepareCallback, callMethod, finishAsyncCall and           *)
(* executeCallBack, run by application threads, by glib_thread_ and, at    *)
(* the end of ~DBus, by the thread that destroys the object.               *)
(*                                                                         *)
(* A call travels new -> locked -> prepared -> [queued ->] sent -> replied *)
(* -> running -> done.  A source of ctx_ that belongs to a call is the     *)
(* call itself: while it is "queued" the source sends it, while it is      *)
(* "replied" the source is the completion that runs its GAsyncReadyCallback*)
(***************************************************************************)
EXTENDS DBus, FiniteSets

CONSTANTS
    Calls,         \* the calls the application makes
    Proxies,       \* the DBusProxy objects it makes them on
    ProxyOf,       \* the proxy of each call
    WithCallback,  \* the calls that are given a callback
    Signal,        \* the source that delivers a PropertyChanged signal
    MaxSignals     \* bound on the signals the peer emits

ASSUME CallAssumption ==
    /\ IsFiniteSet(Calls)
    /\ Cardinality(Calls) <= UIntMax
    /\ ProxyOf \in [Calls -> Proxies]
    /\ WithCallback \subseteq Calls
    /\ None \notin Calls
    /\ Started \notin Calls
    /\ Signal \notin Calls \cup {Started}
    /\ MaxSignals \in Nat

VARIABLES
    pmtx,               \* owner of each proxy's mtx_
    callback_counter_,  \* of each proxy
    callbacks_,         \* of each proxy: the pairs <<key, call whose callback it is>>
    stage,              \* how far each call is
    counter,            \* CallbackData::counter_ of each call, 0 for nullopt
    issuing,            \* the call each thread is in the middle of making
    cur,                \* the call whose completion is being dispatched
    signals,            \* how many signals the peer has emitted
    ran,                \* history: how often each call's callback has run
    awaited             \* history: the calls stop() has to wait for

callVars == <<pmtx, callback_counter_, callbacks_, stage, counter, issuing,
              cur, signals, ran, awaited>>
vars == <<contextVars, dbusVars, callVars>>

Counted == {"prepared", "queued", "sent", "replied", "running"}
Stages == {"new", "locked", "done"} \cup Counted

\* The calls that have been started and have not been answered.
InFlight == {c \in Calls : stage[c] \in Counted}
Done == {c \in Calls : stage[c] = "done"}

\* The sources attached to ctx_; an iteration collects no more than there are.
QueueOK ==
    /\ queue \in Seq(Calls \cup {Started, Signal})
    /\ left \in 0..Len(queue)

TypeOK ==
    /\ DBusTypeOK
    /\ QueueOK
    /\ is_running \in BOOLEAN
    /\ pmtx \in [Proxies -> Threads \cup {None}]
    /\ callback_counter_ \in [Proxies -> Nat]
    /\ callbacks_ \in [Proxies -> SUBSET (Nat \X Calls)]
    /\ stage \in [Calls -> Stages]
    /\ counter \in [Calls -> Nat]
    /\ issuing \in [Threads -> Calls \cup {None}]
    /\ cur \in Calls \cup {None}
    /\ signals \in 0..MaxSignals
    /\ ran \in [Calls -> Nat]
    /\ awaited \subseteq Calls

Init ==
    /\ DBusInit
    /\ pmtx = [p \in Proxies |-> None]
    /\ callback_counter_ = [p \in Proxies |-> 0]
    /\ callbacks_ = [p \in Proxies |-> {}]
    /\ stage = [c \in Calls |-> "new"]
    /\ counter = [c \in Calls |-> 0]
    /\ issuing = [t \in Threads |-> None]
    /\ cur = None
    /\ signals = 0
    /\ ran = [c \in Calls |-> 0]
    /\ awaited = {}

MoveTo(c, s) == stage' = [stage EXCEPT ![c] = s]

------------------------------------------------------------------------------
(* Making a call: prepareCallback, then callMethod.                         *)

\* Application threads make calls while the object exists, the dispatching
\* thread makes them from inside user callbacks.
InUserCode(t) ==
    \/ pc[t] \in {"cb", "sigcb"}
    \/ t \in AppThreads /\ pc[t] = "app" /\ pc[Main] = "app"

\* prepareCallback takes mtx_ of the proxy and loads pending_calls_.
MutantNoLock(p) == TRUE
ProxyFree(p) == pmtx[p] = None

PrepareLock(t, c) ==
    /\ InUserCode(t)
    /\ issuing[t] = None
    /\ stage[c] = "new"
    /\ ProxyFree(ProxyOf[c])
    /\ AsyncStartLoad(t)
    /\ pmtx' = [pmtx EXCEPT ![ProxyOf[c]] = t]
    /\ issuing' = [issuing EXCEPT ![t] = c]
    /\ MoveTo(c, "locked")
    /\ UNCHANGED <<contextVars, running_, pending_calls_, mtx_, loop_, pc,
                   callback_counter_, callbacks_, counter, cur, signals, ran,
                   awaited>>

\* callbacks_[key] = callback
Put(map, key, c) == {e \in map : e[1] # key} \cup {<<key, c>>}

\* The key the callback of the next call is stored under.
MutantReusedKey(p) == 1
MutantKeyDown(p) == callback_counter_[p] - 1
NextKey(p) == callback_counter_[p] + 1

Register(c, p) ==
    IF c \in WithCallback
      THEN /\ callback_counter_' = [callback_counter_ EXCEPT ![p] = NextKey(p)]
           /\ callbacks_' = [callbacks_ EXCEPT ![p] = Put(@, NextKey(p), c)]
           /\ counter' = [counter EXCEPT ![c] = NextKey(p)]
      ELSE UNCHANGED <<callback_counter_, callbacks_, counter>>

\* The store of pending_calls_, the rest of prepareCallback and its unlock.
PrepareCommit(t, c) ==
    /\ issuing[t] = c
    /\ stage[c] = "locked"
    /\ AsyncStartStore(t)
    /\ Register(c, ProxyOf[c])
    /\ pmtx' = [pmtx EXCEPT ![ProxyOf[c]] = None]
    /\ MoveTo(c, "prepared")
    /\ awaited' = awaited \cup (IF cur \in awaited THEN {c} ELSE {})
    /\ UNCHANGED <<contextVars, running_, mtx_, loop_, pc, reg, issuing, cur,
                   signals, ran>>

\* callMethod: g_main_context_invoke_full runs the function at once on the
\* thread that owns ctx_, and attaches a source on any other.
CallMethod(t, c) ==
    /\ issuing[t] = c
    /\ stage[c] = "prepared"
    /\ issuing' = [issuing EXCEPT ![t] = None]
    /\ IF pc[t] \in {"cb", "sigcb"}
         THEN /\ MoveTo(c, "sent")
              /\ UNCHANGED queue
         ELSE /\ MoveTo(c, "queued")
              /\ Attach(c)
    /\ UNCHANGED <<left, is_running, dbusVars, pmtx, callback_counter_,
                   callbacks_, counter, cur, signals, ran, awaited>>

------------------------------------------------------------------------------
(* The bus and the peer, external.                                          *)

\* The answer to a call, an error or the timeout of g_dbus_proxy_call: GDBus
\* attaches the completion to ctx_.  After ~DBus it would reach no context.
Reply(c) ==
    /\ stage[c] = "sent"
    /\ pc[Main] # "destroyed"
    /\ MoveTo(c, "replied")
    /\ Attach(c)
    /\ UNCHANGED <<left, is_running, dbusVars, pmtx, callback_counter_,
                   callbacks_, counter, issuing, cur, signals, ran, awaited>>

EmitSignal ==
    /\ signals < MaxSignals
    /\ pc[Main] \notin {"ctor", "failed", "waiting", "destroyed"}
    /\ signals' = signals + 1
    /\ Attach(Signal)
    /\ UNCHANGED <<left, is_running, dbusVars, pmtx, callback_counter_,
                   callbacks_, stage, counter, issuing, cur, ran, awaited>>

------------------------------------------------------------------------------
(* Dispatching: thread t is in an iteration of ctx_.                        *)

\* The source of callMethod: g_dbus_proxy_call.
DispatchCall(t, c) ==
    /\ pc[t] = "iter"
    /\ stage[c] = "queued"
    /\ Take(c)
    /\ MoveTo(c, "sent")
    /\ UNCHANGED <<is_running, dbusVars, pmtx, callback_counter_, callbacks_,
                   counter, issuing, cur, signals, ran, awaited>>

\* executeCallBack with a counter: under mtx_ of the proxy it fetches the
\* callback stored under it; it runs the callback with mtx_ released.
RunCallback(t, c) ==
    /\ pc[t] = "iter"
    /\ stage[c] = "replied"
    /\ counter[c] # 0
    /\ Take(c)
    /\ pmtx[ProxyOf[c]] = None
    /\ ran' = [x \in Calls |->
                 IF <<counter[c], x>> \in callbacks_[ProxyOf[c]]
                   THEN ran[x] + 1 ELSE ran[x]]
    /\ MoveTo(c, "running")
    /\ cur' = c
    /\ Goto(t, "cb")
    /\ UNCHANGED <<is_running, running_, pending_calls_, mtx_, loop_, reg, pmtx,
                   callback_counter_, callbacks_, counter, issuing, signals,
                   awaited>>

\* callbacks_.erase(counter.value())
MutantKeep(map, key) == map
Erase(map, key) == {e \in map : e[1] # key}

\* The callback returns: executeCallBack takes mtx_ again and forgets it.
CallbackReturns(t, c) ==
    /\ pc[t] = "cb"
    /\ cur = c
    /\ issuing[t] = None
    /\ pmtx[ProxyOf[c]] = None
    /\ pmtx' = [pmtx EXCEPT ![ProxyOf[c]] = t]
    /\ callbacks_' = [callbacks_ EXCEPT ![ProxyOf[c]] = Erase(@, counter[c])]
    /\ Goto(t, "dec")
    /\ UNCHANGED <<contextVars, running_, pending_calls_, mtx_, loop_, reg,
                   callback_counter_, stage, counter, issuing, cur, signals,
                   ran, awaited>>

\* executeCallBack without a counter.
SkipCallback(t, c) ==
    /\ pc[t] = "iter"
    /\ stage[c] = "replied"
    /\ counter[c] = 0
    /\ Take(c)
    /\ pmtx[ProxyOf[c]] = None
    /\ pmtx' = [pmtx EXCEPT ![ProxyOf[c]] = t]
    /\ MoveTo(c, "running")
    /\ cur' = c
    /\ Goto(t, "dec")
    /\ UNCHANGED <<is_running, running_, pending_calls_, mtx_, loop_, reg,
                   callback_counter_, callbacks_, counter, issuing, signals,
                   ran, awaited>>

\* onAnyAsyncDone, with mtx_ of the proxy still held.
DoneLoad(t) ==
    /\ AsyncDoneLoad(t)
    /\ UNCHANGED callVars

\* The end of onAnyAsyncDone and of executeCallBack, which unlocks.
DoneStore(t, c) ==
    /\ cur = c
    /\ AsyncDoneStore(t)
    /\ pmtx' = [pmtx EXCEPT ![ProxyOf[c]] = None]
    /\ MoveTo(c, "done")
    /\ cur' = None
    /\ UNCHANGED <<callback_counter_, callbacks_, counter, issuing, signals,
                   ran, awaited>>

\* on_properties_changed_cb enters and leaves the user's callback.
DispatchSignal(t) ==
    /\ pc[t] = "iter"
    /\ Take(Signal)
    /\ Goto(t, "sigcb")
    /\ UNCHANGED <<is_running, running_, pending_calls_, mtx_, loop_, reg,
                   callVars>>

SignalReturns(t) ==
    /\ pc[t] = "sigcb"
    /\ issuing[t] = None
    /\ Goto(t, "iter")
    /\ UNCHANGED <<contextVars, running_, pending_calls_, mtx_, loop_, reg,
                   callVars>>

------------------------------------------------------------------------------
(* The methods of DBus, composed with the calls.                            *)

\* stop(): the application destroys the object once none of its threads is
\* inside a method of it.
BeginStop ==
    /\ \A t \in AppThreads : issuing[t] = None
    /\ ClearRunning
    /\ awaited' = InFlight \cup Done
    /\ UNCHANGED <<pmtx, callback_counter_, callbacks_, stage, counter, issuing,
                   cur, signals, ran>>

Start == (ConstructorThrows \/ CreateThread \/ StartReturns) /\ UNCHANGED callVars

GlibThread ==
    /\ \/ InvokeOnLoopStarted \/ NewLoop \/ RunLoop \/ OnLoopStarted
       \/ LoopReturns \/ UnrefLoop \/ ClearLoop
    /\ UNCHANGED callVars

Stop ==
    /\ StopTestLoop \/ StopTestRunning \/ StopTestPending \/ StopQuit \/ Join
    /\ UNCHANGED callVars

Destroy == (BeginDrain \/ EndDrain) /\ UNCHANGED callVars

Dispatch(t) ==
    \/ Iterate(t) /\ UNCHANGED callVars
    \/ \E c \in Calls : \/ DispatchCall(t, c)
                        \/ RunCallback(t, c)
                        \/ CallbackReturns(t, c)
                        \/ SkipCallback(t, c)
                        \/ DoneStore(t, c)
    \/ DoneLoad(t)
    \/ DispatchSignal(t)
    \/ SignalReturns(t)

Issue(t) ==
    \E c \in Calls : PrepareLock(t, c) \/ PrepareCommit(t, c) \/ CallMethod(t, c)

\* The program is over: the constructor threw or ~DBus has returned.
Terminated ==
    /\ pc[Main] \in {"failed", "destroyed"}
    /\ UNCHANGED vars

Next ==
    \/ Start \/ GlibThread \/ BeginStop \/ Stop \/ Destroy
    \/ \E t \in {Main, Glib} : Dispatch(t)
    \/ \E t \in Threads : Issue(t)
    \/ \E c \in Calls : Reply(c)
    \/ EmitSignal
    \/ Terminated

Spec == Init /\ [][Next]_vars

\* A started thread keeps running, a call being made is finished, user
\* callbacks return, and GDBus answers every call, with an error after its
\* timeout at the latest.  Nothing makes the application destroy the object,
\* make a call or the peer emit a signal.
Fairness ==
    /\ WF_vars(GlibThread)
    /\ WF_vars(Dispatch(Glib))
    /\ WF_vars(Stop)
    /\ \A t \in Threads, c \in Calls :
          WF_vars(PrepareCommit(t, c) \/ CallMethod(t, c))
    /\ \A c \in Calls : WF_vars(Reply(c))

FairSpec == Spec /\ Fairness

------------------------------------------------------------------------------
(* Properties.                                                              *)

\* pending_calls_ is the number of calls in flight: onAnyAsyncStart and
\* onAnyAsyncDone lose no update and never wrap (gdbus.cpp:13-20).  This
\* needs the two never to overlap, which one proxy's mtx_ guarantees.
PendingExact == pending_calls_ = Cardinality(InFlight)

\* DBus::stop returns only when every call started before it began, and
\* every call made from the callback of such a call, has been answered and
\* its callback has returned (gdbus.cpp:63-75).
StopWaits ==
    pc[Main] \in {"joined", "iter", "cb", "sigcb", "dec", "dec_store", "destroyed"}
       => awaited \subseteq Done

\* Whatever the interleaving, executeCallBack runs the callback given to
\* prepareCallback for this call, exactly once, and no other: keys of
\* callbacks_ are never shared by two calls in flight (gproxy.hpp:204-217,
\* 280-292).
CallbackExactlyOnce ==
    \A c \in Calls :
       ran[c] = IF c \in WithCallback /\ stage[c] \in {"running", "done"}
                  THEN 1 ELSE 0

\* callbacks_ holds the callbacks of the calls in flight and nothing else:
\* none is dropped before it has run, none is left behind when
\* executeCallBack has returned (gproxy.hpp:204-217, 288).
CallbacksOfInFlight ==
    LET Erased(c) == \E t \in {Main, Glib} :
                        pc[t] \in {"dec", "dec_store"} /\ cur = c
    IN  \A p \in Proxies :
           {e[2] : e \in callbacks_[p]} =
              {c \in InFlight \cap WithCallback : ProxyOf[c] = p /\ ~Erased(c)}

\* When the constructor of DBus has returned, loop_ is set and running, so a
\* stop() that follows cannot miss the loop it has to quit (gdbus.cpp:99-115).
LoopReady == pc[Main] = "app" => loop_ = "live" /\ is_running

\* A stop that has begun returns (gdbus.cpp:63-75): the quit is neither lost
\* between the test of pending_calls_ and the last answer, nor sent to a loop
\* that does not run yet.
StopReturns == (pc[Main] = "stop_loop") ~> (pc[Main] = "joined")

\* The callbacks of asynchronous calls "run on the library GLib thread"
\* (tests/gconnman_agent_test.cpp:112-113), never on the thread that
\* destroys the object (gdbus.cpp:77-87).
CallbackNotOnMain == pc[Main] # "cb"

------------------------------------------------------------------------------
(* The refinement of CallBarrier.                                           *)

phaseBar ==
    CASE pc[Main] \in {"ctor", "failed", "waiting", "app"} -> "open"
      [] pc[Main] \in StopLabels -> "stopping"
      [] OTHER -> "stopped"

statusBar == [c \in Calls |-> CASE c \in InFlight -> "pending"
                                [] c \in Done -> "done"
                                [] OTHER -> "idle"]

Barrier == INSTANCE CallBarrier
              WITH phase <- phaseBar, status <- statusBar

\* DBus and DBusProxy implement CallBarrier: every step of a thread is a step
\* of the promise or invisible to it (gdbus.cpp:13-75, gproxy.hpp:203-365).
ImplementsBarrier == Barrier!Spec
==============================================================================
