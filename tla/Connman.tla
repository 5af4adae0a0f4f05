------------------------------- MODULE Connman -------------------------------
(***************************************************************************)
(* class Connman (src/dbus/gconnman.cpp): the order in which it makes and  *)
(* destroys the DBus object, the Clock and the Manager, and who refers to  *)
(* the Manager meanwhile.                                                  *)
(*                                                                         *)
(* Calls made with prepareCallback are counted and hold a shared_ptr to    *)
(* their proxy until they are answered.  GetTechnologies and GetServices,  *)
(* which the constructor of Manager makes, are not counted and carry a raw *)
(* pointer, and so do the handlers of the Manager's signals.               *)
(*                                                                         *)
(* The DBus object is what CallBarrier says of it: stop() waits for the    *)
(* calls it has to.  DBusProxy implements that with one proxy, or as long  *)
(* as updates of pending_calls_ do not overlap.  The application keeps no  *)
(* reference to the Manager when it destroys the Connman, not even in a    *)
(* callback that the Manager stores, and no RequestInput is being handled  *)
(* then.                                                                   *)
(***************************************************************************)
EXTENDS Naturals, Sequences, SequencesExt

CONSTANTS
    UserCalls,   \* calls on the Manager by the application and its callbacks
    MaxSignals   \* bound on the signals for the Manager

Raw == {"GetTechnologies", "GetServices"}
Counted == UserCalls \cup {"GetProperties"}
Calls == Raw \cup Counted

ASSUME ConnmanAssumption ==
    /\ UserCalls \cap (Raw \cup {"GetProperties"}) = {}
    /\ MaxSignals \in Nat

VARIABLES
    phase, status, awaited,  \* of CallBarrier
    main,       \* what is left of the constructor or destructor
    manager_,   \* the Connman holds its reference to the Manager
    bus,        \* the DBus object and its connection_ are there
    draining,   \* ~DBus dispatches what is left in ctx_
    connected,  \* the Manager's signals have handlers
    ctx,        \* the sources of ctx_, oldest first
    requests,   \* calls connman has not answered, oldest first
    held,       \* GLib refers to the Manager's GDBusProxy for these calls
    signals,    \* how many signals connman has emitted
    used        \* history: something used the Manager when it was destroyed

Bus == INSTANCE CallBarrier WITH Calls <- Counted

barrierVars == <<phase, status, awaited>>
ownVars == <<main, manager_, bus, draining, connected>>
netVars == <<ctx, requests, held, signals>>
vars == <<barrierVars, ownVars, netVars, used>>

\* The steps of Connman::Connman after the DBus object and the Clock are
\* made; a step that throws ends the program.
CtorSteps ==
    <<"Manager", "GetTechnologies", "GetServices", "connect", "GetProperties">>

\* The steps of Connman::~Connman.
MutantManagerFirst == <<"manager", "stop", "joined", "bus", "drain">>
MutantBusFirst == <<"stop", "joined", "bus", "drain", "manager">>
DtorSteps == <<"stop", "joined", "manager", "bus", "drain">>

Sources == [kind : {"send", "ok", "error"}, call : Calls]
              \cup [kind : {"connect", "signal"}]

TypeOK ==
    /\ phase \in {"open", "stopping", "stopped"}
    /\ status \in [Counted -> {"idle", "pending", "done"}]
    /\ awaited \subseteq Counted
    /\ main \in Seq(ToSet(CtorSteps) \cup ToSet(DtorSteps))
    /\ {manager_, bus, draining, connected, used} \subseteq BOOLEAN
    /\ ctx \in Seq(Sources)
    /\ requests \in Seq(Calls)
    /\ held \subseteq Raw \cup UserCalls
    /\ signals \in 0..MaxSignals

Init ==
    /\ Bus!Init
    /\ main = CtorSteps
    /\ manager_ = FALSE
    /\ bus = TRUE
    /\ draining = FALSE
    /\ connected = FALSE
    /\ ctx = <<>>
    /\ requests = <<>>
    /\ held = {}
    /\ signals = 0
    /\ used = FALSE

Attach(source) == ctx' = Append(ctx, source)
Signal == [kind |-> "signal"]
Connect == [kind |-> "connect"]

\* The calls on the Manager that hold a reference to it.
Holding == {c \in UserCalls : status[c] = "pending"}

\* The Manager exists while somebody holds a reference to it, and so does its
\* Agent, which it owns.
ManagerAlive == manager_ \/ Holding # {}

Step(s) == main # <<>> /\ Head(main) = s /\ main' = Tail(main)

------------------------------------------------------------------------------
(* Connman::Connman.                                                        *)

\* The Manager's proxy and its Agent are made.
MakeManager ==
    /\ Step("Manager")
    /\ manager_' = TRUE
    /\ UNCHANGED <<barrierVars, bus, draining, connected, netVars, used>>

\* The proxy cannot be made, or the agent's path is taken: the exception
\* releases what there is, and ~DBus drains ctx_.
ManagerThrows ==
    /\ main # <<>>
    /\ Head(main) = "Manager"
    /\ main' = <<"bus", "drain">>
    /\ Bus!BeginStop
    /\ UNCHANGED <<manager_, bus, draining, connected, netVars, used>>

\* get_technologies and get_services
Ask(c) ==
    /\ c \in Raw
    /\ Step(c)
    /\ Attach([kind |-> "send", call |-> c])
    /\ UNCHANGED <<barrierVars, manager_, bus, draining, connected, requests, held,
                   signals, used>>

\* connectSignal attaches its source and waits for it.
BeginConnect ==
    /\ main # <<>>
    /\ Head(main) = "connect"
    /\ ~Contains(ctx, Connect)
    /\ ~connected
    /\ Attach(Connect)
    /\ UNCHANGED <<barrierVars, ownVars, requests, held, signals, used>>

EndConnect ==
    /\ connected
    /\ Step("connect")
    /\ UNCHANGED <<barrierVars, manager_, bus, draining, connected, netVars, used>>

\* clock_->getProperties()
AskClock ==
    /\ Step("GetProperties")
    /\ Bus!StartCall("GetProperties")
    /\ Attach([kind |-> "send", call |-> "GetProperties"])
    /\ UNCHANGED <<manager_, bus, draining, connected, requests, held, signals, used>>

------------------------------------------------------------------------------
(* The application.                                                         *)

\* A method of the Manager, while the Connman exists.
UserCall(c) ==
    /\ main = <<>>
    /\ bus
    /\ phase = "open"
    /\ Bus!StartCall(c)
    /\ Attach([kind |-> "send", call |-> c])
    /\ UNCHANGED <<ownVars, requests, held, signals, used>>

Destroy ==
    /\ main = <<>>
    /\ bus
    /\ phase = "open"
    /\ main' = DtorSteps
    /\ UNCHANGED <<barrierVars, manager_, bus, draining, connected, netVars, used>>

------------------------------------------------------------------------------
(* Connman::~Connman.                                                       *)

Stop ==
    /\ Step("stop")
    /\ Bus!BeginStop
    /\ UNCHANGED <<manager_, bus, draining, connected, netVars, used>>

StopReturns ==
    /\ Step("joined")
    /\ Bus!StopReturns
    /\ UNCHANGED <<manager_, bus, draining, connected, netVars, used>>

\* manager_.reset()
ResetManager ==
    /\ Step("manager")
    /\ manager_' = FALSE
    /\ UNCHANGED <<barrierVars, bus, draining, connected, netVars, used>>

\* dbus_.reset(): a thread that still runs is stopped, then ctx_ is drained.
ResetBus ==
    /\ Step("bus")
    /\ phase = "stopped" \/ Bus!StopReturns
    /\ phase = "stopped" => UNCHANGED barrierVars
    /\ draining' = TRUE
    /\ UNCHANGED <<manager_, bus, connected, netVars, used>>

\* Nothing is left to dispatch: connection_ and ctx_ are released.
EndDrain ==
    /\ Step("drain")
    /\ ctx = <<>>
    /\ bus' = FALSE
    /\ draining' = FALSE
    /\ UNCHANGED <<barrierVars, manager_, connected, netVars, used>>

------------------------------------------------------------------------------
(* connman, external: it answers in the order of the calls, and a call that *)
(* was made earlier times out earlier.                                      *)

Answer ==
    /\ bus
    /\ requests # <<>>
    /\ requests' = Tail(requests)
    /\ \E kind \in {"ok", "error"} : Attach([kind |-> kind, call |-> Head(requests)])
    /\ UNCHANGED <<barrierVars, ownVars, held, signals, used>>

EmitSignal ==
    /\ bus
    /\ signals < MaxSignals
    /\ signals' = signals + 1
    /\ Attach(Signal)
    /\ UNCHANGED <<barrierVars, ownVars, requests, held, used>>

------------------------------------------------------------------------------
(* Dispatching, on the GLib thread or in ~DBus.                             *)

Take(source) ==
    /\ phase # "stopped" \/ draining
    /\ ctx # <<>>
    /\ source = Head(ctx)
    /\ ctx' = Tail(ctx)

Uses(raw) == used' = (used \/ (raw /\ ~ManagerAlive))

\* g_dbus_proxy_call refers to its GDBusProxy until the call is answered: the
\* Manager's, unless it is the call on the Clock.
MutantProxyOf(c) == {c}
ProxyOf(c) == {c} \ {"GetProperties"}

DispatchSend(c) ==
    /\ Take([kind |-> "send", call |-> c])
    /\ requests' = Append(requests, c)
    /\ held' = held \cup ProxyOf(c)
    /\ UNCHANGED <<barrierVars, ownVars, signals, used>>

DispatchConnect ==
    /\ Take(Connect)
    /\ connected' = TRUE
    /\ UNCHANGED <<barrierVars, main, manager_, bus, draining, requests, held,
                   signals, used>>

\* get_proxies_cb uses the Manager unless the call has failed.
DispatchRaw(c) ==
    /\ \E kind \in {"ok", "error"} :
          /\ Take([kind |-> kind, call |-> c])
          /\ Uses(kind = "ok")
    /\ held' = held \ {c}
    /\ UNCHANGED <<barrierVars, ownVars, requests, signals>>

\* finishAsyncCall and get_property_cb: the last use of the proxy is through
\* the reference of CallbackData, which is then released.
DispatchCounted(c) ==
    /\ \E kind \in {"ok", "error"} : Take([kind |-> kind, call |-> c])
    /\ Bus!FinishCall(c)
    /\ held' = held \ {c}
    /\ UNCHANGED <<ownVars, requests, signals, used>>

\* The callback of a call, which is inside the dispatch of its answer, makes
\* another one, which is sent at once.
CallbackCalls(c, d) ==
    /\ phase # "stopped" \/ draining
    /\ ctx # <<>>
    /\ Head(ctx) \in [kind : {"ok", "error"}, call : {c}]
    /\ IF c \in awaited THEN Bus!ChainCall(d) ELSE Bus!StartCall(d)
    /\ requests' = Append(requests, d)
    /\ held' = held \cup ProxyOf(d)
    /\ UNCHANGED <<ownVars, ctx, signals, used>>

\* The handlers are connected with a raw pointer and never disconnected; they
\* are gone with the GDBusProxy.  The user's callback may make a call, which
\* is sent at once.
HandlerRuns == connected /\ (ManagerAlive \/ held # {})

DispatchSignal ==
    /\ Take(Signal)
    /\ Uses(HandlerRuns)
    /\ \/ UNCHANGED <<barrierVars, requests, held>>
       \/ /\ HandlerRuns /\ ManagerAlive
          /\ \E c \in UserCalls :
                /\ Bus!StartCall(c)
                /\ requests' = Append(requests, c)
                /\ held' = held \cup {c}
    /\ UNCHANGED <<ownVars, signals>>

------------------------------------------------------------------------------

Constructor ==
    \/ MakeManager \/ ManagerThrows \/ BeginConnect \/ EndConnect \/ AskClock
    \/ \E c \in Raw : Ask(c)

Destructor == Stop \/ StopReturns \/ ResetManager \/ ResetBus \/ EndDrain

Dispatch ==
    \/ DispatchConnect
    \/ DispatchSignal
    \/ \E c \in Calls : DispatchSend(c)
    \/ \E c \in Raw : DispatchRaw(c)
    \/ \E c \in Counted : DispatchCounted(c)
    \/ \E c, d \in UserCalls : CallbackCalls(c, d)

Next ==
    \/ Constructor \/ Destroy \/ Destructor
    \/ \E c \in UserCalls : UserCall(c)
    \/ Answer \/ EmitSignal
    \/ Dispatch

Spec == Init /\ [][Next]_vars

------------------------------------------------------------------------------
(* Properties.                                                              *)

\* Nothing touches the Manager once it is destroyed, although the answers of
\* GetTechnologies and GetServices and the signals carry raw pointers to it:
\* stop() waits for the Clock's GetProperties, which was sent after them
\* (gconnman.cpp:16-28, gconnman_manager.cpp:318-326, gproxy.hpp:156-161).
NoUseAfterFree == ~used

\* The Manager is destroyed while connection_ is still there, since its Agent
\* unregisters its object from it (gconnman_agent.cpp:94-97), also when the
\* last reference is that of a call that stop() left behind.
AgentUnregisters == [][ManagerAlive /\ ~ManagerAlive' => bus]_vars
==============================================================================
