------------------------------- MODULE Manager -------------------------------
(***************************************************************************)
(* class Manager (src/dbus/gconnman_manager.cpp): the mirror it keeps of   *)
(* connman's services and technologies, from its constructor on.           *)
(*                                                                         *)
(* The constructor asks for both lists and only then connects the signals  *)
(* that change them, one after the other, while replies and signals are    *)
(* already being dispatched by the GLib thread.  Everything that reaches   *)
(* the GLib thread goes through ctx_ in the order it is attached: the      *)
(* sources of callMethod and connectSignal, and what connman sends, which  *)
(* D-Bus keeps in order.                                                   *)
(*                                                                         *)
(* A service or technology is its object path.  A proxy is the path and an *)
(* identity, which the user sees as the shared_ptr it is given.            *)
(***************************************************************************)
EXTENDS Naturals, Sequences, SequencesExt, FiniteSets

CONSTANTS
    Services,      \* object paths of services
    Technologies,  \* object paths of technologies
    MaxChanges     \* bound on the changes connman makes

ASSUME ManagerAssumption == MaxChanges \in Nat

VARIABLES
    netServices,       \* connman's services, in its order
    netTechnologies,   \* connman's technologies, in its order
    changes,           \* how many changes connman has made
    requests,          \* calls connman has received and not answered
    ctx,               \* the sources of ctx_, oldest first
    services_,         \* the proxies of Manager
    technologies_,
    made,              \* how many proxies have been constructed
    connected,         \* the signals that have a handler
    services_cb,       \* services_changed_cb_ is the user's
    technologies_cb,   \* technologies_changed_cb_ is the user's
    deliver,           \* the list a handler is about to give to the user
    ctor,              \* how far the constructor is
    told,              \* history: the last service list the user was given
    missed             \* history: the mirror has missed a change

peerVars == <<netServices, netTechnologies, changes, requests>>
mirrorVars == <<services_, technologies_, made>>
userVars == <<services_cb, technologies_cb, told>>
vars == <<peerVars, ctx, mirrorVars, connected, userVars, deliver, ctor, missed>>

Signals == {"TechnologyRemoved", "TechnologyAdded", "ServicesChanged"}
None == [kind |-> "none"]

PathsOf(proxies) == [i \in 1..Len(proxies) |-> proxies[i].path]

TypeOK ==
    /\ netServices \in Seq(Services)
    /\ netTechnologies \in Seq(Technologies)
    /\ changes \in 0..MaxChanges
    /\ requests \in Seq({"GetTechnologies", "GetServices"})
    /\ made \in Nat
    /\ services_ \in Seq([path : Services, id : 1..made])
    /\ technologies_ \in Seq([path : Technologies, id : 1..made])
    /\ connected \subseteq Signals
    /\ services_cb \in BOOLEAN
    /\ technologies_cb \in BOOLEAN
    /\ deliver.kind \in {"none", "services", "technologies"}
    /\ ctor \in 1..6
    /\ missed \in BOOLEAN

\* The orders in which connman may list some of the paths.
Orders(paths) == UNION {SetToSeqs(S) : S \in {T \in SUBSET paths : IsFiniteSet(T)}}

Init ==
    /\ netServices \in Orders(Services)
    /\ netTechnologies \in Orders(Technologies)
    /\ changes = 0
    /\ requests = <<>>
    /\ ctx = <<>>
    /\ services_ = <<>>
    /\ technologies_ = <<>>
    /\ made = 0
    /\ connected = {}
    /\ services_cb = FALSE
    /\ technologies_cb = FALSE
    /\ deliver = None
    /\ ctor = 1
    /\ told = None
    /\ missed = TRUE

Attach(source) == ctx' = Append(ctx, source)

------------------------------------------------------------------------------
(* The constructor and the application, on an application thread.           *)

Steps == << [kind |-> "call", method |-> "GetTechnologies"],
            [kind |-> "call", method |-> "GetServices"],
            [kind |-> "connect", signal |-> "TechnologyRemoved"],
            [kind |-> "connect", signal |-> "TechnologyAdded"],
            [kind |-> "connect", signal |-> "ServicesChanged"] >>

\* callMethod attaches its source and returns; connectSignal attaches its
\* source and waits until it has been dispatched.
Construct ==
    /\ ctor <= Len(Steps)
    /\ ctor > 3 => Steps[ctor - 1].signal \in connected
    /\ Attach(Steps[ctor])
    /\ ctor' = ctor + 1
    /\ UNCHANGED <<peerVars, mirrorVars, connected, userVars, deliver, missed>>

Constructed == ctor > Len(Steps) /\ "ServicesChanged" \in connected

\* onServicesChanged and onTechnologiesChanged.
SetServicesCallback ==
    /\ Constructed
    /\ services_cb' = TRUE
    /\ UNCHANGED <<peerVars, ctx, mirrorVars, connected, technologies_cb, told,
                   deliver, ctor, missed>>

SetTechnologiesCallback ==
    /\ Constructed
    /\ technologies_cb' = TRUE
    /\ UNCHANGED <<peerVars, ctx, mirrorVars, connected, services_cb, told,
                   deliver, ctor, missed>>

------------------------------------------------------------------------------
(* connman, external.                                                       *)

\* It answers the oldest call with its list, or with an error.
Answer ==
    /\ requests # <<>>
    /\ requests' = Tail(requests)
    /\ \/ Attach([kind |-> "reply", method |-> Head(requests),
                  list |-> IF Head(requests) = "GetServices"
                             THEN netServices ELSE netTechnologies])
       \/ Attach([kind |-> "error", method |-> Head(requests)])
    /\ UNCHANGED <<netServices, netTechnologies, changes, mirrorVars, connected,
                   userVars, deliver, ctor, missed>>

\* Services appear, go away and change places: ServicesChanged names all that
\* are left in their new order, and those that are gone.
ChangeServices ==
    /\ changes < MaxChanges
    /\ changes' = changes + 1
    /\ \E new \in Orders(Services) :
          /\ new # netServices
          /\ netServices' = new
          /\ Attach([kind |-> "signal", name |-> "ServicesChanged", changed |-> new,
                     removed |-> ToSet(netServices) \ ToSet(new)])
    /\ UNCHANGED <<netTechnologies, requests, mirrorVars, connected, userVars,
                   deliver, ctor, missed>>

\* The signal name a handler is given is the D-Bus member name.
AddTechnology ==
    /\ changes < MaxChanges
    /\ changes' = changes + 1
    /\ \E t \in Technologies \ ToSet(netTechnologies) :
          /\ netTechnologies' = Append(netTechnologies, t)
          /\ Attach([kind |-> "signal", name |-> "TechnologyAdded", path |-> t])
    /\ UNCHANGED <<netServices, requests, mirrorVars, connected, userVars,
                   deliver, ctor, missed>>

RemoveTechnology ==
    /\ changes < MaxChanges
    /\ changes' = changes + 1
    /\ \E i \in 1..Len(netTechnologies) :
          /\ netTechnologies' = RemoveAt(netTechnologies, i)
          /\ Attach([kind |-> "signal", name |-> "TechnologyRemoved",
                     path |-> netTechnologies[i]])
    /\ UNCHANGED <<netServices, requests, mirrorVars, connected, userVars,
                   deliver, ctor, missed>>

------------------------------------------------------------------------------
(* The GLib thread dispatches the oldest source.                            *)

Dispatch(kind) ==
    /\ deliver = None
    /\ ctx # <<>>
    /\ Head(ctx).kind = kind
    /\ ctx' = Tail(ctx)

\* The sources of callMethod and connectSignal.
DispatchCall ==
    /\ Dispatch("call")
    /\ requests' = Append(requests, Head(ctx).method)
    /\ UNCHANGED <<netServices, netTechnologies, changes, mirrorVars, connected,
                   userVars, deliver, ctor, missed>>

DispatchConnect ==
    /\ Dispatch("connect")
    /\ connected' = connected \cup {Head(ctx).signal}
    /\ UNCHANGED <<peerVars, mirrorVars, userVars, deliver, ctor, missed>>

\* arrays_to_proxies: a new proxy for every path.
MutantNewProxies(list) ==
    [i \in 1..Len(list) |-> [path |-> list[i], id |-> made + Len(list) - i]]
NewProxies(list) ==
    [i \in 1..Len(list) |-> [path |-> list[i], id |-> made + i]]

\* A list is given to the user's callback, if there is one, after mtx_ of the
\* Manager is released.
MutantReport(kind, list, user) ==
    deliver' = IF user /\ kind = "services" THEN [kind |-> kind, list |-> services_]
               ELSE IF user THEN [kind |-> kind, list |-> list] ELSE None
Report(kind, list, user) ==
    deliver' = IF user THEN [kind |-> kind, list |-> list] ELSE None

\* get_proxies_cb on success: the reply replaces the whole list, and is
\* reported if it is not empty.
GetServicesDone ==
    /\ Dispatch("reply")
    /\ Head(ctx).method = "GetServices"
    /\ LET list == Head(ctx).list IN
          /\ services_' = NewProxies(list)
          /\ made' = made + Len(list)
          /\ Report("services", services_', services_cb /\ list # <<>>)
    /\ missed' = FALSE
    /\ UNCHANGED <<peerVars, technologies_, connected, userVars, ctor>>

GetTechnologiesDone ==
    /\ Dispatch("reply")
    /\ Head(ctx).method = "GetTechnologies"
    /\ LET list == Head(ctx).list IN
          /\ technologies_' = NewProxies(list)
          /\ made' = made + Len(list)
          /\ Report("technologies", technologies_', technologies_cb /\ list # <<>>)
    /\ UNCHANGED <<peerVars, services_, connected, userVars, ctor, missed>>

\* get_proxies_cb on error.
GetProxiesFailed ==
    /\ Dispatch("error")
    /\ UNCHANGED <<peerVars, mirrorVars, connected, userVars, deliver, ctor, missed>>

\* process_services_changed.  The proxies that are kept keep their identity;
\* the new list is the changed paths in the order of the signal.
MutantProxyFor(path, kept, i) == [path |-> path, id |-> made + i]
ProxyFor(path, kept, i) ==
    IF \E p \in kept : p.path = path
      THEN CHOOSE p \in kept : p.path = path
      ELSE [path |-> path, id |-> made + i]

MutantServicesChangedTo(changed, removed) ==
    LET kept == SelectSeq(services_, LAMBDA p : p.path \notin removed)
        new == SelectSeq(changed, LAMBDA c : ~\E p \in ToSet(kept) : p.path = c)
    IN  kept \o NewProxies(new)
ServicesChangedTo(changed, removed) ==
    LET kept == {p \in ToSet(services_) : p.path \notin removed}
    IN  [i \in 1..Len(changed) |-> ProxyFor(changed[i], kept, i)]

OnServicesChanged ==
    /\ Dispatch("signal")
    /\ Head(ctx).name = "ServicesChanged"
    /\ "ServicesChanged" \in connected
    /\ services_' = ServicesChangedTo(Head(ctx).changed, Head(ctx).removed)
    /\ made' = made + Len(Head(ctx).changed)
    /\ Report("services", services_', services_cb)
    /\ missed' = FALSE
    /\ UNCHANGED <<peerVars, technologies_, connected, userVars, ctor>>

\* on_technology_added_removed_cb compares the signal name with the detailed
\* names the handlers were connected under.
Named(signal) ==
    CASE signal = "g-signal::TechnologyAdded"   -> "added"
      [] signal = "g-signal::TechnologyRemoved" -> "removed"
      [] OTHER                                  -> "other"

TechnologiesAfter(signal, path) ==
    CASE Named(signal) = "added" ->
             Append(technologies_, [path |-> path, id |-> made + 1])
      [] Named(signal) = "removed" ->
             SelectSeq(technologies_, LAMBDA p : p.path # path)
      [] OTHER -> technologies_

OnTechnologyAddedRemoved ==
    /\ Dispatch("signal")
    /\ Head(ctx).name \in {"TechnologyAdded", "TechnologyRemoved"} \cap connected
    /\ technologies_' = TechnologiesAfter(Head(ctx).name, Head(ctx).path)
    /\ made' = made + (IF Named(Head(ctx).name) = "added" THEN 1 ELSE 0)
    /\ Report("technologies", technologies_', technologies_cb)
    /\ UNCHANGED <<peerVars, services_, connected, userVars, ctor, missed>>

\* A signal without a handler changes nothing.
IgnoreSignal ==
    /\ Dispatch("signal")
    /\ Head(ctx).name \notin connected
    /\ missed' = (missed \/ Head(ctx).name = "ServicesChanged")
    /\ UNCHANGED <<peerVars, mirrorVars, connected, userVars, deliver, ctor>>

\* The callback runs with the copy of the list made under mtx_.
RunCallback ==
    /\ deliver # None
    /\ deliver' = None
    /\ told' = IF deliver.kind = "services" THEN deliver ELSE told
    /\ UNCHANGED <<peerVars, ctx, mirrorVars, connected, services_cb,
                   technologies_cb, ctor, missed>>

------------------------------------------------------------------------------

GlibThread ==
    \/ DispatchCall \/ DispatchConnect
    \/ GetServicesDone \/ GetTechnologiesDone \/ GetProxiesFailed
    \/ OnServicesChanged \/ OnTechnologyAddedRemoved \/ IgnoreSignal
    \/ RunCallback

Next ==
    \/ Construct \/ SetServicesCallback \/ SetTechnologiesCallback
    \/ Answer \/ ChangeServices \/ AddTechnology \/ RemoveTechnology
    \/ GlibThread

Spec == Init /\ [][Next]_vars

------------------------------------------------------------------------------
(* Properties.                                                              *)

\* Messages about services that have not been dispatched.
ServiceNews ==
    {i \in 1..Len(ctx) :
        \/ ctx[i].kind = "reply" /\ ctx[i].method = "GetServices"
        \/ ctx[i].kind = "signal" /\ ctx[i].name = "ServicesChanged"}

\* Once the Manager has caught up with what connman sent, services_ is
\* connman's list, in connman's order, unless a signal came between the reply
\* to GetServices and the connection of its handler, or the call failed, and
\* no ServicesChanged has come since: connman's list and its changes can be
\* applied in the order the constructor asks for them
\* (gconnman_manager.cpp:44-86, 382-429).
MirrorsServices ==
    ~missed /\ ServiceNews = {} => PathsOf(services_) = netServices

\* The user who has been given a service list holds the current one, with the
\* very proxies of the Manager, whenever no callback is on its way, although
\* an empty reply is not reported (gconnman_manager.cpp:286-297, 418-428).
UserHoldsCurrentList ==
    told # None /\ deliver = None => told.list = services_

\* ServicesChanged never replaces the proxy of a service that stays, so that
\* the callbacks a user has set on it keep working
\* (gconnman_manager.cpp:70-84).
ProxiesSurvive ==
    [][OnServicesChanged =>
          \A p \in ToSet(services_), q \in ToSet(services_') :
             p.path = q.path => p = q]_vars

\* The list of technologies given to the callback of onTechnologiesChanged
\* after a technology was added is not empty (tests/gconnman_tech_test.cpp:27,
\* gconnman_manager.cpp:356-359).
AddedTechnologyReported ==
    [][OnTechnologyAddedRemoved /\ Head(ctx).name = "TechnologyAdded"
          => deliver' = None \/ deliver'.list # <<>>]_vars
==============================================================================
