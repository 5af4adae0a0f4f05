----------------------------- MODULE Properties ------------------------------
(***************************************************************************)
(* props_ of a proxy for a service: the copy of the properties connman has *)
(* of it.  The list that announces the service brings them, GetProperties  *)
(* and later lists may bring all of them again, and a PropertyChanged      *)
(* brings each change.  They come through ctx_ in the order connman sends  *)
(* them.  Lists are the Manager's and may be on their way before the proxy *)
(* exists; PropertyChanged comes from then on, as the proxy subscribes.    *)
(*                                                                         *)
(* A value is the set of its parts: of its fields if it is a dictionary    *)
(* (IPv4, Proxy), of its elements if it is a list, and empty or not if it  *)
(* is plain.  connman only sends text the EnumStringMaps know; other text  *)
(* throws through GLib.  props_ is read here by the callbacks, on the      *)
(* thread that writes it: properties() takes a mutex which the writer does *)
(* not, so what it reads on another thread is not specified.               *)
(***************************************************************************)
EXTENDS Naturals, Sequences, FiniteSets

CONSTANTS
    Known,      \* properties update() has a branch for
    Unknown,    \* other properties connman sends
    Parts,      \* of the values
    MaxChanges, MaxLists, MaxGets  \* bounds: changes, later lists, calls

ASSUME PropertiesAssumption ==
    /\ Known \cap Unknown = {}
    /\ {MaxChanges, MaxLists, MaxGets} \subseteq Nat

Keys == Known \cup Unknown
Values == SUBSET Parts

VARIABLES
    remote,      \* connman's properties
    ctx,         \* lists, signals and replies on their way, oldest first
    subscribed,  \* the proxy exists
    props_,
    callback,    \* onPropertyChanged was called
    view,        \* what the user was last given of the properties
    asked,       \* GetProperties calls connman has not answered
    count,       \* how many changes, lists and calls there were
    seen,        \* history: connman's properties as of the last message handled
    lost,        \* history: which was a property's last change before the subscription
    stale        \* history: the properties whose last such change nothing has brought

netVars == <<remote, ctx, asked, count>>
proxyVars == <<subscribed, props_, callback, view>>
historyVars == <<seen, lost, stale>>
vars == <<netVars, proxyVars, historyVars>>

\* Every message is told together with connman's properties at that time, and
\* how many changes there had been.
Messages ==
    [kind : {"new", "full", "empty", "reply", "error"}, remote : [Keys -> Values], at : Nat]
      \cup [kind : {"changed"}, key : Keys, remote : [Keys -> Values], at : Nat]

TypeOK ==
    /\ remote \in [Keys -> Values]
    /\ ctx \in Seq(Messages)
    /\ {subscribed, callback} \subseteq BOOLEAN
    /\ props_ \in [Known -> Values]
    /\ view \in [Known -> Values]
    /\ asked \in 0..count["gets"]
    /\ count \in [{"changes", "lists", "gets"} -> Nat]
    /\ seen \in [Keys -> Values]
    /\ lost \in [Known -> 0..count["changes"]]
    /\ stale \subseteq {k \in Known : lost[k] > 0}

Empty == [k \in Known |-> {}]

Message(kind) == [kind |-> kind, remote |-> remote, at |-> count["changes"]]
Send(message) == ctx' = Append(ctx, message)
Count(what, max) ==
    /\ count[what] < max
    /\ count' = [count EXCEPT ![what] = @ + 1]

\* connman has just announced the service.
Init ==
    /\ remote \in [Keys -> Values]
    /\ count = [what \in {"changes", "lists", "gets"} |-> 0]
    /\ ctx = <<Message("new")>>
    /\ subscribed = FALSE
    /\ props_ = Empty
    /\ callback = FALSE
    /\ view = Empty
    /\ asked = 0
    /\ seen = remote
    /\ lost = [k \in Known |-> 0]
    /\ stale = {}

------------------------------------------------------------------------------
(* connman, external.                                                       *)

\* The daemon passes the signal on if there is a subscription.
Change(k) ==
    /\ Count("changes", MaxChanges)
    /\ \E value \in Values \ {remote[k]} : remote' = [remote EXCEPT ![k] = value]
    /\ IF subscribed \/ k \notin Known
         THEN UNCHANGED <<lost, stale>>
         ELSE lost' = [lost EXCEPT ![k] = count'["changes"]] /\ stale' = stale \cup {k}
    /\ IF subscribed
         THEN Send([kind |-> "changed", key |-> k, remote |-> remote',
                    at |-> count'["changes"]])
         ELSE UNCHANGED ctx
    /\ UNCHANGED <<proxyVars, asked, seen>>

\* A ServicesChanged that keeps the service, with all its properties or none.
\* It is a signal to the Manager, whether or not the service has a proxy yet.
SendList(kind) ==
    /\ Count("lists", MaxLists)
    /\ Send(Message(kind))
    /\ UNCHANGED <<remote, asked, proxyVars, historyVars>>

Answer(kind) ==
    /\ asked > 0
    /\ asked' = asked - 1
    /\ Send(Message(kind))
    /\ UNCHANGED <<remote, count, proxyVars, historyVars>>

------------------------------------------------------------------------------
(* The application.                                                         *)

GetProperties ==
    /\ subscribed
    /\ Count("gets", MaxGets)
    /\ asked' = asked + 1
    /\ UNCHANGED <<remote, ctx, proxyVars, historyVars>>

\* The user sets the callback from a callback of the Manager and looks at the
\* properties then.
OnPropertyChanged ==
    /\ subscribed
    /\ ~callback
    /\ callback' = TRUE
    /\ view' = props_
    /\ UNCHANGED <<netVars, subscribed, props_, historyVars>>

------------------------------------------------------------------------------
(* The handlers.                                                            *)

\* What update() stores: a dictionary or list is built anew, and an empty one
\* becomes std::nullopt.
MutantMerge(old, value) == old \cup value
MutantSkipEmpty(old, value) == IF value = {} THEN old ELSE value
Stored(old, value) == value

\* update_property
Updated(p, k, value) == [p EXCEPT ![k] = Stored(p[k], value)]

\* updateProperties
MutantStoreUnknown(p, values) == values
UpdatedAll(p, values) == [k \in Known |-> Stored(p[k], values[k])]

\* The properties that are no longer stale when a message has told them: those
\* whose last change it knew of.
Repair(message, keys) == stale' = {k \in stale : k \notin keys \/ lost[k] > message.at}

\* The list that announces the service: the proxy is made, which subscribes,
\* and is given the properties that came with the list.
HandleNew(message) ==
    /\ message.kind = "new"
    /\ subscribed' = TRUE
    /\ props_' = UpdatedAll(props_, message.remote)
    /\ UNCHANGED <<callback, view, stale>>

\* A later list updates the properties and calls no one back about them.
HandleList(message) ==
    /\ message.kind \in {"full", "empty"}
    /\ IF message.kind = "full"
       THEN props_' = UpdatedAll(props_, message.remote) /\ Repair(message, Known)
       ELSE UNCHANGED <<props_, stale>>
    /\ UNCHANGED <<subscribed, callback, view>>

\* get_property_cb: the callback is given the properties even if the call has
\* failed.
HandleReply(message) ==
    /\ message.kind \in {"reply", "error"}
    /\ IF message.kind = "reply"
       THEN props_' = UpdatedAll(props_, message.remote) /\ Repair(message, Known)
       ELSE UNCHANGED <<props_, stale>>
    /\ view' = props_'
    /\ UNCHANGED <<subscribed, callback>>

\* on_properties_changed_cb
MutantTold(before, after) == before
Told(before, after) == after

HandleChanged(message) ==
    /\ message.kind = "changed"
    /\ LET k == message.key
       IN /\ props_' = IF k \in Known THEN Updated(props_, k, message.remote[k]) ELSE props_
          /\ Repair(message, {k})
    /\ view' = IF callback THEN Told(props_, props_') ELSE view
    /\ UNCHANGED <<subscribed, callback>>

Handle ==
    /\ ctx # <<>>
    /\ ctx' = Tail(ctx)
    /\ LET message == Head(ctx)
       IN /\ seen' = message.remote
          /\ \/ HandleNew(message)
             \/ HandleList(message)
             \/ HandleReply(message)
             \/ HandleChanged(message)
    /\ UNCHANGED <<remote, asked, count, lost>>

Next ==
    \/ \E k \in Keys : Change(k)
    \/ \E kind \in {"full", "empty"} : SendList(kind)
    \/ \E kind \in {"reply", "error"} : Answer(kind)
    \/ GetProperties
    \/ OnPropertyChanged
    \/ Handle

Spec == Init /\ [][Next]_vars

\* The loop runs, and connman answers calls or they time out.
FairSpec ==
    /\ Spec
    /\ WF_vars(Handle)
    /\ WF_vars(\E kind \in {"reply", "error"} : Answer(kind))

------------------------------------------------------------------------------
(* Properties.                                                              *)

\* props_ is what connman had when it sent the last message that was handled,
\* however lists, replies and signals mix.  Only properties that changed after
\* the announcing list was sent and before the proxy subscribed are not, until a
\* signal, or a reply or a list that was sent after that change, brings them
\* (gproxy.hpp:39-82, gconnman_manager.cpp:71-84, 244-252).
CacheFollows ==
    subscribed => \A k \in Known \ stale : props_[k] = seen[k]

\* The user was told of every change, although lists change props_ silently:
\* what they bring has been told before, unless the signal was never received
\* (gconnman_manager.cpp:75-77, gproxy.hpp:50-60, 80-81).
UserIsTold ==
    callback => \A k \in Known : lost[k] > 0 \/ view[k] = props_[k]

\* A change is not lost for good: a property follows connman's in the end, or
\* its last change was before the subscription and nothing has brought it since.
CatchesUp == \A k \in Known :
    []<>(props_[k] = remote[k] \/ k \in stale)
==============================================================================
