------------------------------ MODULE Callbacks -------------------------------
(***************************************************************************)
(* The mutexes of the library and the callbacks of the application: which  *)
(* mutex is held while a callback is stored, picked up and run, and what   *)
(* the callback may call meanwhile.                                        *)
(*                                                                         *)
(* Callbacks are kept in three ways.  The one for PropertyChanged runs     *)
(* where it is stored, under cb_mtx_.  Those for changed lists and for     *)
(* ReportError are copied under Manager::mtx_ and the copy runs under no   *)
(* mutex, as do those of single calls.  Those for RequestInput run where   *)
(* they are stored, under no mutex, on threads of their own.               *)
(*                                                                         *)
(* A thread is the sequence of the steps it has yet to take; a critical    *)
(* section that runs no callback is one step, taken when its mutex is      *)
(* free.  A callback may call the library, under a mutex of the            *)
(* application or not.  Only onPropertyChanged waits for a callback to     *)
(* return: it is not called on a proxy whose callback is running on the    *)
(* same thread, nor, outside the GLib thread, with a mutex such a callback *)
(* takes.                                                                  *)
(***************************************************************************)
EXTENDS Naturals, Sequences

CONSTANTS
    AppThreads,    \* threads of the application
    InputThreads,  \* threads that handle a RequestInput
    Glib,          \* the GLib thread
    Proxies,       \* proxies of the application, the Manager among them
    Watched,       \* those whose PropertyChanged it wants to know
    Lists,         \* the lists whose changes it wants to know
    None           \* no thread

Threads == AppThreads \cup InputThreads \cup {Glib}

ASSUME CallbacksAssumption ==
    /\ AppThreads \cap InputThreads = {}
    /\ Glib \notin AppThreads \cup InputThreads
    /\ None \notin Threads
    /\ Watched \subseteq Proxies
    /\ Lists \subseteq {"services", "technologies"}

VARIABLES
    code,   \* the steps each thread has yet to take
    owner,  \* of each mutex
    empty,  \* the stored callbacks that are empty
    copied  \* the threads that have copied a callback which is not empty

vars == <<code, owner, empty, copied>>

\* Manager::mtx_ hides the mtx_ the Manager has as a proxy.
mtx(p) == <<"mtx_", p>>
cb_mtx(p) == <<"cb_mtx_", p>>
ManagerMtx == <<"Manager::mtx_">>
AppMtx == <<"application">>
Mutexes == {mtx(p) : p \in Proxies} \cup {cb_mtx(p) : p \in Watched}
              \cup {ManagerMtx, AppMtx}

\* The members that store a callback.
Changed(p) == <<"on_property_changed_user_cb_", p>>
List(l) == <<l>>
Error == <<"report_error_cb_">>
Input == <<"request_input_cb_">>
Slots == {Changed(p) : p \in Watched} \cup {List(l) : l \in Lists} \cup {Error, Input}

\* The steps.  "pass", "store" and "copy" take and release a mutex.
Lock(m) == [op |-> "lock", mutex |-> m]
Unlock(m) == [op |-> "unlock", mutex |-> m]
Pass(m) == [op |-> "pass", mutex |-> m]
Store(m, s, fills) == [op |-> "store", mutex |-> m, slot |-> s, fills |-> fills]
Copy(m, s) == [op |-> "copy", mutex |-> m, slot |-> s]
Test(s) == [op |-> "test", slot |-> s]
Call(s) == [op |-> "call", slot |-> s]
CallCopy == [op |-> "callcopy"]
User(s) == [op |-> "user", slot |-> s]
Copied == <<"copy">>   \* where a callback is that was copied

Under(m, steps) == <<Lock(m)>> \o steps \o <<Unlock(m)>>

------------------------------------------------------------------------------
(* What the application calls.                                              *)

properties(p) == <<Pass(mtx(p))>>

\* Every asynchronous method of a proxy starts so; what follows, the source
\* that is attached to ctx_, takes no mutex of the library.
prepareCallback(p) == <<Pass(mtx(p))>>

\* services() and technologies()
services == <<Pass(ManagerMtx)>>

\* onServicesChanged and onTechnologiesChanged, which ignore an empty callback.
MutantListEmpty(l, fills) == <<Store(ManagerMtx, List(l), fills)>>
onListChanged(l, fills) ==
    IF fills THEN <<Store(ManagerMtx, List(l), TRUE)>> ELSE <<>>

onReportError(fills) == <<Store(ManagerMtx, Error, fills)>>

\* onRequestInputPassphrase and the three like it
onRequestInput(fills) == <<Store(ManagerMtx, Input, fills)>>

MutantStoreEmpty(p, fills) == <<Store(cb_mtx(p), Changed(p), fills)>>
onPropertyChanged(p, fills) ==
    IF fills THEN <<Store(cb_mtx(p), Changed(p), TRUE)>> ELSE <<>>

------------------------------------------------------------------------------
(* What the library does when something arrives.                            *)

\* on_properties_changed_cb: the test is made before the mutex is taken.
MutantUnlocked(p) == <<Test(Changed(p)), Call(Changed(p))>>
PropertyChanged(p) ==
    <<Test(Changed(p))>> \o Under(cb_mtx(p), <<Call(Changed(p))>>)

\* on_services_changed_cb, on_technology_added_removed_cb and get_proxies_cb
ListChanged(l) == <<Copy(ManagerMtx, List(l)), CallCopy>>

\* The handler of setup_agent, for a known service.
ReportError == <<Copy(ManagerMtx, Error), CallCopy>>

\* executeCallBack with a callback, which is a copy of the one in callbacks_
MutantRunLocked(p) == Under(mtx(p), <<User(Copied)>>)
executeCallBack(p) == <<Pass(mtx(p)), User(Copied), Pass(mtx(p))>>

\* The thread that handles a RequestInput for a known service.
RequestInput == <<Pass(ManagerMtx), Test(Input), Call(Input)>>

Events ==
    {PropertyChanged(p) : p \in Watched} \cup {ListChanged(l) : l \in Lists}
       \cup {ReportError} \cup {executeCallBack(p) : p \in Proxies}

------------------------------------------------------------------------------

\* What the application may call on thread t.
Plain ==
    {properties(p) : p \in Proxies} \cup {prepareCallback(p) : p \in Proxies}
       \cup {services}
       \cup {onListChanged(l, fills) : l \in Lists, fills \in BOOLEAN}
       \cup {onReportError(fills) : fills \in BOOLEAN}
       \cup {onRequestInput(fills) : fills \in BOOLEAN}
Waiting(t) ==
    {onPropertyChanged(p, fills) :
        p \in {q \in Watched : owner[cb_mtx(q)] # t}, fills \in BOOLEAN}
Callable(t) ==
    LET guarded == IF t = Glib THEN Plain \cup Waiting(t) ELSE Plain
    IN  Plain \cup Waiting(t) \cup {Under(AppMtx, steps) : steps \in guarded}

TypeOK ==
    /\ \A t \in Threads : \A i \in DOMAIN code[t] :
          LET step == code[t][i] IN
          /\ step.op \in {"lock", "unlock", "pass"} => step.mutex \in Mutexes
          /\ step.op \in {"store", "copy", "test", "call"} => step.slot \in Slots
          /\ step.op = "user" => step.slot \in Slots \cup {Copied}
    /\ owner \in [Mutexes -> Threads \cup {None}]
    /\ empty \subseteq Slots \ {List(l) : l \in Lists}
    /\ copied \subseteq Threads

\* The lists have callbacks from the start, which do nothing.
Init ==
    /\ code = [t \in Threads |-> <<>>]
    /\ owner = [m \in Mutexes |-> None]
    /\ empty = Slots \ {List(l) : l \in Lists}
    /\ copied = {}

Step(t) == Head(code[t])
At(t, op) == code[t] # <<>> /\ Step(t).op = op
Continue(t, steps) == code' = [code EXCEPT ![t] = steps]
Advance(t) == Continue(t, Tail(code[t]))

Free(m) == owner[m] = None

------------------------------------------------------------------------------

Acquire(t) ==
    /\ At(t, "lock")
    /\ Free(Step(t).mutex)
    /\ owner' = [owner EXCEPT ![Step(t).mutex] = t]
    /\ Advance(t)
    /\ UNCHANGED <<empty, copied>>

Release(t) ==
    /\ At(t, "unlock")
    /\ owner' = [owner EXCEPT ![Step(t).mutex] = None]
    /\ Advance(t)
    /\ UNCHANGED <<empty, copied>>

PassMutex(t) ==
    /\ At(t, "pass")
    /\ Free(Step(t).mutex)
    /\ Advance(t)
    /\ UNCHANGED <<owner, empty, copied>>

Assign(t) ==
    /\ At(t, "store")
    /\ Free(Step(t).mutex)
    /\ empty' = IF Step(t).fills THEN empty \ {Step(t).slot}
                                 ELSE empty \cup {Step(t).slot}
    /\ Advance(t)
    /\ UNCHANGED <<owner, copied>>

TakeCopy(t) ==
    /\ At(t, "copy")
    /\ Free(Step(t).mutex)
    /\ copied' = IF Step(t).slot \in empty THEN copied ELSE copied \cup {t}
    /\ Advance(t)
    /\ UNCHANGED <<owner, empty>>

\* A handler with no callback to run is done.
TestSlot(t) ==
    /\ At(t, "test")
    /\ IF Step(t).slot \in empty THEN Continue(t, <<>>) ELSE Advance(t)
    /\ UNCHANGED <<owner, empty, copied>>

\* The callback is run where it is stored.  An empty one throws, which the
\* thread of a RequestInput catches.
Run(t) ==
    /\ At(t, "call")
    /\ IF t \in InputThreads /\ Step(t).slot \in empty
         THEN Continue(t, <<>>)
         ELSE Continue(t, <<User(Step(t).slot)>> \o Tail(code[t]))
    /\ UNCHANGED <<owner, empty, copied>>

RunCopy(t) ==
    /\ At(t, "callcopy")
    /\ IF t \in copied THEN Continue(t, <<User(Copied)>> \o Tail(code[t]))
                        ELSE Advance(t)
    /\ copied' = copied \ {t}
    /\ UNCHANGED <<owner, empty>>

Return(t) ==
    /\ At(t, "user")
    /\ Advance(t)
    /\ UNCHANGED <<owner, empty, copied>>

\* The application, in a callback or on a thread of its own, calls the library.
UserCalls(t) ==
    /\ IF code[t] = <<>> THEN t \in AppThreads ELSE At(t, "user")
    /\ \E steps \in Callable(t) : Continue(t, steps \o code[t])
    /\ UNCHANGED <<owner, empty, copied>>

\* The GLib thread dispatches the next source.
Dispatch ==
    /\ code[Glib] = <<>>
    /\ \E steps \in Events : Continue(Glib, steps)
    /\ UNCHANGED <<owner, empty, copied>>

StartInput(t) ==
    /\ code[t] = <<>>
    /\ Continue(t, RequestInput)
    /\ UNCHANGED <<owner, empty, copied>>

Library(t) ==
    \/ Acquire(t) \/ Release(t) \/ PassMutex(t) \/ Assign(t) \/ TakeCopy(t)
    \/ TestSlot(t) \/ Run(t) \/ RunCopy(t)

Next ==
    \/ Dispatch
    \/ \E t \in InputThreads : StartInput(t)
    \/ \E t \in Threads : Library(t) \/ Return(t) \/ UserCalls(t)

Spec == Init /\ [][Next]_vars

------------------------------------------------------------------------------
(* Properties.                                                              *)

Blocked ==
    {t \in Threads :
        code[t] # <<>> /\ Step(t).op \in {"lock", "pass", "store", "copy"}
           /\ ~Free(Step(t).mutex)}

\* The threads that may wait for a person for ever.
Asking == {t \in InputThreads : At(t, "user")}

\* No threads wait for each other, and none for itself or for the user of a
\* RequestInput, although callbacks call the library while it runs them: those
\* of calls, of lists and of ReportError run under no mutex of the library,
\* and nobody who holds a mutex the one of PropertyChanged wants waits for it
\* (gproxy.hpp:50-60, 182-187, 203-217, gconnman_manager.cpp:88-223, 346-443).
NoDeadlock ==
    \A waiting \in SUBSET Blocked :
       waiting # {} => \E t \in waiting : owner[Step(t).mutex] \notin waiting \cup Asking

\* Nothing but a RequestInput calls an empty std::function, although
\* on_properties_changed_cb tests its callback before it takes cb_mtx_: one
\* that is set is never reset (gproxy.hpp:56-58, 182-187).
NoEmptyCallback ==
    \A t \in Threads \ InputThreads :
       At(t, "call") => Step(t).slot \notin empty

\* A callback that runs where it is stored is not replaced, that is destroyed,
\* while the GLib thread is inside of it, wherever it called to: it runs under
\* the mutex under which it is replaced, and the others on that thread run as
\* copies (gproxy.hpp:56-58, 182-187, gconnman_manager.cpp:206-222, 287-309,
\* 351-379, 418-443).
RunningIsAlive ==
    [][\A i \in DOMAIN code[Glib] :
          code[Glib][i].op = "user"
             => \A t \in Threads : Assign(t) => Step(t).slot # code[Glib][i].slot]_vars
==============================================================================
