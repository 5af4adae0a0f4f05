-------------------------------- MODULE DBus --------------------------------
(***************************************************************************)
(* class DBus (include/amarula/dbus/gdbus.hpp, src/dbus/gdbus.cpp): the    *)
(* thread that runs the GLib main loop, its start and stop, and the count  *)
(* of asynchronous calls that have not been answered.                      *)
(*                                                                         *)
(* This module holds the state of one DBus object and the steps of its     *)
(* methods.  DBusProxy extends it with the calls that are counted and      *)
(* puts the two together into a specification.                             *)
(*                                                                         *)
(* pending_calls_ is a plain unsigned int.  onAnyAsyncDone decrements it   *)
(* under mtx_, onAnyAsyncStart increments it under no mutex of this class, *)
(* so every read-modify-write of it is two steps here: the load into the   *)
(* thread's register reg[t], and the store.                                *)
(***************************************************************************)
EXTENDS MainContext

CONSTANTS
    AppThreads,  \* threads of the application
    Main,        \* the one that creates and destroys the DBus object
    Glib,        \* glib_thread_
    None,        \* no thread, no call
    Started,     \* the source that runs on_loop_started
    UIntMax      \* the largest unsigned int

ASSUME ThreadAssumption ==
    /\ Main \in AppThreads
    /\ Glib \notin AppThreads
    /\ None \notin AppThreads \cup {Glib}

ASSUME UIntAssumption == UIntMax \in Nat \ {0}

Threads == AppThreads \cup {Glib}

VARIABLES
    running_,        \* the object accepts calls
    pending_calls_,  \* calls started and not done
    mtx_,            \* owner of DBus::mtx_
    loop_,           \* the pointer: "null", "live", or "freed" (dangling)
    pc,              \* where each thread is
    reg              \* each thread's copy of pending_calls_ inside ++ or --

dbusVars == <<running_, pending_calls_, mtx_, loop_, pc, reg>>

\* Where Main can be.  "iter" is the drain loop of ~DBus.
StopLabels == {"stop_loop", "stop_running", "stop_pending", "stop_quit", "join"}
MainLabels == {"ctor", "failed", "waiting", "app", "joined", "destroyed"}
                 \cup StopLabels
\* Where the thread that dispatches the sources of ctx_ can be.
DispatchLabels == {"iter", "cb", "sigcb", "dec", "dec_store"}
\* Where glib_thread_ can be outside its loop.
GlibLabels == {"none", "invoke", "new", "run", "unref", "null", "finished"}

DBusTypeOK ==
    /\ running_ \in BOOLEAN
    /\ pending_calls_ \in 0..UIntMax
    /\ mtx_ \in Threads \cup {None}
    /\ loop_ \in {"null", "live", "freed"}
    /\ pc \in [Threads -> MainLabels \cup DispatchLabels \cup GlibLabels]
    /\ reg \in [Threads -> 0..UIntMax]

DBusInit ==
    /\ ContextInit
    /\ running_ = FALSE
    /\ pending_calls_ = 0
    /\ mtx_ = None
    /\ loop_ = "null"
    /\ pc = [t \in Threads |->
               IF t = Main THEN "ctor" ELSE IF t = Glib THEN "none" ELSE "app"]
    /\ reg = [t \in Threads |-> 0]

Goto(t, label) == pc' = [pc EXCEPT ![t] = label]

\* Unsigned arithmetic wraps.
Inc(n) == IF n = UIntMax THEN 0 ELSE n + 1
Dec(n) == IF n = 0 THEN UIntMax ELSE n - 1

------------------------------------------------------------------------------
(* Construction: DBus::DBus and DBus::start on Main.                        *)

\* One of g_bus_get_sync, g_dbus_proxy_new_sync and Introspect fails: the
\* constructor throws before it starts the thread.
ConstructorThrows ==
    /\ pc[Main] = "ctor"
    /\ Goto(Main, "failed")
    /\ UNCHANGED <<contextVars, running_, pending_calls_, mtx_, loop_, reg>>

\* start() finds running_ clear, creates glib_thread_ and goes to wait for it.
CreateThread ==
    /\ pc[Main] = "ctor"
    /\ ~running_
    /\ pc' = [pc EXCEPT ![Main] = "waiting", ![Glib] = "invoke"]
    /\ UNCHANGED <<contextVars, running_, pending_calls_, mtx_, loop_, reg>>

\* cv_.wait returns: the predicate holds and mtx_ can be taken.
StartReturns ==
    /\ pc[Main] = "waiting"
    /\ mtx_ = None
    /\ running_
    /\ Goto(Main, "app")
    /\ UNCHANGED <<contextVars, running_, pending_calls_, mtx_, loop_, reg>>

------------------------------------------------------------------------------
(* The body of glib_thread_.                                                *)

\* g_main_context_invoke attaches on_loop_started: this thread has neither
\* acquired ctx_ nor made it its thread default yet.
MutantInvokeDirectly ==
    /\ pc[Glib] = "invoke"
    /\ running_' = TRUE
    /\ Goto(Glib, "new")
    /\ UNCHANGED <<contextVars, pending_calls_, mtx_, loop_, reg>>
InvokeOnLoopStarted ==
    /\ pc[Glib] = "invoke"
    /\ Attach(Started)
    /\ Goto(Glib, "new")
    /\ UNCHANGED <<left, is_running, running_, pending_calls_, mtx_, loop_, reg>>

\* g_main_context_push_thread_default and g_main_loop_new.
NewLoop ==
    /\ pc[Glib] = "new"
    /\ loop_' = "live"
    /\ Goto(Glib, "run")
    /\ UNCHANGED <<contextVars, running_, pending_calls_, mtx_, reg>>

\* g_main_loop_run sets the flag before its first iteration.
RunLoop ==
    /\ pc[Glib] = "run"
    /\ is_running' = TRUE
    /\ Goto(Glib, "iter")
    /\ UNCHANGED <<queue, left, running_, pending_calls_, mtx_, loop_, reg>>

\* on_loop_started, dispatched as a source.
OnLoopStarted ==
    /\ pc[Glib] = "iter"
    /\ Take(Started)
    /\ mtx_ = None
    /\ running_' = TRUE
    /\ UNCHANGED <<is_running, pending_calls_, mtx_, loop_, pc, reg>>

\* g_main_loop_run begins another iteration, or ~DBus does.
Iterate(t) ==
    /\ pc[t] = "iter"
    /\ t = Glib => is_running
    /\ Collect
    /\ UNCHANGED dbusVars

\* Between two iterations g_main_loop_run finds the flag clear and returns;
\* then g_main_context_pop_thread_default.
LoopReturns ==
    /\ pc[Glib] = "iter"
    /\ left = 0
    /\ ~is_running
    /\ Goto(Glib, "unref")
    /\ UNCHANGED <<contextVars, running_, pending_calls_, mtx_, loop_, reg>>

\* g_main_loop_unref drops the only reference; loop_ still points there.
UnrefLoop ==
    /\ pc[Glib] = "unref"
    /\ loop_' = "freed"
    /\ Goto(Glib, "null")
    /\ UNCHANGED <<contextVars, running_, pending_calls_, mtx_, reg>>

ClearLoop ==
    /\ pc[Glib] = "null"
    /\ loop_' = "null"
    /\ Goto(Glib, "finished")
    /\ UNCHANGED <<contextVars, running_, pending_calls_, mtx_, reg>>

------------------------------------------------------------------------------
(* DBus::stop on Main, one step per access to shared state.                 *)

ClearRunning ==
    /\ pc[Main] = "app"
    /\ mtx_ = None
    /\ running_' = FALSE
    /\ Goto(Main, "stop_loop")
    /\ UNCHANGED <<contextVars, pending_calls_, mtx_, loop_, reg>>

\* loop_ != nullptr
StopTestLoop ==
    /\ pc[Main] = "stop_loop"
    /\ Goto(Main, IF loop_ = "null" THEN "join" ELSE "stop_running")
    /\ UNCHANGED <<contextVars, running_, pending_calls_, mtx_, loop_, reg>>

\* g_main_loop_is_running(loop_) == TRUE.  GLib answers FALSE for a null
\* pointer; what it reads through a dangling one is undefined.
LoopIsRunning(answer) ==
    CASE loop_ = "live"  -> answer = is_running
      [] loop_ = "null"  -> answer = FALSE
      [] loop_ = "freed" -> TRUE

StopTestRunning ==
    /\ pc[Main] = "stop_running"
    /\ \E answer \in BOOLEAN :
          /\ LoopIsRunning(answer)
          /\ Goto(Main, IF answer THEN "stop_pending" ELSE "join")
    /\ UNCHANGED <<contextVars, running_, pending_calls_, mtx_, loop_, reg>>

MutantNothingPending == pending_calls_ <= 1
NothingPending == pending_calls_ = 0

\* pending_calls_ == 0U, read under no mutex.
StopTestPending ==
    /\ pc[Main] = "stop_pending"
    /\ Goto(Main, IF NothingPending THEN "stop_quit" ELSE "join")
    /\ UNCHANGED <<contextVars, running_, pending_calls_, mtx_, loop_, reg>>

\* g_main_loop_quit(loop_); a null or dangling pointer stops no loop.
StopQuit ==
    /\ pc[Main] = "stop_quit"
    /\ is_running' = (is_running /\ loop_ # "live")
    /\ Goto(Main, "join")
    /\ UNCHANGED <<queue, left, running_, pending_calls_, mtx_, loop_, reg>>

\* glib_thread_.join()
Join ==
    /\ pc[Main] = "join"
    /\ pc[Glib] = "finished"
    /\ Goto(Main, "joined")
    /\ UNCHANGED <<contextVars, running_, pending_calls_, mtx_, loop_, reg>>

------------------------------------------------------------------------------
(* DBus::~DBus on Main.                                                     *)

\* The second stop() finds loop_ null and the thread joined; ctx_ becomes
\* the thread default of Main, which dispatches what is left in it.
BeginDrain ==
    /\ pc[Main] = "joined"
    /\ loop_ = "null"
    /\ running_' = FALSE
    /\ Goto(Main, "iter")
    /\ UNCHANGED <<contextVars, pending_calls_, mtx_, loop_, reg>>

\* g_main_context_iteration finds nothing to dispatch.
EndDrain ==
    /\ pc[Main] = "iter"
    /\ left = 0
    /\ queue = <<>>
    /\ Goto(Main, "destroyed")
    /\ UNCHANGED <<contextVars, running_, pending_calls_, mtx_, loop_, reg>>

------------------------------------------------------------------------------
(* The counter.  Both are steps of a DBusProxy method of thread t.          *)

\* onAnyAsyncStart: the load and the store of ++pending_calls_.
AsyncStartLoad(t) == reg' = [reg EXCEPT ![t] = pending_calls_]

AsyncStartStore(t) == pending_calls_' = Inc(reg[t])

\* onAnyAsyncDone: mtx_ is held from the load to the store.
AsyncDoneLoad(t) ==
    /\ pc[t] = "dec"
    /\ mtx_ = None
    /\ mtx_' = t
    /\ reg' = [reg EXCEPT ![t] = pending_calls_]
    /\ Goto(t, "dec_store")
    /\ UNCHANGED <<contextVars, running_, pending_calls_, loop_>>

\* The call that was just answered is the last one and stop() has begun.
MutantQuitEarly(n) == n <= 2 /\ ~running_ /\ loop_ # "null"
MutantQuitAtZero(n) == n = 0 /\ ~running_ /\ loop_ # "null"
QuitAfter(n) == n = 1 /\ ~running_ /\ loop_ # "null"

AsyncDoneStore(t) ==
    /\ pc[t] = "dec_store"
    /\ pending_calls_' = Dec(reg[t])
    /\ is_running' = (is_running /\ ~QuitAfter(reg[t]))
    /\ mtx_' = None
    /\ Goto(t, "iter")
    /\ UNCHANGED <<queue, left, running_, loop_, reg>>
==============================================================================
