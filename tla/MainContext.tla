----------------------------- MODULE MainContext -----------------------------
(***************************************************************************)
(* GMainContext and GMainLoop, the GLib objects the library is built on,   *)
(* as far as src/dbus/gdbus.cpp and include/amarula/dbus/gproxy.hpp use    *)
(* them.  GLib is not part of the repository; this module is external.     *)
(*                                                                         *)
(* ctx_ holds the attached sources in attach order: every source on the    *)
(* paths modelled here has G_PRIORITY_DEFAULT, and GLib dispatches sources *)
(* of one priority in that order.  One iteration collects the sources that *)
(* are ready when it begins and dispatches all of them;                    *)
(* g_main_loop_quit only clears a flag, which g_main_loop_run reads        *)
(* between two iterations, so sources of the iteration in progress are     *)
(* still dispatched after the loop was told to quit.                       *)
(***************************************************************************)
EXTENDS Integers, Sequences

VARIABLES
    queue,      \* sources attached to ctx_ and not dispatched yet
    left,       \* how many of them the iteration in progress has collected
    is_running  \* the flag of the GMainLoop

contextVars == <<queue, left, is_running>>

ContextInit ==
    /\ queue = <<>>
    /\ left = 0
    /\ is_running = FALSE

\* g_source_attach, reached from g_main_context_invoke when the calling
\* thread does not own the context.
Attach(source) == queue' = Append(queue, source)

\* The prepare, query and check phases of one g_main_context_iteration.
Collect ==
    /\ left = 0
    /\ queue # <<>>
    /\ left' = Len(queue)
    /\ UNCHANGED <<queue, is_running>>

\* Dispatch of the oldest collected source.
Take(source) ==
    /\ left > 0
    /\ source = Head(queue)
    /\ queue' = Tail(queue)
    /\ left' = left - 1
==============================================================================
