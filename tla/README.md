# A verification of libcppconnman

libcppconnman is a C++ client of connman, the connection manager, over D-Bus.
It runs a GLib main loop in a thread of its own; the application calls it from
any thread and is called back from that thread. What can go wrong is therefore
mostly a matter of order: calls, answers, signals, callbacks and the shutdown
meet in orders that no test arranges. This directory holds TLA+ models of that
behaviour, the TLC runs that check them, and TLAPS proofs of what matters most.

Run everything from this directory: `tlc -config OneProxy.cfg MCDBusProxy.tla`
for a model, `tlapm DBusProxyProofs.tla` for proofs. `PROJECT.json` names for
every definition the source lines it models.

## The system

| part | source | state | operations | modelled |
|---|---|---|---|---|
| `DBus` | `src/dbus/gdbus.cpp` | `running_`, `pending_calls_`, `loop_`, `mtx_`, `ctx_`, the GLib thread | constructor/`start`, `stop`, destructor, `onAnyAsyncStart/Done` | `DBus.tla`, in `DBusProxy.tla` |
| `DBusProxy<P>` | `include/amarula/dbus/gproxy.hpp` | `mtx_`, `callback_counter_`, `callbacks_`, `props_`, `cb_mtx_`, user callback | `getProperties`, `setProperty`, `callMethod`, `connectSignal`, `onPropertyChanged`, completion of calls | asynchronous calls: `DBusProxy.tla`; constructor and `connectSignal`: `SyncInvoke.tla`; `props_`: `Properties.tla`; mutexes and callbacks: `Callbacks.tla` |
| `Manager` | `src/dbus/gconnman_manager.cpp` | lists of services and technologies, user callbacks | constructor, `GetServices/GetTechnologies`, signal handlers, `setup_agent` | `Manager.tla`, `Agent.tla`, callbacks in `Callbacks.tla`, lifetime in `Connman.tla` |
| `Agent` | `src/dbus/gconnman_agent.cpp` | handlers, registration | `RequestInput`, `ReportError`, `Cancel`, `Release` | `Agent.tla`, registration in `SyncInvoke.tla` |
| `Connman` | `src/dbus/gconnman.cpp` | owns `DBus`, `Clock`, `Manager` | constructor, destructor | `Connman.tla` |
| `Clock`, `Technology`, `Service` | `src/dbus/gconnman_{clock,technology,service}.cpp` | properties | property updates, setters | the properties of a `Service`: `Properties.tla`; all operations are calls of `DBusProxy`, those of `Technology` and `Service` that a command makes also of `Connmanctl.tla` |
| `EnumStringMap`, conversions | `src/dbus/gdbus_private.hpp` | none | text to enum | no (`Properties` assumes known text) |
| `connmanctl` | `examples/connmanctl.cpp` | `passphrase`, `connecting`, `message`, `has_message`, the lists for commands | prompt, `event_hook`, commands, callbacks | `Connmanctl.tla` |
| log | `include/amarula/log.hpp` | none | | no: it writes to a stream |
| GLib | external | main context, main loop | | `MainContext.tla` |

How the parts interact. `Connman` constructs a `DBus`, which starts the GLib
thread, then a `Clock` and a `Manager`, each a `DBusProxy`; the `Manager` makes
an `Agent` and, as connman announces them, a proxy for each service and
technology. Everything the application asks for becomes a source of the main
context `ctx_`. The GLib thread dispatches these sources, the answers of
connman and its signals, and runs the user's callbacks. Asynchronous calls are
counted in `DBus::pending_calls_`, and `DBus::stop` waits for them, by letting
the last answer quit the loop. Agent calls come the other way: connman calls
the library, which asks the user.

What is hard:

* *Threads.* `pending_calls_` is a plain integer updated under different
  mutexes; `loop_` is read by `stop` while the GLib thread frees it; the lists
  of the `Manager` are read from threads of their own.
* *Order.* The signals of `Manager` are connected after the lists were asked
  for; the answer of a list replaces all proxies.
* *Shutdown.* `stop` tests three things without a lock while the last answer
  may arrive, and callbacks make new calls while it waits.
* *Lifetime.* Answers and signals carry raw pointers to a `Manager` that the
  destructor of `Connman` releases; hand-overs carry pointers to the stack of
  the thread that waits for them.
* *Callbacks.* They run on two kinds of threads, some under a mutex and some
  not, and call the library again.
* *Failure.* Calls fail or time out, callbacks throw, users do not answer.

What makes each part correct:

* `DBus`: the constructor returns with a running loop; `stop` waits for the
  calls it has to, and returns; the count is the number of calls in flight.
* `DBusProxy`: each callback runs once, for its own call, and is then
  forgotten, whatever the callback itself does.
  A constructor or `connectSignal` gets its work done once, on the GLib thread,
  and returns or throws accordingly, whichever thread called it. `props_` is
  what connman last said, and the user is told of changes. A callback may call
  any method without anybody waiting in a circle, and is not destroyed while
  the GLib thread runs it.
* `Connman`: nothing uses the `Manager` after it is destroyed, and it is
  destroyed while its bus connection is there.
* `Manager`: its lists are connman's, in connman's order; a proxy that stays
  keeps its identity; the user holds what the `Manager` holds.
* `Agent`: every call is answered, once, with what was asked for, and nobody
  waits for the user but the request that needs one.
* `connmanctl`: every request for a passphrase gets one that was typed for it or
  for one that waits with it, and every result is printed.

The hazards, each at its line and with the properties that watch it, are in
`PROJECT.json`.

## Modules

`MainContext` is GLib as the library uses it: sources in attach order, an
iteration that dispatches all sources collected at its beginning, and a loop
flag read between iterations (so sources are still dispatched after
`g_main_loop_quit`). Sources of `G_PRIORITY_DEFAULT` only.

`DBus` extends it with class `DBus`, one action per access to shared state.
`pc` says where each thread is. The three tests of `stop` are three steps, and
so are the load and the store of `++pending_calls_`; the decrement holds
`mtx_` between them. `loop_` can be dangling, and what
`g_main_loop_is_running` then says is an arbitrary choice; `g_main_loop_quit`
on it is taken to stop no loop. The three bus calls of the constructor are one
step that may fail.

`DBusProxy` extends `DBus` with the calls of any number of proxies and is a
specification. A call goes from `prepareCallback` (`PrepareLock`,
`PrepareCommit`) and `callMethod` (`CallMethod`, `DispatchCall`) to the bus,
and its answer through `executeCallBack` (`RunCallback`, `CallbackReturns` or
`SkipCallback`, `DoneLoad`, `DoneStore`). Any thread of the application makes
calls until the object is destroyed, and so does the thread that is inside a
callback. The application does not destroy the object while one of its threads
is inside a method of it. `getProperties` and every setter of `Clock`,
`Manager`, `Service` and `Technology` is `prepareCallback` followed by
`callMethod`, so it is an instance of this. `ran` and `awaited` are history:
how often a callback has run, and the calls that were started before `stop`
or from the callback of such a call.

`CallBarrier` is what `stop` promises, without threads, loop, locks or
counter: three phases, and `stop` returns only when the awaited calls are done.
`DBusProxy` defines the mapping (`phaseBar`, `statusBar`) and the property
`ImplementsBarrier`.

`Manager` is the mirror: the constructor's two calls and three connections
(`Steps`), connman's answers and changes, and the handlers. The counted calls
and the loop are left out, the order of `ctx_` is kept. The detailed names
(`g-signal::TechnologyAdded`) and the member names a handler is given are
different strings, as in the code. `told` is the last list the user was given,
`missed` says that a change came before its handler was connected.

`Agent` is `dispatch_method_call` with the handlers of `setup_agent`. A
`RequestInput` is a thread: `LookUp` (under `Manager::mtx_`), `TestHandler` and
`CallHandler` (without it), the user, and an answer through `ctx_`. A form is
the set of fields connman asks for; `classify_input` is translated test by
test and `KeysOf` gives the keys of the reply. The application sets and resets
callbacks at any time. The `Manager` outlives the requests here.

`Connman` is the object the application owns. `main` lists the steps the
constructor or destructor still has to do; a constructor of `Manager` that
throws goes to the drain. The `DBus` object is an instance of `CallBarrier`, so
the module rests on what `DBusProxy` implements (with calls on one proxy, or
without the race of finding 1). `GetTechnologies` and `GetServices` are not
counted and carry `this`; `held` says for which calls GLib refers to the
`GDBusProxy`, whose signal handlers are never disconnected. Assumed: connman
answers in the order of the calls (the daemon keeps the order of messages, and
what was sent earlier times out earlier), the application has released its
`Manager` when it destroys the `Connman`, and no `RequestInput` is in progress
then. A callback that is stored in the `Manager` and captures it is a reference
that is never released; the test `ConnectWifi`
(`tests/gconnman_serv_test.cpp:167-242`, by `onServicesChanged`) has one, and is
outside what the module says.

`SyncInvoke` is the hand-over of the constructors and of `connectSignal`. A
caller tests `done` and starts to wait in two steps with `data.mtx` held
between them, wakes up spuriously, and leaves with its stack frame; the thread
that dispatches does the work, sets `done` under the mutex and notifies without
it, so it may find the caller gone. A handler that makes a proxy runs on the
dispatching thread, where GLib does the work at once. `RemoteCall` is what the
caller is promised, and `ImplementsRemoteCall` the refinement.

`Properties` is `props_` of one proxy against connman's properties. Every
message carries connman's properties at the time it was sent: the list that
announces the service, later lists with all or none of them, replies of
`GetProperties`, and `PropertyChanged`, which is only received once the proxy
exists. Lists are signals to the `Manager`: they may be sent and wait in `ctx_`
while the proxy is still to be made, and bring old values then. A value is the
set of its parts, so a dictionary that is merged instead of replaced is told
apart. Two variables are history: `lost` is a property's last change before the
subscription, which no signal tells, and `stale` has the properties for which no
message has brought that change yet. A message tells how many changes there had
been when it was sent (`at`), and repairs only what it knew of. `Known` and `Unknown` stand for the keys `update()` has a
branch for and the rest (`Roaming` for a `Service`).

`Callbacks` is about the mutexes of the proxies, of the `Manager` and of the
application at once. `DBus::mtx_` is in `DBusProxy` instead: the library takes no
other mutex and runs no callback while it holds it (`gdbus.cpp:13-18`). Nor is
the waiting of `stop` and `~Connman` for calls and their callbacks in this
module: an application that destroys the `Connman` with a mutex that such a
callback takes waits for ever, and `NoDeadlock` does not speak of it. What a method or a
handler does to them is written down as a sequence of steps (`properties`,
`PropertyChanged`, `executeCallBack`, ...), and a thread is the sequence it has
yet to take. A callback may push other methods' steps before its own return, as
many as it likes; no method runs a callback, so callbacks do not nest. The three ways a callback is kept are told
apart: run where it is stored under `cb_mtx_` (PropertyChanged), copied under
`Manager::mtx_` and run without it (lists, `ReportError`, and single calls, whose
copy is made under the proxy's `mtx_`), or run where it is stored without any
mutex (`RequestInput`). The application may hold a mutex of its own around a
call, and take it in callbacks. Two rules are assumed of it, both because
`onPropertyChanged` waits for a running callback: it is not called on a proxy
from that proxy's own PropertyChanged callback, and outside the GLib thread not
with a mutex that such a callback takes. The repository states neither.
`Manager` declares an `mtx_` of its own that hides the one of its `DBusProxy`;
they are two mutexes here.

`Connmanctl` is the example program: the main thread in `readline` and its
`event_hook`, the threads of `RequestInput` on `cin_cv`, and the callbacks on
the GLib thread. A line is a number, which also names the text of its result.
`CommandCalls` is the set of sequences of calls a command can make, by what it
finds in the two lists of technologies; what cached properties say is left open,
and connman accepts or refuses every call. `Wake` includes spurious wakeups.

`MCDBusProxy`, `MCManager`, `MCAgent`, `MCConnman`, `MCSyncInvoke`,
`MCProperties`, `MCCallbacks` and `MCConnmanctl` are the instances that TLC checks.
`DBusProxyProofs`, `ManagerProofs`, `AgentProofs`, `ConnmanProofs`,
`SyncInvokeProofs`, `PropertiesProofs`, `CallbacksProofs` and `ConnmanctlProofs`
hold the proofs.

Definitions whose names begin with `Mutant` are plausible wrong versions of
the definition that follows them. No specification uses them; `PROJECT.json`
lists which property each one breaks.

## Runs

| run | instance | shows |
|---|---|---|
| `OneProxy` | 2 application threads and the GLib thread, 3 calls on one proxy (one without callback), 1 signal | type invariant, `PendingExact`, `StopWaits`, `CallbackExactlyOnce`, `CallbacksOfInFlight`, `LoopReady`, the refinement of `CallBarrier`, and with fairness `StopReturns` |
| `LostCount` | 2 calls on 2 proxies | *violation* of `StopWaits`: an increment is lost, `stop` leaves a call behind |
| `CallbackThread` | 2 calls on 1 proxy, 1 signal | *violation* of `CallbackNotOnMain`: a call started by a signal's callback while `stop` tests the count is answered in the drain of `~DBus` |
| `Manager` | 2 services, 1 technology, 3 changes | `MirrorsServices`, `UserHoldsCurrentList`, `ProxiesSurvive` |
| `Technologies` | the same | *violation* of `AddedTechnologyReported`: the name of the signal never matches |
| `Agent` | 2 `RequestInput` for a passphrase or WPS, 1 `ReportError`, 1 other, 2 changes of services, callbacks set and reset | `AnsweredOnce`, `NoLockInUserCode`, `ReplyFits`, and with fairness `AnsweredWithoutUser`, `InputServed` |
| `Connman` | 2 calls of the user, 2 signals | `NoUseAfterFree`, `AgentUnregisters` |
| `SyncInvoke` | 2 constructors and 1 connection by the application, 2 constructors by handlers | `FrameInUse`, the refinement of `RemoteCall`, `HandoverReturns` |
| `Properties` | 2 known and 1 unknown property, 3 changes, 1 later list, 1 `GetProperties` | `CacheFollows`, `UserIsTold`, `CatchesUp` |
| `Provided` | 1 `RequestInput` with each of 8 forms | *violation* of `PassphraseOnlyIfProvided`: the bool is ignored without a WPS alternative |
| `Callbacks` | 1 application thread, the GLib thread, 1 `RequestInput` thread, the Manager and 1 other proxy, both watched, 1 list | `NoDeadlock`, `NoEmptyCallback`, `RunningIsAlive`, and TLC's own check for deadlock |
| `Connmanctl` | 2 requests, 3 lines, 1 `TechnologyAdded` | `FreshPassphrase`, `NoLostWakeup`, `TextAnnounced`, and with fairness `RequestsReturn`, `ResultsPrinted` |

Bounds. Three calls are enough for one to be made from the callback of another
while a third races with both, which is the deepest nesting that the guards
tell apart; two suffice for the races on the counter and for `stop`. `UIntMax`
is 3, so a count that went below zero would be seen as 3 in flight. One signal
gives a callback that belongs to no call. Two services can change places,
replace each other and come back; three changes allow one before the answer
of `GetServices`, one between it and the connection, and one after. Two
requests are enough for one to be blocked by the other. In `Connman` two calls
of the user let one be made from the callback of the other and stay behind,
and two signals come before and after the `Manager` is gone. In `SyncInvoke`
one hand-over of the application can follow another while two handlers compete
for the thread. In `Callbacks` three threads and two proxies allow circles of
two and three mutexes, with the second proxy standing for any other; the second
list has the same steps as the first. In `Connmanctl` two requests wait together
or one after the other, and three lines let a command be typed before, between
and after their answers. In `Properties` three changes allow one before the
subscription, after a list that was sent even earlier, and two that a list or a
reply can overtake. Calls, threads,
services and hand-overs are bounded by the constants, signals, changes, later
lists and `GetProperties` by `MaxSignals`, `MaxChanges`, `MaxLists` and
`MaxGets`, lines of the user by `MaxLines`; nothing else is bounded. `CHECK_DEADLOCK FALSE` is said where the
system may stop: in `Manager`, `Agent` and `Properties` when connman has nothing
more to say, in `Connmanctl` when the program is left or no line is entered, in `Connman` when the object is destroyed, in `SyncInvoke` when
all hand-overs have returned or an exception has ended the program.

Forms. The eight forms are the examples of connman's agent API, which
`gmanager.hpp:49-53` names as the reference (`DocumentedForms`). TLC evaluates
`FormsFit` of `MCAgent` for all of them: a user who provides the thing itself
has every mandatory field answered and none that was not asked for. `ReplyFits`
then says the same of the answer that is sent after services and callbacks have
come and gone and another request was served, so its run needs only the form
whose two replies differ.

Fairness. `FairSpec` of `DBusProxy` assumes that started threads keep running,
a call being made is finished, user callbacks return, and GDBus answers every
call (with an error after its timeout); nothing makes the application call,
destroy, or the peer signal. `FairSpec` of `Agent` assumes the same of the
GLib thread and the request threads, and that a `ReportError` callback returns,
as its documentation demands (`gmanager.hpp:83-84`); a `RequestInput` user may
never answer. `FairSpec` of `Properties` assumes that the loop runs and that
calls are answered. Weak fairness is enough there: no such step is disabled
again and again, since signals are bounded. In `SyncInvoke` the caller takes
`data.mtx` again at every spurious wakeup, so setting `done` needs strong
fairness of that mutex: a thread is not kept out for ever by one that holds it
for a moment. `FairSpec` of `Connmanctl` assumes that threads run, that
`readline` calls `event_hook` again while it waits, and that calls are answered;
`RequestsReturn` has as its premise that each prompt is answered some time.

## Findings

1. `onAnyAsyncStart` (`gdbus.cpp:20`) increments the counter under the mutex of
   the proxy. Calls started on two proxies at the same time can lose an
   increment, and `stop` returns while a call is in flight (`LostCount`). A
   lost decrement would keep it waiting for ever.
2. `~DBus` may run callbacks on the destroying thread (`CallbackThread`);
   `tests/gconnman_agent_test.cpp:112-113` says they run on the GLib thread.
3. `on_technology_added_removed_cb` (`gconnman_manager.cpp:356`) compares the
   member name with `g-signal::TechnologyAdded`; the list of technologies never
   changes after `GetTechnologies` (`Technologies`).
4. The passphrase callback's bool is ignored without a WPS alternative
   (`Provided`, `gmanager.hpp:55-58`).

## Proofs

All theorems hold for every set of threads, calls, proxies, invocations,
services, technologies, forms, hand-overs, properties, lists and prompts, and
every bound, that satisfies the named assumptions of the modules
(`CallAssumption`, `AgentAssumption`, `CallbacksAssumption`, ...). These say that
kinds of values do not overlap and that bounds are numbers; only `DBusProxy`
needs a set to be finite, the calls, because it counts them.

`DBusProxyProofs`, in the order of the argument:

* `TypeCorrect`: `TypeOK` is inductive by itself.
* `ControlCorrect` and `OwnersCorrect`: at most one thread dispatches, and who
  holds a proxy's mutex, which call a thread is making, which one is being
  completed. Every later proof needs them to know that a step's call is in the
  stage it thinks it is.
* `CountCorrect`: `pending_calls_` is exact and so is each register inside an
  update. This is inductive only if no two updates overlap. That is the premise
  `[]NoRace`, which the code does not establish (finding 1).
  `SingleProxyNoRace` shows that one proxy's mutex does, from `Owners`. So
  each result comes twice: under the premise (`PendingCorrect`,
  `StopWaitsCorrect`, `Refinement`), and outright for one proxy
  (`SingleProxyPendingCorrect`, `SingleProxyStopWaits`, `SingleProxyRefinement`).
* `StartupCorrect`: until `stop` begins the loop runs, because `Started` is
  dispatched by the loop itself; hence `LoopReadyCorrect`.
* `WaitingCorrect`: whenever nothing keeps `stop` from returning any more
  (the loop is told to quit, or gone), all awaited calls are done. `StopWaits`
  alone is not inductive: it says nothing before the join.
* `KeysCorrect`: keys are bounded by the counter and unique per proxy, and the
  entries of `callbacks_` are those of the calls in flight; hence
  `CallbackCorrect` and `CallbacksKept`, without any premise.
* `Refinement`: every step is a step of `CallBarrier` or a stutter.

`AgentProofs`: `TypeCorrect` (with `Consulted`: a user is asked only when there
is a callback for the kind of request, so the switch always has an answer to
build), `AnsweredOnceCorrect` (with `Reporting`: the `ReportError` the GLib
thread is inside of is not answered yet), `NoLockCorrect` and
`ReplyFitsCorrect`. The last rests on `FormsFit`, which computes the reply to
each documented form, and on `Prepared`: what a user said is in the answer of
that request, before it is dispatched and after. Its premise is that connman
asks for documented forms only.

`SyncInvokeProofs`: the invariant relates, for each hand-over alone, the
caller, its source and `done` (`Progress`), and says when a caller may leave
(`Leaving`). `StepKeepsOthers` reduces a step to the hand-over it belongs to.
`TypeCorrect`, `FrameCorrect` and `Refinement` follow.

`PropertiesProofs`: `CacheFollows` is not inductive, because it depends on what
is on its way. The strengthening says that before the subscription the
announcing list is the first message (`Announced`) and the only one of its kind
(`Later`, `Arrived`), that messages are in the order of the changes (`InOrder`),
and that no change is missing (`Following`): from what was handled last, message
by message, to connman's present state a property differs only where a
`PropertyChanged` names it, or where its lost change is still to come, in which
case it is `stale` (`Unbroken`). A list that was sent before that change and is
handled after the subscription repairs nothing, so it breaks nothing.
`CacheCorrect` and `UserIsToldCorrect` follow from one
invariant.

`ConnmanctlProofs`: `TypeCorrect` (with `Entered`, and `CommandCallsType` for the
sequences of calls), `NoLostWakeupCorrect` and `TextAnnouncedCorrect`, which are
inductive, and `FreshPassphraseCorrect`, whose strengthening `Newer` orders the
passphrase, the line at hand and the passphrase a waiting request knew.

`ConnmanProofs`: `NoUseAfterFree` holds because of an order. The constructor
sends the two calls that carry a raw pointer before the Clock's `GetProperties`,
which is counted, so `stop` waits for the last of the three. `NeverOvertakes`
follows them through the three places where a call can be: in `ctx_` to be sent
(`SentLast`), at connman (`AskedLast`), and in `ctx_` again as an answer
(`AnsweredLast`). With `Once`, a counted call is in one of them only, so once it
is done nothing raw is left (`RawGone`). `Stage` says what exists at each step
of the constructor and the destructor; its cases are what makes `ResetManager`
safe. `RawHeld` says that GLib refers to the Manager's proxy for a raw call only
while that call is under way, so the last reference is released before the bus
goes: hence `AgentAlwaysUnregisters`.

`CallbacksProofs`: a thread is the sequence of steps it has yet to take, so the
invariant is about positions in it. `Keepers`: from one step to another only the
application's mutex is kept, and a `cb_mtx_` by the GLib thread. `AppSection`:
who has the application's mutex, or is about to take it, has only brief steps up
to its release. `GlibOK` is about the GLib thread: it takes one `cb_mtx_` in a
handler, after the test and before the call (`LocksOnce`, `TestsFirst`,
`CallsTested`), keeps it while the callback runs (`RunsLocked`, `RunsInside`,
`Unlocks`), and meanwhile replaces no callback under a `cb_mtx_` it has
(`StoresElsewhere`), however often the callback calls the library.
`NeverDeadlocks` then needs no induction over circles: whoever has the
application's mutex is neither blocked nor asking a person, since brief steps
want mutexes that nobody keeps; and whoever waits, waits for that mutex, or for
a `cb_mtx_` and so for the GLib thread, which in turn can only wait for the
application's mutex. `NeverEmptyCallback` and `RunningStaysAlive` follow
from `CallsTested` and `RunsInside`.

`ManagerProofs`: `MirrorsServices` says nothing while a list is on its way. Its
strengthening `Latest` says that the last list on its way is connman's, or else
the mirror is, unless a change was missed. `UserHoldsCurrentList` needs more: an empty reply to
`GetServices` empties the mirror and tells the user nothing. That is harmless
because a reply repeats the list that is before it (`Repeats`), so that it finds
the mirror empty already if the user was told a list at all, as the
callback is only told once the handler is connected (`Told`). `Unique`, no two
proxies of one service, is what `ServicesKeepProxies` rests on.

The inductive invariants were checked with TLC before they were proved.

Only model-checked: the liveness properties (`StopReturns`,
`AnsweredWithoutUser`, `InputServed`, `HandoverReturns`, `CatchesUp`,
`RequestsReturn`, `ResultsPrinted`), which need fairness and are out of the
prover's reach; and, for more than one proxy, the properties of `DBusProxy` that
depend on an exact count, which are false there (finding 1). Every other property
of a passing run is a theorem.

## Not modelled, and the plan

Left out for good:

* logging, the introspection text, the wording of errors, the build;
* torn reads of a `std::function` that is replaced while it is read (`Agent`
  and `Callbacks` show the coarse outcome), what `properties()` reads on another
  thread while `props_` is written without a mutex (`gproxy.hpp:39-82, 164-167`),
  and the name in the prompt (`connmanctl.cpp:52, 206`): a data race allows
  anything;
* a `RequestInput` thread that outlives the `Manager`
  (`gconnman_agent.cpp:135-153`). The thread exists before the callback is
  entered and uses `ctx_` after it has returned, so no rule that an application
  could follow excludes it; a property would hold only by assuming it away,
  which `Connman` does openly;
* a callback of `RequestInput` that is set again while it runs
  (`gmanager.hpp:108-129`), for the same reason;
* the tables of keys and enum texts of `Clock`, `Technology`, `Service` and
  `Manager`: `Properties` has one update for all, and an unknown text throws
  through GLib (`gdbus_private.hpp:39`);
* completion, history and output of `connmanctl`. That a line typed for one
  purpose is taken for another (`connmanctl.cpp:244`) and that a failing `tether`
  leaves settings behind (`477-489`) are outcomes of `Connmanctl`, with no
  property since nothing says what should happen.

A callback that `onServicesChanged` has replaced may still run after it returned,
because its copy runs without the mutex (`gconnman_manager.cpp:418-428`). That is
what keeps `NoDeadlock` true, and something a user of the library must know.

Done, in this order: `DBus` with `DBusProxy` and `CallBarrier`, `Manager`,
`Agent`, `Connman`, `SyncInvoke`, `Properties`, `Callbacks`, `Connmanctl`, and
the proofs listed above.

Planned, most important first:

1. The safety half of the liveness properties as invariants, which can be proved:
   when `stop` joins and no call is in flight, someone has told or will
   tell the loop to quit; a caller of a hand-over that waits with `done` set has been
   notified; a change that `props_` lacks is on its way or `stale`.
2. More about finding 3: that no signal ever changes the list of technologies.
