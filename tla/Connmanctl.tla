------------------------------ MODULE Connmanctl ------------------------------
(***************************************************************************)
(* The example program (src/examples/connmanctl.cpp) on top of the         *)
(* library.  Its main thread sits in readline, which calls event_hook      *)
(* while it waits for input, and either takes the line as the passphrase   *)
(* some RequestInput waits for or obeys it as a command.  The callbacks of *)
(* the calls a command makes run on the GLib thread and leave a text for   *)
(* event_hook; the threads of RequestInput wait on cin_cv.                 *)
(*                                                                         *)
(* A line is its number, which is also that of the text its result is told *)
(* with.  A critical section of cin_mutex, message_mutex or hash_mutex is  *)
(* one step; connecting and has_message are also read without.  What the   *)
(* cached properties say (powered, connected) is left open, and so is      *)
(* whether connman accepts a call.  Completion, history and the texts      *)
(* themselves are left out.                                                *)
(***************************************************************************)
EXTENDS Naturals, Sequences

CONSTANTS
    Requests,   \* RequestInputs, that is their threads
    MaxLines,   \* bound on the lines the user enters
    MaxSignals  \* bound on the TechnologyAdded signals

ASSUME ConnmanctlAssumption == {MaxLines, MaxSignals} \subseteq Nat

VARIABLES
    \* main
    main,         \* where the main thread is
    lines,        \* how many lines the user has entered
    \* the prompt for passphrases
    connecting, passphrase,
    stage,        \* how far each RequestInput is
    asked,        \* history: the passphrase there was when it began to wait
    got,          \* the line it returned
    \* what is told
    message, has_message,
    printed,      \* the texts the user has seen
    \* the library and connman
    technologies, \* Manager::technologies()
    technologies_container,
    signals,      \* TechnologyAdded signals so far
    calls,        \* made and not answered yet, oldest first
    glib,         \* the GLib thread has a callback that will set has_message
    registered    \* connman knows the agent

promptVars == <<connecting, passphrase, stage, asked, got>>
tellVars == <<message, has_message, printed>>
listVars == <<technologies, technologies_container, signals>>
callVars == <<calls, glib, registered>>
vars == <<main, lines, promptVars, tellVars, listVars, callVars>>

Lines == 1..MaxLines
Technologies == {"wifi", "ethernet"}

\* What is called on a technology, on a service and on the Manager; those of
\* Silent are called without a callback.
Silent == {"TetheringIdentifier", "TetheringPassphrase", "TetheringFreq"}
TechnologyMethods == Silent \cup {"Scan", "Powered", "Tethering"}
ServiceMethods == {"Connect", "Disconnect", "Remove"}
AgentMethods == {"RegisterAgent", "UnregisterAgent"}
Methods == TechnologyMethods \cup ServiceMethods \cup AgentMethods

TypeOK ==
    /\ main \in {"starting", "reading", "printing", "line", "giving", "command", "exited"}
    /\ lines \in 0..MaxLines
    /\ connecting \in BOOLEAN
    /\ passphrase \in 0..MaxLines
    /\ stage \in [Requests -> {"none", "sent", "waiting", "woken", "returned"}]
    /\ asked \in [Requests -> 0..MaxLines]
    /\ got \in [Requests -> 0..MaxLines]
    /\ message \subseteq Lines
    /\ {has_message, glib, registered} \subseteq BOOLEAN
    /\ printed \subseteq Lines
    /\ technologies_container \subseteq technologies
    /\ technologies \subseteq Technologies
    /\ signals \in 0..MaxSignals
    /\ calls \in Seq([method : Methods, line : Lines])

Init ==
    /\ main = "starting"
    /\ lines = 0
    /\ connecting = FALSE
    /\ passphrase = 0
    /\ stage = [r \in Requests |-> "none"]
    /\ asked = [r \in Requests |-> 0]
    /\ got = [r \in Requests |-> 0]
    /\ message = {}
    /\ has_message = FALSE
    /\ printed = {}
    /\ technologies = {}
    /\ technologies_container = {}
    /\ signals = 0
    /\ calls = <<>>
    /\ glib = FALSE
    /\ registered = FALSE

------------------------------------------------------------------------------
(* What a command calls: the set of the sequences of methods it may make,   *)
(* depending on what it finds.                                              *)

agent == {<<m>> : m \in AgentMethods}

\* A technology must be one the callback of the Manager was given, and then
\* one the Manager lists.
Known(t) == t \in technologies_container \cap technologies

scan(t) == IF Known(t) THEN {<<"Scan">>} ELSE {<<>>}

\* Enabled and disabled only if it is not so already.
enable(t) == IF Known(t) THEN {<<>>, <<"Powered">>} ELSE {<<>>}

connect == {<<>>, <<"Connect">>, <<"Disconnect">>}

remove == {<<>>, <<"Remove">>}

\* The identifier has been sent when a passphrase is found too short.
tether(t) ==
    IF ~Known(t) THEN {<<>>}
    ELSE IF t # "wifi" THEN {<<"Tethering">>}
    ELSE LET settings == {<<>>, <<"TetheringPassphrase">>}
             frequency == {<<>>, <<"TetheringFreq">>}
         IN  {<<>>, <<"TetheringIdentifier">>}
               \cup {<<"TetheringIdentifier">> \o s \o f \o <<"Tethering">> :
                        s \in settings, f \in frequency}

\* "technologies", "services" and unknown commands call nothing.
CommandCalls ==
    agent \cup connect \cup remove
      \cup UNION {scan(t) \cup enable(t) \cup tether(t) : t \in Technologies}

------------------------------------------------------------------------------
(* The main thread.                                                         *)

\* The callbacks are set; the lists may have come before.
Start ==
    /\ main = "starting"
    /\ main' = "reading"
    /\ UNCHANGED <<lines, promptVars, tellVars, listVars, callVars>>

\* The user enters a line and readline returns it.
EnterLine ==
    /\ main = "reading"
    /\ lines < MaxLines
    /\ lines' = lines + 1
    /\ main' = "line"
    /\ UNCHANGED <<promptVars, tellVars, listVars, callVars>>

\* connecting is read under no mutex.
TestConnecting ==
    /\ main = "line"
    /\ main' = IF connecting THEN "giving" ELSE "command"
    /\ UNCHANGED <<lines, promptVars, tellVars, listVars, callVars>>

Waiting == {r \in Requests : stage[r] = "waiting"}

\* The requests that cin_cv.notify_all wakes.
MutantNotifyOne == IF Waiting = {} THEN {} ELSE {CHOOSE r \in Waiting : TRUE}
MutantNotifyNone == {}
Notified == Waiting

GivePassphrase ==
    /\ main = "giving"
    /\ passphrase' = lines
    /\ connecting' = FALSE
    /\ stage' = [r \in Requests |-> IF r \in Notified THEN "woken" ELSE stage[r]]
    /\ main' = "reading"
    /\ UNCHANGED <<lines, asked, got, tellVars, listVars, callVars>>

RunCommand ==
    /\ main = "command"
    /\ main' = "reading"
    /\ \E methods \in CommandCalls :
          calls' = calls \o [i \in DOMAIN methods |->
                               [method |-> methods[i], line |-> lines]]
    /\ UNCHANGED <<lines, promptVars, tellVars, listVars, glib, registered>>

\* "quit", or the end of the input, which does not ask whether anybody waits.
Quit ==
    /\ main \in {"reading", "command"}
    /\ main' = "exited"
    /\ UNCHANGED <<lines, promptVars, tellVars, listVars, callVars>>

\* event_hook, which readline calls while it waits for input.
TakeMessage ==
    /\ main = "reading"
    /\ has_message
    /\ has_message' = FALSE
    /\ main' = "printing"
    /\ UNCHANGED <<lines, promptVars, message, printed, listVars, callVars>>

MutantPrintMessage ==
    /\ main = "printing"
    /\ message' = {}
    /\ main' = "reading"
    /\ UNCHANGED <<lines, promptVars, has_message, printed, listVars, callVars>>
PrintMessage ==
    /\ main = "printing"
    /\ printed' = printed \cup message
    /\ message' = {}
    /\ main' = "reading"
    /\ UNCHANGED <<lines, promptVars, has_message, listVars, callVars>>

------------------------------------------------------------------------------
(* The threads of RequestInput: the callback set in main.                   *)

\* connman asks for a passphrase.
Request(r) ==
    /\ registered
    /\ stage[r] = "none"
    /\ stage' = [stage EXCEPT ![r] = "sent"]
    /\ UNCHANGED <<main, lines, connecting, passphrase, asked, got, tellVars, listVars,
                   callVars>>

Ask(r) ==
    /\ stage[r] = "sent"
    /\ connecting' = TRUE
    /\ stage' = [stage EXCEPT ![r] = "waiting"]
    /\ asked' = [asked EXCEPT ![r] = passphrase]
    /\ UNCHANGED <<main, lines, passphrase, got, tellVars, listVars, callVars>>

\* The predicate of cin_cv.wait.
MutantAnswered == TRUE
Answered == ~connecting

\* A thread that was woken, or wakes up by itself, returns the passphrase or
\* waits again.
Wake(r) ==
    /\ stage[r] \in {"woken", "waiting"}
    /\ stage' = [stage EXCEPT ![r] = IF Answered THEN "returned" ELSE "waiting"]
    /\ got' = IF Answered THEN [got EXCEPT ![r] = passphrase] ELSE got
    /\ UNCHANGED <<main, lines, connecting, passphrase, asked, tellVars, listVars,
                   callVars>>

------------------------------------------------------------------------------
(* The GLib thread: callbacks of the calls, and of the Manager.             *)

\* A text is left for each result, but none for an agent that is refused.
HasText(method, ok) == method \notin AgentMethods \/ ok

\* Some calls have no callback.  The text is left under message_mutex.
AnswerCall ==
    /\ ~glib
    /\ calls # <<>>
    /\ calls' = Tail(calls)
    /\ \E ok \in BOOLEAN :
          LET call == Head(calls) IN
          /\ message' = IF call.method \notin Silent /\ HasText(call.method, ok)
                        THEN message \cup {call.line} ELSE message
          /\ registered' = IF call.method \in AgentMethods /\ ok
                           THEN call.method = "RegisterAgent" ELSE registered
          /\ glib' = (call.method \notin Silent)
    /\ UNCHANGED <<main, lines, promptVars, has_message, printed, listVars>>

\* Then has_message is set, mostly under no mutex.
MutantSetMessage ==
    /\ glib
    /\ has_message' = (has_message /\ main = "reading")
    /\ glib' = FALSE
    /\ UNCHANGED <<main, lines, promptVars, message, printed, listVars, calls, registered>>
SetMessage ==
    /\ glib
    /\ has_message' = TRUE
    /\ glib' = FALSE
    /\ UNCHANGED <<main, lines, promptVars, message, printed, listVars, calls, registered>>

\* GetTechnologies is answered: before the callback is set, nothing of the
\* program is told.
GetTechnologiesDone ==
    /\ ~glib
    /\ technologies = {}
    /\ technologies' = Technologies
    /\ technologies_container' = IF main = "starting" THEN {} ELSE Technologies
    /\ UNCHANGED <<main, lines, promptVars, tellVars, signals, callVars>>

\* A TechnologyAdded leaves the list of the Manager as it is and reports it.
MutantTechnologyAdded ==
    /\ ~glib
    /\ main # "starting"
    /\ signals < MaxSignals
    /\ signals' = signals + 1
    /\ technologies_container' = technologies \cup {"wifi"}
    /\ UNCHANGED <<main, lines, promptVars, tellVars, technologies, callVars>>
TechnologyAdded ==
    /\ ~glib
    /\ main # "starting"
    /\ signals < MaxSignals
    /\ signals' = signals + 1
    /\ technologies_container' = technologies
    /\ UNCHANGED <<main, lines, promptVars, tellVars, technologies, callVars>>

------------------------------------------------------------------------------

MainThread ==
    \/ Start \/ TestConnecting \/ GivePassphrase \/ TakeMessage \/ PrintMessage
    \/ RunCommand

GlibThread == AnswerCall \/ SetMessage

Next ==
    \/ EnterLine \/ Quit \/ MainThread
    \/ \E r \in Requests : Request(r) \/ Ask(r) \/ Wake(r)
    \/ GlibThread \/ GetTechnologiesDone \/ TechnologyAdded

Spec == Init /\ [][Next]_vars

\* The threads run, readline calls event_hook again and again while it waits,
\* and calls are answered or time out.  Nothing makes the user enter a line or
\* wakes a thread that was not notified.
FairSpec ==
    /\ Spec
    /\ WF_vars(MainThread)
    /\ WF_vars(GlibThread)
    /\ \A r \in Requests :
          WF_vars(Ask(r)) /\ WF_vars(stage[r] = "woken" /\ Wake(r))

------------------------------------------------------------------------------
(* Properties.                                                              *)

\* A request returns a line that main took as a passphrase after it began to
\* wait, not the passphrase of an earlier request, also if it wakes up without
\* being notified (connmanctl.cpp:204-208, 244-250).
FreshPassphrase ==
    \A r \in Requests : stage[r] = "returned" => got[r] > asked[r]

\* Nobody waits for a line that has been taken: while a request waits and was
\* not notified, the next line is asked for (connmanctl.cpp:205-207, 246-250).
NoLostWakeup == Waiting # {} => connecting

\* A text that nobody has printed is announced: has_message is set, or will
\* be by the callback that has left the text, or event_hook has seen it and is
\* about to print (connmanctl.cpp:39-49, 378-390, 537-550).
TextAnnounced == message # {} => has_message \/ glib \/ main = "printing"

\* As long as every prompt is answered some time, every request returns, even
\* if another one asks before it has woken up: it then waits for the next line
\* (connmanctl.cpp:202-209, 244-253).
RequestsReturn ==
    []<>~connecting =>
       \A r \in Requests :
          stage[r] = "sent" ~> stage[r] = "returned" \/ main = "exited"

\* The user sees the result of every call that has one to tell, unless the
\* program is left (connmanctl.cpp:38-49, 305-311, 378-390, 422-438, 500-516,
\* 537-556, 576-588).
ResultsPrinted ==
    \A n \in Lines : n \in message ~> n \in printed \/ main = "exited"
==============================================================================
