-------------------------------- MODULE Agent --------------------------------
(***************************************************************************)
(* class Agent (src/dbus/gconnman_agent.cpp) with the handlers that        *)
(* Manager::setup_agent gives it: how the methods that connman calls on    *)
(* the agent object are answered.                                          *)
(*                                                                         *)
(* The GLib thread dispatches one source of ctx_ after the other.          *)
(* RequestInput is handed to a detached thread of its own, because its     *)
(* callback waits for a person; the answer comes back through ctx_.  All   *)
(* other methods are answered on the GLib thread.  As in DBusProxy, a      *)
(* source that belongs to an invocation is the invocation itself.          *)
(***************************************************************************)
EXTENDS Naturals, Sequences, FiniteSets

CONSTANTS
    Inputs,      \* invocations of RequestInput
    Errors,      \* invocations of ReportError
    Others,      \* invocations of Cancel, Release and unknown methods
    Services,    \* object paths
    Forms,       \* the sets of fields connman asks for
    Offered,     \* the callbacks the application sets and resets
    Glib,        \* the GLib thread
    None,        \* no thread, no answer
    Changed,     \* the source that delivers ServicesChanged
    MaxChanges   \* bound on the ServicesChanged signals

Invocations == Inputs \cup Errors \cup Others
Handlers == {"passphrase", "hidden", "enterprise", "wispr", "error"}

ASSUME AgentAssumption ==
    /\ Inputs \cap (Errors \cup Others) = {}
    /\ Errors \cap Others = {}
    /\ Glib \notin Inputs
    /\ Errors \cap {"idle", "updating"} = {}
    /\ None \notin Inputs \cup Errors \cup {Glib} \cup BOOLEAN
    /\ Changed \notin Invocations
    /\ Offered \subseteq Handlers
    /\ MaxChanges \in Nat

VARIABLES
    ctx,        \* the sources of ctx_, oldest first
    stage,      \* how far each invocation is
    asked,      \* the service and the fields an invocation names
    answer,     \* the dictionary keys, or the error, it is answered with
    replies,    \* how often it has been answered
    said,       \* the bool the user's callback returned for it
    services_,  \* the paths of Manager::services_
    mtx_,       \* owner of Manager::mtx_; an input stands for its thread
    handlers,   \* the callbacks of the Manager that are set
    glib,       \* what the GLib thread is inside of
    changes     \* how many ServicesChanged signals connman has sent

callVars == <<stage, asked, answer, replies, said>>
vars == <<ctx, callVars, services_, mtx_, handlers, glib, changes>>

Stages == {"unsent", "sent", "thread", "found", "calling", "user", "answering",
           "answered", "unanswered"}

Retry == "net.connman.Agent.Error.Retry"
Keys == {"Passphrase", "WPS", "Name", "SSID", "Identity", "Username", "Password"}

TypeOK ==
    /\ ctx \in Seq(Invocations \cup {Changed})
    /\ stage \in [Invocations -> Stages]
    /\ asked \in [Invocations ->
                    [service : Services, fields : Forms \cup {{}}] \cup {None}]
    /\ answer \in [Invocations -> {None} \cup SUBSET (Keys \cup {Retry})]
    /\ replies \in [Invocations -> Nat]
    /\ said \in [Invocations -> BOOLEAN \cup {None}]
    /\ services_ \subseteq Services
    /\ mtx_ \in Inputs \cup {Glib, None}
    /\ handlers \subseteq Offered
    /\ glib \in Errors \cup {"idle", "updating"}
    /\ changes \in 0..MaxChanges

Init ==
    /\ ctx = <<>>
    /\ stage = [i \in Invocations |-> "unsent"]
    /\ asked = [i \in Invocations |-> None]
    /\ answer = [i \in Invocations |-> None]
    /\ replies = [i \in Invocations |-> 0]
    /\ said = [i \in Invocations |-> None]
    /\ services_ = {}
    /\ mtx_ = None
    /\ handlers = {}
    /\ glib = "idle"
    /\ changes = 0

Attach(source) == ctx' = Append(ctx, source)

MoveTo(i, s) == stage' = [stage EXCEPT ![i] = s]

------------------------------------------------------------------------------
(* What connman asks for and what it is answered.                           *)

Field(name, type, requirement) ==
    [name |-> name, type |-> type, requirement |-> requirement]
Mandatory(name, type) == Field(name, type, "mandatory")

Psk == Mandatory("Passphrase", "psk")
Wps == Field("WPS", "wpspin", "alternate")
Previous == Field("PreviousPassphrase", "psk", "informational")
Identity == Mandatory("Identity", "string")

\* The examples of connman's agent-api.txt, which the callbacks "should follow"
\* (gmanager.hpp:49-53).
DocumentedForms ==
    { {Psk},
      {Psk, Previous},
      {Psk, Wps},
      {Psk, Wps, Previous},
      {Mandatory("Name", "string"), Field("SSID", "ssid", "alternate")},
      {Identity, Mandatory("Passphrase", "passphrase")},
      {Identity, Mandatory("Passphrase", "response")},
      {Mandatory("Username", "string"), Mandatory("Password", "passphrase")} }

\* classify_input, over the fields parse_fields has read: the first rule that
\* applies decides.
classify_input(fields) ==
    LET Has(name) == \E f \in fields : f.name = name
        passphrase == \E f \in fields :
                         f.name = "Passphrase" /\ f.requirement = "mandatory"
        challenge == \E f \in fields :
                        f.name = "Passphrase" /\ f.type = "response"
    IN  IF passphrase /\ ~Has("WPS") /\ ~Has("Identity") THEN "InputWpA2Passphrase"
        ELSE IF passphrase /\ Has("WPS") THEN "InputWpA2PassphraseWpsAlternative"
        ELSE IF Has("Name") THEN "InputHiddenNetworkName"
        ELSE IF Has("Identity") /\ challenge THEN "InputChallengeResponse"
        ELSE IF Has("Identity") /\ passphrase THEN "InputWpaEnterprise"
        ELSE IF Has("Username") /\ Has("Password") THEN "InputWispr"
        ELSE "InputUnknown"

Enterprise == {"InputChallengeResponse", "InputWpaEnterprise"}

\* The callback each case of the switch in setup_agent consults.
HandlerOf(input) ==
    CASE input \in {"InputWpA2Passphrase", "InputWpA2PassphraseWpsAlternative"}
             -> "passphrase"
      [] input = "InputHiddenNetworkName" -> "hidden"
      [] input \in Enterprise             -> "enterprise"
      [] input = "InputWispr"             -> "wispr"
      [] OTHER                            -> "none"

\* The keys of the dictionary it builds from what the callback returned.
MutantKeysOf(input, first) ==
    LET Either(x, y) == IF first THEN {x} ELSE {y}
    IN  CASE HandlerOf(input) = "passphrase" -> Either("Passphrase", "PIN")
          [] HandlerOf(input) = "hidden"     -> Either("Name", "SSID")
          [] HandlerOf(input) = "enterprise" -> {"Identity"} \cup Either("Passphrase", "PIN")
          [] HandlerOf(input) = "wispr"      -> {"Username", "Password"}
KeysOf(input, first) ==
    LET Either(a, b) == IF first THEN {a} ELSE {b}
    IN  CASE input = "InputWpA2Passphrase" -> {"Passphrase"}
          [] input = "InputWpA2PassphraseWpsAlternative" ->
                 Either("Passphrase", "WPS")
          [] input = "InputHiddenNetworkName" -> Either("Name", "SSID")
          [] input \in Enterprise ->
                 {"Identity"} \cup Either("Passphrase", "WPS")
          [] input = "InputWispr" -> {"Username", "Password"}

------------------------------------------------------------------------------
(* connman, external, and the application.                                  *)

Send(i) ==
    /\ stage[i] = "unsent"
    /\ \E s \in Services, form \in (IF i \in Inputs THEN Forms ELSE {{}}) :
          asked' = [asked EXCEPT ![i] = [service |-> s, fields |-> form]]
    /\ MoveTo(i, "sent")
    /\ Attach(i)
    /\ UNCHANGED <<answer, replies, said, services_, mtx_, handlers, glib, changes>>

SendServicesChanged ==
    /\ changes < MaxChanges
    /\ changes' = changes + 1
    /\ Attach(Changed)
    /\ UNCHANGED <<callVars, services_, mtx_, handlers, glib>>

\* onRequestInput... and onReportError, with a callback or with none.
SetHandler(h) ==
    /\ mtx_ = None
    /\ handlers' \in {handlers \cup {h}, handlers \ {h}}
    /\ UNCHANGED <<ctx, callVars, services_, mtx_, glib, changes>>

------------------------------------------------------------------------------
(* The GLib thread: dispatch_method_call, and what changes services_.       *)

Dispatch(source) ==
    /\ glib = "idle"
    /\ ctx # <<>>
    /\ source = Head(ctx)
    /\ ctx' = Tail(ctx)

Reply(i) == replies' = [replies EXCEPT ![i] = @ + 1]

\* RequestInput starts a detached thread and is not answered here.
MutantDispatchInput(i) ==
    /\ stage[i] = "sent"
    /\ Dispatch(i)
    /\ MoveTo(i, "thread")
    /\ Reply(i)
    /\ UNCHANGED <<asked, answer, said, services_, mtx_, handlers, glib, changes>>
DispatchInput(i) ==
    /\ stage[i] = "sent"
    /\ Dispatch(i)
    /\ MoveTo(i, "thread")
    /\ UNCHANGED <<asked, answer, replies, said, services_, mtx_, handlers, glib,
                   changes>>

\* Cancel, Release and unknown methods: Manager sets no handler for them, and
\* nothing reaches the thread of a RequestInput.
DispatchOther(i) ==
    /\ stage[i] = "sent"
    /\ Dispatch(i)
    /\ MoveTo(i, "answered")
    /\ Reply(i)
    /\ UNCHANGED <<asked, answer, said, services_, mtx_, handlers, glib, changes>>

\* Who owns mtx_ once thread t has looked the service up.
MutantUnlocked(t) == t
Unlocked(t) == None

\* ReportError: the service and the callback are read under mtx_, and the
\* callback is called when both exist.
DispatchError(i) ==
    /\ stage[i] = "sent"
    /\ Dispatch(i)
    /\ mtx_ = None
    /\ IF asked[i].service \in services_ /\ "error" \in handlers
         THEN /\ glib' = i
              /\ mtx_' = Unlocked(Glib)
              /\ MoveTo(i, "user")
              /\ UNCHANGED <<answer, replies>>
         ELSE /\ answer' = [answer EXCEPT ![i] = {}]
              /\ MoveTo(i, "answered")
              /\ Reply(i)
              /\ UNCHANGED <<mtx_, glib>>
    /\ UNCHANGED <<asked, said, services_, handlers, changes>>

\* The user's ReportError callback returns, or throws, which counts as FALSE.
\* It has locked mtx_ before if it asked the Manager for its services.
ReportReturns(i) ==
    /\ glib = i
    /\ mtx_ = None
    /\ \E retry \in BOOLEAN :
          /\ said' = [said EXCEPT ![i] = retry]
          /\ answer' = [answer EXCEPT ![i] = IF retry THEN {Retry} ELSE {}]
    /\ MoveTo(i, "answered")
    /\ Reply(i)
    /\ glib' = "idle"
    /\ UNCHANGED <<ctx, asked, services_, mtx_, handlers, changes>>

\* on_services_changed_cb holds mtx_ while it constructs the proxies of new
\* services, each with a synchronous call.
BeginUpdate ==
    /\ Dispatch(Changed)
    /\ mtx_ = None
    /\ mtx_' = Glib
    /\ glib' = "updating"
    /\ UNCHANGED <<callVars, services_, handlers, changes>>

EndUpdate ==
    /\ glib = "updating"
    /\ services_' \in SUBSET Services
    /\ mtx_' = None
    /\ glib' = "idle"
    /\ UNCHANGED <<ctx, callVars, handlers, changes>>

\* The source a RequestInput thread attached.
DispatchAnswer(i) ==
    /\ stage[i] = "answering"
    /\ Dispatch(i)
    /\ MoveTo(i, "answered")
    /\ Reply(i)
    /\ UNCHANGED <<asked, answer, said, services_, mtx_, handlers, glib, changes>>

------------------------------------------------------------------------------
(* The thread of RequestInput i.                                            *)

Answer(i, keys) ==
    /\ answer' = [answer EXCEPT ![i] = keys]
    /\ MoveTo(i, "answering")
    /\ Attach(i)

\* The service is looked up under mtx_; an unknown one is answered at once.
LookUp(i) ==
    /\ stage[i] = "thread"
    /\ mtx_ = None
    /\ mtx_' = Unlocked(i)
    /\ IF asked[i].service \in services_
         THEN MoveTo(i, "found") /\ UNCHANGED <<ctx, answer>>
         ELSE Answer(i, {})
    /\ UNCHANGED <<asked, replies, said, services_, handlers, glib, changes>>

\* The callback is compared with nullptr, under no mutex.
TestHandler(i) ==
    /\ stage[i] = "found"
    /\ IF HandlerOf(classify_input(asked[i].fields)) \in handlers
         THEN MoveTo(i, "calling") /\ UNCHANGED <<ctx, answer>>
         ELSE Answer(i, {})
    /\ UNCHANGED <<asked, replies, said, services_, mtx_, handlers, glib, changes>>

\* Then it is called: one that was reset meanwhile throws.
CallHandler(i) ==
    /\ stage[i] = "calling"
    /\ MoveTo(i, IF HandlerOf(classify_input(asked[i].fields)) \in handlers
                   THEN "user" ELSE "unanswered")
    /\ UNCHANGED <<ctx, asked, answer, replies, said, services_, mtx_, handlers,
                   glib, changes>>

MutantUserAnswers(i) ==
    /\ stage[i] = "user"
    /\ \E first \in BOOLEAN :
          /\ said' = [said EXCEPT ![i] = first]
          /\ Answer(i, KeysOf(classify_input(asked[i].fields), ~first))
    /\ UNCHANGED <<asked, replies, services_, mtx_, handlers, glib, changes>>
UserAnswers(i) ==
    /\ stage[i] = "user"
    /\ \E first \in BOOLEAN :
          /\ said' = [said EXCEPT ![i] = first]
          /\ Answer(i, KeysOf(classify_input(asked[i].fields), first))
    /\ UNCHANGED <<asked, replies, services_, mtx_, handlers, glib, changes>>

\* catch (...): the invocation is dropped.
UserThrows(i) ==
    /\ stage[i] = "user"
    /\ MoveTo(i, "unanswered")
    /\ UNCHANGED <<ctx, asked, answer, replies, said, services_, mtx_, handlers,
                   glib, changes>>

------------------------------------------------------------------------------

GlibThread ==
    \/ \E i \in Inputs : DispatchInput(i) \/ DispatchAnswer(i)
    \/ \E i \in Others : DispatchOther(i)
    \/ \E i \in Errors : DispatchError(i) \/ ReportReturns(i)
    \/ BeginUpdate
    \/ EndUpdate

InputThread(i) == LookUp(i) \/ TestHandler(i) \/ CallHandler(i)

Next ==
    \/ \E i \in Invocations : Send(i)
    \/ SendServicesChanged
    \/ \E h \in Offered : SetHandler(h)
    \/ GlibThread
    \/ \E i \in Inputs : InputThread(i) \/ UserAnswers(i) \/ UserThrows(i)

Spec == Init /\ [][Next]_vars

\* Threads keep running, and the ReportError callback "must not block"
\* (gmanager.hpp:83-84).  A RequestInput callback may wait for ever, and
\* nothing makes connman or the application do anything.
Fairness == WF_vars(GlibThread) /\ \A i \in Inputs : WF_vars(InputThread(i))

FairSpec == Spec /\ Fairness

------------------------------------------------------------------------------
(* Properties.                                                              *)

\* No invocation is completed twice, which GDBus forbids, although a
\* RequestInput is completed by another dispatch than the one that received
\* it (gconnman_agent.cpp:113-173).
AnsweredOnce ==
    \A i \in Invocations :
       replies[i] = IF stage[i] = "answered" THEN 1 ELSE 0

\* Manager::mtx_ is held by nobody but the GLib thread in the middle of a
\* ServicesChanged: no callback of the user runs with it, on any thread, so a
\* callback may ask the Manager for its services
\* (gconnman_manager.cpp:94-104, 206-222, 420-428).
NoLockInUserCode == mtx_ # None => glib = "updating"

Names(fields) == {f.name : f \in fields}

\* All that must be answered is, and nothing that was not asked for.
Fits(fields, keys) ==
    /\ Names({f \in fields : f.requirement = "mandatory"}) \subseteq keys
    /\ keys \subseteq Names(fields)

\* Whatever connman asks for, a user who provides the thing itself (and not
\* its alternative) has every mandatory field answered, and none that was not
\* asked for: classify_input takes no request for another
\* (gconnman_manager.cpp:106-198, 499-556).
ReplyFits ==
    \A i \in Inputs :
       stage[i] = "answered" /\ said[i] = TRUE
          => Fits(asked[i].fields, answer[i])

\* ReportError, Cancel and Release are answered even if the users asked by
\* RequestInput never answer, and whatever services do meanwhile: no lock is
\* held while user code runs (gconnman_agent.cpp:135-171,
\* gconnman_manager.cpp:94-104, 206-222).
AnsweredWithoutUser ==
    \A i \in Errors \cup Others : stage[i] = "sent" ~> stage[i] = "answered"

\* A RequestInput reaches its user or is answered without one, also while
\* another one waits for its user: none is dropped on the way unless its callback
\* has just been reset.  What the user said is sent
\* (gconnman_agent.cpp:135-167, gconnman_manager.cpp:89-200).
InputServed ==
    \A i \in Inputs :
       /\ stage[i] = "sent" ~>
             \/ stage[i] \in {"user", "answered"}
             \/ /\ stage[i] = "unanswered"
                /\ HandlerOf(classify_input(asked[i].fields)) \notin handlers
       /\ stage[i] = "answering" ~> stage[i] = "answered"

\* "One can pass passphrase or WPS alternative, the bool indicates whether
\* the passphrase is provided" (gmanager.hpp:55-58): a string that is not one
\* is never sent as the passphrase (gconnman_manager.cpp:111-119).
PassphraseOnlyIfProvided ==
    \A i \in Inputs :
       stage[i] = "answered" /\ said[i] = FALSE => "Passphrase" \notin answer[i]
==============================================================================
