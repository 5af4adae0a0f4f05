--------------------------- MODULE ConnmanctlProofs ---------------------------
(***************************************************************************)
(* Proofs about Connmanctl, for every set of requests and every bound.     *)
(***************************************************************************)
EXTENDS Connmanctl, SequenceTheorems, TLAPS

------------------------------------------------------------------------------
(* Type correctness.                                                        *)

Calls == [method : Methods, line : Lines]

\* Whoever handles a line has been given one.
Entered == main \in {"line", "giving", "command"} => lines \in Lines

\* Sequences of one element.
LEMMA OneCall == ASSUME NEW S PROVE <<>> \in Seq(S) /\ \A x \in S : <<x>> \in Seq(S)
    OBVIOUS

\* A function on the first n numbers is a sequence.
LEMMA FunctionIsSequence ==
    ASSUME NEW S, NEW n \in Nat, NEW f \in [1..n -> S] PROVE f \in Seq(S)
    BY SeqDef

\* Taking the first element of a sequence.
LEMMA HeadAndTail ==
    ASSUME NEW S, NEW s \in Seq(S), s # <<>> PROVE Head(s) \in S /\ Tail(s) \in Seq(S)
    OBVIOUS

\* A command only calls methods the library has.
LEMMA CommandCallsType == \A methods \in CommandCalls : methods \in Seq(Methods)
<1> USE DEF Methods, TechnologyMethods, ServiceMethods, AgentMethods, Silent
<1>1. \A methods \in agent \cup connect \cup remove : methods \in Seq(Methods)
    BY OneCall DEF agent, connect, remove
<1>2. \A t \in Technologies : \A methods \in scan(t) \cup enable(t) : methods \in Seq(Methods)
    BY OneCall DEF scan, enable
<1>3. ASSUME NEW t \in Technologies, NEW methods \in tether(t)
      PROVE  methods \in Seq(Methods)
    <2>1. CASE methods \in {<<>>, <<"Tethering">>, <<"TetheringIdentifier">>}
        BY <2>1, OneCall
    <2>2. ASSUME NEW s \in {<<>>, <<"TetheringPassphrase">>},
                 NEW f \in {<<>>, <<"TetheringFreq">>},
                 methods = <<"TetheringIdentifier">> \o s \o f \o <<"Tethering">>
          PROVE  methods \in Seq(Methods)
        <3>1. s \in Seq(Methods) /\ f \in Seq(Methods)
            BY OneCall
        <3>2. <<"TetheringIdentifier">> \in Seq(Methods) /\ <<"Tethering">> \in Seq(Methods)
            BY OneCall
        <3> HIDE DEF Methods
        <3> QED
            BY <2>2, <3>1, <3>2
    <2> QED
        BY <1>3, <2>1, <2>2 DEF tether
<1> QED
    BY <1>1, <1>2, <1>3 DEF CommandCalls

\* Every state of the program is well typed; the technologies commands are
\* checked against are ones the Manager lists.
THEOREM TypeCorrect == Spec => [](TypeOK /\ Entered)
<1> USE ConnmanctlAssumption DEF TypeOK, Lines, Calls, Entered
<1>1. Init => TypeOK /\ Entered
    <2> SUFFICES ASSUME Init PROVE TypeOK /\ Entered
        OBVIOUS
    <2>1. {has_message, glib, registered} \subseteq BOOLEAN /\ connecting \in BOOLEAN
        BY DEF Init
    <2>2. calls \in Seq([method : Methods, line : Lines])
        BY OneCall DEF Init
    <2> QED
        BY <2>1, <2>2 DEF Init
<1>2. TypeOK /\ Entered /\ [Next]_vars => TypeOK' /\ Entered'
    <2> SUFFICES ASSUME TypeOK, Entered, [Next]_vars
                 PROVE  TypeOK' /\ Entered'
        OBVIOUS
    <2> USE DEF promptVars, tellVars, listVars, callVars
    <2>1. CASE Start \/ TestConnecting \/ TakeMessage \/ PrintMessage \/ Quit
        BY <2>1 DEF Start, TestConnecting, TakeMessage, PrintMessage, Quit
    <2>2. CASE EnterLine
        BY <2>2 DEF EnterLine
    <2>3. CASE GivePassphrase
        BY <2>3 DEF GivePassphrase
    <2>4. CASE RunCommand
        <3>1. PICK methods \in CommandCalls :
                 calls' = calls \o [i \in DOMAIN methods |->
                                      [method |-> methods[i], line |-> lines]]
            BY <2>4 DEF RunCommand
        <3> DEFINE made == [i \in DOMAIN methods |-> [method |-> methods[i], line |-> lines]]
        <3>2. lines \in Lines
            BY <2>4 DEF RunCommand
        <3>3. methods \in Seq(Methods)
            BY CommandCallsType
        <3>4. made \in Seq(Calls)
            <4>1. Len(methods) \in Nat /\ DOMAIN methods = 1..Len(methods)
                BY <3>3
            <4>2. \A i \in 1..Len(methods) :
                     [method |-> methods[i], line |-> lines] \in Calls
                BY <3>2, <3>3
            <4>3. made \in [1..Len(methods) -> Calls]
                BY <4>1, <4>2
            <4> QED
                BY <4>1, <4>3, FunctionIsSequence
        <3>5. calls' \in Seq(Calls)
            BY <3>1, <3>4
        <3> QED
            BY <2>4, <3>5 DEF RunCommand
    <2>5. CASE \E r \in Requests : Request(r) \/ Ask(r) \/ Wake(r)
        <3>1. PICK r \in Requests : Request(r) \/ Ask(r) \/ Wake(r)
            BY <2>5
        <3>2. CASE Request(r)
            BY <3>2 DEF Request
        <3>3. CASE Ask(r)
            BY <3>3 DEF Ask
        <3>4. CASE Wake(r)
            BY <3>4 DEF Wake
        <3> QED
            BY <3>1, <3>2, <3>3, <3>4
    <2>6. CASE AnswerCall
        <3>1. Head(calls) \in Calls /\ calls' \in Seq(Calls)
            <4>1. calls # <<>> /\ calls' = Tail(calls)
                BY <2>6 DEF AnswerCall
            <4>2. calls \in Seq(Calls)
                OBVIOUS
            <4> QED
                BY <4>1, <4>2, HeadAndTail
        <3>3. message' \subseteq Lines
            BY <2>6, <3>1 DEF AnswerCall
        <3>4. registered' \in BOOLEAN
            <4>1. \/ registered' = (Head(calls).method = "RegisterAgent")
                  \/ registered' = registered
                BY <2>6, Zenon DEF AnswerCall
            <4>2. registered \in BOOLEAN
                OBVIOUS
            <4> QED
                BY <4>1, <4>2, Zenon
        <3>5. glib' \in BOOLEAN
            <4>1. glib' = (Head(calls).method \notin Silent)
                BY <2>6 DEF AnswerCall
            <4> QED
                BY <4>1, Zenon
        <3> QED
            BY <2>6, <3>1, <3>3, <3>4, <3>5 DEF AnswerCall
    <2>7. CASE SetMessage
        BY <2>7 DEF SetMessage
    <2>8. CASE GetTechnologiesDone \/ TechnologyAdded
        <3>1. CASE GetTechnologiesDone
            BY <3>1 DEF GetTechnologiesDone
        <3>2. CASE TechnologyAdded
            BY <3>2 DEF TechnologyAdded
        <3> QED
            BY <2>8, <3>1, <3>2
    <2>9. CASE UNCHANGED vars
        BY <2>9 DEF vars
    <2> QED
        BY <2>1, <2>2, <2>3, <2>4, <2>5, <2>6, <2>7, <2>8, <2>9
        DEF Next, MainThread, GlibThread
<1> QED
    BY <1>1, <1>2, PTL DEF Spec

------------------------------------------------------------------------------
(* The prompt.                                                              *)

\* Nobody waits for a line that has been taken, for any number of requests:
\* the thread that takes it wakes all that wait, and those that ask later make
\* the prompt appear again.
THEOREM NoLostWakeupCorrect == Spec => []NoLostWakeup
<1> USE DEF NoLostWakeup, Waiting
<1>1. Init => NoLostWakeup
    BY DEF Init
<1>2. TypeOK /\ NoLostWakeup /\ [Next]_vars => NoLostWakeup'
    <2> SUFFICES ASSUME TypeOK, NoLostWakeup, [Next]_vars
                 PROVE  NoLostWakeup'
        OBVIOUS
    <2> USE DEF TypeOK, promptVars
    <2>1. ASSUME UNCHANGED <<stage, connecting>>
          PROVE  NoLostWakeup'
        BY <2>1
    <2>2. CASE GivePassphrase
        BY <2>2 DEF GivePassphrase, Notified
    <2>3. ASSUME NEW r \in Requests, Request(r)
          PROVE  NoLostWakeup'
        BY <2>3 DEF Request
    <2>4. ASSUME NEW r \in Requests, Ask(r)
          PROVE  NoLostWakeup'
        BY <2>4 DEF Ask
    <2>5. ASSUME NEW r \in Requests, Wake(r)
          PROVE  NoLostWakeup'
        BY <2>5 DEF Wake, Answered
    <2> QED
        BY <2>1, <2>2, <2>3, <2>4, <2>5
        DEF Next, MainThread, GlibThread, Start, TestConnecting, TakeMessage,
            PrintMessage, RunCommand, EnterLine, Quit, AnswerCall, SetMessage,
            GetTechnologiesDone, TechnologyAdded, vars
<1> QED
    BY <1>1, <1>2, TypeCorrect, PTL DEF Spec

\* The passphrase is older than the line at hand, and a request that waits knows
\* it unless its prompt has been answered.
Newer ==
    /\ passphrase <= lines
    /\ main \in {"line", "giving", "command"} => passphrase < lines
    /\ \A r \in Requests :
          stage[r] \in {"waiting", "woken"}
             => asked[r] <= passphrase /\ (connecting \/ asked[r] < passphrase)

\* A request never returns the passphrase that was there when it began to wait,
\* however often it wakes up and whoever else asks meanwhile.
THEOREM FreshPassphraseCorrect == Spec => []FreshPassphrase
<1> USE ConnmanctlAssumption DEF FreshPassphrase, Newer
<1>1. Init => FreshPassphrase /\ Newer
    BY DEF Init
<1>2. TypeOK /\ FreshPassphrase /\ Newer /\ [Next]_vars
         => FreshPassphrase' /\ Newer'
    <2> SUFFICES ASSUME TypeOK, FreshPassphrase, Newer, [Next]_vars
                 PROVE  FreshPassphrase' /\ Newer'
        OBVIOUS
    <2> USE DEF TypeOK, promptVars, Lines
    <2>1. CASE EnterLine
        BY <2>1 DEF EnterLine
    <2>2. CASE Start \/ TestConnecting \/ TakeMessage \/ PrintMessage \/ RunCommand \/ Quit
        BY <2>2 DEF Start, TestConnecting, TakeMessage, PrintMessage, RunCommand, Quit
    <2>3. CASE GivePassphrase
        BY <2>3 DEF GivePassphrase, Notified, Waiting
    <2>4. ASSUME NEW r \in Requests, Request(r)
          PROVE  FreshPassphrase' /\ Newer'
        BY <2>4 DEF Request
    <2>5. ASSUME NEW r \in Requests, Ask(r)
          PROVE  FreshPassphrase' /\ Newer'
        BY <2>5 DEF Ask
    <2>6. ASSUME NEW r \in Requests, Wake(r)
          PROVE  FreshPassphrase' /\ Newer'
        BY <2>6 DEF Wake, Answered
    <2>7. CASE AnswerCall \/ SetMessage \/ GetTechnologiesDone \/ TechnologyAdded
        BY <2>7 DEF AnswerCall, SetMessage, GetTechnologiesDone, TechnologyAdded
    <2>8. CASE UNCHANGED vars
        BY <2>8 DEF vars
    <2> QED
        BY <2>1, <2>2, <2>3, <2>4, <2>5, <2>6, <2>7, <2>8
        DEF Next, MainThread, GlibThread
<1> QED
    BY <1>1, <1>2, TypeCorrect, PTL DEF Spec

------------------------------------------------------------------------------
(* Results.                                                                 *)

\* No text is left behind that nobody announces or is about to print.
THEOREM TextAnnouncedCorrect == Spec => []TextAnnounced
<1> USE DEF TextAnnounced
<1>1. Init => TextAnnounced
    BY DEF Init
<1>2. TextAnnounced /\ [Next]_vars => TextAnnounced'
    <2> SUFFICES ASSUME TextAnnounced, [Next]_vars
                 PROVE  TextAnnounced'
        OBVIOUS
    <2>1. CASE AnswerCall
        BY <2>1 DEF AnswerCall
    <2>2. CASE SetMessage \/ TakeMessage \/ PrintMessage
        BY <2>2 DEF SetMessage, TakeMessage, PrintMessage
    <2>3. ASSUME main # "printing", UNCHANGED <<message, has_message, glib>>
          PROVE  TextAnnounced'
        BY <2>3
    <2>4. ASSUME UNCHANGED <<main, message, has_message, glib>>
          PROVE  TextAnnounced'
        BY <2>4
    <2> QED
        BY <2>1, <2>2, <2>3, <2>4
        DEF Next, MainThread, GlibThread, Start, EnterLine, TestConnecting,
            GivePassphrase, RunCommand, Quit, Request, Ask, Wake,
            GetTechnologiesDone, TechnologyAdded, tellVars, callVars, vars
<1> QED
    BY <1>1, <1>2, PTL DEF Spec
==============================================================================
