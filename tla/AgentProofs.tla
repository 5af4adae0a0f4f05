----------------------------- MODULE AgentProofs -----------------------------
(***************************************************************************)
(* Proofs about Agent, for every set of invocations, services and forms.   *)
(***************************************************************************)
EXTENDS Agent, TLAPS

------------------------------------------------------------------------------
(* Type correctness.                                                        *)

\* The user of a RequestInput is one the Manager had a callback for.
Consulted ==
    \A i \in Inputs :
       stage[i] \in {"calling", "user"}
          => HandlerOf(classify_input(asked[i].fields)) \in Offered

\* Any answer built for such a user is made of keys of net.connman.Agent
\* (gconnman_manager.cpp:110-197).
LEMMA KeysOfOffered ==
    ASSUME NEW input, NEW first \in BOOLEAN, HandlerOf(input) \in Offered
    PROVE  KeysOf(input, first) \in SUBSET Keys
<1>1. HandlerOf(input) # "none"
    BY AgentAssumption DEF Handlers
<1>2. \/ input \in {"InputWpA2Passphrase", "InputWpA2PassphraseWpsAlternative"}
      \/ input = "InputHiddenNetworkName"
      \/ input \in Enterprise
      \/ input = "InputWispr"
    BY <1>1 DEF HandlerOf
<1> QED
    BY <1>2 DEF KeysOf, Keys, Enterprise

\* Sources stay sources when one is attached and when the oldest is taken.
LEMMA ContextType ==
    ASSUME ctx \in Seq(Invocations \cup {Changed})
    PROVE  /\ \A s \in Invocations \cup {Changed} :
                 Attach(s) => ctx' \in Seq(Invocations \cup {Changed})
           /\ \A s : Dispatch(s) => ctx' \in Seq(Invocations \cup {Changed})
    BY DEF Attach, Dispatch

\* Every state of the agent is well typed; a user who is asked can be answered
\* for, so no switch of setup_agent falls through with a question open.
THEOREM TypeCorrect == Spec => [](TypeOK /\ Consulted)
<1>1. Init => TypeOK /\ Consulted
    BY AgentAssumption DEF Init, TypeOK, Consulted, Stages, Invocations
<1>2. TypeOK /\ Consulted /\ [Next]_vars => TypeOK' /\ Consulted'
    <2> SUFFICES ASSUME TypeOK, Consulted, [Next]_vars
                 PROVE  TypeOK' /\ Consulted'
        OBVIOUS
    <2> USE AgentAssumption
        DEF TypeOK, Consulted, Invocations, Stages, MoveTo, Reply, callVars
    <2>1. ASSUME NEW i \in Invocations, Send(i)
          PROVE  TypeOK' /\ Consulted'
        <3>1. ctx' \in Seq(Invocations \cup {Changed})
            BY <2>1, ContextType DEF Send
        <3>2. asked' \in [Invocations -> [service : Services,
                                 fields : Forms \cup {{}}] \cup {None}]
            BY <2>1 DEF Send
        <3> QED
            BY <2>1, <3>1, <3>2 DEF Send
    <2>2. CASE SendServicesChanged
        <3>1. ctx' \in Seq(Invocations \cup {Changed})
            BY <2>2, ContextType DEF SendServicesChanged
        <3> QED
            BY <2>2, <3>1 DEF SendServicesChanged
    <2>3. ASSUME NEW h \in Offered, SetHandler(h)
          PROVE  TypeOK' /\ Consulted'
        BY <2>3 DEF SetHandler
    <2>4. ASSUME NEW i \in Inputs, DispatchInput(i)
          PROVE  TypeOK' /\ Consulted'
        <3>1. ctx' \in Seq(Invocations \cup {Changed})
            BY <2>4, ContextType DEF DispatchInput
        <3> QED
            BY <2>4, <3>1 DEF DispatchInput
    <2>5. ASSUME NEW i \in Inputs, DispatchAnswer(i)
          PROVE  TypeOK' /\ Consulted'
        <3>1. ctx' \in Seq(Invocations \cup {Changed})
            BY <2>5, ContextType DEF DispatchAnswer
        <3> QED
            BY <2>5, <3>1 DEF DispatchAnswer
    <2>6. ASSUME NEW i \in Others, DispatchOther(i)
          PROVE  TypeOK' /\ Consulted'
        <3>1. ctx' \in Seq(Invocations \cup {Changed})
            BY <2>6, ContextType DEF DispatchOther
        <3> QED
            BY <2>6, <3>1 DEF DispatchOther
    <2>7. ASSUME NEW i \in Errors, DispatchError(i)
          PROVE  TypeOK' /\ Consulted'
        <3>1. ctx' \in Seq(Invocations \cup {Changed})
            BY <2>7, ContextType DEF DispatchError
        <3>2. CASE asked[i].service \in services_ /\ "error" \in handlers
            BY <2>7, <3>1, <3>2 DEF DispatchError, Unlocked
        <3>3. CASE ~(asked[i].service \in services_ /\ "error" \in handlers)
            <4>1. answer' = [answer EXCEPT ![i] = {}]
                BY <2>7, <3>3 DEF DispatchError
            <4>2. answer' \in [Invocations ->
                                  {None} \cup SUBSET (Keys \cup {Retry})]
                BY <4>1
            <4>3. /\ stage' = [stage EXCEPT ![i] = "answered"]
                  /\ replies' = [replies EXCEPT ![i] = replies[i] + 1]
                  /\ UNCHANGED <<asked, said, services_, mtx_, handlers, glib, changes>>
                BY <2>7, <3>3 DEF DispatchError
            <4>4. TypeOK'
                BY <3>1, <4>2, <4>3
            <4>5. Consulted'
                BY <4>3
            <4> QED
                BY <4>4, <4>5
        <3> QED
            BY <3>2, <3>3
    <2>8. ASSUME NEW i \in Errors, ReportReturns(i)
          PROVE  TypeOK' /\ Consulted'
        BY <2>8 DEF ReportReturns
    <2>9. CASE BeginUpdate
        <3>1. ctx' \in Seq(Invocations \cup {Changed})
            BY <2>9, ContextType DEF BeginUpdate
        <3> QED
            BY <2>9, <3>1 DEF BeginUpdate
    <2>10. CASE EndUpdate
        BY <2>10 DEF EndUpdate
    <2>11. ASSUME NEW i \in Inputs, NEW keys \in SUBSET Keys, Answer(i, keys)
           PROVE  /\ ctx' \in Seq(Invocations \cup {Changed})
                  /\ answer' \in [Invocations ->
                                     {None} \cup SUBSET (Keys \cup {Retry})]
        <3>1. ctx' \in Seq(Invocations \cup {Changed})
            BY <2>11, ContextType DEF Answer
        <3> QED
            BY <2>11, <3>1 DEF Answer
    <2>12. ASSUME NEW i \in Inputs, LookUp(i)
           PROVE  TypeOK' /\ Consulted'
        BY <2>11, <2>12 DEF LookUp, Unlocked, Answer
    <2>13. ASSUME NEW i \in Inputs, TestHandler(i)
           PROVE  TypeOK' /\ Consulted'
        BY <2>11, <2>13 DEF TestHandler, Answer
    <2>14. ASSUME NEW i \in Inputs, CallHandler(i)
           PROVE  TypeOK' /\ Consulted'
        BY <2>14 DEF CallHandler
    <2>15. ASSUME NEW i \in Inputs, UserAnswers(i)
           PROVE  TypeOK' /\ Consulted'
        <3>1. PICK first \in BOOLEAN :
                 /\ said' = [said EXCEPT ![i] = first]
                 /\ Answer(i, KeysOf(classify_input(asked[i].fields), first))
            BY <2>15 DEF UserAnswers
        <3>2. KeysOf(classify_input(asked[i].fields), first) \in SUBSET Keys
            BY <2>15, KeysOfOffered DEF UserAnswers
        <3> QED
            BY <2>11, <2>15, <3>1, <3>2 DEF UserAnswers, Answer
    <2>16. ASSUME NEW i \in Inputs, UserThrows(i)
           PROVE  TypeOK' /\ Consulted'
        BY <2>16 DEF UserThrows
    <2>17. CASE UNCHANGED vars
        BY <2>17 DEF vars
    <2> QED
        BY <2>1, <2>2, <2>3, <2>4, <2>5, <2>6, <2>7, <2>8, <2>9, <2>10, <2>12,
           <2>13, <2>14, <2>15, <2>16, <2>17
        DEF Next, GlibThread, InputThread
<1> QED
    BY <1>1, <1>2, PTL DEF Spec

------------------------------------------------------------------------------
(* Answers.                                                                 *)

\* The ReportError whose callback the GLib thread is inside of is not answered.
Reporting == \A i \in Errors : glib = i => stage[i] = "user"

\* No invocation of the agent is ever completed twice, whatever threads,
\* services and callbacks do.
THEOREM AnsweredOnceCorrect == Spec => []AnsweredOnce
<1>1. Init => AnsweredOnce /\ Reporting
    BY AgentAssumption DEF Init, AnsweredOnce, Reporting
<1>2. TypeOK /\ AnsweredOnce /\ Reporting /\ [Next]_vars
         => AnsweredOnce' /\ Reporting'
    <2> SUFFICES ASSUME TypeOK, AnsweredOnce, Reporting, [Next]_vars
                 PROVE  AnsweredOnce' /\ Reporting'
        OBVIOUS
    <2> USE AgentAssumption
        DEF TypeOK, AnsweredOnce, Reporting, Invocations, MoveTo, Reply, callVars
    <2>1. ASSUME NEW i \in Invocations, Send(i)
          PROVE  AnsweredOnce' /\ Reporting'
        BY <2>1 DEF Send
    <2>2. CASE SendServicesChanged
        BY <2>2 DEF SendServicesChanged
    <2>3. ASSUME NEW h \in Offered, SetHandler(h)
          PROVE  AnsweredOnce' /\ Reporting'
        BY <2>3 DEF SetHandler
    <2>4. ASSUME NEW i \in Inputs, DispatchInput(i)
          PROVE  AnsweredOnce' /\ Reporting'
        BY <2>4 DEF DispatchInput, Dispatch
    <2>5. ASSUME NEW i \in Inputs, DispatchAnswer(i)
          PROVE  AnsweredOnce' /\ Reporting'
        BY <2>5 DEF DispatchAnswer, Dispatch
    <2>6. ASSUME NEW i \in Others, DispatchOther(i)
          PROVE  AnsweredOnce' /\ Reporting'
        BY <2>6 DEF DispatchOther, Dispatch
    <2>7. ASSUME NEW i \in Errors, DispatchError(i)
          PROVE  AnsweredOnce' /\ Reporting'
        BY <2>7 DEF DispatchError, Dispatch
    <2>8. ASSUME NEW i \in Errors, ReportReturns(i)
          PROVE  AnsweredOnce' /\ Reporting'
        BY <2>8 DEF ReportReturns
    <2>9. CASE BeginUpdate \/ EndUpdate
        BY <2>9 DEF BeginUpdate, EndUpdate, Dispatch
    <2>10. ASSUME NEW i \in Inputs, InputThread(i)
          PROVE  AnsweredOnce' /\ Reporting'
        BY <2>10 DEF InputThread, LookUp, TestHandler, CallHandler, Answer
    <2>11. ASSUME NEW i \in Inputs, UserAnswers(i)
          PROVE  AnsweredOnce' /\ Reporting'
        BY <2>11 DEF UserAnswers, Answer
    <2>12. ASSUME NEW i \in Inputs, UserThrows(i)
          PROVE  AnsweredOnce' /\ Reporting'
        BY <2>12 DEF UserThrows
    <2>13. CASE UNCHANGED vars
        BY <2>13 DEF vars
    <2> QED
        BY <2>1, <2>2, <2>3, <2>4, <2>5, <2>6, <2>7, <2>8, <2>9, <2>10, <2>11,
           <2>12, <2>13
        DEF Next, GlibThread
<1> QED
    BY <1>1, <1>2, TypeCorrect, PTL DEF Spec

\* User code never runs with Manager::mtx_ held.
THEOREM NoLockCorrect == Spec => []NoLockInUserCode
<1>1. Init => NoLockInUserCode
    BY DEF Init, NoLockInUserCode
<1>2. NoLockInUserCode /\ [Next]_vars => NoLockInUserCode'
    BY DEF NoLockInUserCode, Next, Send, SendServicesChanged, SetHandler,
           GlibThread, DispatchInput, DispatchAnswer, DispatchOther,
           DispatchError, ReportReturns, BeginUpdate, EndUpdate, InputThread,
           LookUp, TestHandler, CallHandler, UserAnswers, UserThrows, Unlocked,
           Dispatch, vars
<1> QED
    BY <1>1, <1>2, PTL DEF Spec

------------------------------------------------------------------------------
(* Replies to RequestInput.                                                 *)

\* For each form connman documents, classify_input finds the case whose keys
\* answer it (gconnman_manager.cpp:106-198, 499-556).
LEMMA FormsFit ==
    \A form \in DocumentedForms : Fits(form, KeysOf(classify_input(form), TRUE))
<1>1. /\ KeysOf("InputWpA2Passphrase", TRUE) = {"Passphrase"}
      /\ KeysOf("InputWpA2PassphraseWpsAlternative", TRUE) = {"Passphrase"}
      /\ KeysOf("InputHiddenNetworkName", TRUE) = {"Name"}
      /\ KeysOf("InputChallengeResponse", TRUE) = {"Identity", "Passphrase"}
      /\ KeysOf("InputWpaEnterprise", TRUE) = {"Identity", "Passphrase"}
      /\ KeysOf("InputWispr", TRUE) = {"Username", "Password"}
    BY DEF KeysOf, Enterprise
<1>2. ASSUME NEW form, form = {Psk}
      PROVE  Fits(form, KeysOf(classify_input(form), TRUE))
    <2>1. classify_input(form) = "InputWpA2Passphrase"
        BY <1>2 DEF classify_input, Psk, Wps, Previous, Identity, Mandatory, Field
    <2>2. Fits(form, {"Passphrase"})
        BY <1>2 DEF Fits, Names, Psk, Wps, Previous, Identity, Mandatory, Field
    <2> QED
        BY <1>1, <2>1, <2>2
<1>3. ASSUME NEW form, form = {Psk, Previous}
      PROVE  Fits(form, KeysOf(classify_input(form), TRUE))
    <2>1. classify_input(form) = "InputWpA2Passphrase"
        BY <1>3 DEF classify_input, Psk, Wps, Previous, Identity, Mandatory, Field
    <2>2. Fits(form, {"Passphrase"})
        BY <1>3 DEF Fits, Names, Psk, Wps, Previous, Identity, Mandatory, Field
    <2> QED
        BY <1>1, <2>1, <2>2
<1>4. ASSUME NEW form, form = {Psk, Wps}
      PROVE  Fits(form, KeysOf(classify_input(form), TRUE))
    <2>1. classify_input(form) = "InputWpA2PassphraseWpsAlternative"
        BY <1>4 DEF classify_input, Psk, Wps, Previous, Identity, Mandatory, Field
    <2>2. Fits(form, {"Passphrase"})
        BY <1>4 DEF Fits, Names, Psk, Wps, Previous, Identity, Mandatory, Field
    <2> QED
        BY <1>1, <2>1, <2>2
<1>5. ASSUME NEW form, form = {Psk, Wps, Previous}
      PROVE  Fits(form, KeysOf(classify_input(form), TRUE))
    <2>1. classify_input(form) = "InputWpA2PassphraseWpsAlternative"
        BY <1>5 DEF classify_input, Psk, Wps, Previous, Identity, Mandatory, Field
    <2>2. Fits(form, {"Passphrase"})
        BY <1>5 DEF Fits, Names, Psk, Wps, Previous, Identity, Mandatory, Field
    <2> QED
        BY <1>1, <2>1, <2>2
<1>6. ASSUME NEW form, form = {Mandatory("Name", "string"), Field("SSID", "ssid", "alternate")}
      PROVE  Fits(form, KeysOf(classify_input(form), TRUE))
    <2>1. classify_input(form) = "InputHiddenNetworkName"
        BY <1>6 DEF classify_input, Psk, Wps, Previous, Identity, Mandatory, Field
    <2>2. Fits(form, {"Name"})
        BY <1>6 DEF Fits, Names, Psk, Wps, Previous, Identity, Mandatory, Field
    <2> QED
        BY <1>1, <2>1, <2>2
<1>7. ASSUME NEW form, form = {Identity, Mandatory("Passphrase", "passphrase")}
      PROVE  Fits(form, KeysOf(classify_input(form), TRUE))
    <2>1. classify_input(form) = "InputWpaEnterprise"
        BY <1>7 DEF classify_input, Psk, Wps, Previous, Identity, Mandatory, Field
    <2>2. Fits(form, {"Identity", "Passphrase"})
        BY <1>7 DEF Fits, Names, Psk, Wps, Previous, Identity, Mandatory, Field
    <2> QED
        BY <1>1, <2>1, <2>2
<1>8. ASSUME NEW form, form = {Identity, Mandatory("Passphrase", "response")}
      PROVE  Fits(form, KeysOf(classify_input(form), TRUE))
    <2>1. classify_input(form) = "InputChallengeResponse"
        BY <1>8 DEF classify_input, Psk, Wps, Previous, Identity, Mandatory, Field
    <2>2. Fits(form, {"Identity", "Passphrase"})
        BY <1>8 DEF Fits, Names, Psk, Wps, Previous, Identity, Mandatory, Field
    <2> QED
        BY <1>1, <2>1, <2>2
<1>9. ASSUME NEW form, form = {Mandatory("Username", "string"), Mandatory("Password", "passphrase")}
      PROVE  Fits(form, KeysOf(classify_input(form), TRUE))
    <2>1. classify_input(form) = "InputWispr"
        BY <1>9 DEF classify_input, Psk, Wps, Previous, Identity, Mandatory, Field
    <2>2. Fits(form, {"Username", "Password"})
        BY <1>9 DEF Fits, Names, Psk, Wps, Previous, Identity, Mandatory, Field
    <2> QED
        BY <1>1, <2>1, <2>2
<1> QED
    BY <1>2, <1>3, <1>4, <1>5, <1>6, <1>7, <1>8, <1>9 DEF DocumentedForms

\* What the user of a request has said is in its answer, or will be: nothing
\* another thread does changes what it asks for or is answered.
Prepared ==
    \A i \in Inputs :
       /\ stage[i] \notin {"answering", "answered"} => said[i] = None
       /\ stage[i] # "unsent" => asked[i].fields \in Forms
       /\ stage[i] \in {"answering", "answered"} /\ said[i] = TRUE
             => answer[i] = KeysOf(classify_input(asked[i].fields), TRUE)

\* The reply to a RequestInput fits the form, whatever services and callbacks do
\* while the user thinks, if connman asks for what it documents.
THEOREM ReplyFitsCorrect ==
    ASSUME Forms \subseteq DocumentedForms
    PROVE  Spec => []ReplyFits
<1>1. Init => Prepared
    BY AgentAssumption DEF Init, Prepared, Invocations
<1>2. TypeOK /\ Consulted /\ Prepared /\ [Next]_vars => Prepared'
    <2> SUFFICES ASSUME TypeOK, Prepared, [Next]_vars
                 PROVE  Prepared'
        OBVIOUS
    <2> USE AgentAssumption
        DEF TypeOK, Prepared, Invocations, Stages, MoveTo, Reply, callVars
    <2>1. ASSUME NEW i \in Invocations, Send(i)
          PROVE  Prepared'
        <3>1. PICK s \in Services, form \in (IF i \in Inputs THEN Forms ELSE {{}}) :
                 asked' = [asked EXCEPT ![i] = [service |-> s, fields |-> form]]
            BY <2>1 DEF Send
        <3>2. /\ stage' = [stage EXCEPT ![i] = "sent"]
              /\ UNCHANGED <<answer, said>>
            BY <2>1 DEF Send
        <3>3. stage[i] = "unsent"
            BY <2>1 DEF Send
        <3> SUFFICES ASSUME NEW j \in Inputs
                     PROVE  /\ stage'[j] \notin {"answering", "answered"} => said'[j] = None
                            /\ stage'[j] # "unsent" => asked'[j].fields \in Forms
                            /\ stage'[j] \in {"answering", "answered"} /\ said'[j] = TRUE
                                  => answer'[j] = KeysOf(classify_input(asked'[j].fields), TRUE)
            OBVIOUS
        <3>4. CASE j = i
            BY <3>1, <3>2, <3>3, <3>4
        <3>5. CASE j # i
            <4>1. stage'[j] = stage[j] /\ asked'[j] = asked[j]
                BY <3>1, <3>2, <3>5
            <4> QED
                BY <3>2, <4>1
        <3> QED
            BY <3>4, <3>5
    <2>2. CASE SendServicesChanged
        BY <2>2 DEF SendServicesChanged
    <2>3. ASSUME NEW h \in Offered, SetHandler(h)
          PROVE  Prepared'
        BY <2>3 DEF SetHandler
    <2>4. ASSUME NEW i \in Inputs, DispatchInput(i)
          PROVE  Prepared'
        BY <2>4 DEF DispatchInput
    <2>5. ASSUME NEW i \in Inputs, DispatchAnswer(i)
          PROVE  Prepared'
        BY <2>5 DEF DispatchAnswer
    <2>6. ASSUME NEW i \in Others, DispatchOther(i)
          PROVE  Prepared'
        BY <2>6 DEF DispatchOther
    <2>7. ASSUME NEW i \in Errors, DispatchError(i)
          PROVE  Prepared'
        BY <2>7 DEF DispatchError
    <2>8. ASSUME NEW i \in Errors, ReportReturns(i)
          PROVE  Prepared'
        BY <2>8 DEF ReportReturns
    <2>9. CASE BeginUpdate \/ EndUpdate
        BY <2>9 DEF BeginUpdate, EndUpdate
    <2>10. ASSUME NEW i \in Inputs, LookUp(i) \/ TestHandler(i) \/ CallHandler(i)
           PROVE  Prepared'
        <3>1. /\ UNCHANGED <<asked, said>>
              /\ stage[i] \in {"thread", "found", "calling"}
              /\ \E s \in {"found", "calling", "user", "answering", "unanswered"} :
                    stage' = [stage EXCEPT ![i] = s]
              /\ \A j \in Inputs \ {i} : answer'[j] = answer[j]
            BY <2>10 DEF LookUp, TestHandler, CallHandler, Answer
        <3>2. said[i] = None
            BY <3>1
        <3> QED
            BY <3>1, <3>2
    <2>11. ASSUME NEW i \in Inputs, UserAnswers(i)
           PROVE  Prepared'
        <3>1. PICK first \in BOOLEAN :
                 /\ said' = [said EXCEPT ![i] = first]
                 /\ answer' = [answer EXCEPT ![i] =
                                 KeysOf(classify_input(asked[i].fields), first)]
            BY <2>11 DEF UserAnswers, Answer
        <3>2. /\ stage[i] = "user"
              /\ stage' = [stage EXCEPT ![i] = "answering"]
              /\ asked' = asked
            BY <2>11 DEF UserAnswers, Answer
        <3>3. asked[i].fields \in Forms
            BY <3>2
        <3>4. said'[i] = first /\ answer'[i] = KeysOf(classify_input(asked[i].fields), first)
            BY <3>1
        <3>5. said'[i] = TRUE => answer'[i] = KeysOf(classify_input(asked[i].fields), TRUE)
            BY <3>4
        <3>6. \A j \in Inputs \ {i} : said'[j] = said[j] /\ answer'[j] = answer[j]
                                          /\ stage'[j] = stage[j]
            BY <3>1, <3>2
        <3> QED
            BY <3>2, <3>3, <3>5, <3>6
    <2>12. ASSUME NEW i \in Inputs, UserThrows(i)
           PROVE  Prepared'
        BY <2>12 DEF UserThrows
    <2>13. CASE UNCHANGED vars
        BY <2>13 DEF vars
    <2> QED
        BY <2>1, <2>2, <2>3, <2>4, <2>5, <2>6, <2>7, <2>8, <2>9, <2>10, <2>11,
           <2>12, <2>13
        DEF Next, GlibThread, InputThread
<1>3. Prepared => ReplyFits
    BY FormsFit DEF Prepared, ReplyFits
<1> QED
    BY <1>1, <1>2, <1>3, TypeCorrect, PTL DEF Spec
==============================================================================
