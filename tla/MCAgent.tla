-------------------------------- MODULE MCAgent --------------------------------
(* Instances of Agent for TLC.                                              *)
EXTENDS Agent, TLC

CONSTANTS i1, i2, e1, o1, s1

OneInput == {i1}
TwoInputs == {i1, i2}
OneError == {e1}
OneOther == {o1}
OneService == {s1}

AllForms == DocumentedForms
WpsForms == {{Psk, Wps}}
PskHandlers == {"passphrase", "error"}
InputHandlers == Handlers \ {"error"}

\* Each documented request is taken for what it is, whatever the model reaches.
ASSUME FormsFit ==
    \A form \in DocumentedForms : Fits(form, KeysOf(classify_input(form), TRUE))
==============================================================================
