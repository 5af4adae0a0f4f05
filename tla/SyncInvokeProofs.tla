-------------------------- MODULE SyncInvokeProofs ---------------------------
(***************************************************************************)
(* SyncInvoke implements RemoteCall for any number of hand-overs, and no   *)
(* caller leaves while its Data is still written.                          *)
(***************************************************************************)
EXTENDS SyncInvoke, TLAPS

\* How far the work of a hand-over is tells what is known of it: whether it
\* was invoked, whether it has an outcome, whether data.done is set.
Progress(h) ==
    /\ caller[h] = "idle" <=> source[h] = "none"
    /\ outcome[h] # "none" <=> source[h] \in {"called", "done", "gone"}
    /\ done[h] <=> source[h] \in {"done", "gone"}

\* A caller leaves when done is set, and with what the work gave.
Leaving(h) ==
    /\ outcome[h] = "failed" => h \in CanFail
    /\ caller[h] = "returned" => done[h] /\ outcome[h] = "made"
    /\ caller[h] = "threw" => done[h] /\ outcome[h] = "failed"

IInv == TypeOK /\ \A h \in Handovers : Progress(h) /\ Leaving(h)

\* What one step does to the hand-over it is about, as the proofs need it.
LEMMA StepKeepsOthers ==
    ASSUME IInv, NEW h \in Handovers, Caller(h) \/ Dispatcher(h),
           NEW g \in Handovers, g # h
    PROVE  /\ caller'[g] = caller[g] /\ source'[g] = source[g]
           /\ done'[g] = done[g] /\ outcome'[g] = outcome[g]
  BY DEF IInv, TypeOK, Caller, Dispatcher, Invoke, Test, Block, SpuriousWakeup, Run,
         SetDone, NotifyAll

\* A step of a hand-over keeps its own part of the invariant.
LEMMA StepKeepsOwn ==
    ASSUME IInv, NEW h \in Handovers, Caller(h) \/ Dispatcher(h)
    PROVE  TypeOK' /\ Progress(h)' /\ Leaving(h)'
<1> USE DEF IInv, TypeOK, Progress, Leaving, Callers, Sources
<1>1. CASE Invoke(h)
  BY <1>1 DEF Invoke, Invoked
<1>2. CASE Test(h)
  BY <1>2 DEF Test, InvokeReturned, MayReturn, Result
<1>3. CASE Block(h)
  BY <1>3 DEF Block
<1>4. CASE SpuriousWakeup(h)
  BY <1>4 DEF SpuriousWakeup
<1>5. CASE Run(h)
  BY <1>5 DEF Run
<1>6. CASE SetDone(h)
  BY <1>6 DEF SetDone
<1>7. CASE NotifyAll(h)
  BY <1>7 DEF NotifyAll
<1> QED
  BY <1>1, <1>2, <1>3, <1>4, <1>5, <1>6, <1>7 DEF Caller, Dispatcher

LEMMA Inductive == IInv /\ [Next]_vars => IInv'
<1> SUFFICES ASSUME IInv, [Next]_vars PROVE IInv'
  OBVIOUS
<1>1. CASE Next
  <2>1. PICK h \in Handovers : Caller(h) \/ Dispatcher(h)
    BY <1>1 DEF Next
  <2>2. TypeOK' /\ Progress(h)' /\ Leaving(h)'
    BY <2>1, StepKeepsOwn
  <2>3. ASSUME NEW g \in Handovers, g # h PROVE Progress(g)' /\ Leaving(g)'
    BY <2>1, <2>3, StepKeepsOthers DEF IInv, Progress, Leaving
  <2> QED
    BY <2>2, <2>3 DEF IInv
<1>2. CASE UNCHANGED vars
  BY <1>2 DEF vars, IInv, TypeOK, Progress, Leaving
<1> QED
  BY <1>1, <1>2

\* Every state is well typed, and the work of a hand-over, its Data and its
\* caller agree on how far it is (gproxy.hpp:85-124, 219-278).
THEOREM InvariantCorrect == Spec => []IInv
<1>1. Init => IInv
  BY DEF Init, NotDone, IInv, TypeOK, Progress, Leaving, Callers, Sources
<1> QED
  BY <1>1, Inductive, PTL DEF Spec

\* TypeOK, as the runs check it (gproxy.hpp:86-97, 224-237).
THEOREM TypeCorrect == Spec => []TypeOK
<1>1. IInv => TypeOK
  BY DEF IInv
<1> QED
  BY <1>1, InvariantCorrect, PTL

\* The Data of a hand-over is there until done is written to it, whatever
\* wakes its caller up (gproxy.hpp:120-123, 270-273).
THEOREM FrameCorrect == Spec => []FrameInUse
<1>1. IInv => FrameInUse
  BY DEF IInv, TypeOK, Progress, Leaving, FrameInUse, Returned
<1> QED
  BY <1>1, InvariantCorrect, PTL

\* How a hand-over looks to its caller, in each of the three cases of
\* statusBar in which it is in progress.
LEMMA StatusDone ==
    ASSUME NEW h \in Handovers
    PROVE  /\ caller[h] = "idle" => statusBar[h] = "idle"
           /\ Returned(h) => statusBar[h] = caller[h]
           /\ caller[h] \notin {"idle", "returned", "threw"} /\ outcome[h] = "none"
                => statusBar[h] = "pending"
           /\ caller[h] \notin {"idle", "returned", "threw"} /\ outcome[h] # "none"
                => statusBar[h] = outcome[h]
  BY DEF statusBar, Returned

\* A step of a hand-over is a step of the call it implements, or changes
\* nothing of it.
LEMMA StepRefines ==
    ASSUME IInv, NEW h \in Handovers, Caller(h) \/ Dispatcher(h)
    PROVE  [Remote!Next]_statusBar
<1> DEFINE s == statusBar[h]
           t == statusBar'[h]
<1>1. statusBar' = [statusBar EXCEPT ![h] = t]
  <2>1. ASSUME NEW g \in Handovers, g # h PROVE statusBar'[g] = statusBar[g]
    BY <2>1, StepKeepsOthers DEF statusBar, Returned
  <2> QED
    BY <2>1 DEF statusBar
<1>2. \/ s = t
      \/ s = "idle" /\ t = "pending"
      \/ s = "pending" /\ t = "made"
      \/ s = "pending" /\ t = "failed" /\ h \in CanFail
      \/ s = "made" /\ t = "returned"
      \/ s = "failed" /\ t = "threw"
  <2> USE DEF IInv, TypeOK, Progress, Leaving, Callers, Sources, statusBar, Returned
  <2>1. CASE Invoke(h)
    BY <2>1 DEF Invoke
  <2>2. CASE Test(h)
    BY <2>2 DEF Test, InvokeReturned, MayReturn, Result
  <2>3. CASE Block(h)
    BY <2>3 DEF Block
  <2>4. CASE SpuriousWakeup(h)
    BY <2>4 DEF SpuriousWakeup
  <2>5. CASE Run(h)
    BY <2>5 DEF Run
  <2>6. CASE SetDone(h)
    BY <2>6 DEF SetDone
  <2>7. CASE NotifyAll(h)
    BY <2>7 DEF NotifyAll
  <2> QED
    BY <2>1, <2>2, <2>3, <2>4, <2>5, <2>6, <2>7 DEF Caller, Dispatcher
<1>3. s = t => UNCHANGED statusBar
  BY <1>1 DEF statusBar
<1> QED
  BY <1>1, <1>2, <1>3
     DEF Remote!Next, Remote!Start, Remote!Work, Remote!Return, Remote!Throw, Remote!Move

\* Whoever constructs a proxy or an agent or connects a signal makes a
\* RemoteCall: the work is done once, before the call returns, and its failure
\* is what is thrown (gproxy.hpp:85-124, 219-278, gconnman_agent.cpp:54-92).
THEOREM Refinement == Spec => ImplementsRemoteCall
<1>1. Init => Remote!Init
  BY DEF Init, Remote!Init, statusBar
<1>2. IInv /\ [Next]_vars => [Remote!Next]_statusBar
  <2>1. ASSUME IInv, Next PROVE [Remote!Next]_statusBar
    BY <2>1, StepRefines DEF Next
  <2>2. UNCHANGED vars => UNCHANGED statusBar
    BY DEF vars, statusBar, Returned
  <2> QED
    BY <2>1, <2>2
<1> QED
  BY <1>1, <1>2, InvariantCorrect, PTL DEF Spec, Remote!Spec, ImplementsRemoteCall
==============================================================================
