---------------------------- MODULE ConnmanProofs -----------------------------
(***************************************************************************)
(* The Manager is not used after it is destroyed, and is destroyed while   *)
(* connection_ is there, for any calls of the application and any number   *)
(* of signals.                                                             *)
(***************************************************************************)
EXTENDS Connman, TLAPS

IsSend(source) == source.kind = "send"
IsAnswer(source) == source.kind \in {"ok", "error"}

\* The source is about the call.
About(source, c) == (IsSend(source) \/ IsAnswer(source)) /\ source.call = c

\* A call that is counted is under way in one place at most, and while it is,
\* or GLib refers to the proxy for it, it is pending.
Once(c) ==
    /\ \A i, j \in 1..Len(ctx) : About(ctx[i], c) /\ About(ctx[j], c) => i = j
    /\ \A i, j \in 1..Len(requests) : requests[i] = c /\ requests[j] = c => i = j
    /\ \A i \in 1..Len(ctx), j \in 1..Len(requests) :
          ~(About(ctx[i], c) /\ requests[j] = c)

Pending(c) ==
    \/ c \in held
    \/ \E i \in 1..Len(ctx) : About(ctx[i], c)
    \/ \E j \in 1..Len(requests) : requests[j] = c
  => status[c] = "pending"

\* GLib refers to the proxy for a call that is not counted between sending it
\* and dispatching its answer.
RawHeld ==
    \A c \in held \cap Raw :
       \/ \E i \in 1..Len(ctx) : IsAnswer(ctx[i]) /\ ctx[i].call = c
       \/ \E j \in 1..Len(requests) : requests[j] = c

\* Nothing of the calls that carry a raw pointer is under way.
RawGone ==
    /\ \A i \in 1..Len(ctx) : \A c \in Raw : ~About(ctx[i], c)
    /\ \A j \in 1..Len(requests) : requests[j] \notin Raw

\* The Clock's GetProperties never overtakes them: on its way to connman,
\* there, and on its way back.
SentLast ==
    \A i, j \in 1..Len(ctx) :
       IsSend(ctx[i]) /\ ctx[i].call \in Raw
          /\ About(ctx[j], "GetProperties") => IsSend(ctx[j]) /\ i < j
AskedLast ==
    \A j \in 1..Len(requests) : requests[j] = "GetProperties" =>
       /\ \A i \in 1..Len(ctx) : ~(IsSend(ctx[i]) /\ ctx[i].call \in Raw)
       /\ \A i \in 1..Len(requests) : requests[i] \in Raw => i < j
AnsweredLast ==
    \A j \in 1..Len(ctx) : IsAnswer(ctx[j]) /\ ctx[j].call = "GetProperties" =>
       /\ \A i \in 1..Len(ctx) : IsAnswer(ctx[i]) /\ ctx[i].call \in Raw => i < j
       /\ \A i \in 1..Len(requests) : requests[i] \notin Raw

NeverOvertakes ==
    /\ SentLast /\ AskedLast /\ AnsweredLast
    /\ status["GetProperties"] = "done" => RawGone

\* How far the constructor or the destructor is, and what is there then.
Building ==
    { <<"GetTechnologies", "GetServices", "connect", "GetProperties">>,
      <<"GetServices", "connect", "GetProperties">>,
      <<"connect", "GetProperties">>, <<"GetProperties">> }

Stages ==
    {CtorSteps, <<>>, DtorSteps, <<"joined", "manager", "bus", "drain">>,
     <<"manager", "bus", "drain">>, <<"bus", "drain">>, <<"drain">>} \cup Building

Stage ==
    \/ /\ main = CtorSteps
       /\ ~manager_ /\ bus /\ ~draining /\ phase = "open"
       /\ status["GetProperties"] = "idle"
    \/ /\ main \in Building
       /\ manager_ /\ bus /\ ~draining /\ phase = "open"
       /\ status["GetProperties"] = "idle"
    \/ /\ main \in {<<>>, DtorSteps}
       /\ manager_ /\ bus /\ ~draining /\ phase = "open"
       /\ status["GetProperties"] # "idle"
    \/ /\ main = <<"joined", "manager", "bus", "drain">>
       /\ manager_ /\ bus /\ ~draining /\ phase = "stopping"
       /\ "GetProperties" \in awaited
    \/ /\ main = <<"manager", "bus", "drain">>
       /\ manager_ /\ bus /\ ~draining /\ phase = "stopped"
       /\ status["GetProperties"] = "done"
    \/ /\ main = <<"bus", "drain">>
       /\ ~manager_ /\ bus /\ ~draining /\ phase \in {"stopping", "stopped"}
    \/ /\ main = <<"drain">>
       /\ ~manager_ /\ bus /\ draining /\ phase = "stopped"
    \/ /\ main = <<>>
       /\ ~manager_ /\ ~bus /\ ~draining /\ phase = "stopped"

Traffic ==
    /\ \A c \in Counted : Once(c) /\ Pending(c)
    /\ RawHeld
    /\ NeverOvertakes
    /\ ~manager_ => RawGone

IInv == TypeOK /\ Stage /\ Traffic /\ NoUseAfterFree

------------------------------------------------------------------------------
(* Sequences and sources.                                                   *)

\* What it means to append to a sequence.
LEMMA Appended ==
    ASSUME NEW S, NEW s \in Seq(S), NEW e \in S
    PROVE  /\ Append(s, e) \in Seq(S)
           /\ Len(Append(s, e)) = Len(s) + 1
           /\ Len(s) \in Nat
           /\ \A i \in 1..Len(s) : Append(s, e)[i] = s[i]
           /\ Append(s, e)[Len(s) + 1] = e
  OBVIOUS

\* What it means to take the first element of a sequence.
LEMMA Taken ==
    ASSUME NEW S, NEW s \in Seq(S), s # <<>>
    PROVE  /\ Tail(s) \in Seq(S)
           /\ Len(s) \in Nat /\ Len(s) > 0
           /\ Len(Tail(s)) = Len(s) - 1
           /\ Head(s) = s[1] /\ s[1] \in S
           /\ \A i \in 1..Len(s) - 1 : Tail(s)[i] = s[i + 1]
           /\ \A i \in 1..Len(s) - 1 : i + 1 \in 1..Len(s)
  OBVIOUS

\* The sources there are.
LEMMA SourceKinds ==
    /\ Signal \in Sources /\ ~IsSend(Signal) /\ ~IsAnswer(Signal)
    /\ Connect \in Sources /\ ~IsSend(Connect) /\ ~IsAnswer(Connect)
    /\ \A c \in Calls : \A kind \in {"send", "ok", "error"} :
          /\ [kind |-> kind, call |-> c] \in Sources
          /\ [kind |-> kind, call |-> c].kind = kind
          /\ [kind |-> kind, call |-> c].call = c
  BY DEF Sources, Signal, Connect, IsSend, IsAnswer

------------------------------------------------------------------------------
(* What a step can do to the calls that are under way.                      *)

\* The source of a call is attached: a call that is not counted while the
\* Clock has not been asked yet, or a counted one that begins.
LEMMA SendAttached ==
    ASSUME TypeOK, Traffic, NEW c \in Calls,
           ctx' = Append(ctx, [kind |-> "send", call |-> c]),
           UNCHANGED <<requests, held, manager_>>,
           \/ /\ c \in Raw /\ manager_
              /\ status["GetProperties"] = "idle" /\ status' = status
           \/ /\ c \in Counted /\ status[c] = "idle"
              /\ status' = [status EXCEPT ![c] = "pending"]
    PROVE  Traffic'
<1> DEFINE n == Len(ctx) + 1
<1>1. /\ Len(ctx) \in Nat /\ Len(ctx') = n
      /\ \A i \in 1..Len(ctx) : ctx'[i] = ctx[i]
      /\ ctx'[n].kind = "send" /\ ctx'[n].call = c
    BY SourceKinds, Appended DEF TypeOK
<1>2. 1..Len(ctx') = 1..Len(ctx) \cup {n}
    BY <1>1
<1>3. "GetProperties" \in Counted /\ Raw \cap Counted = {} /\ Calls = Raw \cup Counted
    BY ConnmanAssumption DEF Raw, Counted, Calls
<1>4. \A d \in Counted : d # c => status'[d] = status[d]
    BY <1>3 DEF TypeOK
<1>5. c \in Counted => status'[c] = "pending" /\ status[c] = "idle"
    BY <1>3 DEF TypeOK
<1> HIDE DEF n
<1> USE DEF IsSend, IsAnswer, About
<1>6. ASSUME NEW d \in Counted PROVE Once(d)' /\ Pending(d)'
    <2>1. Once(d) /\ Pending(d)
        BY DEF Traffic
    <2>2. CASE d = c
        BY <1>1, <1>2, <1>5, <2>1, <2>2 DEF Once, Pending
    <2>3. CASE d # c
        BY <1>1, <1>2, <1>4, <2>1, <2>3 DEF Once, Pending
    <2> QED
        BY <2>2, <2>3
<1>7. RawHeld'
    BY <1>1, <1>2 DEF Traffic, RawHeld
<1>8. RawGone /\ c \notin Raw => RawGone'
    BY <1>1, <1>2 DEF RawGone
<1>9. NeverOvertakes'
    <2>1. Pending("GetProperties")
        BY <1>3 DEF Traffic
    <2>2. SentLast' /\ AskedLast' /\ AnsweredLast'
        <3>1. CASE c \in Raw
            BY <1>1, <1>2, <1>3, <2>1, <3>1 DEF Traffic, Pending, NeverOvertakes, SentLast, AskedLast, AnsweredLast
        <3>2. CASE c = "GetProperties"
            BY <1>1, <1>2, <1>3, <1>5, <2>1, <3>2 DEF Traffic, Pending, NeverOvertakes, SentLast, AskedLast, AnsweredLast
        <3>3. CASE c \notin Raw \cup {"GetProperties"}
            BY <1>1, <1>2, <3>3 DEF Traffic, NeverOvertakes, SentLast, AskedLast, AnsweredLast
        <3> QED
            BY <3>1, <3>2, <3>3
    <2>3. status'["GetProperties"] = "done" => status["GetProperties"] = "done" /\ c \notin Raw
        BY <1>3, <1>4, <1>5
    <2> QED
        BY <1>8, <2>2, <2>3 DEF Traffic, NeverOvertakes
<1>10. ~manager_' => RawGone'
    BY <1>3, <1>8 DEF Traffic
<1> QED
    BY <1>6, <1>7, <1>9, <1>10 DEF Traffic

\* A source that is about no call is attached.
LEMMA OtherAttached ==
    ASSUME TypeOK, Traffic, NEW source \in Sources, ~IsSend(source), ~IsAnswer(source),
           ctx' = Append(ctx, source),
           UNCHANGED <<requests, held, manager_, status>>
    PROVE  Traffic'
<1> DEFINE n == Len(ctx) + 1
<1>1. /\ Len(ctx) \in Nat /\ Len(ctx') = n
      /\ \A i \in 1..Len(ctx) : ctx'[i] = ctx[i]
      /\ ctx'[n].kind \notin {"send", "ok", "error"}
    BY Appended DEF TypeOK, IsSend, IsAnswer
<1>2. 1..Len(ctx') = 1..Len(ctx) \cup {n}
    BY <1>1
<1> HIDE DEF n
<1> USE DEF IsSend, IsAnswer, About
<1>3. ASSUME NEW d \in Counted PROVE Once(d)' /\ Pending(d)'
    BY <1>1, <1>2 DEF Traffic, Once, Pending
<1>4. RawHeld'
    BY <1>1, <1>2 DEF Traffic, RawHeld
<1>5. RawGone => RawGone'
    BY <1>1, <1>2 DEF RawGone
<1>6. SentLast' /\ AskedLast' /\ AnsweredLast'
    BY <1>1, <1>2 DEF Traffic, NeverOvertakes, SentLast, AskedLast, AnsweredLast
<1> QED
    BY <1>3, <1>4, <1>5, <1>6 DEF Traffic, NeverOvertakes

\* connman answers the oldest call.
LEMMA CallAnswered ==
    ASSUME TypeOK, Traffic, requests # <<>>, NEW kind \in {"ok", "error"},
           requests' = Tail(requests),
           ctx' = Append(ctx, [kind |-> kind, call |-> Head(requests)]),
           UNCHANGED <<held, manager_, status>>
    PROVE  Traffic'
<1> DEFINE n == Len(ctx) + 1
           c == Head(requests)
<1>1. /\ Len(requests) \in Nat /\ Len(requests) > 0 /\ Len(requests') = Len(requests) - 1
      /\ c = requests[1] /\ c \in Calls
      /\ \A j \in 1..Len(requests') : requests'[j] = requests[j + 1] /\ j + 1 \in 1..Len(requests)
    BY Taken DEF TypeOK
<1>2. /\ Len(ctx) \in Nat /\ Len(ctx') = n
      /\ \A i \in 1..Len(ctx) : ctx'[i] = ctx[i]
      /\ ctx'[n].kind = kind /\ ctx'[n].call = c
    BY <1>1, SourceKinds, Appended DEF TypeOK
<1>3. 1..Len(ctx') = 1..Len(ctx) \cup {n}
    BY <1>2
<1>4. 1 \in 1..Len(requests)
    BY <1>1
<1>5. \A j \in 1..Len(requests) : j = 1 \/ (j - 1 \in 1..Len(requests') /\ requests'[j - 1] = requests[j])
    BY <1>1
<1>6. "GetProperties" \notin Raw /\ "GetProperties" \in Counted
    BY DEF Raw, Counted
<1> HIDE DEF n, c
<1> USE DEF IsSend, IsAnswer, About
<1>7. ASSUME NEW d \in Counted PROVE Once(d)' /\ Pending(d)'
    <2>1. Once(d) /\ Pending(d)
        BY DEF Traffic
    <2>2. Once(d)'
        BY <1>1, <1>2, <1>3, <1>4, <2>1 DEF Once
    <2>3. Pending(d)'
        BY <1>1, <1>2, <1>3, <1>4, <2>1 DEF Pending
    <2> QED
        BY <2>2, <2>3
<1>8. RawHeld'
    <2> SUFFICES ASSUME NEW d \in held \cap Raw,
                        ~\E j \in 1..Len(requests') : requests'[j] = d
                 PROVE  \E i \in 1..Len(ctx') : IsAnswer(ctx'[i]) /\ ctx'[i].call = d
        BY DEF RawHeld
    <2>1. CASE \E j \in 1..Len(requests) : requests[j] = d
        BY <1>1, <1>2, <1>3, <1>5, <2>1
    <2>2. CASE \E i \in 1..Len(ctx) : IsAnswer(ctx[i]) /\ ctx[i].call = d
        BY <1>2, <1>3, <2>2
    <2> QED
        BY <2>1, <2>2 DEF Traffic, RawHeld
<1>9. RawGone => RawGone'
    BY <1>1, <1>2, <1>3, <1>4 DEF RawGone
<1>10. SentLast'
    BY <1>1, <1>2, <1>3, <1>4 DEF Traffic, NeverOvertakes, SentLast, AskedLast
<1>11. AskedLast'
    BY <1>1, <1>2, <1>3, <1>4 DEF Traffic, NeverOvertakes, AskedLast
<1>12. AnsweredLast'
    <2>1. CASE c = "GetProperties"
        <3>1. \A j \in 1..Len(requests') : requests'[j] \notin Raw
            <4>1. \A i \in 1..Len(requests) : requests[i] \in Raw => i < 1
                BY <1>1, <1>4, <2>1 DEF Traffic, NeverOvertakes, AskedLast
            <4> QED
                BY <1>1, <4>1
        <3>2. \A i \in 1..Len(ctx') :
                 IsAnswer(ctx'[i]) /\ ctx'[i].call \in Raw => i \in 1..Len(ctx)
            BY <1>2, <1>3, <1>6, <2>1
        <3>3. \A i \in 1..Len(ctx) : i < n
            BY <1>2 DEF n
        <3> QED
            BY <1>2, <1>3, <3>1, <3>2, <3>3 DEF Traffic, NeverOvertakes, AnsweredLast
    <2>2. CASE c # "GetProperties"
        BY <1>1, <1>2, <1>3, <1>4, <1>6, <2>2 DEF Traffic, NeverOvertakes, AnsweredLast
    <2> QED
        BY <2>1, <2>2
<1> QED
    BY <1>7, <1>8, <1>9, <1>10, <1>11, <1>12 DEF Traffic, NeverOvertakes

\* What is left of ctx_ when its first source is taken.
LEMMA SourceTaken ==
    ASSUME TypeOK, ctx # <<>>, ctx' = Tail(ctx)
    PROVE  /\ Len(ctx) \in Nat /\ Len(ctx) > 0 /\ Len(ctx') = Len(ctx) - 1
           /\ Head(ctx) = ctx[1] /\ 1 \in 1..Len(ctx)
           /\ \A i \in 1..Len(ctx') : ctx'[i] = ctx[i + 1] /\ i + 1 \in 1..Len(ctx)
           /\ \A i \in 1..Len(ctx) :
                 i = 1 \/ (i - 1 \in 1..Len(ctx') /\ ctx'[i - 1] = ctx[i])
<1>1. /\ Len(ctx) \in Nat /\ Len(ctx) > 0 /\ Len(ctx') = Len(ctx) - 1
      /\ Head(ctx) = ctx[1]
      /\ \A i \in 1..Len(ctx') : ctx'[i] = ctx[i + 1] /\ i + 1 \in 1..Len(ctx)
    BY Taken DEF TypeOK
<1> QED
    BY <1>1

\* A source that is about no call is dispatched.
LEMMA OtherTaken ==
    ASSUME TypeOK, Traffic, ctx # <<>>, ~IsSend(Head(ctx)), ~IsAnswer(Head(ctx)),
           ctx' = Tail(ctx),
           UNCHANGED <<requests, held, manager_, status>>
    PROVE  Traffic'
<1> USE SourceTaken DEF IsSend, IsAnswer, About
<1>1. ASSUME NEW d \in Counted PROVE Once(d)' /\ Pending(d)'
    <2>1. Once(d) /\ Pending(d)
        BY DEF Traffic
    <2> QED
        BY <2>1 DEF Once, Pending
<1>2. RawHeld'
    <2> SUFFICES ASSUME NEW d \in held \cap Raw,
                        \E i \in 1..Len(ctx) : IsAnswer(ctx[i]) /\ ctx[i].call = d
                 PROVE  \E i \in 1..Len(ctx') : IsAnswer(ctx'[i]) /\ ctx'[i].call = d
        BY DEF Traffic, RawHeld
    <2>1. PICK i \in 1..Len(ctx) : IsAnswer(ctx[i]) /\ ctx[i].call = d
        OBVIOUS
    <2>2. i - 1 \in 1..Len(ctx') /\ ctx'[i - 1] = ctx[i]
        BY <2>1
    <2> QED
        BY <2>1, <2>2
<1>3. RawGone => RawGone'
    BY DEF RawGone
<1>4. SentLast' /\ AskedLast' /\ AnsweredLast'
    BY DEF Traffic, NeverOvertakes, SentLast, AskedLast, AnsweredLast
<1> QED
    BY <1>1, <1>2, <1>3, <1>4 DEF Traffic, NeverOvertakes

\* A call is sent to connman.
LEMMA SendTaken ==
    ASSUME TypeOK, Traffic, ctx # <<>>, NEW c \in Calls,
           Head(ctx) = [kind |-> "send", call |-> c],
           ctx' = Tail(ctx), requests' = Append(requests, c),
           held' = held \cup ProxyOf(c),
           UNCHANGED <<manager_, status>>
    PROVE  Traffic'
<1> DEFINE n == Len(requests) + 1
<1>1. /\ Len(requests) \in Nat /\ Len(requests') = n
      /\ \A j \in 1..Len(requests) : requests'[j] = requests[j]
      /\ requests'[n] = c
    BY Appended DEF TypeOK
<1>2. 1..Len(requests') = 1..Len(requests) \cup {n}
    BY <1>1
<1>3. ctx[1].kind = "send" /\ ctx[1].call = c
    BY SourceTaken
<1>4. "GetProperties" \notin Raw /\ "GetProperties" \in Counted
    BY DEF Raw, Counted
<1> HIDE DEF n
<1> USE SourceTaken DEF IsSend, IsAnswer, About
<1>5. ASSUME NEW d \in Counted PROVE Once(d)' /\ Pending(d)'
    <2>1. Once(d) /\ Pending(d)
        BY DEF Traffic
    <2>2. Once(d)'
        BY <1>1, <1>2, <1>3, <2>1 DEF Once
    <2>3. Pending(d)'
        BY <1>1, <1>2, <1>3, <2>1 DEF Pending, ProxyOf
    <2> QED
        BY <2>2, <2>3
<1>6. RawHeld'
    <2> SUFFICES ASSUME NEW d \in held' \cap Raw
                 PROVE  \/ \E i \in 1..Len(ctx') : IsAnswer(ctx'[i]) /\ ctx'[i].call = d
                        \/ \E j \in 1..Len(requests') : requests'[j] = d
        BY DEF RawHeld
    <2>1. CASE d = c
        BY <1>1, <1>2, <2>1
    <2>2. CASE d # c
        <3>1. d \in held \cap Raw
            BY <2>2 DEF ProxyOf
        <3>2. CASE \E i \in 1..Len(ctx) : IsAnswer(ctx[i]) /\ ctx[i].call = d
            <4>1. PICK i \in 1..Len(ctx) : IsAnswer(ctx[i]) /\ ctx[i].call = d
                BY <3>2
            <4>2. i - 1 \in 1..Len(ctx') /\ ctx'[i - 1] = ctx[i]
                BY <1>3, <4>1
            <4> QED
                BY <4>1, <4>2
        <3>3. CASE \E j \in 1..Len(requests) : requests[j] = d
            BY <1>1, <1>2, <3>3
        <3> QED
            BY <3>1, <3>2, <3>3 DEF Traffic, RawHeld
    <2> QED
        BY <2>1, <2>2
<1>7. RawGone => RawGone'
    BY <1>1, <1>2, <1>3 DEF RawGone
<1>8. SentLast'
    BY DEF Traffic, NeverOvertakes, SentLast
<1>9. AskedLast'
    <2>1. CASE c = "GetProperties"
        <3>1. \A i \in 1..Len(ctx) : ~(IsSend(ctx[i]) /\ ctx[i].call \in Raw)
            BY <1>3, <1>4, <2>1 DEF Traffic, NeverOvertakes, SentLast
        <3>2. \A i \in 1..Len(ctx') : ~(IsSend(ctx'[i]) /\ ctx'[i].call \in Raw)
            BY <3>1
        <3>3. \A j \in 1..Len(requests) : requests[j] # "GetProperties"
            BY <1>3, <1>4, <2>1 DEF Traffic, Once
        <3>4. \A i \in 1..Len(requests') : requests'[i] \in Raw => i \in 1..Len(requests)
            BY <1>1, <1>2, <1>4, <2>1
        <3>5. \A i \in 1..Len(requests) : i < n
            BY <1>1 DEF n
        <3> QED
            BY <1>1, <1>2, <3>2, <3>3, <3>4, <3>5 DEF AskedLast
    <2>2. CASE c # "GetProperties"
        BY <1>1, <1>2, <1>3, <1>4, <2>2 DEF Traffic, NeverOvertakes, AskedLast
    <2> QED
        BY <2>1, <2>2
<1>10. AnsweredLast'
    <2>1. CASE c \in Raw
        BY <1>1, <1>2, <1>3, <2>1 DEF Traffic, NeverOvertakes, AnsweredLast, SentLast
    <2>2. CASE c \notin Raw
        BY <1>1, <1>2, <1>3, <2>2 DEF Traffic, NeverOvertakes, AnsweredLast
    <2> QED
        BY <2>1, <2>2
<1> QED
    BY <1>5, <1>6, <1>7, <1>8, <1>9, <1>10 DEF Traffic, NeverOvertakes

\* An answer is dispatched; the call is done if it is counted.
LEMMA AnswerTaken ==
    ASSUME TypeOK, Traffic, ctx # <<>>, NEW c \in Calls,
           NEW kind \in {"ok", "error"},
           Head(ctx) = [kind |-> kind, call |-> c],
           ctx' = Tail(ctx), held' = held \ {c},
           UNCHANGED <<requests, manager_>>,
           IF c \in Counted THEN status' = [status EXCEPT ![c] = "done"]
                            ELSE status' = status
    PROVE  Traffic'
<1>1. ctx[1].kind = kind /\ ctx[1].call = c
    BY SourceTaken
<1>2. "GetProperties" \notin Raw /\ "GetProperties" \in Counted
    BY DEF Raw, Counted
<1>3. \A d \in Counted : d # c => status'[d] = status[d]
    BY DEF TypeOK
<1> USE SourceTaken DEF IsSend, IsAnswer, About
<1>4. ASSUME NEW d \in Counted PROVE Once(d)' /\ Pending(d)'
    <2>1. Once(d) /\ Pending(d)
        BY DEF Traffic
    <2>2. Once(d)'
        BY <2>1 DEF Once
    <2>3. Pending(d)'
        <3>1. CASE d = c
            BY <1>1, <2>1, <3>1 DEF Once, Pending
        <3>2. CASE d # c
            BY <1>1, <1>3, <2>1, <3>2 DEF Pending
        <3> QED
            BY <3>1, <3>2
    <2> QED
        BY <2>2, <2>3
<1>5. RawHeld'
    <2> SUFFICES ASSUME NEW d \in held \cap Raw, d # c
                 PROVE  \/ \E i \in 1..Len(ctx') : IsAnswer(ctx'[i]) /\ ctx'[i].call = d
                        \/ \E j \in 1..Len(requests) : requests[j] = d
        BY DEF RawHeld
    <2>1. CASE \E i \in 1..Len(ctx) : IsAnswer(ctx[i]) /\ ctx[i].call = d
        BY <1>1, <2>1
    <2> QED
        BY <2>1 DEF Traffic, RawHeld
<1>6. RawGone => RawGone'
    BY DEF RawGone
<1>7. SentLast' /\ AskedLast'
    BY DEF Traffic, NeverOvertakes, SentLast, AskedLast
<1>8. AnsweredLast'
    BY DEF Traffic, NeverOvertakes, AnsweredLast
<1>9. status'["GetProperties"] = "done" => RawGone'
    <2>1. CASE c = "GetProperties"
        <3>1. \A j \in 1..Len(requests) : requests[j] \notin Raw
            BY <1>1, <2>1 DEF Traffic, NeverOvertakes, AnsweredLast
        <3>2. \A i \in 1..Len(ctx) : ~(IsSend(ctx[i]) /\ ctx[i].call \in Raw)
            BY <1>1, <2>1 DEF Traffic, NeverOvertakes, SentLast
        <3>3. \A i \in 1..Len(ctx) : ~(IsAnswer(ctx[i]) /\ ctx[i].call \in Raw)
            BY <1>1, <2>1 DEF Traffic, NeverOvertakes, AnsweredLast
        <3> QED
            BY <3>1, <3>2, <3>3 DEF RawGone
    <2>2. CASE c # "GetProperties"
        BY <1>2, <1>3, <1>6, <2>2 DEF Traffic, NeverOvertakes
    <2> QED
        BY <2>1, <2>2
<1> QED
    BY <1>4, <1>5, <1>6, <1>7, <1>8, <1>9 DEF Traffic, NeverOvertakes

\* A callback makes a call of the application, which is sent at once; it is a
\* callback of a call, or the one of a signal, which is taken.
LEMMA CallSent ==
    ASSUME TypeOK, Traffic, NEW d \in UserCalls, status[d] = "idle",
           status' = [status EXCEPT ![d] = "pending"],
           requests' = Append(requests, d), held' = held \cup {d},
           UNCHANGED manager_,
           \/ ctx' = ctx
           \/ /\ ctx # <<>> /\ ctx' = Tail(ctx)
              /\ ~IsSend(Head(ctx)) /\ ~IsAnswer(Head(ctx))
    PROVE  Traffic'
<1> DEFINE n == Len(requests) + 1
<1>1. d \in Counted /\ d \in Calls /\ d \notin Raw /\ d # "GetProperties"
      /\ "GetProperties" \in Counted
    BY ConnmanAssumption DEF Counted, Calls, Raw
<1>2. /\ Len(requests) \in Nat /\ Len(requests') = n
      /\ \A j \in 1..Len(requests) : requests'[j] = requests[j]
      /\ requests'[n] = d
    BY <1>1, Appended DEF TypeOK
<1>3. 1..Len(requests') = 1..Len(requests) \cup {n}
    BY <1>2
<1>4. status'[d] = "pending" /\ \A c \in Counted : c # d => status'[c] = status[c]
    BY <1>1 DEF TypeOK
<1> HIDE DEF n
<1> USE DEF IsSend, IsAnswer, About
<1>5. PICK k \in {0, 1} :
        /\ \A i \in 1..Len(ctx') : i + k \in 1..Len(ctx) /\ ctx'[i] = ctx[i + k]
        /\ \A i \in 1..Len(ctx) : IsAnswer(ctx[i]) =>
              i - k \in 1..Len(ctx') /\ ctx'[i - k] = ctx[i]
    <2>1. CASE ctx' = ctx
        <3>1. Len(ctx) \in Nat
            BY DEF TypeOK
        <3> QED
            BY <2>1, <3>1
    <2>2. CASE /\ ctx # <<>> /\ ctx' = Tail(ctx)
               /\ ~IsSend(Head(ctx)) /\ ~IsAnswer(Head(ctx))
        BY <2>2, SourceTaken
    <2> QED
        BY <2>1, <2>2
<1>6. \A i \in 1..Len(ctx') : \E j \in 1..Len(ctx) : ctx'[i] = ctx[j]
    BY <1>5
<1>7. ASSUME NEW c \in Counted PROVE Once(c)' /\ Pending(c)'
    <2>1. Once(c) /\ Pending(c)
        BY DEF Traffic
    <2>2. \A i, j \in 1..Len(ctx') : About(ctx'[i], c) /\ About(ctx'[j], c) => i = j
        <3> SUFFICES ASSUME NEW i \in 1..Len(ctx'), NEW j \in 1..Len(ctx'),
                            About(ctx'[i], c), About(ctx'[j], c)
                     PROVE  i = j
            OBVIOUS
        <3>1. /\ i + k \in 1..Len(ctx) /\ About(ctx[i + k], c)
              /\ j + k \in 1..Len(ctx) /\ About(ctx[j + k], c)
            BY <1>5
        <3>2. i + k = j + k
            BY <2>1, <3>1 DEF Once
        <3> QED
            BY <3>2
    <2>3. /\ \A i, j \in 1..Len(requests') : requests'[i] = c /\ requests'[j] = c => i = j
          /\ \A i \in 1..Len(ctx'), j \in 1..Len(requests') :
                ~(About(ctx'[i], c) /\ requests'[j] = c)
        <3>1. CASE c = d
            <4>1. /\ \A i \in 1..Len(ctx) : ~About(ctx[i], c)
                  /\ \A j \in 1..Len(requests) : requests[j] # c
                BY <2>1, <3>1 DEF Pending
            <4>2. \A i \in 1..Len(ctx') : ~About(ctx'[i], c)
                BY <1>6, <4>1
            <4> QED
                BY <1>2, <1>3, <4>1, <4>2
        <3>2. CASE c # d
            <4>1. /\ \A i, j \in 1..Len(requests) : requests[i] = c /\ requests[j] = c => i = j
                  /\ \A j \in 1..Len(requests') :
                        requests'[j] = c => j \in 1..Len(requests) /\ requests[j] = c
                BY <1>2, <1>3, <2>1, <3>2 DEF Once
            <4>2. \A i \in 1..Len(ctx'), j \in 1..Len(requests') :
                     ~(About(ctx'[i], c) /\ requests'[j] = c)
                <5>1. \A i \in 1..Len(ctx), j \in 1..Len(requests) :
                         ~(About(ctx[i], c) /\ requests[j] = c)
                    BY <2>1 DEF Once
                <5> HIDE DEF About
                <5> QED
                    BY <1>6, <4>1, <5>1
            <4> QED
                BY <4>1, <4>2
        <3> QED
            BY <3>1, <3>2
    <2>4. Pending(c)'
        <3>1. CASE c = d
            BY <1>4, <3>1 DEF Pending
        <3>2. CASE c # d
            <4>1. c \in held' => c \in held
                BY <3>2
            <4>2. (\E i \in 1..Len(ctx') : About(ctx'[i], c))
                     => \E i \in 1..Len(ctx) : About(ctx[i], c)
                BY <1>6
            <4>3. (\E j \in 1..Len(requests') : requests'[j] = c)
                     => \E j \in 1..Len(requests) : requests[j] = c
                BY <1>2, <1>3, <3>2
            <4>4. status'[c] = status[c]
                BY <1>4, <3>2
            <4> QED
                BY <2>1, <4>1, <4>2, <4>3, <4>4 DEF Pending
        <3> QED
            BY <3>1, <3>2
    <2> QED
        BY <2>2, <2>3, <2>4 DEF Once
<1>8. RawHeld'
    <2> SUFFICES ASSUME NEW c \in held \cap Raw
                 PROVE  \/ \E i \in 1..Len(ctx') : IsAnswer(ctx'[i]) /\ ctx'[i].call = c
                        \/ \E j \in 1..Len(requests') : requests'[j] = c
        BY <1>1 DEF RawHeld
    <2>1. CASE \E j \in 1..Len(requests) : requests[j] = c
        BY <1>2, <1>3, <2>1
    <2>2. CASE \E i \in 1..Len(ctx) : IsAnswer(ctx[i]) /\ ctx[i].call = c
        BY <1>5, <2>2
    <2> QED
        BY <2>1, <2>2 DEF Traffic, RawHeld
<1>9. RawGone => RawGone'
    <2> SUFFICES ASSUME RawGone PROVE RawGone'
        OBVIOUS
    <2>1. \A i \in 1..Len(ctx') : \A c \in Raw : ~About(ctx'[i], c)
        <3>1. \A j \in 1..Len(ctx) : \A c \in Raw : ~About(ctx[j], c)
            BY DEF RawGone
        <3> QED
            BY <1>6, <3>1
    <2>2. \A j \in 1..Len(requests') : requests'[j] \notin Raw
        BY <1>1, <1>2, <1>3 DEF RawGone
    <2> QED
        BY <2>1, <2>2 DEF RawGone
<1>10. SentLast'
    <2> SUFFICES ASSUME NEW i \in 1..Len(ctx'), NEW j \in 1..Len(ctx'),
                        IsSend(ctx'[i]), ctx'[i].call \in Raw,
                        About(ctx'[j], "GetProperties")
                 PROVE  IsSend(ctx'[j]) /\ i < j
        BY DEF SentLast
    <2>1. /\ i + k \in 1..Len(ctx) /\ ctx'[i] = ctx[i + k]
          /\ j + k \in 1..Len(ctx) /\ ctx'[j] = ctx[j + k]
        BY <1>5
    <2>2. IsSend(ctx[j + k]) /\ i + k < j + k
        BY <2>1 DEF Traffic, NeverOvertakes, SentLast
    <2> QED
        BY <2>1, <2>2
<1>11. AskedLast'
    <2> SUFFICES ASSUME NEW j \in 1..Len(requests'), requests'[j] = "GetProperties"
                 PROVE  /\ \A i \in 1..Len(ctx') : ~(IsSend(ctx'[i]) /\ ctx'[i].call \in Raw)
                        /\ \A i \in 1..Len(requests') : requests'[i] \in Raw => i < j
        BY DEF AskedLast
    <2>1. j \in 1..Len(requests) /\ requests[j] = "GetProperties"
        BY <1>1, <1>2, <1>3
    <2>2. /\ \A i \in 1..Len(ctx) : ~(IsSend(ctx[i]) /\ ctx[i].call \in Raw)
          /\ \A i \in 1..Len(requests) : requests[i] \in Raw => i < j
        BY <2>1 DEF Traffic, NeverOvertakes, AskedLast
    <2>3. \A i \in 1..Len(ctx') : ~(IsSend(ctx'[i]) /\ ctx'[i].call \in Raw)
        BY <1>6, <2>2
    <2>4. \A i \in 1..Len(requests') : requests'[i] \in Raw => i < j
        BY <1>1, <1>2, <1>3, <2>2
    <2> QED
        BY <2>3, <2>4
<1>12. AnsweredLast'
    <2> SUFFICES ASSUME NEW j \in 1..Len(ctx'),
                        IsAnswer(ctx'[j]) /\ ctx'[j].call = "GetProperties"
                 PROVE  /\ \A i \in 1..Len(ctx') :
                              IsAnswer(ctx'[i]) /\ ctx'[i].call \in Raw => i < j
                        /\ \A i \in 1..Len(requests') : requests'[i] \notin Raw
        BY DEF AnsweredLast
    <2>1. /\ \A i \in 1..Len(ctx) : IsAnswer(ctx[i]) /\ ctx[i].call \in Raw => i < j + k
          /\ \A i \in 1..Len(requests) : requests[i] \notin Raw
        BY <1>5 DEF Traffic, NeverOvertakes, AnsweredLast
    <2>2. \A i \in 1..Len(requests') : requests'[i] \notin Raw
        BY <1>1, <1>2, <1>3, <2>1
    <2>3. ASSUME NEW i \in 1..Len(ctx'), IsAnswer(ctx'[i]) /\ ctx'[i].call \in Raw
          PROVE  i < j
        <3>1. i + k < j + k
            BY <1>5, <2>1, <2>3
        <3> QED
            BY <3>1
    <2> QED
        BY <2>2, <2>3
<1> QED
    BY <1>1, <1>4, <1>7, <1>8, <1>9, <1>10, <1>11, <1>12 DEF Traffic, NeverOvertakes

------------------------------------------------------------------------------
(* Types.                                                                   *)

\* Every stage is a sequence of steps of the constructor or the destructor.
LEMMA StagesTyped ==
    ASSUME NEW m \in Stages PROVE m \in Seq(ToSet(CtorSteps) \cup ToSet(DtorSteps))
<1> DEFINE S == ToSet(CtorSteps) \cup ToSet(DtorSteps)
<1>1. {"Manager", "GetTechnologies", "GetServices", "connect", "GetProperties",
       "stop", "joined", "manager", "bus", "drain"} \subseteq S
    <2>1. {"Manager", "GetTechnologies", "GetServices", "connect", "GetProperties"}
             \subseteq ToSet(CtorSteps)
        <3>1. \A i \in 1..5 : CtorSteps[i] \in ToSet(CtorSteps)
            BY DEF ToSet, CtorSteps
        <3> QED
            BY <3>1 DEF CtorSteps
    <2>2. {"stop", "joined", "manager", "bus", "drain"} \subseteq ToSet(DtorSteps)
        <3>1. \A i \in 1..5 : DtorSteps[i] \in ToSet(DtorSteps)
            BY DEF ToSet, DtorSteps
        <3> QED
            BY <3>1 DEF DtorSteps
    <2> QED
        BY <2>1, <2>2
<1> HIDE DEF S
<1>2. <<>> \in Seq(S)
    OBVIOUS
<1>3. CtorSteps \in Seq(S) /\ DtorSteps \in Seq(S)
    BY <1>1 DEF CtorSteps, DtorSteps
<1>4. Building \subseteq Seq(S)
    BY <1>1 DEF Building
<1>5. {<<"joined", "manager", "bus", "drain">>, <<"manager", "bus", "drain">>,
       <<"bus", "drain">>, <<"drain">>} \subseteq Seq(S)
    BY <1>1
<1>6. m \in Seq(S)
    BY <1>2, <1>3, <1>4, <1>5 DEF Stages
<1> QED
    BY <1>6 DEF S

\* The first step that is left and those after it, at every stage.
LEMMA HeadsAndTails ==
    /\ Head(CtorSteps) = "Manager"
    /\ Tail(CtorSteps) = <<"GetTechnologies", "GetServices", "connect", "GetProperties">>
    /\ \A m \in Building :
          /\ Head(m) \in {"GetTechnologies", "GetServices", "connect", "GetProperties"}
          /\ Head(m) # "GetProperties" => Tail(m) \in Building
          /\ Head(m) = "GetProperties" => Tail(m) = <<>>
    /\ Head(DtorSteps) = "stop"
    /\ Tail(DtorSteps) = <<"joined", "manager", "bus", "drain">>
    /\ Head(<<"joined", "manager", "bus", "drain">>) = "joined"
    /\ Tail(<<"joined", "manager", "bus", "drain">>) = <<"manager", "bus", "drain">>
    /\ Head(<<"manager", "bus", "drain">>) = "manager"
    /\ Tail(<<"manager", "bus", "drain">>) = <<"bus", "drain">>
    /\ Head(<<"bus", "drain">>) = "bus" /\ Tail(<<"bus", "drain">>) = <<"drain">>
    /\ Head(<<"drain">>) = "drain" /\ Tail(<<"drain">>) = <<>>
  BY DEF CtorSteps, DtorSteps, Building

\* Which stage a step is taken in.
LEMMA StepTaken ==
    ASSUME Stage, NEW s, Step(s)
    PROVE  /\ s = Head(main) /\ main # <<>>
           /\ main' = Tail(main)
           /\ s = "Manager" <=> main = CtorSteps
           /\ s \in {"GetTechnologies", "GetServices", "connect", "GetProperties"}
                 <=> main \in Building
           /\ s = "stop" <=> main = DtorSteps
           /\ s = "joined" <=> main = <<"joined", "manager", "bus", "drain">>
           /\ s = "manager" <=> main = <<"manager", "bus", "drain">>
           /\ s = "bus" <=> main = <<"bus", "drain">>
           /\ s = "drain" <=> main = <<"drain">>
<1>1. s = Head(main) /\ main # <<>> /\ main' = Tail(main)
    BY DEF Step
<1>2. main \in Stages \ {<<>>}
    BY <1>1 DEF Stages, Stage
<1> QED
    BY <1>1, <1>2, HeadsAndTails DEF Stages

\* The DBus object stays well typed.
LEMMA BarrierTyped ==
    ASSUME phase \in {"open", "stopping", "stopped"},
           status \in [Counted -> {"idle", "pending", "done"}],
           awaited \subseteq Counted,
           [Bus!Next]_barrierVars
    PROVE  /\ phase' \in {"open", "stopping", "stopped"}
           /\ status' \in [Counted -> {"idle", "pending", "done"}]
           /\ awaited' \subseteq Counted
  BY DEF Bus!Next, Bus!StartCall, Bus!ChainCall, Bus!Begin, Bus!FinishCall,
         Bus!BeginStop, Bus!StopReturns, Bus!With, barrierVars

\* What the steps of calls leave alone, and what they do to the Clock's.
LEMMA CallStep ==
    ASSUME TypeOK, NEW c \in Counted,
           Bus!StartCall(c) \/ Bus!ChainCall(c) \/ Bus!FinishCall(c)
    PROVE  /\ phase' = phase
           /\ awaited \subseteq awaited'
           /\ status' \in [Counted -> {"idle", "pending", "done"}]
           /\ awaited' \subseteq Counted
           /\ status["GetProperties"] = "done" => status'["GetProperties"] = "done"
           /\ status["GetProperties"] # "idle" => status'["GetProperties"] # "idle"
           /\ c # "GetProperties" \/ Bus!FinishCall(c) =>
                 (status["GetProperties"] = "idle" => status'["GetProperties"] = "idle")
<1>1. "GetProperties" \in Counted
    BY DEF Counted
<1> QED
    BY <1>1 DEF TypeOK, Bus!StartCall, Bus!ChainCall, Bus!Begin, Bus!FinishCall

\* Steps that leave the Connman alone and make or finish a call, or do not.
LEMMA StageKept ==
    ASSUME TypeOK, Stage, UNCHANGED ownVars,
           \/ UNCHANGED barrierVars
           \/ \E c \in UserCalls : Bus!StartCall(c) \/ Bus!ChainCall(c)
           \/ \E c \in Counted : Bus!FinishCall(c)
    PROVE  Stage'
<1>1. \/ UNCHANGED barrierVars
      \/ /\ phase' = phase /\ awaited \subseteq awaited'
         /\ status["GetProperties"] = "done" => status'["GetProperties"] = "done"
         /\ status["GetProperties"] # "idle" => status'["GetProperties"] # "idle"
         /\ status["GetProperties"] = "idle" => status'["GetProperties"] = "idle"
    <2>1. CASE \E c \in UserCalls : Bus!StartCall(c) \/ Bus!ChainCall(c)
        <3>1. PICK c \in UserCalls : Bus!StartCall(c) \/ Bus!ChainCall(c)
            BY <2>1
        <3>2. c \in Counted /\ c # "GetProperties"
            BY ConnmanAssumption DEF Counted
        <3> QED
            BY <3>1, <3>2, CallStep
    <2>2. CASE \E c \in Counted : Bus!FinishCall(c)
        BY <2>2, CallStep
    <2> QED
        BY <2>1, <2>2
<1> QED
    BY <1>1 DEF Stage, ownVars, barrierVars

\* Init gives the variables their types and nothing is under way.
LEMMA InitCorrect == Init => IInv
<1> SUFFICES ASSUME Init PROVE IInv
    OBVIOUS
<1>1. CtorSteps \in Stages
    BY DEF Stages
<1>2. TypeOK
    <2>1. {manager_, bus, draining, connected, used} \subseteq BOOLEAN
        BY DEF Init
    <2>2. ctx \in Seq(Sources) /\ requests \in Seq(Calls)
        BY DEF Init
    <2>3. main \in Seq(ToSet(CtorSteps) \cup ToSet(DtorSteps))
        BY <1>1, StagesTyped DEF Init
    <2> QED
        BY <2>1, <2>2, <2>3, ConnmanAssumption DEF TypeOK, Init, Bus!Init
<1>3. Stage
    BY DEF Stage, Init, Bus!Init, Counted
<1>4. Traffic
    BY DEF Init, Traffic, Once, Pending, RawHeld, NeverOvertakes, SentLast, AskedLast,
           AnsweredLast, RawGone
<1> QED
    BY <1>2, <1>3, <1>4 DEF IInv, NoUseAfterFree, Init

\* Each step leads from one stage to the next, or keeps it.
LEMMA StageStep == IInv /\ Next => Stage'
<1> SUFFICES ASSUME TypeOK, Stage, Next PROVE Stage'
    BY DEF IInv
<1> USE HeadsAndTails
<1>1. CASE MakeManager
    <2>1. main = CtorSteps /\ main' = Tail(main)
        BY <1>1, StepTaken DEF MakeManager
    <2>2. main' \in Building
        BY <2>1 DEF Building
    <2>3. bus /\ ~draining /\ phase = "open" /\ status["GetProperties"] = "idle"
        BY <1>1, StepTaken DEF MakeManager, Stage
    <2> QED
        BY <1>1, <2>2, <2>3 DEF MakeManager, Stage, barrierVars
<1>2. CASE ManagerThrows
    BY <1>2 DEF ManagerThrows, Stage, Bus!BeginStop
<1>3. ASSUME NEW c \in Raw, Ask(c) PROVE Stage'
    <2>1. main \in Building /\ main' = Tail(main) /\ Head(main) # "GetProperties"
        BY <1>3, StepTaken DEF Ask, Raw
    <2>2. manager_ /\ bus /\ ~draining /\ phase = "open" /\ status["GetProperties"] = "idle"
        BY <1>3, StepTaken DEF Ask, Raw, Stage
    <2> QED
        BY <1>3, <2>1, <2>2 DEF Ask, Stage, barrierVars
<1>4. CASE BeginConnect
    BY <1>4, StageKept DEF BeginConnect
<1>5. CASE EndConnect
    <2>1. main \in Building /\ main' = Tail(main) /\ Head(main) # "GetProperties"
        BY <1>5, StepTaken DEF EndConnect
    <2>2. manager_ /\ bus /\ ~draining /\ phase = "open" /\ status["GetProperties"] = "idle"
        BY <1>5, StepTaken DEF EndConnect, Stage
    <2> QED
        BY <1>5, <2>1, <2>2 DEF EndConnect, Stage, barrierVars
<1>6. CASE AskClock
    <2>1. "GetProperties" \in Counted
        BY DEF Counted
    <2>2. phase' = phase /\ status'["GetProperties"] = "pending"
        BY <1>6, <2>1 DEF AskClock, Bus!StartCall, Bus!Begin, TypeOK
    <2>3. main \in Building /\ main' = <<>>
        BY <1>6, StepTaken DEF AskClock
    <2>4. manager_ /\ bus /\ ~draining /\ phase = "open"
        BY <1>6, StepTaken DEF AskClock, Stage
    <2> QED
        BY <1>6, <2>2, <2>3, <2>4 DEF AskClock, Stage
<1>7. CASE Destroy
    BY <1>7 DEF Destroy, Stage, barrierVars, Building, CtorSteps
<1>8. CASE Stop
    <2>1. "GetProperties" \in Counted
        BY DEF Counted
    <2>2. main = DtorSteps /\ main' = Tail(main)
        BY <1>8, StepTaken DEF Stop
    <2>3. manager_ /\ bus /\ ~draining /\ status["GetProperties"] # "idle"
        BY <1>8, StepTaken DEF Stop, Stage
    <2>4. phase' = "stopping" /\ "GetProperties" \in awaited'
        BY <1>8, <2>1, <2>3 DEF Stop, Bus!BeginStop, Bus!With
    <2> QED
        BY <1>8, <2>2, <2>3, <2>4 DEF Stop, Stage
<1>9. CASE StopReturns
    <2>1. main = <<"joined", "manager", "bus", "drain">> /\ main' = Tail(main)
        BY <1>9, StepTaken DEF StopReturns
    <2>2. manager_ /\ bus /\ ~draining /\ "GetProperties" \in awaited
        BY <1>9, StepTaken DEF StopReturns, Stage
    <2>3. phase' = "stopped" /\ status'["GetProperties"] = "done"
        BY <1>9, <2>2 DEF StopReturns, Bus!StopReturns, Bus!With
    <2> QED
        BY <1>9, <2>1, <2>2, <2>3 DEF StopReturns, Stage
<1>10. CASE ResetManager
    <2>1. main = <<"manager", "bus", "drain">> /\ main' = Tail(main)
        BY <1>10, StepTaken DEF ResetManager
    <2>2. bus /\ ~draining /\ phase = "stopped"
        BY <1>10, StepTaken DEF ResetManager, Stage
    <2> QED
        BY <1>10, <2>1, <2>2 DEF ResetManager, Stage, barrierVars
<1>11. CASE ResetBus
    <2>1. main = <<"bus", "drain">> /\ main' = Tail(main)
        BY <1>11, StepTaken DEF ResetBus
    <2>2. ~manager_ /\ bus
        BY <1>11, StepTaken DEF ResetBus, Stage
    <2>3. phase' = "stopped"
        BY <1>11 DEF ResetBus, Bus!StopReturns, barrierVars
    <2> QED
        BY <1>11, <2>1, <2>2, <2>3 DEF ResetBus, Stage
<1>12. CASE EndDrain
    <2>1. main = <<"drain">> /\ main' = Tail(main)
        BY <1>12, StepTaken DEF EndDrain
    <2>2. ~manager_ /\ phase = "stopped"
        BY <1>12, StepTaken DEF EndDrain, Stage
    <2> QED
        BY <1>12, <2>1, <2>2 DEF EndDrain, Stage, barrierVars
<1>13. ASSUME NEW c \in UserCalls, UserCall(c) PROVE Stage'
    BY <1>13, StageKept DEF UserCall
<1>14. CASE Answer \/ EmitSignal
    BY <1>14, StageKept DEF Answer, EmitSignal
<1>15. CASE DispatchConnect
    BY <1>15 DEF DispatchConnect, Stage, barrierVars
<1>16. CASE DispatchSignal
    BY <1>16, StageKept DEF DispatchSignal
<1>17. ASSUME NEW c \in Calls, DispatchSend(c) PROVE Stage'
    BY <1>17, StageKept DEF DispatchSend
<1>18. ASSUME NEW c \in Raw, DispatchRaw(c) PROVE Stage'
    BY <1>18, StageKept DEF DispatchRaw
<1>19. ASSUME NEW c \in Counted, DispatchCounted(c) PROVE Stage'
    BY <1>19, StageKept DEF DispatchCounted
<1>20. ASSUME NEW c \in UserCalls, NEW d \in UserCalls, CallbackCalls(c, d) PROVE Stage'
    BY <1>20, StageKept DEF CallbackCalls
<1> QED
    BY <1>1, <1>2, <1>3, <1>4, <1>5, <1>6, <1>7, <1>8, <1>9, <1>10, <1>11, <1>12, <1>13,
       <1>14, <1>15, <1>16, <1>17, <1>18, <1>19, <1>20
       DEF Next, Constructor, Destructor, Dispatch

\* Calls of the application are counted and those of the Manager's
\* constructor are not.
LEMMA CallKinds ==
    /\ Raw \cup Counted = Calls /\ Raw \cap Counted = {}
    /\ UserCalls \subseteq Counted /\ "GetProperties" \in Counted
    /\ "GetProperties" \notin UserCalls
  BY ConnmanAssumption DEF Raw, Counted, Calls

\* The sources that are attached, and the one that is taken.
LEMMA QueuesTyped ==
    ASSUME TypeOK
    PROVE  /\ \A source \in Sources : Append(ctx, source) \in Seq(Sources)
           /\ ctx # <<>> => Tail(ctx) \in Seq(Sources) /\ Head(ctx) \in Sources
           /\ \A c \in Calls : Append(requests, c) \in Seq(Calls)
           /\ requests # <<>> => Tail(requests) \in Seq(Calls) /\ Head(requests) \in Calls
  BY DEF TypeOK

\* What a step can do to each variable that its type depends on.
LEMMA VariableSteps ==
    ASSUME TypeOK, Next
    PROVE  /\ [Bus!Next]_barrierVars
           /\ manager_' \in {manager_, TRUE, FALSE} /\ bus' \in {bus, FALSE}
           /\ draining' \in {draining, TRUE, FALSE} /\ connected' \in {connected, TRUE}
           /\ \/ ctx' = ctx
              \/ ctx # <<>> /\ ctx' = Tail(ctx)
              \/ \E source \in Sources : ctx' = Append(ctx, source)
           /\ \/ requests' = requests
              \/ requests # <<>> /\ requests' = Tail(requests)
              \/ \E c \in Calls : requests' = Append(requests, c)
           /\ \/ held' \subseteq held
              \/ \E c \in Calls \ {"GetProperties"} : held' = held \cup {c}
           /\ signals' = signals \/ (signals < MaxSignals /\ signals' = signals + 1)
           /\ used' = used \/ \E raw \in BOOLEAN : Uses(raw)
<1> USE CallKinds
    DEF Next, Constructor, Destructor, Dispatch, MakeManager, ManagerThrows, Ask, BeginConnect,
        EndConnect, AskClock, Destroy, Stop, StopReturns, ResetManager, ResetBus, EndDrain,
        UserCall, Answer, EmitSignal, DispatchConnect, DispatchSignal, DispatchSend,
        DispatchRaw, DispatchCounted, CallbackCalls, ownVars, netVars
<1>1. [Bus!Next]_barrierVars
    BY DEF Bus!Next
<1>2. /\ manager_' \in {manager_, TRUE, FALSE} /\ bus' \in {bus, FALSE}
      /\ draining' \in {draining, TRUE, FALSE} /\ connected' \in {connected, TRUE}
    OBVIOUS
<1>3. \/ ctx' = ctx
      \/ ctx # <<>> /\ ctx' = Tail(ctx)
      \/ \E source \in Sources : ctx' = Append(ctx, source)
    BY SourceKinds, QueuesTyped DEF Attach, Take
<1>4. \/ requests' = requests
      \/ requests # <<>> /\ requests' = Tail(requests)
      \/ \E c \in Calls : requests' = Append(requests, c)
    OBVIOUS
<1>5. \/ held' \subseteq held
      \/ \E c \in Calls \ {"GetProperties"} : held' = held \cup {c}
    <2>1. \/ held' \subseteq held
          \/ \E c \in Calls \ {"GetProperties"} : held' = held \cup {c}
          \/ \E c \in Calls : held' = held \cup ProxyOf(c)
        OBVIOUS
    <2>2. ASSUME NEW c \in Calls, held' = held \cup ProxyOf(c)
          PROVE  \/ held' \subseteq held
                 \/ \E d \in Calls \ {"GetProperties"} : held' = held \cup {d}
        BY <2>2 DEF ProxyOf
    <2> QED
        BY <2>1, <2>2
<1>6. signals' = signals \/ (signals < MaxSignals /\ signals' = signals + 1)
    OBVIOUS
<1>7. used' = used \/ \E raw \in BOOLEAN : Uses(raw)
    <2>1. used' = used \/ Uses(HandlerRuns) \/ \E kind \in {"ok", "error"} : Uses(kind = "ok")
        OBVIOUS
    <2>2. \A kind : (kind = "ok") \in BOOLEAN
        BY Zenon
    <2>3. HandlerRuns \in BOOLEAN
        BY Zenon DEF HandlerRuns
    <2> QED
        BY <2>1, <2>2, <2>3, Zenon
<1> QED
    BY <1>1, <1>2, <1>3, <1>4, <1>5, <1>6, <1>7

\* Each step keeps the types.
LEMMA TypeStep == IInv /\ Next => TypeOK'
<1> SUFFICES ASSUME TypeOK, Stage', Next PROVE TypeOK'
    BY StageStep DEF IInv
<1>1. main' \in Seq(ToSet(CtorSteps) \cup ToSet(DtorSteps))
    <2>1. main' \in Stages
        BY DEF Stage, Stages
    <2> QED
        BY <2>1, StagesTyped
<1>2. {manager_', bus', draining', connected', used'} \subseteq BOOLEAN
    <2>1. /\ manager_' \in BOOLEAN /\ bus' \in BOOLEAN
          /\ draining' \in BOOLEAN /\ connected' \in BOOLEAN
        BY VariableSteps DEF TypeOK
    <2>2. used' \in BOOLEAN
        <3>1. used' = used \/ \E raw \in BOOLEAN : Uses(raw)
            BY VariableSteps
        <3>2. \A raw \in BOOLEAN : Uses(raw) => used' \in BOOLEAN
            BY Zenon DEF Uses
        <3>3. used \in BOOLEAN
            BY DEF TypeOK
        <3> QED
            BY <3>1, <3>2, <3>3, Zenon
    <2> QED
        BY <2>1, <2>2
<1>3. /\ phase' \in {"open", "stopping", "stopped"}
      /\ status' \in [Counted -> {"idle", "pending", "done"}]
      /\ awaited' \subseteq Counted
    BY VariableSteps, BarrierTyped DEF TypeOK
<1>4. ctx' \in Seq(Sources) /\ requests' \in Seq(Calls)
    BY VariableSteps, QueuesTyped DEF TypeOK
<1>5. held' \subseteq Raw \cup UserCalls /\ signals' \in 0..MaxSignals
    <2>1. Calls \ {"GetProperties"} \subseteq Raw \cup UserCalls
        BY DEF Calls, Counted
    <2>2. held' \subseteq Raw \cup UserCalls
        BY <2>1, VariableSteps DEF TypeOK
    <2>3. signals' \in 0..MaxSignals
        <3>1. signals' = signals \/ (signals < MaxSignals /\ signals' = signals + 1)
            BY VariableSteps
        <3> QED
            BY <3>1, ConnmanAssumption DEF TypeOK
    <2> QED
        BY <2>2, <2>3
<1> QED
    BY <1>1, <1>2, <1>3, <1>4, <1>5 DEF TypeOK

\* Each step keeps the calls that are under way in order.
LEMMA TrafficStep == IInv /\ Next => Traffic'
<1> SUFFICES ASSUME TypeOK, Stage, Traffic, Next PROVE Traffic'
    BY DEF IInv
<1> USE CallKinds
<1>1. ASSUME UNCHANGED <<ctx, requests, held, status>>, ~manager_' => ~manager_ \/ RawGone
      PROVE  Traffic'
    BY <1>1 DEF Traffic, Once, Pending, RawHeld, NeverOvertakes, SentLast, AskedLast,
                AnsweredLast, RawGone
<1>2. CASE MakeManager \/ ManagerThrows \/ EndConnect \/ Destroy
    BY <1>1, <1>2 DEF MakeManager, ManagerThrows, EndConnect, Destroy, netVars,
                      barrierVars, Bus!BeginStop
<1>3. CASE Stop \/ StopReturns \/ ResetBus \/ EndDrain
    BY <1>1, <1>3 DEF Stop, StopReturns, ResetBus, EndDrain, netVars, barrierVars,
                      Bus!BeginStop, Bus!StopReturns
<1>4. CASE ResetManager
    <2>1. status["GetProperties"] = "done"
        BY <1>4, StepTaken, HeadsAndTails DEF ResetManager, Stage
    <2> QED
        BY <1>1, <1>4, <2>1 DEF ResetManager, netVars, barrierVars, Traffic, NeverOvertakes
<1>5. ASSUME NEW c \in Raw, Ask(c) PROVE Traffic'
    <2>1. manager_ /\ status["GetProperties"] = "idle"
        BY <1>5, StepTaken, HeadsAndTails DEF Ask, Stage, Raw
    <2> QED
        BY <1>5, <2>1, SendAttached DEF Ask, Attach, barrierVars
<1>6. CASE BeginConnect \/ EmitSignal
    BY <1>6, OtherAttached, SourceKinds DEF BeginConnect, EmitSignal, Attach, ownVars, barrierVars
<1>7. CASE AskClock
    BY <1>7, SendAttached DEF AskClock, Attach, Bus!StartCall, Bus!Begin
<1>8. ASSUME NEW c \in UserCalls, UserCall(c) PROVE Traffic'
    BY <1>8, SendAttached DEF UserCall, Attach, Bus!StartCall, Bus!Begin, ownVars
<1>9. CASE Answer
    BY <1>9, CallAnswered DEF Answer, Attach, ownVars, barrierVars
<1>10. CASE DispatchConnect
    BY <1>10, OtherTaken, SourceKinds DEF DispatchConnect, Take, barrierVars
<1>11. CASE DispatchSignal
    <2>1. ctx # <<>> /\ Head(ctx) = Signal /\ ctx' = Tail(ctx)
        BY <1>11 DEF DispatchSignal, Take
    <2>2. CASE UNCHANGED <<barrierVars, requests, held>>
        BY <1>11, <2>1, <2>2, OtherTaken, SourceKinds DEF DispatchSignal, ownVars, barrierVars
    <2>3. ASSUME NEW c \in UserCalls, Bus!StartCall(c), requests' = Append(requests, c),
                 held' = held \cup {c}
          PROVE  Traffic'
        BY <1>11, <2>1, <2>3, CallSent, SourceKinds DEF DispatchSignal, ownVars,
           Bus!StartCall, Bus!Begin
    <2> QED
        BY <1>11, <2>2, <2>3 DEF DispatchSignal
<1>12. ASSUME NEW c \in Calls, DispatchSend(c) PROVE Traffic'
    BY <1>12, SendTaken DEF DispatchSend, Take, ownVars, barrierVars
<1>13. ASSUME NEW c \in Raw, DispatchRaw(c) PROVE Traffic'
    BY <1>13, AnswerTaken DEF DispatchRaw, Take, ownVars, barrierVars
<1>14. ASSUME NEW c \in Counted, DispatchCounted(c) PROVE Traffic'
    BY <1>14, AnswerTaken DEF DispatchCounted, Take, ownVars, Bus!FinishCall
<1>15. ASSUME NEW c \in UserCalls, NEW d \in UserCalls, CallbackCalls(c, d) PROVE Traffic'
    BY <1>15, CallSent DEF CallbackCalls, ownVars, ProxyOf, Bus!StartCall, Bus!ChainCall,
                           Bus!Begin
<1> QED
    BY <1>2, <1>3, <1>4, <1>5, <1>6, <1>7, <1>8, <1>9, <1>10, <1>11, <1>12, <1>13, <1>14,
       <1>15 DEF Next, Constructor, Destructor, Dispatch

\* While an answer that uses the Manager or a signal that GLib has a handler for
\* is dispatched, the Manager is there.
LEMMA NotUsed == IInv /\ Next => NoUseAfterFree'
<1> SUFFICES ASSUME TypeOK, Traffic, ~used, Next PROVE ~used'
    BY DEF IInv, NoUseAfterFree
<1>1. CASE DispatchSignal
    <2>1. HandlerRuns => ManagerAlive
        <3> SUFFICES ASSUME ~manager_, NEW c \in held PROVE Holding # {}
            BY DEF HandlerRuns, ManagerAlive
        <3>1. c \notin Raw
            <4>1. RawGone
                BY DEF Traffic
            <4> QED
                BY <4>1 DEF Traffic, RawHeld, RawGone, About
        <3>2. c \in UserCalls /\ c \in Counted
            BY <3>1 DEF TypeOK, Counted
        <3>3. status[c] = "pending"
            BY <3>2 DEF Traffic, Pending
        <3> QED
            BY <3>2, <3>3 DEF Holding
    <2> QED
        BY <1>1, <2>1, Zenon DEF DispatchSignal, Uses
<1>2. ASSUME NEW c \in Raw, DispatchRaw(c) PROVE ~used'
    <2>1. PICK kind \in {"ok", "error"} :
             Take([kind |-> kind, call |-> c]) /\ Uses(kind = "ok")
        BY <1>2 DEF DispatchRaw
    <2>2. ctx # <<>> /\ Head(ctx) = ctx[1] /\ 1 \in 1..Len(ctx) /\ About(ctx[1], c)
        <3>1. ctx # <<>> /\ Head(ctx) = [kind |-> kind, call |-> c] /\ ctx' = Tail(ctx)
            BY <2>1 DEF Take
        <3> QED
            BY <3>1, SourceTaken DEF About, IsAnswer
    <2>3. manager_
        BY <2>2 DEF Traffic, RawGone
    <2> QED
        BY <2>1, <2>3, Zenon DEF Uses, ManagerAlive
<1>3. CASE UNCHANGED used
    BY <1>3
<1> QED
    BY <1>1, <1>2, <1>3 DEF Next, Constructor, Destructor, Dispatch, MakeManager,
        ManagerThrows, Ask, BeginConnect, EndConnect, AskClock, Destroy, Stop, StopReturns,
        ResetManager, ResetBus, EndDrain, UserCall, Answer, EmitSignal, DispatchConnect,
        DispatchSend, DispatchCounted, CallbackCalls

------------------------------------------------------------------------------
(* The theorems.                                                            *)

LEMMA Inductive == IInv /\ [Next]_vars => IInv'
<1>1. IInv /\ Next => IInv'
    BY TypeStep, StageStep, TrafficStep, NotUsed DEF IInv
<1>2. IInv /\ UNCHANGED vars => IInv'
    <2> SUFFICES ASSUME IInv, UNCHANGED vars PROVE IInv'
        OBVIOUS
    <2> USE DEF vars, barrierVars, ownVars, netVars, IInv
    <2>1. TypeOK'
        BY DEF TypeOK
    <2>2. Stage'
        BY DEF Stage
    <2>3. Traffic'
        BY DEF Traffic, Once, Pending, RawHeld, NeverOvertakes, SentLast, AskedLast,
               AnsweredLast, RawGone
    <2>4. NoUseAfterFree'
        BY DEF NoUseAfterFree
    <2> QED
        BY <2>1, <2>2, <2>3, <2>4
<1> QED
    BY <1>1, <1>2

\* In every state the calls are under way in the order they were made, and what
\* exists is what the stage of the constructor or the destructor says
\* (gconnman.cpp:10-28).
THEOREM InvariantCorrect == Spec => []IInv
  BY InitCorrect, Inductive, PTL DEF Spec

\* TypeOK, as the run checks it (gconnman.cpp:10-28).
THEOREM TypeCorrect == Spec => []TypeOK
  BY InvariantCorrect, PTL DEF IInv

\* Nothing touches the Manager once it is destroyed: the answers that carry a raw
\* pointer are dispatched before the Clock's, which stop() waits for
\* (gconnman.cpp:16-28, gconnman_manager.cpp:318-326).
THEOREM NeverUsedAfterFree == Spec => []NoUseAfterFree
  BY InvariantCorrect, PTL DEF IInv

\* The last reference to the Manager is released while connection_ is still
\* there, by the Connman or by a call (gconnman_agent.cpp:94-97).
THEOREM AgentAlwaysUnregisters == Spec => AgentUnregisters
<1>1. IInv /\ [Next]_vars => [ManagerAlive /\ ~ManagerAlive' => bus]_vars
    <2> SUFFICES ASSUME TypeOK, Stage, Next, ManagerAlive, ~ManagerAlive' PROVE bus
        BY DEF IInv
    <2> SUFFICES ASSUME ~bus PROVE FALSE
        OBVIOUS
    <2>1. main = <<>> /\ phase = "stopped" /\ ~draining
        BY DEF Stage
    <2> QED
        BY <2>1 DEF Next, Constructor, Destructor, Dispatch, MakeManager, ManagerThrows, Ask,
            BeginConnect, EndConnect, AskClock, Destroy, Stop, StopReturns, ResetManager,
            ResetBus, EndDrain, UserCall, Answer, EmitSignal, DispatchConnect,
            DispatchSignal, DispatchSend, DispatchRaw, DispatchCounted, CallbackCalls,
            Step, Take
<1> QED
    BY <1>1, InvariantCorrect, PTL DEF AgentUnregisters, Spec
=============================================================================
