-------------------------- MODULE PropertiesProofs ---------------------------
(***************************************************************************)
(* The copy of the properties follows connman's, for any properties and    *)
(* any number of changes, lists and calls.                                 *)
(***************************************************************************)
EXTENDS Properties, TLAPS

Tells(message, k) == message.kind = "changed" /\ message.key = k

\* Before the proxy exists there are only lists, and the first announces the
\* service.
Announced ==
    /\ Len(ctx) > 0 /\ ctx[1].kind = "new"
    /\ ~callback
    /\ asked = 0

\* No list announces the service again.
Later == \A i \in 2..Len(ctx) : ctx[i].kind # "new"
Arrived == Len(ctx) > 0 => ctx[1].kind # "new"

\* What is on its way was sent in order, and before now.
InOrder ==
    /\ \A i \in 1..Len(ctx) : ctx[i].at <= count["changes"]
    /\ \A i, j \in 1..Len(ctx) : i < j => ctx[i].at <= ctx[j].at

\* No change of a property is missing in ctx_: it stays the same from what was
\* handled last to the first message, from each message to the next, and from
\* the last one to now, except where a message tells it, or where its last
\* change before the subscription has come.
Unbroken(k) ==
    /\ Len(ctx) > 0 =>
         Tells(ctx[1], k) \/ ctx[1].remote[k] = seen[k] \/ k \in stale
    /\ \A i \in 2..Len(ctx) :
         \/ Tells(ctx[i], k) \/ ctx[i].remote[k] = ctx[i - 1].remote[k]
         \/ lost[k] > ctx[i - 1].at
    /\ Len(ctx) > 0 => remote[k] = ctx[Len(ctx)].remote[k] \/ lost[k] > ctx[Len(ctx)].at
    /\ Len(ctx) = 0 => remote[k] = seen[k] \/ k \in stale
    /\ \A i \in 1..Len(ctx) : lost[k] > ctx[i].at => k \in stale

Following == InOrder /\ \A k \in Known : Unbroken(k)

IInv ==
    /\ TypeOK
    /\ Later
    /\ IF subscribed THEN Arrived ELSE Announced
    /\ Following
    /\ CacheFollows
    /\ UserIsTold

------------------------------------------------------------------------------
(* Messages and sequences of them.                                          *)

LEMMA MessageFields ==
    ASSUME NEW m \in Messages
    PROVE  /\ m.remote \in [Keys -> Values] /\ m.at \in Nat
           /\ m.kind = "changed" => m.key \in Keys
           /\ m.kind \in {"new", "full", "empty", "reply", "error", "changed"}
  BY DEF Messages

LEMMA MessageTyped ==
    ASSUME remote \in [Keys -> Values], count["changes"] \in Nat,
           NEW kind \in {"new", "full", "empty", "reply", "error"}
    PROVE  /\ Message(kind) \in Messages
           /\ Message(kind).kind = kind
           /\ Message(kind).remote = remote
           /\ Message(kind).at = count["changes"]
  BY DEF Message, Messages

LEMMA Appended ==
    ASSUME NEW S, NEW s \in Seq(S), NEW e \in S
    PROVE  /\ Append(s, e) \in Seq(S)
           /\ Len(Append(s, e)) = Len(s) + 1
           /\ Len(s) \in Nat
           /\ \A i \in 1..Len(s) : Append(s, e)[i] = s[i]
           /\ Append(s, e)[Len(s) + 1] = e
  OBVIOUS

LEMMA Taken ==
    ASSUME NEW S, NEW s \in Seq(S), s # <<>>
    PROVE  /\ Tail(s) \in Seq(S)
           /\ Len(s) \in Nat /\ Len(s) > 0
           /\ Len(Tail(s)) = Len(s) - 1
           /\ Len(Tail(s)) = 0 => Len(s) = 1
           /\ Head(s) = s[1] /\ s[1] \in S
           /\ \A i \in 1..Len(s) - 1 : Tail(s)[i] = s[i + 1]
  OBVIOUS

------------------------------------------------------------------------------
(* Types.                                                                   *)

LEMMA StoredTyped ==
    ASSUME NEW p \in [Known -> Values], NEW values \in [Keys -> Values]
    PROVE  /\ UpdatedAll(p, values) \in [Known -> Values]
           /\ \A k \in Known : UpdatedAll(p, values)[k] = values[k]
           /\ \A k \in Known : /\ Updated(p, k, values[k]) \in [Known -> Values]
                               /\ Updated(p, k, values[k])[k] = values[k]
                               /\ \A j \in Known \ {k} : Updated(p, k, values[k])[j] = p[j]
  BY DEF UpdatedAll, Updated, Stored, Keys

LEMMA TypeInductive == TypeOK /\ [Next]_vars => TypeOK'
<1> SUFFICES ASSUME TypeOK, [Next]_vars PROVE TypeOK'
  OBVIOUS
<1> USE DEF TypeOK
<1>1. ASSUME NEW k \in Keys, Change(k) PROVE TypeOK'
  <2>1. remote' \in [Keys -> Values]
    BY <1>1 DEF Change
  <2>2. /\ count' \in [{"changes", "lists", "gets"} -> Nat] /\ count'["gets"] = count["gets"]
        /\ count'["changes"] = count["changes"] + 1
    BY <1>1 DEF Change, Count
  <2>3. ctx' \in Seq(Messages)
    <3> DEFINE e == [kind |-> "changed", key |-> k, remote |-> remote',
                     at |-> count'["changes"]]
    <3>1. e \in Messages
      BY <2>1, <2>2 DEF Messages
    <3>2. ctx' = ctx \/ ctx' = Append(ctx, e)
      BY <1>1 DEF Change, Send
    <3> HIDE DEF e
    <3>3. ctx \in Seq(Messages)
      OBVIOUS
    <3>4. Append(ctx, e) \in Seq(Messages)
      BY <3>1, <3>3, Appended
    <3> QED
      BY <3>2, <3>3, <3>4
  <2>4. lost' \in [Known -> 0..count'["changes"]]
    <3>1. lost \in [Known -> 0..count'["changes"]]
      BY <2>2
    <3>2. count'["changes"] \in 0..count'["changes"]
      BY <2>2
    <3> QED
      BY <1>1, <3>1, <3>2 DEF Change
  <2>5. stale' \subseteq {j \in Known : lost'[j] > 0}
    <3>1. CASE subscribed \/ k \notin Known
      BY <1>1, <3>1 DEF Change
    <3>2. CASE ~subscribed /\ k \in Known
      <4>1. lost' = [lost EXCEPT ![k] = count'["changes"]] /\ stale' = stale \cup {k}
        BY <1>1, <3>2 DEF Change
      <4>2. lost'[k] > 0 /\ \A j \in Known \ {k} : lost'[j] = lost[j]
        BY <2>2, <3>2, <4>1
      <4> QED
        BY <3>2, <4>1, <4>2
    <3> QED
      BY <3>1, <3>2
  <2> QED
    BY <1>1, <2>1, <2>2, <2>3, <2>4, <2>5 DEF Change, proxyVars
<1>2. ASSUME NEW kind \in {"full", "empty"}, SendList(kind) PROVE TypeOK'
  <2>1. ctx' \in Seq(Messages)
    BY <1>2, MessageTyped, Appended DEF SendList, Send
  <2>2. /\ count' \in [{"changes", "lists", "gets"} -> Nat] /\ count'["gets"] = count["gets"]
        /\ count'["changes"] = count["changes"]
    BY <1>2 DEF SendList, Count
  <2> QED
    BY <1>2, <2>1, <2>2 DEF SendList, proxyVars, historyVars
<1>3. ASSUME NEW kind \in {"reply", "error"}, Answer(kind) PROVE TypeOK'
  <2>1. ctx' \in Seq(Messages)
    BY <1>3, MessageTyped, Appended DEF Answer, Send
  <2> QED
    BY <1>3, <2>1 DEF Answer, proxyVars, historyVars
<1>4. CASE GetProperties
  <2>1. /\ count' \in [{"changes", "lists", "gets"} -> Nat]
        /\ count'["changes"] = count["changes"]
    BY <1>4 DEF GetProperties, Count
  <2>2. asked' \in 0..count'["gets"]
    BY <1>4 DEF GetProperties, Count
  <2> QED
    BY <1>4, <2>1, <2>2 DEF GetProperties, proxyVars, historyVars
<1>5. CASE OnPropertyChanged
  BY <1>5 DEF OnPropertyChanged, netVars, historyVars
<1>6. CASE Handle
  <2> DEFINE m == Head(ctx)
  <2>1. ctx' \in Seq(Messages) /\ m \in Messages
    BY <1>6, Taken DEF Handle
  <2>2. m.remote \in [Keys -> Values] /\ seen' = m.remote
    BY <1>6, <2>1, MessageFields DEF Handle
  <2> HIDE DEF m
  <2>3. CASE HandleNew(m)
    BY <1>6, <2>1, <2>2, <2>3, StoredTyped DEF Handle, HandleNew
  <2>4. CASE HandleList(m)
    <3>1. props_' \in [Known -> Values]
      <4>1. CASE m.kind = "full"
        <5>1. props_' = UpdatedAll(props_, m.remote)
          BY <2>4, <4>1 DEF HandleList
        <5> QED
          BY <2>2, <5>1, StoredTyped
      <4>2. CASE m.kind # "full"
        BY <2>4, <4>2 DEF HandleList
      <4> QED
        BY <4>1, <4>2
    <3>2. stale' \subseteq stale /\ UNCHANGED <<subscribed, callback, view>>
      BY <2>4 DEF HandleList, Repair
    <3> QED
      BY <1>6, <2>1, <2>2, <3>1, <3>2 DEF Handle
  <2>5. CASE HandleReply(m)
    <3>1. props_' \in [Known -> Values]
      <4>1. CASE m.kind = "reply"
        <5>1. props_' = UpdatedAll(props_, m.remote)
          BY <2>5, <4>1 DEF HandleReply
        <5> QED
          BY <2>2, <5>1, StoredTyped
      <4>2. CASE m.kind # "reply"
        BY <2>5, <4>2 DEF HandleReply
      <4> QED
        BY <4>1, <4>2
    <3>2. stale' \subseteq stale /\ UNCHANGED <<subscribed, callback>> /\ view' = props_'
      BY <2>5 DEF HandleReply, Repair
    <3> QED
      BY <1>6, <2>1, <2>2, <3>1, <3>2 DEF Handle
  <2>6. CASE HandleChanged(m)
    <3>1. props_' \in [Known -> Values]
      BY <2>2, <2>6, StoredTyped DEF HandleChanged
    <3>2. /\ stale' \subseteq stale /\ UNCHANGED <<subscribed, callback>>
          /\ view' \in {view, props_'}
      BY <2>6 DEF HandleChanged, Repair, Told
    <3> QED
      BY <1>6, <2>1, <2>2, <3>1, <3>2 DEF Handle
  <2> QED
    BY <1>6, <2>3, <2>4, <2>5, <2>6 DEF Handle, m
<1>7. CASE UNCHANGED vars
  BY <1>7 DEF vars, netVars, proxyVars, historyVars
<1> QED
  BY <1>1, <1>2, <1>3, <1>4, <1>5, <1>6, <1>7 DEF Next

------------------------------------------------------------------------------
(* The messages in ctx_.                                                    *)

\* A message that is sent tells the change it comes with, if there is one.
LEMMA SentUnbroken ==
    ASSUME TypeOK, Following, NEW k \in Known, NEW e \in Messages,
           ctx' = Append(ctx, e), UNCHANGED <<seen, stale, lost>>,
           e.at = count'["changes"], count'["changes"] >= count["changes"],
           count'["changes"] \in Nat,
           e.remote[k] = remote'[k], Tells(e, k) \/ remote'[k] = remote[k]
    PROVE  Unbroken(k)'
<1> Unbroken(k)
  BY DEF Following
<1>1. /\ Len(ctx) \in Nat
      /\ Len(ctx') = Len(ctx) + 1
      /\ \A i \in 1..Len(ctx) : ctx'[i] = ctx[i]
      /\ ctx'[Len(ctx')] = e
  BY Appended DEF TypeOK
<1>2. Tells(ctx'[1], k) \/ ctx'[1].remote[k] = seen'[k] \/ k \in stale'
  <2>1. CASE Len(ctx) = 0
    BY <2>1, <1>1 DEF Unbroken
  <2>2. CASE Len(ctx) > 0
    BY <2>2, <1>1 DEF Unbroken
  <2> QED
    BY <2>1, <2>2, <1>1
<1>3. ASSUME NEW i \in 2..Len(ctx')
      PROVE  \/ Tells(ctx'[i], k) \/ ctx'[i].remote[k] = ctx'[i - 1].remote[k]
             \/ lost'[k] > ctx'[i - 1].at
  <2>1. CASE i = Len(ctx')
    <3>1. /\ Len(ctx) > 0 /\ i - 1 = Len(ctx) /\ ctx'[i - 1] = ctx[Len(ctx)]
          /\ ctx'[i] = e
      BY <2>1, <1>1, <1>3
    <3> QED
      BY <3>1 DEF Unbroken
  <2>2. CASE i # Len(ctx')
    <3>1. i \in 2..Len(ctx) /\ ctx'[i] = ctx[i] /\ ctx'[i - 1] = ctx[i - 1]
      BY <2>2, <1>1, <1>3
    <3> QED
      BY <3>1 DEF Unbroken
  <2> QED
    BY <2>1, <2>2
<1>4. Len(ctx') > 0 /\ remote'[k] = ctx'[Len(ctx')].remote[k]
  BY <1>1
<1>5. ASSUME NEW i \in 1..Len(ctx'), lost'[k] > ctx'[i].at PROVE k \in stale'
  <2>1. lost[k] \in Nat /\ lost[k] <= count["changes"] /\ count["changes"] \in Nat
    BY DEF TypeOK
  <2>2. ctx'[i] # e
    BY <1>5, <2>1
  <2>3. i \in 1..Len(ctx) /\ ctx'[i] = ctx[i]
    BY <1>1, <2>2
  <2> QED
    BY <1>5, <2>3 DEF Unbroken
<1> QED
  BY <1>1, <1>2, <1>3, <1>4, <1>5 DEF Unbroken, Tells

\* What is sent comes last.
LEMMA SentFollowing ==
    ASSUME TypeOK, Following, Later, NEW e \in Messages, e.kind # "new",
           ctx' = Append(ctx, e), UNCHANGED <<seen, stale, lost>>,
           e.at = count'["changes"], count'["changes"] >= count["changes"],
           count'["changes"] \in Nat,
           \A k \in Known : e.remote[k] = remote'[k],
           \A k \in Known : Tells(e, k) \/ remote'[k] = remote[k]
    PROVE  /\ Following' /\ Later'
           /\ Len(ctx) > 0 => Len(ctx') > 0 /\ ctx'[1] = ctx[1]
           /\ Arrived => Arrived'
<1>1. /\ Len(ctx) \in Nat
      /\ Len(ctx') = Len(ctx) + 1
      /\ \A i \in 1..Len(ctx) : ctx'[i] = ctx[i] /\ ctx[i] \in Messages
      /\ ctx'[Len(ctx) + 1] = e
  BY Appended DEF TypeOK
<1>2. ASSUME NEW k \in Known PROVE Unbroken(k)'
  BY SentUnbroken
<1>3. /\ count["changes"] \in Nat
      /\ \A i \in 1..Len(ctx) : ctx[i].at \in Nat /\ ctx[i].at <= count["changes"]
  BY <1>1, MessageFields DEF TypeOK, Following, InOrder
<1>4. \A i \in 1..Len(ctx') : ctx'[i].at <= count'["changes"]
  <2> SUFFICES ASSUME NEW i \in 1..Len(ctx') PROVE ctx'[i].at <= count'["changes"]
    OBVIOUS
  <2>1. CASE i \in 1..Len(ctx)
    BY <1>1, <1>3, <2>1
  <2>2. CASE i = Len(ctx) + 1
    BY <1>1, <2>2
  <2> QED
    BY <1>1, <2>1, <2>2
<1>5. ASSUME NEW i \in 1..Len(ctx'), NEW j \in 1..Len(ctx'), i < j
      PROVE  ctx'[i].at <= ctx'[j].at
  <2>1. i \in 1..Len(ctx)
    BY <1>1, <1>5
  <2>2. CASE j \in 1..Len(ctx)
    <3>1. ctx[i].at <= ctx[j].at
      BY <1>5, <2>1, <2>2 DEF Following, InOrder
    <3> QED
      BY <1>1, <2>1, <2>2, <3>1
  <2>3. CASE j = Len(ctx) + 1
    BY <1>1, <1>4, <2>3
  <2> QED
    BY <1>1, <2>2, <2>3
<1>6. Later'
  BY <1>1 DEF Later
<1>7. /\ Len(ctx) > 0 => Len(ctx') > 0 /\ ctx'[1] = ctx[1]
      /\ Arrived => Arrived'
  BY <1>1 DEF Arrived
<1> QED
  BY <1>2, <1>4, <1>5, <1>6, <1>7 DEF Following, InOrder

\* The next message follows the one that was handled, which repairs nothing
\* that changed after it was sent.
LEMMA HandledUnbroken ==
    ASSUME TypeOK, Following, NEW k \in Known, ctx # <<>>,
           ctx' = Tail(ctx), seen' = Head(ctx).remote, remote' = remote, lost' = lost,
           k \in stale => k \in stale' \/ lost[k] <= Head(ctx).at
    PROVE  Unbroken(k)'
<1> Unbroken(k) /\ InOrder
  BY DEF Following
<1>1. /\ Len(ctx) \in Nat /\ Len(ctx) > 0
      /\ Len(ctx') = Len(ctx) - 1
      /\ Head(ctx) = ctx[1] /\ seen' = ctx[1].remote
      /\ \A i \in 1..Len(ctx') : ctx'[i] = ctx[i + 1]
      /\ \A i \in 1..Len(ctx) : ctx[i] \in Messages
  BY Taken DEF TypeOK
<1>2. lost[k] \in Nat /\ \A i \in 1..Len(ctx) : ctx[i].at \in Nat
  BY <1>1, MessageFields DEF TypeOK
<1>3. ASSUME NEW i \in 1..Len(ctx), lost[k] > ctx[i].at PROVE k \in stale'
  <2>1. k \in stale
    BY <1>3 DEF Unbroken
  <2>2. ctx[1].at <= ctx[i].at
    BY <1>1, <1>2 DEF InOrder
  <2>3. lost[k] > ctx[1].at
    BY <1>1, <1>2, <1>3, <2>2
  <2> QED
    BY <1>1, <1>2, <2>1, <2>3
<1>4. Len(ctx') > 0 => Tells(ctx'[1], k) \/ ctx'[1].remote[k] = seen'[k] \/ k \in stale'
  <2> SUFFICES ASSUME Len(ctx') > 0
               PROVE  Tells(ctx'[1], k) \/ ctx'[1].remote[k] = seen'[k] \/ k \in stale'
    OBVIOUS
  <2>1. 2 \in 2..Len(ctx) /\ ctx'[1] = ctx[2] /\ 1 \in 1..Len(ctx)
    BY <1>1
  <2>2. \/ Tells(ctx[2], k) \/ ctx[2].remote[k] = ctx[1].remote[k]
        \/ lost[k] > ctx[1].at
    BY <2>1 DEF Unbroken
  <2> QED
    BY <1>1, <1>3, <2>1, <2>2
<1>5. ASSUME NEW i \in 2..Len(ctx')
      PROVE  \/ Tells(ctx'[i], k) \/ ctx'[i].remote[k] = ctx'[i - 1].remote[k]
             \/ lost'[k] > ctx'[i - 1].at
  <2>1. i + 1 \in 2..Len(ctx) /\ i - 1 \in 1..Len(ctx') /\ i \in 1..Len(ctx')
    BY <1>1, <1>5
  <2>2. ctx'[i] = ctx[i + 1] /\ ctx'[i - 1] = ctx[(i + 1) - 1]
    BY <2>1, <1>1
  <2> QED
    BY <2>1, <2>2 DEF Unbroken
<1>6. Len(ctx') > 0 =>
        remote'[k] = ctx'[Len(ctx')].remote[k] \/ lost'[k] > ctx'[Len(ctx')].at
  <2>1. Len(ctx') > 0 => ctx'[Len(ctx')] = ctx[Len(ctx)]
    BY <1>1
  <2> QED
    BY <2>1, <1>1 DEF Unbroken
<1>7. Len(ctx') = 0 => remote'[k] = seen'[k] \/ k \in stale'
  <2> SUFFICES ASSUME Len(ctx') = 0 PROVE remote'[k] = seen'[k] \/ k \in stale'
    OBVIOUS
  <2>1. Len(ctx) = 1 /\ 1 \in 1..Len(ctx)
    BY <1>1
  <2>2. remote[k] = ctx[1].remote[k] \/ lost[k] > ctx[1].at
    BY <2>1 DEF Unbroken
  <2> QED
    BY <1>1, <1>3, <2>1, <2>2
<1>8. ASSUME NEW i \in 1..Len(ctx'), lost'[k] > ctx'[i].at PROVE k \in stale'
  <2>1. i + 1 \in 1..Len(ctx) /\ ctx'[i] = ctx[i + 1]
    BY <1>1
  <2> QED
    BY <1>3, <1>8, <2>1
<1> QED
  BY <1>4, <1>5, <1>6, <1>7, <1>8 DEF Unbroken, Tells

LEMMA HandledFollowing ==
    ASSUME TypeOK, Following, Later, Handle,
           \A k \in Known : k \in stale => k \in stale' \/ lost[k] <= Head(ctx).at
    PROVE  Following' /\ Later' /\ Arrived'
<1>1. /\ ctx # <<>> /\ ctx' = Tail(ctx) /\ seen' = Head(ctx).remote
      /\ UNCHANGED <<remote, lost, count>>
  BY DEF Handle
<1>2. /\ Len(ctx) \in Nat /\ Len(ctx') = Len(ctx) - 1 /\ Len(ctx') \in Nat
      /\ \A i \in 1..Len(ctx') : ctx'[i] = ctx[i + 1] /\ i + 1 \in 2..Len(ctx)
  BY <1>1, Taken DEF TypeOK
<1>3. ASSUME NEW k \in Known PROVE Unbroken(k)'
  BY <1>1, HandledUnbroken
<1>4. InOrder'
  <2>1. \A i \in 1..Len(ctx') : ctx'[i].at <= count["changes"]
    BY <1>2 DEF Following, InOrder
  <2>2. ASSUME NEW i \in 1..Len(ctx'), NEW j \in 1..Len(ctx'), i < j
        PROVE  ctx'[i].at <= ctx'[j].at
    <3>1. /\ i + 1 \in 1..Len(ctx) /\ j + 1 \in 1..Len(ctx) /\ i + 1 < j + 1
          /\ ctx'[i] = ctx[i + 1] /\ ctx'[j] = ctx[j + 1]
      BY <1>2, <2>2
    <3> QED
      BY <3>1 DEF Following, InOrder
  <2> QED
    BY <1>1, <2>1, <2>2 DEF InOrder
<1>5. Later' /\ Arrived'
  <2>1. \A i \in 1..Len(ctx') : ctx'[i].kind # "new"
    BY <1>2 DEF Later
  <2> QED
    BY <1>2, <2>1 DEF Later, Arrived
<1> QED
  BY <1>3, <1>4, <1>5 DEF Following

------------------------------------------------------------------------------
(* The invariant.                                                           *)

LEMMA ChangeKeeps ==
    ASSUME IInv, NEW k \in Keys, Change(k)
    PROVE  IInv'
<1>1. TypeOK'
  BY TypeInductive DEF IInv, Next
<1>2. \A j \in Keys \ {k} : remote'[j] = remote[j]
  BY DEF Change, IInv, TypeOK
<1>3. /\ count["changes"] \in Nat /\ count'["changes"] = count["changes"] + 1
      /\ UNCHANGED <<subscribed, callback, props_, view, seen, asked>>
  BY DEF Change, Count, proxyVars, IInv, TypeOK
<1>4. CASE subscribed
  <2> DEFINE e == [kind |-> "changed", key |-> k, remote |-> remote',
                   at |-> count'["changes"]]
  <2>1. e \in Messages /\ e.at = count'["changes"]
    BY <1>1, <1>3 DEF TypeOK, Messages
  <2>2. \A j \in Known : Tells(e, j) \/ remote'[j] = remote[j]
    BY <1>2 DEF Tells, Keys
  <2>3. ctx' = Append(ctx, e) /\ UNCHANGED <<stale, lost>>
    BY <1>4 DEF Change, Send
  <2>4. e.kind # "new" /\ \A j \in Known : e.remote[j] = remote'[j]
    OBVIOUS
  <2> HIDE DEF e
  <2>5. Following' /\ Later' /\ Arrived'
    BY <1>3, <1>4, <2>1, <2>2, <2>3, <2>4, SentFollowing DEF IInv
  <2>6. CacheFollows' /\ UserIsTold'
    BY <1>3, <2>3 DEF IInv, CacheFollows, UserIsTold
  <2> QED
    BY <1>1, <1>3, <1>4, <2>5, <2>6 DEF IInv
<1>5. CASE ~subscribed
  <2>1. ctx' = ctx
    BY <1>5 DEF Change
  <2>2. /\ \A j \in Known : lost'[j] \in Nat /\ lost[j] \in Nat /\ lost'[j] >= lost[j]
        /\ \A j \in Known : j = k =>
              lost'[j] = count["changes"] + 1 /\ stale' = stale \cup {j}
        /\ stale \subseteq stale'
    <3>1. CASE k \notin Known
      BY <1>5, <3>1 DEF Change, IInv, TypeOK
    <3>2. CASE k \in Known
      <4>1. lost' = [lost EXCEPT ![k] = count["changes"] + 1] /\ stale' = stale \cup {k}
        BY <1>3, <1>5, <3>2 DEF Change
      <4>2. lost \in [Known -> 0..count["changes"]]
        BY DEF IInv, TypeOK
      <4> QED
        BY <1>3, <3>2, <4>1, <4>2
    <3> QED
      BY <3>1, <3>2
  <2>3. Len(ctx) \in Nat /\ Len(ctx) > 0 /\ \A i \in 1..Len(ctx) : ctx[i].at \in Nat
    <3>1. \A i \in 1..Len(ctx) : ctx[i] \in Messages
      BY DEF IInv, TypeOK
    <3> QED
      BY <1>5, <3>1, MessageFields DEF IInv, TypeOK, Announced
  <2>4. InOrder'
    BY <1>3, <2>1, <2>3 DEF IInv, Following, InOrder
  <2>5. ASSUME NEW j \in Known PROVE Unbroken(j)'
    <3>1. Unbroken(j)
      BY DEF IInv, Following
    <3>2. CASE j = k
      <4>1. j \in stale' /\ \A i \in 1..Len(ctx) : lost'[j] > ctx[i].at
        BY <1>3, <2>2, <2>3, <3>2 DEF IInv, Following, InOrder
      <4>2. \A i \in 2..Len(ctx) : i - 1 \in 1..Len(ctx)
        BY <2>3
      <4> QED
        BY <2>1, <2>3, <4>1, <4>2 DEF Unbroken
    <3>3. CASE j # k
      <4>1. lost'[j] = lost[j] /\ (j \in stale' <=> j \in stale) /\ remote'[j] = remote[j]
        BY <1>2, <1>5, <3>3 DEF Change, IInv, TypeOK, Keys
      <4>2. Len(ctx) > 0 /\ ctx' = ctx /\ seen' = seen
        BY <1>3, <2>1, <2>3
      <4> QED
        BY <3>1, <4>1, <4>2 DEF Unbroken, Tells
    <3> QED
      BY <3>2, <3>3
  <2>6. Announced' /\ Later'
    BY <1>3, <1>5, <2>1 DEF IInv, Announced, Later
  <2>7. CacheFollows' /\ UserIsTold'
    BY <1>3, <1>5 DEF IInv, Announced, CacheFollows, UserIsTold
  <2> QED
    BY <1>1, <1>3, <1>5, <2>4, <2>5, <2>6, <2>7 DEF IInv, Following
<1> QED
  BY <1>4, <1>5

\* A list or an answer is sent.
LEMMA SendKeeps ==
    ASSUME IInv, NEW kind \in {"full", "empty", "reply", "error"},
           Send(Message(kind)), UNCHANGED <<remote, proxyVars, historyVars>>,
           count'["changes"] = count["changes"], subscribed \/ asked' = asked, TypeOK'
    PROVE  IInv'
<1> DEFINE e == Message(kind)
<1>1. count["changes"] \in Nat /\ remote \in [Keys -> Values]
  BY DEF IInv, TypeOK
<1>2. e \in Messages /\ e.kind # "new" /\ e.remote = remote /\ e.at = count["changes"]
  BY <1>1, MessageTyped
<1>3. ctx' = Append(ctx, e) /\ remote' = remote
      /\ UNCHANGED <<seen, stale, lost, subscribed, callback, props_, view>>
  BY DEF Send, historyVars, proxyVars
<1> HIDE DEF e
<1>4. /\ Following' /\ Later'
      /\ Len(ctx) > 0 => Len(ctx') > 0 /\ ctx'[1] = ctx[1]
      /\ Arrived => Arrived'
  BY <1>1, <1>2, <1>3, SentFollowing DEF IInv
<1>5. IF subscribed THEN Arrived' ELSE Announced'
  BY <1>3, <1>4 DEF IInv, Announced
<1> QED
  BY <1>3, <1>4, <1>5 DEF IInv, CacheFollows, UserIsTold

\* What a message repairs it knew of when it was sent.
LEMMA HandleRepairs ==
    ASSUME TypeOK, Handle
    PROVE  \A k \in Known : k \in stale => k \in stale' \/ lost[k] <= Head(ctx).at
<1>1. Head(ctx).at \in Nat
  BY Taken, MessageFields DEF TypeOK, Handle
<1>2. stale' = stale \/ \E keys : Repair(Head(ctx), keys)
  BY DEF Handle, HandleNew, HandleList, HandleReply, HandleChanged
<1> QED
  BY <1>1, <1>2 DEF Repair, TypeOK

LEMMA HandleKeeps ==
    ASSUME IInv, Handle
    PROVE  IInv'
<1> DEFINE m == Head(ctx)
<1>1. TypeOK'
  BY TypeInductive DEF IInv, Next
<1>2. /\ ctx # <<>> /\ ctx' = Tail(ctx) /\ seen' = m.remote
      /\ UNCHANGED <<remote, lost, count>>
      /\ HandleNew(m) \/ HandleList(m) \/ HandleReply(m) \/ HandleChanged(m)
  BY DEF Handle
<1>3. m \in Messages /\ m = ctx[1] /\ Len(ctx) \in Nat /\ Len(ctx) > 0
  BY <1>2, Taken DEF IInv, TypeOK
<1>4. m.remote \in [Keys -> Values] /\ props_ \in [Known -> Values]
  BY <1>3, MessageFields DEF IInv, TypeOK
<1>5. Following' /\ Later' /\ Arrived'
  BY HandleRepairs, HandledFollowing DEF IInv
<1>6. \A k \in Known \ stale : Tells(m, k) \/ m.remote[k] = seen[k]
  BY <1>3 DEF IInv, Following, Unbroken
<1>7. stale' \subseteq stale
  BY <1>2 DEF HandleNew, HandleList, HandleReply, HandleChanged, Repair
<1> HIDE DEF m
<1>8. CASE ~subscribed
  <2>1. Announced /\ m.kind = "new"
    BY <1>3, <1>8 DEF IInv, Announced
  <2>2. HandleNew(m)
    BY <1>2, <2>1 DEF HandleList, HandleReply, HandleChanged
  <2>3. subscribed' /\ ~callback' /\ props_' = UpdatedAll(props_, m.remote)
    BY <2>1, <2>2 DEF HandleNew, Announced
  <2>4. \A k \in Known : props_'[k] = m.remote[k]
    BY <1>4, <2>3, StoredTyped
  <2>5. CacheFollows' /\ UserIsTold'
    BY <1>2, <2>3, <2>4 DEF CacheFollows, UserIsTold
  <2> QED
    BY <1>1, <1>5, <2>3, <2>5 DEF IInv
<1>9. CASE subscribed
  <2>1. m.kind # "new" /\ \A k \in Known \ stale : Tells(m, k) \/ m.remote[k] = props_[k]
    BY <1>3, <1>6, <1>9 DEF IInv, Arrived, CacheFollows
  <2>2. \A k \in Known : lost[k] \in Nat /\ (k \in stale => lost[k] > 0)
    BY DEF IInv, TypeOK
  <2>3. CASE HandleList(m)
    <3>1. m.kind # "changed" /\ UNCHANGED <<subscribed, callback, view>>
      BY <2>3 DEF HandleList
    <3>2. \A k \in Known \ stale : props_'[k] = props_[k]
      <4>1. CASE m.kind = "full"
        <5>1. \A k \in Known : props_'[k] = m.remote[k]
          BY <1>4, <2>3, <4>1, StoredTyped DEF HandleList
        <5> QED
          BY <2>1, <3>1, <5>1 DEF Tells
      <4>2. CASE m.kind # "full"
        BY <2>3, <4>2 DEF HandleList
      <4> QED
        BY <4>1, <4>2
    <3>3. CacheFollows'
      <4>1. CASE m.kind = "full"
        <5>1. \A k \in Known : props_'[k] = m.remote[k]
          BY <1>4, <2>3, <4>1, StoredTyped DEF HandleList
        <5> QED
          BY <1>2, <5>1 DEF CacheFollows
      <4>2. CASE m.kind # "full"
        <5>1. props_' = props_ /\ stale' = stale
          BY <2>3, <4>2 DEF HandleList
        <5> QED
          BY <1>2, <2>1, <3>1, <5>1 DEF CacheFollows, Tells
      <4> QED
        BY <4>1, <4>2
    <3>4. UserIsTold'
      BY <1>2, <2>2, <3>1, <3>2 DEF IInv, UserIsTold
    <3> QED
      BY <1>1, <1>5, <1>9, <3>1, <3>3, <3>4 DEF IInv
  <2>4. CASE HandleReply(m)
    <3>1. m.kind # "changed" /\ UNCHANGED <<subscribed, callback>> /\ view' = props_'
      BY <2>4 DEF HandleReply
    <3>2. CacheFollows'
      <4>1. CASE m.kind = "reply"
        <5>1. \A k \in Known : props_'[k] = m.remote[k]
          BY <1>4, <2>4, <4>1, StoredTyped DEF HandleReply
        <5> QED
          BY <1>2, <5>1 DEF CacheFollows
      <4>2. CASE m.kind # "reply"
        <5>1. props_' = props_ /\ stale' = stale
          BY <2>4, <4>2 DEF HandleReply
        <5> QED
          BY <1>2, <2>1, <3>1, <5>1 DEF CacheFollows, Tells
      <4> QED
        BY <4>1, <4>2
    <3>3. UserIsTold'
      BY <3>1 DEF UserIsTold
    <3> QED
      BY <1>1, <1>5, <1>9, <3>1, <3>2, <3>3 DEF IInv
  <2>5. CASE HandleChanged(m)
    <3>1. /\ UNCHANGED <<subscribed, callback>>
          /\ \A k \in stale \ {m.key} : k \in stale'
          /\ view' = IF callback THEN props_' ELSE view
      BY <1>9, <2>5 DEF HandleChanged, Repair, Told
    <3>2. \A k \in Known : props_'[k] = IF k = m.key THEN m.remote[k] ELSE props_[k]
      <4>1. CASE m.key \in Known
        <5>1. props_' = Updated(props_, m.key, m.remote[m.key])
          BY <2>5, <4>1 DEF HandleChanged
        <5>2. props_'[m.key] = m.remote[m.key]
          BY <1>4, <4>1, <5>1, StoredTyped
        <5>3. \A k \in Known \ {m.key} : props_'[k] = props_[k]
          BY <1>4, <4>1, <5>1, StoredTyped
        <5> QED
          BY <5>2, <5>3
      <4>2. CASE m.key \notin Known
        BY <2>5, <4>2 DEF HandleChanged
      <4> QED
        BY <4>1, <4>2
    <3>3. CacheFollows'
      <4> SUFFICES ASSUME NEW k \in Known \ stale' PROVE props_'[k] = m.remote[k]
        BY <1>2 DEF CacheFollows
      <4>1. CASE k = m.key
        BY <3>2, <4>1
      <4>2. CASE k # m.key
        <5>1. k \notin stale /\ ~Tells(m, k)
          BY <3>1, <4>2 DEF Tells
        <5> QED
          BY <2>1, <3>2, <4>2, <5>1
      <4> QED
        BY <4>1, <4>2
    <3>4. UserIsTold'
      BY <1>2, <3>1 DEF UserIsTold
    <3> QED
      BY <1>1, <1>5, <1>9, <3>1, <3>3, <3>4 DEF IInv
  <2> QED
    BY <1>2, <2>1, <2>3, <2>4, <2>5 DEF HandleNew
<1> QED
  BY <1>8, <1>9

LEMMA Inductive == IInv /\ [Next]_vars => IInv'
<1> SUFFICES ASSUME IInv, [Next]_vars PROVE IInv'
  OBVIOUS
<1>1. TypeOK'
  BY TypeInductive DEF IInv
<1>2. ASSUME NEW k \in Keys, Change(k) PROVE IInv'
  BY <1>2, ChangeKeeps
<1>3. ASSUME NEW kind \in {"full", "empty"}, SendList(kind) PROVE IInv'
  <2>1. count'["changes"] = count["changes"]
    BY <1>3 DEF SendList, Count, IInv, TypeOK
  <2> QED
    BY <1>1, <1>3, <2>1, SendKeeps DEF SendList
<1>4. ASSUME NEW kind \in {"reply", "error"}, Answer(kind) PROVE IInv'
  <2>1. subscribed
    BY <1>4 DEF Answer, IInv, TypeOK, Announced
  <2> QED
    BY <1>1, <1>4, <2>1, SendKeeps DEF Answer
<1>5. ASSUME UNCHANGED <<remote, ctx, lost, stale, seen, subscribed, props_>>,
             count'["changes"] = count["changes"], subscribed \/ UNCHANGED <<callback, asked>>,
             UserIsTold'
      PROVE  IInv'
  <2>1. Following'
    BY <1>5 DEF IInv, Following, InOrder, Unbroken, Tells
  <2>2. Later' /\ IF subscribed' THEN Arrived' ELSE Announced'
    BY <1>5 DEF IInv, Later, Arrived, Announced
  <2> QED
    BY <1>1, <1>5, <2>1, <2>2 DEF IInv, CacheFollows
<1>6. CASE GetProperties
  BY <1>5, <1>6 DEF GetProperties, Count, proxyVars, historyVars, IInv, TypeOK, UserIsTold
<1>7. CASE OnPropertyChanged
  BY <1>5, <1>7 DEF OnPropertyChanged, netVars, historyVars, UserIsTold
<1>8. CASE Handle
  BY <1>8, HandleKeeps
<1>9. CASE UNCHANGED vars
  BY <1>5, <1>9 DEF vars, netVars, proxyVars, historyVars, IInv, UserIsTold
<1> QED
  BY <1>2, <1>3, <1>4, <1>6, <1>7, <1>8, <1>9 DEF Next

LEMMA Initial == Init => IInv
<1> SUFFICES ASSUME Init PROVE IInv
  OBVIOUS
<1>1. TypeOK
  <2>1. ctx \in Seq(Messages)
    <3>1. count["changes"] \in Nat /\ remote \in [Keys -> Values]
      BY DEF Init
    <3> QED
      BY <3>1, MessageTyped DEF Init
  <2>2. Empty \in [Known -> Values]
    BY DEF Empty, Values
  <2>3. count \in [{"changes", "lists", "gets"} -> Nat] /\ count["gets"] = 0
    BY DEF Init
  <2>4. asked \in 0..count["gets"]
    BY <2>3 DEF Init
  <2>5. {subscribed, callback} \subseteq BOOLEAN
    BY DEF Init
  <2>6. lost \in [Known -> 0..count["changes"]] /\ stale = {}
    BY DEF Init
  <2>7. remote \in [Keys -> Values] /\ seen \in [Keys -> Values]
    BY DEF Init
  <2>8. props_ \in [Known -> Values] /\ view \in [Known -> Values]
    BY <2>2 DEF Init
  <2> QED
    BY <2>1, <2>3, <2>4, <2>5, <2>6, <2>7, <2>8 DEF TypeOK
<1>2. /\ Len(ctx) = 1 /\ ctx[1] = Message("new")
      /\ count["changes"] = 0 /\ remote \in [Keys -> Values]
  BY DEF Init
<1>3. ctx[1].kind = "new" /\ ctx[1].remote = remote /\ ctx[1].at = 0
  BY <1>2, MessageTyped
<1>4. Later /\ Announced
  BY <1>2, <1>3 DEF Init, Later, Announced
<1>5. Following
  <2>1. InOrder
    BY <1>2, <1>3 DEF InOrder
  <2>2. ASSUME NEW k \in Known PROVE Unbroken(k)
    <3>1. lost[k] = 0 /\ seen = remote
      BY DEF Init
    <3> QED
      BY <1>2, <1>3, <3>1 DEF Unbroken
  <2> QED
    BY <2>1, <2>2 DEF Following
<1>6. ~subscribed /\ ~callback
  BY DEF Init
<1> QED
  BY <1>1, <1>4, <1>5, <1>6 DEF IInv, CacheFollows, UserIsTold

LEMMA InvariantCorrect == Spec => []IInv
  BY Initial, Inductive, PTL DEF Spec

\* Every state is well typed, and connman answers no call that was not made
\* (gproxy.hpp:39-82).
THEOREM TypeCorrect == Spec => []TypeOK
<1>1. IInv => TypeOK
  BY DEF IInv
<1> QED
  BY <1>1, InvariantCorrect, PTL

\* The copy is connman's state as of the last message, but for changes from
\* before the subscription (gproxy.hpp:39-82, gconnman_manager.cpp:71-84).
THEOREM CacheCorrect == Spec => []CacheFollows
<1>1. IInv => CacheFollows
  BY DEF IInv
<1> QED
  BY <1>1, InvariantCorrect, PTL

\* The silent updates by lists hide no change from the user
\* (gconnman_manager.cpp:75-77, gproxy.hpp:50-60).
THEOREM UserIsToldCorrect == Spec => []UserIsTold
<1>1. IInv => UserIsTold
  BY DEF IInv
<1> QED
  BY <1>1, InvariantCorrect, PTL
==============================================================================
