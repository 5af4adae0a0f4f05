---------------------------- MODULE ManagerProofs ------------------------------
(***************************************************************************)
(* The mirror of connman's services, for any services and technologies and *)
(* any number of changes: it follows connman, the user has what it holds   *)
(* and a service keeps its proxy.                                          *)
(***************************************************************************)
EXTENDS Manager, FiniteSetTheorems, TLAPS

------------------------------------------------------------------------------
(* The inductive invariant.                                                 *)

Methods == {"GetTechnologies", "GetServices"}

\* The lists that name no path twice.
Distinct(paths) == {s \in Seq(paths) : \A i, j \in 1..Len(s) : s[i] = s[j] => i = j}

Sources ==
    [kind : {"call"}, method : Methods]
       \cup [kind : {"connect"}, signal : Signals]
       \cup [kind : {"reply"}, method : {"GetServices"}, list : Distinct(Services)]
       \cup [kind : {"reply"}, method : {"GetTechnologies"}, list : Seq(Technologies)]
       \cup [kind : {"error"}, method : Methods]
       \cup {x \in [kind : {"signal"}, name : {"ServicesChanged"},
                    changed : Distinct(Services), removed : SUBSET Services] :
                x.removed \cap ToSet(x.changed) = {}}
       \cup [kind : {"signal"}, name : {"TechnologyAdded", "TechnologyRemoved"},
             path : Technologies]

Types ==
    /\ TypeOK
    /\ netServices \in Distinct(Services)
    /\ ctx \in Seq(Sources)

\* No two proxies of the Manager are of the same service.
Unique ==
    \A i, j \in 1..Len(services_) : services_[i].path = services_[j].path => i = j

\* The list of services that a source carries.
IsNews(source) ==
    \/ source.kind = "reply" /\ source.method = "GetServices"
    \/ source.kind = "signal" /\ source.name = "ServicesChanged"
ListOf(source) == IF source.kind = "reply" THEN source.list ELSE source.changed

NoNews(first, last) == \A k \in first..last : ~IsNews(ctx[k])

\* The last list on its way, or else the mirror, is connman's.
Latest ==
    /\ \A i \in 1..Len(ctx) : IsNews(ctx[i]) /\ NoNews(i + 1, Len(ctx)) =>
          ListOf(ctx[i]) = netServices
    /\ NoNews(1, Len(ctx)) /\ ~missed => PathsOf(services_) = netServices

\* A reply repeats the list before it, which is on its way or in the mirror.
Repeats ==
    \A i \in 1..Len(ctx) : IsNews(ctx[i]) /\ ctx[i].kind = "reply" =>
       /\ \A j \in 1..(i - 1) : IsNews(ctx[j]) /\ NoNews(j + 1, i - 1) =>
             ListOf(ctx[j]) = ListOf(ctx[i])
       /\ NoNews(1, i - 1) /\ ~missed => PathsOf(services_) = ListOf(ctx[i])

\* The user is given lists only once the handler of ServicesChanged is connected.
Told ==
    /\ services_cb => "ServicesChanged" \in connected
    /\ deliver.kind = "services" => services_cb /\ ~missed /\ deliver.list = services_
    /\ told # None => services_cb /\ ~missed
    /\ told # None /\ deliver.kind # "services" => told.list = services_

IInv == Types /\ Unique /\ Latest /\ Repeats /\ Told

------------------------------------------------------------------------------
(* Sequences.                                                               *)

\* What it means to add an element to a sequence.
LEMMA Added ==
    ASSUME NEW S, NEW s \in Seq(S), NEW x \in S
    PROVE  /\ Append(s, x) \in Seq(S)
           /\ Len(s) \in Nat /\ Len(Append(s, x)) = Len(s) + 1
           /\ \A i \in 1..Len(s) : Append(s, x)[i] = s[i]
           /\ Append(s, x)[Len(s) + 1] = x
  OBVIOUS

\* What it means to take the first element of a sequence.
LEMMA Taken ==
    ASSUME NEW S, NEW s \in Seq(S), s # <<>>
    PROVE  /\ Tail(s) \in Seq(S)
           /\ Len(s) \in Nat /\ Len(s) > 0
           /\ Len(Tail(s)) = Len(s) - 1
           /\ Head(s) = s[1] /\ s[1] \in S
           /\ \A i \in 1..Len(Tail(s)) : Tail(s)[i] = s[i + 1]
  OBVIOUS

\* The elements of a sequence.
LEMMA Elements ==
    ASSUME NEW S, NEW s \in Seq(S)
    PROVE  /\ Len(s) \in Nat /\ DOMAIN s = 1..Len(s)
           /\ \A i \in 1..Len(s) : s[i] \in S
           /\ ToSet(s) \subseteq S
           /\ \A T : S \subseteq T => s \in Seq(T)
  BY DEF ToSet

\* A function on the first numbers is a sequence.
LEMMA Enumerated ==
    ASSUME NEW S, NEW n \in Nat, NEW f \in [1..n -> S]
    PROVE  f \in Seq(S) /\ Len(f) = n
  OBVIOUS

------------------------------------------------------------------------------
(* The lists on their way.                                                  *)

\* Something is sent: a list of services only as connman has it.
LEMMA Sent ==
    ASSUME ctx \in Seq(Sources), Latest, Repeats, NEW x \in Sources,
           ctx' = Append(ctx, x), services_' = services_, missed' = missed,
           IF IsNews(x)
             THEN /\ ListOf(x) = netServices'
                  /\ x.kind = "reply" => netServices' = netServices
             ELSE netServices' = netServices
    PROVE  Latest' /\ Repeats'
<1>0. Len(ctx) \in Nat
    OBVIOUS
<1> SUFFICES ASSUME NEW n \in Nat, n = Len(ctx) PROVE Latest' /\ Repeats'
    BY <1>0
<1>1. /\ n \in Nat /\ Len(ctx') = n + 1 /\ ctx'[n + 1] = x
      /\ \A i \in 1..n : ctx'[i] = ctx[i]
      /\ \A i \in 1..(n + 1) : i \in 1..n \/ i = n + 1
    BY Added
<1>2. PathsOf(services_)' = PathsOf(services_)
    BY DEF PathsOf
<1>3. \A i, j \in Nat : j <= n => (NoNews(i + 1, j)' <=> NoNews(i + 1, j))
    <2> SUFFICES ASSUME NEW i \in Nat, NEW j \in Nat, j <= n
                 PROVE  NoNews(i + 1, j)' <=> NoNews(i + 1, j)
        OBVIOUS
    <2>1. \A k \in (i + 1)..j : ctx'[k] = ctx[k]
        BY <1>1
    <2> QED
        BY <2>1 DEF NoNews
<1>4. \A i \in Nat : i <= n => (NoNews(i + 1, n + 1)' <=> NoNews(i + 1, n) /\ ~IsNews(x))
    <2> SUFFICES ASSUME NEW i \in Nat, i <= n
                 PROVE  NoNews(i + 1, n + 1)' <=> NoNews(i + 1, n) /\ ~IsNews(x)
        OBVIOUS
    <2>1. \A k \in (i + 1)..(n + 1) : k \in (i + 1)..n \/ k = n + 1
        BY <1>1
    <2>2. \A k \in (i + 1)..n : ctx'[k] = ctx[k] /\ k \in (i + 1)..(n + 1)
        BY <1>1
    <2>3. n + 1 \in (i + 1)..(n + 1)
        BY <1>1
    <2> QED
        BY <1>1, <2>1, <2>2, <2>3 DEF NoNews
<1>5. Latest'
    <2>1. ASSUME NEW i \in 1..(n + 1), IsNews(ctx'[i]), NoNews(i + 1, n + 1)'
          PROVE  ListOf(ctx'[i]) = netServices'
        <3>1. CASE i = n + 1
            BY <1>1, <2>1, <3>1
        <3>2. CASE i \in 1..n
            <4>1. NoNews(i + 1, n) /\ ~IsNews(x)
                BY <1>1, <1>4, <2>1, <3>2
            <4> QED
                BY <1>1, <2>1, <3>2, <4>1 DEF Latest
        <3> QED
            BY <1>1, <3>1, <3>2
    <2>2. ASSUME NoNews(1, n + 1)', ~missed PROVE PathsOf(services_) = netServices'
        <3>1. NoNews(0 + 1, n) /\ ~IsNews(x)
            BY <1>1, <1>4, <2>2
        <3> QED
            BY <2>2, <3>1 DEF Latest
    <2> QED
        BY <1>1, <1>2, <2>1, <2>2 DEF Latest
<1>6. Repeats'
    <2> SUFFICES ASSUME NEW i \in 1..(n + 1), IsNews(ctx'[i]), ctx'[i].kind = "reply"
                 PROVE  /\ \A j \in 1..(i - 1) : IsNews(ctx'[j]) /\ NoNews(j + 1, i - 1)' =>
                              ListOf(ctx'[j]) = ListOf(ctx'[i])
                        /\ NoNews(1, i - 1)' /\ ~missed' =>
                              PathsOf(services_)' = ListOf(ctx'[i])
        BY <1>1 DEF Repeats
    <2>1. \A j \in 1..(i - 1) : ctx'[j] = ctx[j] /\ (NoNews(j + 1, i - 1)' <=> NoNews(j + 1, i - 1))
        BY <1>1, <1>3
    <2>2. NoNews(1, i - 1)' <=> NoNews(1, i - 1)
        <3>1. 0 \in Nat /\ i - 1 \in Nat /\ i - 1 <= n /\ 0 + 1 = 1
            BY <1>1
        <3> QED
            BY <1>3, <3>1
    <2>3. CASE i \in 1..n
        BY <1>1, <1>2, <2>1, <2>2, <2>3 DEF Repeats
    <2>4. CASE i = n + 1
        <3>1. ListOf(ctx'[i]) = netServices /\ i - 1 = n
            BY <1>1, <2>4
        <3> QED
            BY <1>1, <1>2, <2>1, <2>2, <3>1 DEF Latest
    <2> QED
        BY <1>1, <2>3, <2>4
<1> QED
    BY <1>5, <1>6

\* Something is dispatched: the mirror takes the list it carries, unless it
\* misses it.
LEMMA Handled ==
    ASSUME ctx \in Seq(Sources), ctx # <<>>, Latest, Repeats,
           ctx' = Tail(ctx), netServices' = netServices,
           IF IsNews(Head(ctx))
             THEN missed' \/ PathsOf(services_)' = ListOf(Head(ctx))
             ELSE missed' = missed /\ services_' = services_
    PROVE  Latest' /\ Repeats'
<1>0. Len(ctx') \in Nat
    BY Taken
<1> SUFFICES ASSUME NEW n \in Nat, n = Len(ctx') PROVE Latest' /\ Repeats'
    BY <1>0
<1>1. /\ n \in Nat /\ Len(ctx) = n + 1 /\ Head(ctx) = ctx[1]
      /\ \A i \in 1..n : ctx'[i] = ctx[i + 1] /\ i + 1 \in 1..Len(ctx)
    BY Taken
<1>2. \A i, j \in Nat : i > 0 /\ j <= n => (NoNews(i, j)' <=> NoNews(i + 1, j + 1))
    <2> SUFFICES ASSUME NEW i \in Nat, NEW j \in Nat, i > 0, j <= n
                 PROVE  NoNews(i, j)' <=> NoNews(i + 1, j + 1)
        OBVIOUS
    <2>1. \A k \in i..j : ctx'[k] = ctx[k + 1] /\ k + 1 \in (i + 1)..(j + 1)
        BY <1>1
    <2>2. \A k \in (i + 1)..(j + 1) : k - 1 \in i..j /\ ctx'[k - 1] = ctx[k]
        BY <1>1
    <2> QED
        BY <2>1, <2>2 DEF NoNews
<1>3. \A j \in Nat : NoNews(1, j + 1) <=> ~IsNews(ctx[1]) /\ NoNews(2, j + 1)
    <2> TAKE j \in Nat
    <2>1. \A k \in 1..(j + 1) : k = 1 \/ k \in 2..(j + 1)
        OBVIOUS
    <2>2. 1 \in 1..(j + 1) /\ \A k \in 2..(j + 1) : k \in 1..(j + 1)
        OBVIOUS
    <2> QED
        BY <2>1, <2>2 DEF NoNews
<1>4. ~IsNews(ctx[1]) => PathsOf(services_)' = PathsOf(services_) /\ missed' = missed
    BY <1>1 DEF PathsOf
<1>5. 1 \in 1..Len(ctx)
    BY <1>1
<1>6. Latest'
    <2>1. ASSUME NEW i \in 1..n, IsNews(ctx'[i]), NoNews(i + 1, n)'
          PROVE  ListOf(ctx'[i]) = netServices
        <3>1. NoNews((i + 1) + 1, n + 1)
            BY <1>1, <1>2, <2>1
        <3> QED
            BY <1>1, <2>1, <3>1 DEF Latest
    <2>2. ASSUME NoNews(1, n)', ~missed' PROVE PathsOf(services_)' = netServices
        <3>1. NoNews(1 + 1, n + 1)
            BY <1>1, <1>2, <2>2
        <3> QED
            BY <1>1, <1>3, <1>4, <1>5, <2>2, <3>1 DEF Latest
    <2> QED
        BY <2>1, <2>2 DEF Latest
<1>7. Repeats'
    <2> SUFFICES ASSUME NEW i \in 1..n, IsNews(ctx'[i]), ctx'[i].kind = "reply"
                 PROVE  /\ \A j \in 1..(i - 1) : IsNews(ctx'[j]) /\ NoNews(j + 1, i - 1)' =>
                              ListOf(ctx'[j]) = ListOf(ctx'[i])
                        /\ NoNews(1, i - 1)' /\ ~missed' =>
                              PathsOf(services_)' = ListOf(ctx'[i])
        BY DEF Repeats
    <2>1. i + 1 \in 1..Len(ctx) /\ ctx'[i] = ctx[i + 1] /\ (i + 1) - 1 = (i - 1) + 1
        BY <1>1
    <2>2. ASSUME NEW j \in 1..(i - 1), IsNews(ctx'[j]), NoNews(j + 1, i - 1)'
          PROVE  ListOf(ctx'[j]) = ListOf(ctx'[i])
        <3>1. NoNews((j + 1) + 1, (i + 1) - 1)
            BY <1>1, <1>2, <2>1, <2>2
        <3>2. j + 1 \in 1..((i + 1) - 1) /\ ctx'[j] = ctx[j + 1]
            BY <1>1
        <3> QED
            BY <2>1, <2>2, <3>1, <3>2 DEF Repeats
    <2>3. ASSUME NoNews(1, i - 1)', ~missed' PROVE PathsOf(services_)' = ListOf(ctx'[i])
        <3>1. NoNews(1 + 1, (i + 1) - 1)
            BY <1>1, <1>2, <2>1, <2>3
        <3>2. CASE IsNews(ctx[1])
            <4>1. 1 \in 1..((i + 1) - 1)
                BY <1>1
            <4>2. ListOf(ctx[1]) = ListOf(ctx[i + 1])
                BY <2>1, <3>1, <3>2, <4>1 DEF Repeats
            <4> QED
                BY <1>1, <2>1, <2>3, <3>2, <4>2
        <3>3. CASE ~IsNews(ctx[1])
            <4>1. NoNews(1, (i - 1) + 1)
                BY <1>3, <2>1, <3>1, <3>3
            <4> QED
                BY <1>4, <2>1, <2>3, <3>3, <4>1 DEF Repeats
        <3> QED
            BY <3>2, <3>3
    <2> QED
        BY <2>2, <2>3
<1> QED
    BY <1>6, <1>7

------------------------------------------------------------------------------
(* Lists and proxies.                                                       *)

\* connman lists no path twice.
LEMMA Ordered ==
    ASSUME NEW paths, NEW s \in Orders(paths)
    PROVE  s \in Distinct(paths)
<1>1. PICK S \in SUBSET paths : IsFiniteSet(S) /\ s \in SetToSeqs(S)
    BY DEF Orders
<1>2. Cardinality(S) \in Nat
    BY <1>1, FS_CardinalityType
<1>3. PICK n \in Nat : /\ s \in [1..n -> S]
                       /\ \A i, j \in 1..n : i # j => s[i] # s[j]
    BY <1>1, <1>2 DEF SetToSeqs
<1>4. s \in Seq(paths) /\ Len(s) = n
    BY <1>3
<1> QED
    BY <1>3, <1>4 DEF Distinct

\* The proxies there can be when n have been made.
ProxiesOf(paths, n) == [path : paths, id : 1..n]

\* A proxy for every path.
LEMMA ProxiesFor ==
    ASSUME NEW paths, NEW n \in Nat, NEW list \in Seq(paths), NEW proxies,
           proxies \in [1..Len(list) -> ProxiesOf(paths, n)],
           \A i \in 1..Len(list) : proxies[i].path = list[i]
    PROVE  /\ proxies \in Seq(ProxiesOf(paths, n))
           /\ Len(proxies) = Len(list)
           /\ PathsOf(proxies) = list
<1>1. Len(list) \in Nat
    OBVIOUS
<1>2. proxies \in Seq(ProxiesOf(paths, n)) /\ Len(proxies) = Len(list)
    BY <1>1, Enumerated
<1>3. PathsOf(proxies) = [i \in 1..Len(list) |-> list[i]]
    BY <1>2 DEF PathsOf
<1> QED
    BY <1>2, <1>3

\* arrays_to_proxies makes a proxy for every path of a list.
LEMMA NewProxiesFor ==
    ASSUME NEW paths, NEW list \in Seq(paths), made \in Nat
    PROVE  /\ made + Len(list) \in Nat
           /\ NewProxies(list) \in Seq(ProxiesOf(paths, made + Len(list)))
           /\ Len(NewProxies(list)) = Len(list)
           /\ \A i \in 1..Len(list) : NewProxies(list)[i].path = list[i]
           /\ PathsOf(NewProxies(list)) = list
<1> DEFINE n == made + Len(list)
<1>1. n \in Nat /\ Len(list) \in Nat
    OBVIOUS
<1>2. \A i \in 1..Len(list) : made + i \in 1..n /\ list[i] \in paths
    BY <1>1
<1>3. /\ NewProxies(list) \in [1..Len(list) -> ProxiesOf(paths, n)]
      /\ \A i \in 1..Len(list) : NewProxies(list)[i].path = list[i]
    BY <1>2 DEF NewProxies, ProxiesOf
<1> HIDE DEF n
<1> DEFINE proxies == NewProxies(list)
<1> HIDE DEF proxies
<1>4. /\ proxies \in [1..Len(list) -> ProxiesOf(paths, n)]
      /\ \A i \in 1..Len(list) : proxies[i].path = list[i]
    BY <1>3 DEF proxies
<1>5. /\ proxies \in Seq(ProxiesOf(paths, n))
      /\ Len(proxies) = Len(list)
      /\ PathsOf(proxies) = list
    BY <1>1, <1>4, ProxiesFor
<1> QED
    BY <1>1, <1>3, <1>5 DEF n, proxies

\* The proxy of a service that stays is kept.
LEMMA KeptProxies ==
    ASSUME made \in Nat, services_ \in Seq(ProxiesOf(Services, made)),
           NEW changed \in Seq(Services), NEW removed
    PROVE  /\ made + Len(changed) \in Nat
           /\ ServicesChangedTo(changed, removed)
                 \in Seq(ProxiesOf(Services, made + Len(changed)))
           /\ Len(ServicesChangedTo(changed, removed)) = Len(changed)
           /\ \A i \in 1..Len(changed) :
                 /\ ServicesChangedTo(changed, removed)[i].path = changed[i]
                 /\ \A p \in ToSet(services_) : p.path = changed[i] /\ p.path \notin removed =>
                       /\ ServicesChangedTo(changed, removed)[i] \in ToSet(services_)
                       /\ ServicesChangedTo(changed, removed)[i].path = p.path
           /\ PathsOf(ServicesChangedTo(changed, removed)) = changed
<1> DEFINE n == made + Len(changed)
           kept == {p \in ToSet(services_) : p.path \notin removed}
           proxies == ServicesChangedTo(changed, removed)
<1>1. n \in Nat /\ Len(changed) \in Nat
    OBVIOUS
<1>2. ToSet(services_) \subseteq ProxiesOf(Services, made)
    BY Elements
<1>3. 1..made \subseteq 1..n
    BY <1>1
<1>4. kept \subseteq ProxiesOf(Services, n)
    BY <1>2, <1>3 DEF ProxiesOf
<1>5. \A i \in 1..Len(changed) : made + i \in 1..n /\ changed[i] \in Services
    BY <1>1
<1> HIDE DEF n, kept
<1>6. \A i \in 1..Len(changed) :
         /\ ProxyFor(changed[i], kept, i) \in ProxiesOf(Services, n)
         /\ ProxyFor(changed[i], kept, i).path = changed[i]
         /\ (\E p \in kept : p.path = changed[i]) => ProxyFor(changed[i], kept, i) \in kept
    <2> TAKE i \in 1..Len(changed)
    <2>1. CASE \E p \in kept : p.path = changed[i]
        BY <1>4, <2>1 DEF ProxyFor, ProxiesOf
    <2>2. CASE ~\E p \in kept : p.path = changed[i]
        <3>1. ProxyFor(changed[i], kept, i) = [path |-> changed[i], id |-> made + i]
            BY <2>2 DEF ProxyFor
        <3> QED
            BY <1>5, <2>2, <3>1 DEF ProxiesOf
    <2> QED
        BY <2>1, <2>2
<1>7. proxies = [i \in 1..Len(changed) |-> ProxyFor(changed[i], kept, i)]
    BY DEF ServicesChangedTo, kept
<1> HIDE DEF proxies
<1>8. /\ proxies \in [1..Len(changed) -> ProxiesOf(Services, n)]
      /\ \A i \in 1..Len(changed) : proxies[i].path = changed[i]
    BY <1>6, <1>7
<1>9. /\ proxies \in Seq(ProxiesOf(Services, n))
      /\ Len(proxies) = Len(changed) /\ PathsOf(proxies) = changed
    BY <1>1, <1>8, ProxiesFor
<1>10. \A i \in 1..Len(changed) : \A p \in ToSet(services_) :
          p.path = changed[i] /\ p.path \notin removed => proxies[i] \in ToSet(services_)
    BY <1>6, <1>7 DEF kept
<1> QED
    BY <1>1, <1>8, <1>9, <1>10 DEF n, proxies

\* A longer list of identities.
LEMMA MoreProxies ==
    ASSUME NEW paths, NEW n \in Nat, NEW m \in Nat, NEW s \in Seq(ProxiesOf(paths, n))
    PROVE  s \in Seq(ProxiesOf(paths, n + m))
<1>1. ProxiesOf(paths, n) \subseteq ProxiesOf(paths, n + m)
    BY DEF ProxiesOf
<1> QED
    BY <1>1, Elements

\* What the kind of a source tells.
LEMMA SourceKinds ==
    ASSUME NEW x \in Sources
    PROVE  /\ x.kind = "call" => x.method \in Methods
           /\ x.kind = "connect" => x.signal \in Signals
           /\ x.kind = "reply" => x.method \in Methods
           /\ x.kind = "reply" /\ x.method = "GetServices" => x.list \in Distinct(Services)
           /\ x.kind = "reply" /\ x.method = "GetTechnologies" => x.list \in Seq(Technologies)
           /\ x.kind = "signal" => x.name \in Signals
           /\ x.kind = "signal" /\ x.name = "ServicesChanged" =>
                 /\ x.changed \in Distinct(Services)
                 /\ x.removed \cap ToSet(x.changed) = {}
           /\ x.kind = "signal" /\ x.name # "ServicesChanged" => x.path \in Technologies
  BY DEF Sources, Methods, Signals

\* What the constructor attaches to ctx_.
LEMMA StepsShape ==
    /\ Len(Steps) = 5
    /\ \A i \in 1..5 : Steps[i] \in Sources /\ ~IsNews(Steps[i])
<1>1. Len(Steps) = 5
    BY DEF Steps
<1>2. \A i \in 1..5 : i = 1 \/ i = 2 \/ i = 3 \/ i = 4 \/ i = 5
    OBVIOUS
<1>3. \A i \in 1..5 : \/ Steps[i].kind = "call" /\ Steps[i] \in [kind : {"call"}, method : Methods]
                      \/ /\ Steps[i].kind = "connect"
                         /\ Steps[i] \in [kind : {"connect"}, signal : Signals]
    BY <1>2 DEF Steps, Methods, Signals
<1> QED
    BY <1>1, <1>3 DEF Sources, IsNews

\* What is dispatched.
LEMMA Oldest ==
    ASSUME IInv, NEW kind, Dispatch(kind)
    PROVE  /\ ctx # <<>> /\ ctx' = Tail(ctx) /\ ctx' \in Seq(Sources) /\ ctx \in Seq(Sources)
           /\ Head(ctx) \in Sources /\ Head(ctx).kind = kind
           /\ deliver = None /\ deliver.kind = "none"
           /\ Latest /\ Repeats
  BY Taken DEF IInv, Types, Dispatch, None

\* What is left alone when the constructor or connman sends something.
LEMMA PeerSteps ==
    ASSUME Construct \/ Answer \/ ChangeServices \/ AddTechnology \/ RemoveTechnology
    PROVE  UNCHANGED <<services_, technologies_, made, connected, services_cb,
                       technologies_cb, told, deliver, missed>>
  BY DEF Construct, Answer, ChangeServices, AddTechnology, RemoveTechnology,
         peerVars, mirrorVars, userVars

\* Something is attached to ctx_.
LEMMA AttachSteps ==
    ASSUME IInv,
           Construct \/ Answer \/ ChangeServices \/ AddTechnology \/ RemoveTechnology
    PROVE  IInv'
<1> USE DEF IInv
<1>1. /\ Types /\ TypeOK /\ ctx \in Seq(Sources) /\ Latest /\ Repeats
      /\ services_' = services_ /\ missed' = missed
    BY PeerSteps DEF Types
<1>2. Unique' /\ Told'
    BY PeerSteps DEF Unique, Told
<1>3. ASSUME NEW x \in Sources, Attach(x),
             IF IsNews(x)
               THEN /\ ListOf(x) = netServices'
                    /\ x.kind = "reply" => netServices' = netServices
               ELSE netServices' = netServices,
             netServices' \in Distinct(Services), netTechnologies' \in Seq(Technologies),
             changes' \in 0..MaxChanges, requests' \in Seq(Methods), ctor' \in 1..6
      PROVE  IInv'
    <2>1. Latest' /\ Repeats'
        BY <1>1, <1>3, Sent DEF Attach
    <2>2. ctx' \in Seq(Sources)
        BY <1>1, <1>3, Added DEF Attach
    <2>3. netServices' \in Seq(Services)
        BY <1>3 DEF Distinct
    <2>4. Types'
        BY <1>1, <1>3, <2>2, <2>3, PeerSteps DEF Types, TypeOK, Methods
    <2> QED
        BY <1>2, <2>1, <2>4
<1>4. /\ netServices \in Distinct(Services) /\ netTechnologies \in Seq(Technologies)
      /\ changes \in 0..MaxChanges /\ requests \in Seq(Methods) /\ ctor \in 1..6
    BY <1>1 DEF Types, TypeOK, Methods
<1>5. CASE Construct
    <2>1. /\ Steps[ctor] \in Sources /\ ~IsNews(Steps[ctor]) /\ Attach(Steps[ctor])
          /\ ctor' \in 1..6
        BY <1>4, <1>5, StepsShape DEF Construct
    <2> QED
        BY <1>3, <1>4, <1>5, <2>1 DEF Construct, peerVars
<1>6. CASE Answer
    <2>1. /\ requests' \in Seq(Methods) /\ Head(requests) \in Methods
          /\ UNCHANGED <<netServices, netTechnologies, changes, ctor>>
        BY <1>4, <1>6, Taken DEF Answer
    <2>2. CASE Attach([kind |-> "error", method |-> Head(requests)])
        <3> DEFINE x == [kind |-> "error", method |-> Head(requests)]
        <3>1. x \in Sources /\ ~IsNews(x)
            BY <2>1 DEF Sources, IsNews
        <3> HIDE DEF x
        <3>2. Attach(x)
            BY <2>2 DEF x
        <3> QED
            BY <1>3, <1>4, <2>1, <3>1, <3>2
    <2>3. CASE /\ Head(requests) = "GetServices"
               /\ Attach([kind |-> "reply", method |-> "GetServices", list |-> netServices])
        <3> DEFINE x == [kind |-> "reply", method |-> "GetServices", list |-> netServices]
        <3>1. x \in Sources /\ ListOf(x) = netServices
            BY <1>4 DEF Sources, ListOf
        <3> HIDE DEF x
        <3>2. Attach(x)
            BY <2>3 DEF x
        <3> QED
            BY <1>3, <1>4, <2>1, <3>1, <3>2
    <2>4. CASE /\ Head(requests) = "GetTechnologies"
               /\ Attach([kind |-> "reply", method |-> "GetTechnologies",
                          list |-> netTechnologies])
        <3> DEFINE x == [kind |-> "reply", method |-> "GetTechnologies",
                         list |-> netTechnologies]
        <3>1. x \in Sources /\ ~IsNews(x)
            BY <1>4 DEF Sources, IsNews
        <3> HIDE DEF x
        <3>2. Attach(x)
            BY <2>4 DEF x
        <3> QED
            BY <1>3, <1>4, <2>1, <3>1, <3>2
    <2> QED
        BY <1>6, <2>1, <2>2, <2>3, <2>4 DEF Answer, Methods
<1>7. CASE ChangeServices
    <2>1. PICK new \in Orders(Services) :
             /\ netServices' = new
             /\ Attach([kind |-> "signal", name |-> "ServicesChanged", changed |-> new,
                        removed |-> ToSet(netServices) \ ToSet(new)])
        BY <1>7 DEF ChangeServices
    <2> DEFINE x == [kind |-> "signal", name |-> "ServicesChanged", changed |-> new,
                     removed |-> ToSet(netServices) \ ToSet(new)]
    <2>2. new \in Distinct(Services)
        BY Ordered
    <2>3. ToSet(netServices) \subseteq Services
        BY <1>4, Elements DEF Distinct
    <2>4. x \in Sources
        BY <2>2, <2>3 DEF Sources
    <2>5. ListOf(x) = new /\ x.kind # "reply" /\ IsNews(x)
        BY DEF ListOf, IsNews
    <2> HIDE DEF x
    <2>6. Attach(x)
        BY <2>1 DEF x
    <2>7. changes' \in 0..MaxChanges /\ UNCHANGED <<netTechnologies, requests, ctor>>
        BY <1>4, <1>7, ManagerAssumption DEF ChangeServices
    <2> QED
        BY <1>3, <1>4, <2>1, <2>2, <2>4, <2>5, <2>6, <2>7
<1>8. ASSUME NEW name \in {"TechnologyAdded", "TechnologyRemoved"}, NEW t \in Technologies,
             Attach([kind |-> "signal", name |-> name, path |-> t]),
             netTechnologies' \in Seq(Technologies), changes' = changes + 1,
             changes < MaxChanges, UNCHANGED <<netServices, requests, ctor>>
      PROVE  IInv'
    <2> DEFINE x == [kind |-> "signal", name |-> name, path |-> t]
    <2>1. x \in Sources /\ ~IsNews(x)
        BY DEF Sources, IsNews
    <2> HIDE DEF x
    <2>2. Attach(x)
        BY <1>8 DEF x
    <2>3. changes' \in 0..MaxChanges
        BY <1>4, <1>8, ManagerAssumption
    <2> QED
        BY <1>3, <1>4, <1>8, <2>1, <2>2, <2>3
<1>9. CASE AddTechnology
    <2>1. PICK t \in Technologies :
             /\ netTechnologies' = Append(netTechnologies, t)
             /\ Attach([kind |-> "signal", name |-> "TechnologyAdded", path |-> t])
        BY <1>9 DEF AddTechnology
    <2>2. netTechnologies' \in Seq(Technologies)
        BY <1>4, <2>1
    <2> QED
        BY <1>8, <1>9, <2>1, <2>2 DEF AddTechnology
<1>10. CASE RemoveTechnology
    <2>1. PICK i \in 1..Len(netTechnologies) :
             /\ netTechnologies' = RemoveAt(netTechnologies, i)
             /\ Attach([kind |-> "signal", name |-> "TechnologyRemoved",
                        path |-> netTechnologies[i]])
        BY <1>10 DEF RemoveTechnology
    <2>2. netTechnologies' \in Seq(Technologies)
        BY <1>4, <2>1 DEF RemoveAt
    <2>3. netTechnologies[i] \in Technologies
        BY <1>4, Elements
    <2> QED
        BY <1>8, <1>10, <2>1, <2>2, <2>3 DEF RemoveTechnology
<1> QED
    BY <1>5, <1>6, <1>7, <1>9, <1>10

\* The user sets a callback or the one for a list runs.
LEMMA UserSteps ==
    ASSUME IInv, SetServicesCallback \/ SetTechnologiesCallback \/ RunCallback
    PROVE  IInv'
<1>1. UNCHANGED <<netServices, netTechnologies, changes, requests, ctx, services_,
                  technologies_, made, connected, ctor, missed>>
    BY DEF SetServicesCallback, SetTechnologiesCallback, RunCallback, peerVars, mirrorVars
<1>2. Unique' /\ Latest' /\ Repeats'
    <2>1. Unique'
        BY <1>1 DEF IInv, Unique
    <2>2. Latest'
        BY <1>1 DEF IInv, Latest, NoNews, PathsOf
    <2>3. Repeats'
        BY <1>1 DEF IInv, Repeats, NoNews, PathsOf
    <2> QED
        BY <2>1, <2>2, <2>3
<1>3. CASE SetServicesCallback \/ SetTechnologiesCallback
    <2>1. Types'
        BY <1>1, <1>3 DEF IInv, Types, TypeOK, SetServicesCallback, SetTechnologiesCallback
    <2>2. Told'
        BY <1>1, <1>3 DEF IInv, Told, SetServicesCallback, SetTechnologiesCallback, Constructed
    <2> QED
        BY <1>2, <2>1, <2>2 DEF IInv
<1>4. CASE RunCallback
    <2>1. /\ deliver' = None /\ deliver'.kind = "none" /\ UNCHANGED <<services_cb, technologies_cb>>
          /\ told' = IF deliver.kind = "services" THEN deliver ELSE told
        BY <1>4 DEF RunCallback, None
    <2>2. Types'
        BY <1>1, <2>1 DEF IInv, Types, TypeOK
    <2>3. Told'
        BY <1>1, <2>1 DEF IInv, Told
    <2> QED
        BY <1>2, <2>2, <2>3 DEF IInv
<1> QED
    BY <1>3, <1>4

\* A source is dispatched that has nothing to do with services.
LEMMA OtherSteps ==
    ASSUME IInv,
           \/ DispatchCall \/ DispatchConnect \/ GetTechnologiesDone \/ GetProxiesFailed
           \/ OnTechnologyAddedRemoved \/ IgnoreSignal
    PROVE  IInv'
<1>1. /\ UNCHANGED <<netServices, netTechnologies, changes, services_, services_cb,
                     technologies_cb, told, ctor>>
      /\ \E kind : Dispatch(kind)
    BY DEF DispatchCall, DispatchConnect, GetTechnologiesDone, GetProxiesFailed,
           OnTechnologyAddedRemoved, IgnoreSignal, peerVars, mirrorVars, userVars
<1>2. /\ ctx # <<>> /\ ctx' = Tail(ctx) /\ ctx' \in Seq(Sources) /\ ctx \in Seq(Sources)
      /\ Head(ctx) \in Sources /\ deliver = None /\ deliver.kind = "none"
      /\ Latest /\ Repeats /\ TypeOK
    BY <1>1, Oldest DEF IInv, Types
<1>3. ASSUME IF IsNews(Head(ctx)) THEN missed' ELSE missed' = missed,
             requests' \in Seq(Methods), made' \in Nat,
             services_ \in Seq([path : Services, id : 1..made']),
             technologies_' \in Seq([path : Technologies, id : 1..made']),
             connected \subseteq connected', connected' \subseteq Signals, missed' \in BOOLEAN,
             deliver'.kind \in {"none", "technologies"},
             told # None => missed' = missed
      PROVE  IInv'
    <2>1. Latest' /\ Repeats'
        BY <1>1, <1>2, <1>3, Handled
    <2>2. Types'
        BY <1>1, <1>2, <1>3 DEF IInv, Types, TypeOK, Methods
    <2>3. Unique'
        BY <1>1 DEF IInv, Unique
    <2>4. Told'
        BY <1>1, <1>2, <1>3 DEF IInv, Told
    <2> QED
        BY <2>1, <2>2, <2>3, <2>4 DEF IInv
<1>4. /\ requests \in Seq(Methods) /\ made \in Nat
      /\ services_ \in Seq([path : Services, id : 1..made])
      /\ technologies_ \in Seq([path : Technologies, id : 1..made])
      /\ connected \subseteq Signals /\ missed \in BOOLEAN
    BY <1>2 DEF TypeOK, Methods
<1>5. CASE DispatchCall
    <2>1. Head(ctx).kind = "call" /\ ~IsNews(Head(ctx))
        BY <1>5, Oldest DEF DispatchCall, IsNews
    <2>2. requests' \in Seq(Methods)
        BY <1>2, <1>4, <1>5, <2>1, SourceKinds, Added DEF DispatchCall
    <2> QED
        BY <1>2, <1>3, <1>4, <1>5, <2>1, <2>2 DEF DispatchCall, mirrorVars
<1>6. CASE DispatchConnect
    <2>1. Head(ctx).kind = "connect" /\ ~IsNews(Head(ctx))
        BY <1>6, Oldest DEF DispatchConnect, IsNews
    <2>2. connected' \subseteq Signals /\ connected \subseteq connected'
        BY <1>2, <1>4, <1>6, <2>1, SourceKinds DEF DispatchConnect
    <2> QED
        BY <1>2, <1>3, <1>4, <1>6, <2>1, <2>2 DEF DispatchConnect, mirrorVars, peerVars
<1>7. CASE GetTechnologiesDone
    <2>1. /\ Head(ctx).kind = "reply" /\ ~IsNews(Head(ctx))
          /\ Head(ctx).list \in Seq(Technologies)
        BY <1>2, <1>7, Oldest, SourceKinds DEF GetTechnologiesDone, IsNews
    <2>2. PICK list \in Seq(Technologies) : list = Head(ctx).list
        BY <2>1
    <2>3. technologies_' = NewProxies(list) /\ made' = made + Len(list)
        BY <1>7, <2>2 DEF GetTechnologiesDone
    <2>4. /\ made' \in Nat /\ Len(list) \in Nat
          /\ technologies_' \in Seq([path : Technologies, id : 1..made'])
        <3>1. /\ made + Len(list) \in Nat /\ Len(list) \in Nat
              /\ NewProxies(list) \in Seq(ProxiesOf(Technologies, made + Len(list)))
            BY <1>4, <2>2, NewProxiesFor, Elements
        <3> QED
            BY <2>3, <3>1 DEF ProxiesOf
    <2>5. services_ \in Seq([path : Services, id : 1..made'])
        BY <1>4, <2>3, <2>4, MoreProxies DEF ProxiesOf
    <2>6. deliver'.kind \in {"none", "technologies"}
        BY <1>7 DEF GetTechnologiesDone, Report, None
    <2> QED
        BY <1>3, <1>4, <1>7, <2>1, <2>4, <2>5, <2>6 DEF GetTechnologiesDone, peerVars
<1>8. CASE GetProxiesFailed
    <2>1. Head(ctx).kind = "error" /\ ~IsNews(Head(ctx))
        BY <1>8, Oldest DEF GetProxiesFailed, IsNews
    <2> QED
        BY <1>2, <1>3, <1>4, <1>8, <2>1 DEF GetProxiesFailed, mirrorVars, peerVars
<1>9. CASE OnTechnologyAddedRemoved
    <2>1. /\ Head(ctx).kind = "signal" /\ ~IsNews(Head(ctx))
          /\ Head(ctx).name \in {"TechnologyAdded", "TechnologyRemoved"}
        BY <1>9, Oldest DEF OnTechnologyAddedRemoved, IsNews
    <2>2. Named(Head(ctx).name) = "other"
        BY <2>1 DEF Named
    <2>3. technologies_' = technologies_ /\ made' = made
        BY <1>4, <1>9, <2>2 DEF OnTechnologyAddedRemoved, TechnologiesAfter
    <2>4. deliver'.kind \in {"none", "technologies"}
        BY <1>9 DEF OnTechnologyAddedRemoved, Report, None
    <2> QED
        BY <1>3, <1>4, <1>9, <2>1, <2>3, <2>4 DEF OnTechnologyAddedRemoved, peerVars
<1>10. CASE IgnoreSignal
    <2>1. Head(ctx).kind = "signal"
        BY <1>10, Oldest DEF IgnoreSignal
    <2>2. missed' = (missed \/ Head(ctx).name = "ServicesChanged")
        BY <1>10 DEF IgnoreSignal
    <2>3. missed' \in BOOLEAN
        BY <2>2
    <2>4. IF IsNews(Head(ctx)) THEN missed' ELSE missed' = missed
        BY <1>4, <2>1, <2>2 DEF IsNews
    <2>5. told # None => missed' = missed
        <3>1. told # None => "ServicesChanged" \in connected
            BY DEF IInv, Told
        <3> QED
            BY <1>4, <1>10, <2>2, <3>1 DEF IgnoreSignal
    <2> QED
        BY <1>2, <1>3, <1>4, <1>10, <2>3, <2>4, <2>5 DEF IgnoreSignal, mirrorVars, peerVars
<1> QED
    BY <1>5, <1>6, <1>7, <1>8, <1>9, <1>10

\* The mirror takes a list.
LEMMA MirrorSteps ==
    ASSUME IInv, GetServicesDone \/ OnServicesChanged
    PROVE  IInv'
<1>1. /\ UNCHANGED <<netServices, netTechnologies, changes, requests, connected, technologies_,
                     services_cb, technologies_cb, told, ctor>>
      /\ missed' = FALSE
      /\ \E kind : Dispatch(kind)
    BY DEF GetServicesDone, OnServicesChanged, peerVars, userVars
<1>2. /\ ctx # <<>> /\ ctx' = Tail(ctx) /\ ctx' \in Seq(Sources) /\ ctx \in Seq(Sources)
      /\ Head(ctx) \in Sources /\ deliver = None /\ deliver.kind = "none"
      /\ Latest /\ Repeats /\ TypeOK
    BY <1>1, Oldest DEF IInv, Types
<1>3. /\ made \in Nat
      /\ services_ \in Seq([path : Services, id : 1..made])
      /\ technologies_ \in Seq([path : Technologies, id : 1..made])
    BY <1>2 DEF TypeOK
<1>4. ASSUME NEW list \in Distinct(Services), IsNews(Head(ctx)), ListOf(Head(ctx)) = list,
             made' = made + Len(list), made' \in Nat,
             services_' \in Seq([path : Services, id : 1..made']),
             Len(services_') = Len(list),
             \A i \in 1..Len(list) : services_'[i].path = list[i],
             PathsOf(services_)' = list,
             \/ /\ services_cb /\ deliver' = [kind |-> "services", list |-> services_']
             \/ /\ deliver' = None
                /\ told # None => services_' = services_
      PROVE  IInv'
    <2>1. Latest' /\ Repeats'
        BY <1>1, <1>2, <1>4, Handled
    <2>2. Len(list) \in Nat
        BY Elements DEF Distinct
    <2>3. technologies_ \in Seq([path : Technologies, id : 1..made'])
        BY <1>3, <1>4, <2>2, MoreProxies DEF ProxiesOf
    <2>4. deliver'.kind \in {"none", "services"}
        BY <1>4 DEF None
    <2>5. Types'
        BY <1>1, <1>2, <1>4, <2>3, <2>4 DEF IInv, Types, TypeOK
    <2>6. Unique'
        BY <1>4 DEF Unique, Distinct
    <2>7. Told'
        <3>1. CASE services_cb /\ deliver' = [kind |-> "services", list |-> services_']
            <4>1. deliver'.kind = "services" /\ deliver'.list = services_'
                BY <3>1
            <4> QED
                BY <1>1, <3>1, <4>1 DEF IInv, Told
        <3>2. CASE deliver' = None /\ (told # None => services_' = services_)
            <4>1. deliver'.kind = "none"
                BY <3>2 DEF None
            <4> QED
                BY <1>1, <1>2, <3>2, <4>1 DEF IInv, Told
        <3> QED
            BY <1>4, <3>1, <3>2
    <2> QED
        BY <2>1, <2>5, <2>6, <2>7 DEF IInv
<1>5. CASE GetServicesDone
    <2>1. Head(ctx).kind = "reply" /\ Head(ctx).method = "GetServices"
        BY <1>5, Oldest DEF GetServicesDone
    <2>2. PICK list \in Distinct(Services) : list = Head(ctx).list
        BY <1>2, <2>1, SourceKinds
    <2>3. /\ services_' = NewProxies(list) /\ made' = made + Len(list)
          /\ Report("services", services_', services_cb /\ list # <<>>)
        BY <1>5, <2>2 DEF GetServicesDone
    <2>4. list \in Seq(Services)
        BY DEF Distinct
    <2>5. /\ made' \in Nat /\ services_' \in Seq([path : Services, id : 1..made'])
          /\ Len(services_') = Len(list)
          /\ \A i \in 1..Len(list) : services_'[i].path = list[i]
          /\ PathsOf(services_)' = list
        BY <1>3, <2>3, <2>4, NewProxiesFor DEF ProxiesOf
    <2>6. IsNews(Head(ctx)) /\ ListOf(Head(ctx)) = list
        BY <2>1, <2>2 DEF IsNews, ListOf
    <2>7. ASSUME list = <<>>, told # None PROVE services_' = services_
        <3>1. ctx[1] = Head(ctx) /\ 1 \in 1..Len(ctx)
            BY <1>2, Taken
        <3>2. ~missed
            BY <2>7 DEF IInv, Told
        <3>3. NoNews(1, 1 - 1)
            BY DEF NoNews
        <3>4. PathsOf(services_) = <<>>
            BY <1>2, <2>1, <2>6, <2>7, <3>1, <3>2, <3>3 DEF Repeats
        <3>5. Len(services_) = 0
            BY <1>3, <3>4 DEF PathsOf
        <3>6. Len(services_') = 0
            BY <2>5, <2>7
        <3> QED
            BY <1>3, <2>5, <3>5, <3>6
    <2>8. CASE services_cb /\ list # <<>>
        <3>1. deliver' = [kind |-> "services", list |-> services_']
            BY <2>3, <2>8 DEF Report
        <3> QED
            BY <1>4, <2>3, <2>5, <2>6, <2>8, <3>1
    <2>9. CASE ~(services_cb /\ list # <<>>)
        <3>1. deliver' = None
            BY <2>3, <2>9 DEF Report
        <3>2. told # None => services_cb
            BY DEF IInv, Told
        <3>3. told # None => services_' = services_
            BY <2>7, <2>9, <3>2
        <3> QED
            BY <1>4, <2>3, <2>5, <2>6, <3>1, <3>3
    <2> QED
        BY <2>8, <2>9
<1>6. CASE OnServicesChanged
    <2>1. Head(ctx).kind = "signal" /\ Head(ctx).name = "ServicesChanged"
        BY <1>6, Oldest DEF OnServicesChanged
    <2> DEFINE removed == Head(ctx).removed
    <2>2. PICK list \in Distinct(Services) : list = Head(ctx).changed
        BY <1>2, <2>1, SourceKinds
    <2>3. /\ services_' = ServicesChangedTo(list, removed) /\ made' = made + Len(list)
          /\ Report("services", services_', services_cb)
        BY <1>6, <2>2 DEF OnServicesChanged
    <2>4. list \in Seq(Services)
        BY DEF Distinct
    <2>5. /\ made' \in Nat /\ services_' \in Seq([path : Services, id : 1..made'])
          /\ Len(services_') = Len(list)
          /\ \A i \in 1..Len(list) : services_'[i].path = list[i]
          /\ PathsOf(services_)' = list
        <3>1. services_ \in Seq(ProxiesOf(Services, made))
            BY <1>3 DEF ProxiesOf
        <3> DEFINE proxies == ServicesChangedTo(list, removed)
        <3>2. /\ made + Len(list) \in Nat
              /\ proxies \in Seq(ProxiesOf(Services, made + Len(list)))
              /\ Len(proxies) = Len(list)
              /\ \A i \in 1..Len(list) : proxies[i].path = list[i]
              /\ PathsOf(proxies) = list
            BY <1>3, <2>4, <3>1, KeptProxies
        <3>3. PathsOf(services_)' = PathsOf(proxies)
            BY <2>3 DEF PathsOf
        <3> HIDE DEF proxies
        <3>4. services_' = proxies
            BY <2>3 DEF proxies
        <3> QED
            BY <2>3, <3>2, <3>3, <3>4 DEF ProxiesOf
    <2>6. IsNews(Head(ctx)) /\ ListOf(Head(ctx)) = list
        BY <2>1, <2>2 DEF IsNews, ListOf
    <2>7. CASE services_cb
        <3>1. deliver' = [kind |-> "services", list |-> services_']
            BY <2>3, <2>7 DEF Report
        <3> QED
            BY <1>4, <2>3, <2>5, <2>6, <2>7, <3>1
    <2>8. CASE ~services_cb
        <3>1. deliver' = None
            BY <2>3, <2>8 DEF Report
        <3>2. told = None
            BY <2>8 DEF IInv, Told
        <3> QED
            BY <1>4, <2>3, <2>5, <2>6, <3>1, <3>2
    <2> QED
        BY <2>7, <2>8
<1> QED
    BY <1>5, <1>6

------------------------------------------------------------------------------
(* The properties.                                                          *)

\* The invariant holds in every state that Spec reaches.
THEOREM InvariantCorrect == Spec => []IInv
<1>1. Init => IInv
    <2> SUFFICES ASSUME Init PROVE IInv
        OBVIOUS
    <2>1. netServices \in Distinct(Services) /\ netTechnologies \in Distinct(Technologies)
        BY Ordered DEF Init
    <2>2. Types
        <3>1. /\ netServices \in Seq(Services) /\ netTechnologies \in Seq(Technologies)
              /\ changes \in 0..MaxChanges
            BY <2>1, ManagerAssumption DEF Init, Distinct
        <3>2. /\ services_ \in Seq([path : Services, id : 1..made])
              /\ technologies_ \in Seq([path : Technologies, id : 1..made])
              /\ requests \in Seq({"GetTechnologies", "GetServices"})
              /\ ctx \in Seq(Sources)
            BY DEF Init
        <3>3. deliver.kind \in {"none", "services", "technologies"}
            BY DEF Init, None
        <3>4. made \in Nat /\ connected \subseteq Signals /\ ctor \in 1..6
            BY DEF Init
        <3>5. services_cb \in BOOLEAN /\ technologies_cb \in BOOLEAN /\ missed \in BOOLEAN
            BY Zenon DEF Init
        <3> QED
            BY <2>1, <3>1, <3>2, <3>3, <3>4, <3>5 DEF Types, TypeOK
    <2>3. ctx = <<>> /\ services_ = <<>> /\ missed /\ Len(ctx) = 0 /\ Len(services_) = 0
        BY DEF Init
    <2>4. Unique /\ Latest /\ Repeats
        BY <2>3 DEF Unique, Latest, Repeats
    <2>5. Told
        BY DEF Init, Told, None
    <2> QED
        BY <2>2, <2>4, <2>5 DEF IInv
<1>2. IInv /\ [Next]_vars => IInv'
    <2> SUFFICES ASSUME IInv, [Next]_vars PROVE IInv'
        OBVIOUS
    <2>1. CASE Construct \/ Answer \/ ChangeServices \/ AddTechnology \/ RemoveTechnology
        BY <2>1, AttachSteps
    <2>2. CASE SetServicesCallback \/ SetTechnologiesCallback \/ RunCallback
        BY <2>2, UserSteps
    <2>3. CASE \/ DispatchCall \/ DispatchConnect \/ GetTechnologiesDone \/ GetProxiesFailed
               \/ OnTechnologyAddedRemoved \/ IgnoreSignal
        BY <2>3, OtherSteps
    <2>4. CASE GetServicesDone \/ OnServicesChanged
        BY <2>4, MirrorSteps
    <2>5. CASE UNCHANGED vars
        <3> USE <2>5 DEF vars, peerVars, mirrorVars, userVars
        <3>1. Types' /\ Unique'
            BY DEF IInv, Types, TypeOK, Unique
        <3>2. Latest' /\ Repeats'
            BY DEF IInv, Latest, Repeats, NoNews, PathsOf
        <3>3. Told'
            BY DEF IInv, Told
        <3> QED
            BY <3>1, <3>2, <3>3 DEF IInv
    <2> QED
        BY <2>1, <2>2, <2>3, <2>4, <2>5 DEF Next, GlibThread
<1> QED
    BY <1>1, <1>2, PTL DEF Spec

\* The Manager holds proxies of services and technologies that connman named,
\* every one with an identity that has been given.
THEOREM TypeCorrect == Spec => []TypeOK
<1>1. IInv => TypeOK
    BY DEF IInv, Types
<1> QED
    BY <1>1, InvariantCorrect, PTL

\* Once the Manager has caught up, services_ is connman's list in connman's
\* order, unless a signal found no handler or GetServices failed and no
\* ServicesChanged has come since (gconnman_manager.cpp:44-86, 382-429).
THEOREM MirrorFollows == Spec => []MirrorsServices
<1>1. IInv => MirrorsServices
    <2> SUFFICES ASSUME IInv, ~missed, ServiceNews = {}
                 PROVE  PathsOf(services_) = netServices
        BY DEF MirrorsServices
    <2>1. NoNews(1, Len(ctx))
        BY DEF NoNews, IsNews, ServiceNews
    <2> QED
        BY <2>1 DEF IInv, Latest
<1> QED
    BY <1>1, InvariantCorrect, PTL

\* The user who has been given a service list holds the current one whenever no
\* callback is on its way, although an empty reply is not reported: an empty
\* reply only repeats an empty list (gconnman_manager.cpp:286-297, 418-428).
THEOREM UserUpToDate == Spec => []UserHoldsCurrentList
<1>1. IInv => UserHoldsCurrentList
    <2> SUFFICES ASSUME IInv, told # None, deliver = None PROVE told.list = services_
        BY DEF UserHoldsCurrentList
    <2>1. deliver.kind = "none"
        BY DEF None
    <2> QED
        BY <2>1 DEF IInv, Told
<1> QED
    BY <1>1, InvariantCorrect, PTL

\* ServicesChanged never replaces the proxy of a service that stays
\* (gconnman_manager.cpp:70-84).
THEOREM ServicesKeepProxies == Spec => ProxiesSurvive
<1> DEFINE Survive ==
        OnServicesChanged =>
           \A p \in ToSet(services_), q \in ToSet(services_') : p.path = q.path => p = q
<1>1. IInv => Survive
    <2> SUFFICES ASSUME IInv, OnServicesChanged,
                        NEW p \in ToSet(services_), NEW q \in ToSet(services_'),
                        p.path = q.path
                 PROVE  p = q
        OBVIOUS
    <2>1. /\ Head(ctx) \in Sources
          /\ Head(ctx).kind = "signal" /\ Head(ctx).name = "ServicesChanged"
        BY Oldest DEF OnServicesChanged
    <2> DEFINE removed == Head(ctx).removed
    <2>2. PICK list \in Seq(Services) :
             list = Head(ctx).changed /\ removed \cap ToSet(list) = {}
        BY <2>1, SourceKinds DEF Distinct
    <2>3. made \in Nat /\ services_ \in Seq([path : Services, id : 1..made])
        BY DEF IInv, Types, TypeOK
    <2>4. services_' = ServicesChangedTo(list, removed)
        BY <2>2 DEF OnServicesChanged
    <2>5. PICK i \in 1..Len(list) : q = services_'[i]
        <3>1. /\ services_' \in Seq(ProxiesOf(Services, made + Len(list)))
              /\ Len(services_') = Len(list)
            BY <2>3, <2>4, KeptProxies DEF ProxiesOf
        <3>2. DOMAIN services_' = 1..Len(list)
            BY <3>1, Elements
        <3> QED
            BY <3>2 DEF ToSet
    <2>6. q.path = list[i]
        BY <2>3, <2>4, <2>5, KeptProxies DEF ProxiesOf
    <2>7. p.path = list[i] /\ p.path \notin removed
        <3>1. list[i] \in ToSet(list)
            BY Elements DEF ToSet
        <3> QED
            BY <2>2, <2>6, <3>1
    <2>8. q \in ToSet(services_)
        BY <2>3, <2>4, <2>5, <2>7, KeptProxies DEF ProxiesOf
    <2>9. PICK k, m \in 1..Len(services_) : p = services_[k] /\ q = services_[m]
        <3>1. DOMAIN services_ = 1..Len(services_)
            BY <2>3, Elements
        <3> QED
            BY <2>8, <3>1 DEF ToSet
    <2>10. k = m
        BY <2>9 DEF IInv, Unique
    <2> QED
        BY <2>9, <2>10
<1>2. IInv /\ [Next]_vars => [Survive]_vars
    BY <1>1
<1>3. Spec => [][Survive]_vars
    BY <1>2, InvariantCorrect, PTL DEF Spec
<1> QED
    BY <1>3 DEF ProxiesSurvive

==============================================================================
