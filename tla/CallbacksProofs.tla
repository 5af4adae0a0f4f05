---------------------------- MODULE CallbacksProofs ----------------------------
(***************************************************************************)
(* The mutexes and the callbacks of the library, for any threads, proxies  *)
(* and lists: nothing deadlocks, no empty callback is called and none is   *)
(* replaced while it runs.                                                 *)
(***************************************************************************)
EXTENDS Callbacks, TLAPS

------------------------------------------------------------------------------
(* The steps that there are.                                                *)

\* The mutexes that are only held within a step.
Momentary == {mtx(p) : p \in Proxies} \cup {ManagerMtx}

\* The callbacks that are stored under Manager::mtx_.
ManagerSlots == {List(l) : l \in Lists} \cup {Error, Input}

\* What the application's calls of the library do.
CallerSteps ==
    [op : {"lock", "unlock"}, mutex : {AppMtx}]
       \cup [op : {"pass"}, mutex : Momentary]
       \cup {x \in [op : {"store"}, mutex : {ManagerMtx}, slot : ManagerSlots,
                    fills : BOOLEAN] : x.fills \/ x.slot \in {Error, Input}}
       \cup {Store(cb_mtx(p), Changed(p), TRUE) : p \in Watched}

\* What the GLib thread does besides.
EventSteps ==
    {Lock(cb_mtx(p)) : p \in Watched} \cup {Unlock(cb_mtx(p)) : p \in Watched}
       \cup {Test(Changed(p)) : p \in Watched} \cup {Call(Changed(p)) : p \in Watched}
       \cup {Copy(ManagerMtx, s) : s \in ManagerSlots} \cup {CallCopy}
       \cup {User(s) : s \in {Changed(p) : p \in Watched} \cup {Copied}}

\* What a thread that handles a RequestInput does besides.
InputSteps == {Test(Input), Call(Input), User(Input)}

StepsOf(t) ==
    CallerSteps \cup (IF t = Glib THEN EventSteps
                      ELSE IF t \in InputThreads THEN InputSteps ELSE {})

\* A step that never waits on a thread that has the application's mutex: the
\* GLib thread is the only one that keeps a cb_mtx_.
Brief(t, step) ==
    /\ step.op \in {"pass", "store"}
    /\ step.mutex \in Momentary \/ t = Glib

------------------------------------------------------------------------------
(* The inductive invariant.                                                 *)

CodeOK ==
    /\ code \in [Threads -> UNION {Seq(StepsOf(t)) : t \in Threads}]
    /\ \A t \in Threads : code[t] \in Seq(StepsOf(t))
    /\ owner \in [Mutexes -> Threads \cup {None}]
    /\ empty \subseteq Slots \ {List(l) : l \in Lists}
    /\ copied \subseteq Threads

\* Only the application's mutex and those of PropertyChanged are ever kept, the
\* latter by the GLib thread.
Keepers ==
    /\ \A m \in Momentary : owner[m] = None
    /\ \A p \in Watched : owner[cb_mtx(p)] \in {None, Glib}

\* Who has the application's mutex, or is about to take it, only takes brief
\* steps until it is released.
Releases(t, i) ==
    /\ code[t][i] = Unlock(AppMtx)
    /\ \A j \in 1..(i - 1) : Brief(t, code[t][j]) \/ (j = 1 /\ code[t][1] = Lock(AppMtx))

AppSection(t) ==
    /\ \A i \in 2..Len(code[t]) : code[t][i] # Lock(AppMtx)
    /\ \A i, j \in 1..Len(code[t]) :
          code[t][i] = Unlock(AppMtx) /\ code[t][j] = Unlock(AppMtx) => i = j
    /\ \A i \in 1..Len(code[t]) : code[t][i] = Unlock(AppMtx) =>
          Releases(t, i) /\ (owner[AppMtx] = t \/ code[t][1] = Lock(AppMtx))
    /\ owner[AppMtx] = t \/ (code[t] # <<>> /\ code[t][1] = Lock(AppMtx)) =>
          \E i \in 1..Len(code[t]) : Releases(t, i)
    /\ owner[AppMtx] = t => code[t][1] # Lock(AppMtx)

\* The GLib thread takes a cb_mtx_ when it has none, right after the test, and
\* keeps it until the callback is done.
Ahead(i, step) == \E j \in 1..(i - 1) : code[Glib][j] = step

LocksOnce ==
    \A i \in 1..Len(code[Glib]), p \in Watched : code[Glib][i] = Lock(cb_mtx(p)) =>
       /\ \A q \in Watched : owner[cb_mtx(q)] # Glib
       /\ \A j \in 1..(i - 1) : code[Glib][j].op = "test"
       /\ \A j \in 1..Len(code[Glib]), q \in Watched :
             code[Glib][j] = Lock(cb_mtx(q)) => j = i
       /\ \E j \in (i + 1)..Len(code[Glib]) : code[Glib][j] = Unlock(cb_mtx(p))

TestsFirst ==
    \A i \in 1..Len(code[Glib]) : code[Glib][i].op = "test" =>
       \E j \in (i + 1)..Len(code[Glib]), p \in Watched :
          code[Glib][j] = Lock(cb_mtx(p))

Unlocks ==
    \A p \in Watched : owner[cb_mtx(p)] = Glib =>
       \E i \in 1..Len(code[Glib]) : code[Glib][i] = Unlock(cb_mtx(p))

\* It replaces no callback of a proxy whose cb_mtx_ it has.
StoresElsewhere ==
    \A i \in 1..Len(code[Glib]), p \in Watched :
       code[Glib][i].op = "store" /\ code[Glib][i].mutex = cb_mtx(p) =>
          /\ owner[cb_mtx(p)] # Glib
          /\ \A j \in 1..Len(code[Glib]), q \in Watched :
                code[Glib][j] # Lock(cb_mtx(q))

\* A callback of PropertyChanged is called and runs under its cb_mtx_.
RunsLocked ==
    \A i \in 1..Len(code[Glib]), p \in Watched :
       code[Glib][i] \in {Call(Changed(p)), User(Changed(p))} =>
          /\ owner[cb_mtx(p)] = Glib \/ Ahead(i, Lock(cb_mtx(p)))
          /\ ~Ahead(i, Unlock(cb_mtx(p)))

RunsInside ==
    \A i \in 1..Len(code[Glib]), p \in Watched :
       code[Glib][i] = User(Changed(p)) => owner[cb_mtx(p)] = Glib

\* It has been tested by then, and stays what it is.
CallsTested ==
    \A i \in 1..Len(code[Glib]), p \in Watched :
       code[Glib][i] = Call(Changed(p)) =>
          Changed(p) \notin empty \/ Ahead(i, Test(Changed(p)))

GlibOK ==
    LocksOnce /\ TestsFirst /\ Unlocks /\ StoresElsewhere /\ RunsLocked /\ RunsInside
       /\ CallsTested

IInv ==
    /\ CodeOK
    /\ Keepers
    /\ \A t \in Threads : AppSection(t)
    /\ GlibOK

------------------------------------------------------------------------------
(* Names, steps and sequences of them.                                      *)

\* No mutex has the name of another.
LEMMA MutexNames ==
    /\ AppMtx \notin Momentary
    /\ \A p : cb_mtx(p) # AppMtx /\ cb_mtx(p) \notin Momentary
    /\ \A p, q : cb_mtx(p) = cb_mtx(q) => p = q
    /\ Mutexes = Momentary \cup {cb_mtx(p) : p \in Watched} \cup {AppMtx}
  BY DEF AppMtx, Momentary, mtx, cb_mtx, ManagerMtx, Mutexes

\* No callback is where another is stored.
LEMMA SlotNames ==
    /\ \A p, q : Changed(p) = Changed(q) => p = q
    /\ \A p : Changed(p) \notin ManagerSlots /\ Changed(p) # Input
    /\ Copied \notin Slots
    /\ Slots = ManagerSlots \cup {Changed(p) : p \in Watched}
<1>1. \A p, q : Changed(p) = Changed(q) => p = q
    BY DEF Changed
<1>2. \A p : Changed(p) \notin ManagerSlots /\ Changed(p) # Input
    BY DEF Changed, List, Error, Input, ManagerSlots
<1>3. Copied \notin Slots
    BY CallbacksAssumption DEF Changed, List, Error, Input, Copied, Slots
<1>4. Slots = ManagerSlots \cup {Changed(p) : p \in Watched}
    BY DEF Slots, ManagerSlots
<1> QED
    BY <1>1, <1>2, <1>3, <1>4

\* What a step consists of.
LEMMA StepNames ==
    /\ \A m : Lock(m).op = "lock" /\ Lock(m).mutex = m
    /\ \A m : Unlock(m).op = "unlock" /\ Unlock(m).mutex = m
    /\ \A m : Pass(m).op = "pass" /\ Pass(m).mutex = m
    /\ \A m, s, f : /\ Store(m, s, f).op = "store" /\ Store(m, s, f).mutex = m
                    /\ Store(m, s, f).slot = s /\ Store(m, s, f).fills = f
    /\ \A m, s : Copy(m, s).op = "copy" /\ Copy(m, s).mutex = m /\ Copy(m, s).slot = s
    /\ \A s : Test(s).op = "test" /\ Test(s).slot = s
    /\ \A s : Call(s).op = "call" /\ Call(s).slot = s
    /\ \A s : User(s).op = "user" /\ User(s).slot = s
    /\ CallCopy.op = "callcopy"
  BY DEF Lock, Unlock, Pass, Store, Copy, Test, Call, User, CallCopy

\* What the kind of a step tells.
LEMMA StepKinds ==
    ASSUME NEW t \in Threads, NEW step \in StepsOf(t)
    PROVE  /\ step.op \in {"lock", "unlock", "pass", "store", "copy", "test", "call",
                           "callcopy", "user"}
           /\ step.op = "lock" =>
                 \/ step = Lock(AppMtx)
                 \/ t = Glib /\ \E p \in Watched : step = Lock(cb_mtx(p))
           /\ step.op = "unlock" =>
                 \/ step = Unlock(AppMtx)
                 \/ t = Glib /\ \E p \in Watched : step = Unlock(cb_mtx(p))
           /\ step.op = "pass" => step.mutex \in Momentary
           /\ step.op = "copy" =>
                 t = Glib /\ step.mutex = ManagerMtx /\ step.slot \in ManagerSlots
           /\ step.op = "store" =>
                 \/ /\ step.mutex = ManagerMtx /\ step.slot \in ManagerSlots
                    /\ step.fills \/ step.slot \in {Error, Input}
                 \/ \E p \in Watched : /\ step.mutex = cb_mtx(p) /\ step.slot = Changed(p)
                                       /\ step.fills
           /\ step.op = "test" =>
                 \/ t = Glib /\ \E p \in Watched : step = Test(Changed(p))
                 \/ t \in InputThreads /\ step = Test(Input)
           /\ step.op = "call" =>
                 \/ t = Glib /\ \E p \in Watched : step = Call(Changed(p))
                 \/ t \in InputThreads /\ step = Call(Input)
           /\ step.op = "user" =>
                 \/ /\ t = Glib
                    /\ step = User(Copied) \/ \E p \in Watched : step = User(Changed(p))
                 \/ t \in InputThreads /\ step = User(Input)
           /\ step.op = "callcopy" => t = Glib
<1> USE StepNames
<1>1. CASE step \in CallerSteps
    <2>1. CASE step \in [op : {"lock", "unlock"}, mutex : {AppMtx}]
        BY <2>1 DEF Lock, Unlock
    <2>2. CASE step \in [op : {"pass"}, mutex : Momentary]
        BY <2>2
    <2>3. CASE step \in {x \in [op : {"store"}, mutex : {ManagerMtx},
                                slot : ManagerSlots, fills : BOOLEAN] :
                            x.fills \/ x.slot \in {Error, Input}}
        BY <2>3
    <2>4. CASE step \in {Store(cb_mtx(p), Changed(p), TRUE) : p \in Watched}
        <3>1. PICK p \in Watched : step = Store(cb_mtx(p), Changed(p), TRUE)
            BY <2>4
        <3>2. /\ step.op = "store" /\ step.mutex = cb_mtx(p)
              /\ step.slot = Changed(p) /\ step.fills
            BY <3>1 DEF Store
        <3> QED
            BY <3>2
    <2> QED
        BY <1>1, <2>1, <2>2, <2>3, <2>4 DEF CallerSteps
<1>2. CASE t = Glib /\ step \in EventSteps
    BY <1>2 DEF EventSteps
<1>3. CASE t \in InputThreads /\ step \in InputSteps
    BY <1>3 DEF InputSteps
<1> QED
    BY <1>1, <1>2, <1>3 DEF StepsOf

\* What it means to take the first element of a sequence.
LEMMA Taken ==
    ASSUME NEW S, NEW s \in Seq(S), s # <<>>
    PROVE  /\ Tail(s) \in Seq(S)
           /\ Len(s) \in Nat /\ Len(s) > 0 /\ 1 \in 1..Len(s)
           /\ Len(Tail(s)) = Len(s) - 1
           /\ Head(s) = s[1] /\ s[1] \in S
           /\ \A i \in 1..Len(s) - 1 : Tail(s)[i] = s[i + 1]
           /\ \A i \in 1..Len(Tail(s)) : Tail(s)[i] = s[i + 1] /\ i + 1 \in 1..Len(s)
           /\ \A i \in 1..Len(s) : i # 1 =>
                 i - 1 \in 1..Len(Tail(s)) /\ Tail(s)[i - 1] = s[i]
  OBVIOUS

\* What it means to put a sequence in front of another.
LEMMA Prepended ==
    ASSUME NEW S, NEW r \in Seq(S), NEW s \in Seq(S)
    PROVE  /\ r \o s \in Seq(S)
           /\ Len(r) \in Nat /\ Len(s) \in Nat /\ Len(r \o s) = Len(r) + Len(s)
           /\ \A i \in 1..Len(r) : (r \o s)[i] = r[i]
           /\ \A i \in 1..Len(s) : (r \o s)[Len(r) + i] = s[i]
           /\ \A i \in 1..Len(r \o s) : i > Len(r) =>
                 i - Len(r) \in 1..Len(s) /\ (r \o s)[i] = s[i - Len(r)]
  OBVIOUS

\* A step of one thread.
LEMMA Continued ==
    ASSUME CodeOK, NEW t \in Threads, NEW steps \in Seq(StepsOf(t)), Continue(t, steps)
    PROVE  /\ code' \in [Threads -> UNION {Seq(StepsOf(u)) : u \in Threads}]
           /\ \A u \in Threads : code'[u] \in Seq(StepsOf(u))
           /\ code'[t] = steps
           /\ \A u \in Threads : u # t => code'[u] = code[u]
  BY DEF CodeOK, Continue

\* A call of the library is no step or one, and only onPropertyChanged waits for
\* a mutex that is kept, but never for one the caller has.
LEMMA ShortCalls ==
    ASSUME CodeOK, NEW t \in Threads, NEW steps \in Plain \cup Waiting(t)
    PROVE  \/ steps = <<>>
           \/ \E x \in CallerSteps :
                 /\ steps = <<x>> /\ x.op \in {"pass", "store"}
                 /\ steps \in Plain => x.mutex \in Momentary
                 /\ \A p \in Watched : x.mutex = cb_mtx(p) => owner[cb_mtx(p)] # t
<1> USE MutexNames
<1>1. ASSUME NEW m \in Momentary, steps = <<Pass(m)>>
      PROVE  \E x \in CallerSteps :
                 /\ steps = <<x>> /\ x.op \in {"pass", "store"}
                 /\ x.mutex \in Momentary
    <2>1. Pass(m) \in CallerSteps
        BY DEF CallerSteps, Pass
    <2>2. Pass(m).op = "pass" /\ Pass(m).mutex = m
        BY StepNames
    <2> QED
        BY <1>1, <2>1, <2>2
<1>2. ASSUME NEW slot \in ManagerSlots, NEW fills \in BOOLEAN,
             fills \/ slot \in {Error, Input}, steps = <<Store(ManagerMtx, slot, fills)>>
      PROVE  \E x \in CallerSteps :
                 /\ steps = <<x>> /\ x.op \in {"pass", "store"}
                 /\ x.mutex \in Momentary
    BY <1>2 DEF CallerSteps, Store, Momentary
<1>3. ASSUME NEW p \in Watched, owner[cb_mtx(p)] # t,
             steps = <<Store(cb_mtx(p), Changed(p), TRUE)>>
      PROVE  \E x \in CallerSteps :
                 /\ steps = <<x>> /\ x.op \in {"pass", "store"}
                 /\ x.mutex = cb_mtx(p)
    BY <1>3 DEF CallerSteps, Store
<1>4. CASE steps \in Plain
    <2>1. CASE \E p \in Proxies : steps \in {properties(p), prepareCallback(p)}
        BY <1>1, <2>1 DEF properties, prepareCallback, Momentary
    <2>2. CASE steps = services
        BY <1>1, <2>2 DEF services, Momentary
    <2>3. CASE \E l \in Lists, fills \in BOOLEAN : steps = onListChanged(l, fills)
        BY <1>2, <2>3 DEF onListChanged, ManagerSlots
    <2>4. CASE \E fills \in BOOLEAN : steps \in {onReportError(fills), onRequestInput(fills)}
        BY <1>2, <2>4 DEF onReportError, onRequestInput, ManagerSlots
    <2> QED
        BY <1>4, <2>1, <2>2, <2>3, <2>4 DEF Plain
<1>5. CASE steps \in Waiting(t) \ Plain
    <2>1. PICK p \in Watched, fills \in BOOLEAN :
             owner[cb_mtx(p)] # t /\ steps = onPropertyChanged(p, fills)
        BY <1>5 DEF Waiting
    <2>2. steps = <<>> \/ steps = <<Store(cb_mtx(p), Changed(p), TRUE)>>
        BY <2>1 DEF onPropertyChanged
    <2> QED
        BY <1>3, <1>5, <2>1, <2>2
<1> QED
    BY <1>4, <1>5

\* A sequence between two elements.
LEMMA Wrapped ==
    ASSUME NEW S, NEW a \in S, NEW b \in S, NEW s \in Seq(S)
    PROVE  /\ <<a>> \o s \o <<b>> \in Seq(S)
           /\ Len(<<a>> \o s \o <<b>>) = Len(s) + 2
           /\ (<<a>> \o s \o <<b>>)[1] = a
           /\ \A i \in 1..Len(s) : (<<a>> \o s \o <<b>>)[i + 1] = s[i]
           /\ (<<a>> \o s \o <<b>>)[Len(s) + 2] = b
<1> DEFINE r == <<a>> \o s
<1>1. /\ r \in Seq(S) /\ Len(r) = Len(s) + 1 /\ r[1] = a
      /\ \A i \in 1..Len(s) : r[i + 1] = s[i]
    OBVIOUS
<1>2. /\ r \o <<b>> \in Seq(S) /\ Len(r \o <<b>>) = Len(r) + 1
      /\ \A i \in 1..Len(r) : (r \o <<b>>)[i] = r[i]
      /\ (r \o <<b>>)[Len(r) + 1] = b
    BY <1>1
<1>3. Len(s) \in Nat
    OBVIOUS
<1> HIDE DEF r
<1>4. /\ r \o <<b>> \in Seq(S) /\ Len(r \o <<b>>) = Len(s) + 2
      /\ (r \o <<b>>)[1] = a
      /\ \A i \in 1..Len(s) : (r \o <<b>>)[i + 1] = s[i]
      /\ (r \o <<b>>)[Len(s) + 2] = b
    BY <1>1, <1>2, <1>3
<1> QED
    BY <1>4 DEF r

\* An element before a sequence.
Preceded(a, s) == <<a>> \o s

\* What such a sequence consists of.
LEMMA PrecededShape ==
    ASSUME NEW S, NEW a \in S, NEW s \in Seq(S)
    PROVE  /\ Preceded(a, s) \in Seq(S) /\ Len(Preceded(a, s)) = Len(s) + 1
           /\ Preceded(a, s)[1] = a
           /\ \A i \in 1..Len(s) : Preceded(a, s)[i + 1] = s[i]
  BY DEF Preceded

\* The steps taken under a mutex.
LEMMA UnderShape ==
    ASSUME NEW S, NEW m, Lock(m) \in S, Unlock(m) \in S, NEW s \in Seq(S)
    PROVE  /\ Under(m, s) \in Seq(S) /\ Len(Under(m, s)) = Len(s) + 2
           /\ Under(m, s)[1] = Lock(m)
           /\ \A i \in 1..Len(s) : Under(m, s)[i + 1] = s[i]
           /\ Under(m, s)[Len(s) + 2] = Unlock(m)
  BY Wrapped DEF Under

\* With or without the application's mutex.
LEMMA CallableShape ==
    ASSUME CodeOK, NEW t \in Threads, NEW steps \in Callable(t)
    PROVE  /\ steps \in Seq(CallerSteps)
           /\ \A i \in 1..Len(steps), p \in Watched :
                 steps[i].op = "store" /\ steps[i].mutex = cb_mtx(p) => owner[cb_mtx(p)] # t
           /\ \/ \A i \in 1..Len(steps) : steps[i].op \in {"pass", "store"}
              \/ /\ Len(steps) > 1
                 /\ steps[1] = Lock(AppMtx) /\ steps[Len(steps)] = Unlock(AppMtx)
                 /\ \A i \in 2..(Len(steps) - 1) : Brief(t, steps[i])
<1>1. CASE steps \in Plain \cup Waiting(t)
    <2>1. CASE steps = <<>>
        BY <2>1
    <2>2. ASSUME NEW x \in CallerSteps, steps = <<x>>, x.op \in {"pass", "store"},
                 \A p \in Watched : x.mutex = cb_mtx(p) => owner[cb_mtx(p)] # t
          PROVE  /\ steps \in Seq(CallerSteps)
                 /\ \A i \in 1..Len(steps) : steps[i] = x
        BY <2>2
    <2> QED
        BY <1>1, <2>1, <2>2, ShortCalls
<1>2. ASSUME NEW inner \in Plain \cup Waiting(t), steps = Under(AppMtx, inner),
             t # Glib => inner \in Plain
      PROVE  /\ steps \in Seq(CallerSteps)
             /\ \A i \in 1..Len(steps), p \in Watched :
                   steps[i].op = "store" /\ steps[i].mutex = cb_mtx(p) => owner[cb_mtx(p)] # t
             /\ Len(steps) > 1
             /\ steps[1] = Lock(AppMtx) /\ steps[Len(steps)] = Unlock(AppMtx)
             /\ \A i \in 2..(Len(steps) - 1) : Brief(t, steps[i])
    <2>1. Lock(AppMtx) \in CallerSteps /\ Unlock(AppMtx) \in CallerSteps
        BY DEF Lock, Unlock, CallerSteps
    <2>2. ASSUME inner \in Seq(CallerSteps)
          PROVE  /\ steps \in Seq(CallerSteps) /\ Len(steps) = Len(inner) + 2
                 /\ steps[1] = Lock(AppMtx) /\ steps[Len(inner) + 2] = Unlock(AppMtx)
                 /\ \A i \in 1..Len(inner) : steps[i + 1] = inner[i]
        BY <1>2, <2>1, <2>2, UnderShape
    <2>3. CASE inner = <<>>
        <3>1. inner \in Seq(CallerSteps) /\ Len(inner) = 0
            BY <2>3
        <3>2. Len(steps) = 2 /\ \A i \in 1..2 : i = 1 \/ i = 2
            BY <2>2, <3>1
        <3> QED
            BY <2>2, <3>1, <3>2, StepNames
    <2>4. CASE inner # <<>>
        <3>1. PICK x \in CallerSteps :
                 /\ inner = <<x>> /\ x.op \in {"pass", "store"}
                 /\ inner \in Plain => x.mutex \in Momentary
                 /\ \A p \in Watched : x.mutex = cb_mtx(p) => owner[cb_mtx(p)] # t
            BY <2>4, ShortCalls
        <3>2. inner \in Seq(CallerSteps) /\ Len(inner) = 1 /\ inner[1] = x
            BY <3>1
        <3>3. /\ steps \in Seq(CallerSteps) /\ Len(steps) = 3
              /\ steps[1] = Lock(AppMtx) /\ steps[2] = x /\ steps[3] = Unlock(AppMtx)
            BY <2>2, <3>2
        <3>4. \A i \in 1..3 : i = 1 \/ i = 2 \/ i = 3
            OBVIOUS
        <3>5. Brief(t, x)
            BY <1>2, <3>1 DEF Brief
        <3> QED
            BY <3>1, <3>3, <3>4, <3>5, StepNames
    <2> QED
        BY <2>3, <2>4
<1> QED
    BY <1>1, <1>2 DEF Callable

------------------------------------------------------------------------------
(* The application's mutex.                                                 *)

\* A thread that is not about to take a brief step, or to take or release a
\* mutex, is outside of the sections of the application's.
LEMMA Outside ==
    ASSUME CodeOK, NEW t \in Threads, AppSection(t),
           \/ code[t] = <<>>
           \/ Head(code[t]).op \notin {"lock", "unlock", "pass", "store"}
    PROVE  /\ owner[AppMtx] # t
           /\ \A i \in 1..Len(code[t]) : code[t][i] \notin {Lock(AppMtx), Unlock(AppMtx)}
<1>1. code[t] \in Seq(StepsOf(t)) /\ Len(code[t]) \in Nat
    BY DEF CodeOK
<1>2. CASE code[t] = <<>>
    BY <1>2 DEF AppSection
<1>3. CASE code[t] # <<>>
    <2>1. /\ Head(code[t]) = code[t][1] /\ 1 \in 1..Len(code[t])
          /\ \A i \in 1..Len(code[t]) : i # 1 => i \in 2..Len(code[t]) /\ 1 \in 1..(i - 1)
        BY <1>1, <1>3, Taken
    <2>2. code[t][1].op \notin {"lock", "unlock", "pass", "store"}
        BY <1>3, <2>1
    <2>3. code[t][1] \notin {Lock(AppMtx), Unlock(AppMtx)} /\ ~Brief(t, code[t][1])
        BY <2>2, StepNames DEF Brief
    <2>4. \A i \in 1..Len(code[t]) : ~Releases(t, i)
        BY <2>1, <2>3 DEF Releases
    <2> QED
        BY <2>1, <2>3, <2>4 DEF AppSection
<1> QED
    BY <1>2, <1>3

\* Nor is one that has no step to do with it.
LEMMA NoSection ==
    ASSUME NEW t \in Threads, code'[t] \in Seq(StepsOf(t)), owner'[AppMtx] # t,
           \A i \in 1..Len(code'[t]) : code'[t][i] \notin {Lock(AppMtx), Unlock(AppMtx)}
    PROVE  AppSection(t)'
<1>1. code'[t] # <<>> => 1 \in 1..Len(code'[t])
    OBVIOUS
<1>2. \A i \in 2..Len(code'[t]) : i \in 1..Len(code'[t])
    OBVIOUS
<1> QED
    BY <1>1, <1>2 DEF AppSection

\* A step that has nothing to do with it keeps the section.
LEMMA SectionAdvances ==
    ASSUME CodeOK, NEW t \in Threads, AppSection(t), code[t] # <<>>,
           code'[t] = Tail(code[t]), owner'[AppMtx] = owner[AppMtx],
           Head(code[t]) \notin {Lock(AppMtx), Unlock(AppMtx)}
    PROVE  AppSection(t)'
<1> DEFINE c == code[t]
           d == code'[t]
<1>1. c \in Seq(StepsOf(t))
    BY DEF CodeOK
<1>2. /\ Len(c) \in Nat /\ Len(d) = Len(c) - 1 /\ 1 \in 1..Len(c)
      /\ c[1] \notin {Lock(AppMtx), Unlock(AppMtx)}
      /\ \A i \in 1..Len(d) : d[i] = c[i + 1] /\ i + 1 \in 2..Len(c) /\ i + 1 \in 1..Len(c)
      /\ \A i \in 1..Len(c) : i # 1 => i - 1 \in 1..Len(d) /\ d[i - 1] = c[i]
    BY <1>1, Taken
<1>3. \A i \in 1..Len(d) : d[i] # Lock(AppMtx)
    BY <1>2 DEF AppSection
<1>4. ASSUME NEW i \in 1..Len(d), Releases(t, i + 1) PROVE Releases(t, i)'
    <2>1. d[i] = Unlock(AppMtx)
        BY <1>2, <1>4 DEF Releases
    <2>2. ASSUME NEW j \in 1..(i - 1) PROVE Brief(t, d[j])
        <3>1. j + 1 \in 1..(i + 1 - 1) /\ j + 1 # 1 /\ d[j] = c[j + 1]
            BY <1>2
        <3>2. Brief(t, c[j + 1])
            BY <1>4, <3>1 DEF Releases
        <3> QED
            BY <3>1, <3>2
    <2> QED
        BY <2>1, <2>2 DEF Releases, Brief
<1>5. \A i \in 1..Len(d) : d[i] = Unlock(AppMtx) =>
          Releases(t, i)' /\ owner'[AppMtx] = t
    BY <1>2, <1>4 DEF AppSection
<1>6. \A i, j \in 1..Len(d) : d[i] = Unlock(AppMtx) /\ d[j] = Unlock(AppMtx) => i = j
    <2>1. \A i, j \in 1..Len(c) : c[i] = Unlock(AppMtx) /\ c[j] = Unlock(AppMtx) => i = j
        BY DEF AppSection
    <2> QED
        BY <1>2, <2>1
<1>7. owner'[AppMtx] = t => \E i \in 1..Len(d) : Releases(t, i)'
    <2> SUFFICES ASSUME owner[AppMtx] = t PROVE \E i \in 1..Len(d) : Releases(t, i)'
        OBVIOUS
    <2>1. PICK i \in 1..Len(c) : Releases(t, i)
        BY DEF AppSection
    <2>2. i - 1 \in 1..Len(d) /\ i - 1 + 1 = i
        BY <1>2, <2>1 DEF Releases
    <2> QED
        BY <1>4, <2>1, <2>2
<1>8. d # <<>> => 1 \in 1..Len(d)
    BY <1>1, <1>2
<1>9. \A i \in 2..Len(d) : i \in 1..Len(d)
    BY <1>2
<1>10. owner'[AppMtx] = t => d[1] # Lock(AppMtx)
    <2>1. \A i \in 1..Len(d) : 1 \in 1..Len(d)
        BY <1>2
    <2> QED
        BY <1>3, <1>7, <2>1
<1> QED
    BY <1>3, <1>5, <1>6, <1>7, <1>8, <1>9, <1>10 DEF AppSection

\* A thread that has no part in a step.
LEMMA SectionKept ==
    ASSUME NEW t \in Threads, AppSection(t), code'[t] = code[t],
           owner'[AppMtx] = t <=> owner[AppMtx] = t
    PROVE  AppSection(t)'
  BY DEF AppSection, Releases, Brief

\* A thread takes the application's mutex.
LEMMA SectionEntered ==
    ASSUME CodeOK, NEW t \in Threads, AppSection(t), code[t] # <<>>,
           code'[t] = Tail(code[t]), owner'[AppMtx] = t, Head(code[t]) = Lock(AppMtx)
    PROVE  AppSection(t)'
<1> DEFINE c == code[t]
           d == code'[t]
<1>1. /\ Len(c) \in Nat /\ Len(d) = Len(c) - 1 /\ 1 \in 1..Len(c) /\ c[1] = Lock(AppMtx)
      /\ \A i \in 1..Len(d) : d[i] = c[i + 1] /\ i + 1 \in 2..Len(c) /\ i + 1 \in 1..Len(c)
      /\ \A i \in 1..Len(c) : i # 1 => i - 1 \in 1..Len(d) /\ d[i - 1] = c[i]
    BY Taken DEF CodeOK
<1>2. \A i \in 1..Len(d) : d[i] # Lock(AppMtx)
    BY <1>1 DEF AppSection
<1>3. ASSUME NEW i \in 1..Len(d), Releases(t, i + 1) PROVE Releases(t, i)'
    <2>1. d[i] = Unlock(AppMtx)
        BY <1>1, <1>3 DEF Releases
    <2>2. ASSUME NEW j \in 1..(i - 1) PROVE Brief(t, d[j])
        <3>1. j + 1 \in 1..(i + 1 - 1) /\ j + 1 # 1 /\ d[j] = c[j + 1]
            BY <1>1
        <3>2. Brief(t, c[j + 1])
            BY <1>3, <3>1 DEF Releases
        <3> QED
            BY <3>1, <3>2
    <2> QED
        BY <2>1, <2>2 DEF Releases, Brief
<1>4. \A i \in 1..Len(d) : d[i] = Unlock(AppMtx) => Releases(t, i)'
    BY <1>1, <1>3 DEF AppSection
<1>5. \A i, j \in 1..Len(d) : d[i] = Unlock(AppMtx) /\ d[j] = Unlock(AppMtx) => i = j
    <2>1. \A i, j \in 1..Len(c) : c[i] = Unlock(AppMtx) /\ c[j] = Unlock(AppMtx) => i = j
        BY DEF AppSection
    <2> QED
        BY <1>1, <2>1
<1>6. \E i \in 1..Len(d) : Releases(t, i)'
    <2>1. PICK i \in 1..Len(c) : Releases(t, i)
        BY <1>1 DEF AppSection
    <2>2. i # 1
        BY <1>1, <2>1, StepNames DEF Releases
    <2>3. i - 1 \in 1..Len(d) /\ i - 1 + 1 = i
        BY <1>1, <2>2
    <2> QED
        BY <1>3, <2>1, <2>3
<1>7. d[1] # Lock(AppMtx)
    <2>1. \A i \in 1..Len(d) : 1 \in 1..Len(d)
        BY <1>1
    <2> QED
        BY <1>2, <1>6, <2>1
<1>8. \A i \in 2..Len(d) : i \in 1..Len(d)
    BY <1>1
<1> QED
    BY <1>2, <1>4, <1>5, <1>6, <1>7, <1>8 DEF AppSection

\* A thread releases the application's mutex, which it has.
LEMMA SectionLeft ==
    ASSUME CodeOK, NEW t \in Threads, AppSection(t), code[t] # <<>>,
           code'[t] = Tail(code[t]), owner'[AppMtx] # t, Head(code[t]) = Unlock(AppMtx)
    PROVE  AppSection(t)' /\ owner[AppMtx] = t
<1> DEFINE c == code[t]
           d == code'[t]
<1>1. /\ Len(c) \in Nat /\ Len(d) = Len(c) - 1 /\ 1 \in 1..Len(c) /\ c[1] = Unlock(AppMtx)
      /\ \A i \in 1..Len(d) : d[i] = c[i + 1] /\ i + 1 \in 2..Len(c) /\ i + 1 \in 1..Len(c)
      /\ d \in Seq(StepsOf(t))
    BY Taken DEF CodeOK
<1>2. c[1] # Lock(AppMtx)
    BY <1>1, StepNames
<1>3. owner[AppMtx] = t
    BY <1>1, <1>2 DEF AppSection
<1>4. \A i \in 1..Len(d) : d[i] # Unlock(AppMtx)
    <2>1. \A i \in 1..Len(c) : c[i] = Unlock(AppMtx) => i = 1
        BY <1>1 DEF AppSection
    <2>2. \A i \in 1..Len(d) : i + 1 # 1
        BY <1>1
    <2> QED
        BY <1>1, <2>1, <2>2
<1>5. \A i \in 1..Len(d) : d[i] # Lock(AppMtx)
    BY <1>1 DEF AppSection
<1> QED
    BY <1>1, <1>3, <1>4, <1>5, NoSection

\* A thread outside of the sections calls the library.
LEMMA SectionCalls ==
    ASSUME CodeOK, NEW t \in Threads, AppSection(t),
           code[t] = <<>> \/ Head(code[t]).op = "user",
           NEW steps \in Callable(t), code'[t] = steps \o code[t],
           owner'[AppMtx] = owner[AppMtx]
    PROVE  AppSection(t)'
<1> DEFINE c == code[t]
           d == code'[t]
           n == Len(steps)
<1>1. c \in Seq(StepsOf(t)) /\ steps \in Seq(StepsOf(t)) /\ steps \in Seq(CallerSteps)
    <2>1. steps \in Seq(CallerSteps)
        BY CallableShape
    <2>2. CallerSteps \subseteq StepsOf(t)
        BY DEF StepsOf
    <2>3. c \in Seq(StepsOf(t))
        BY DEF CodeOK
    <2> QED
        BY <2>1, <2>2, <2>3
<1>2. /\ n \in Nat /\ Len(c) \in Nat /\ Len(d) = n + Len(c) /\ d \in Seq(StepsOf(t))
      /\ \A i \in 1..n : d[i] = steps[i] /\ i \in 1..Len(d)
      /\ \A i \in 1..Len(d) : i \in 1..n \/ (i - n \in 1..Len(c) /\ d[i] = c[i - n])
    BY <1>1, Prepended
<1>3. /\ owner[AppMtx] # t
      /\ \A i \in 1..Len(c) : c[i] \notin {Lock(AppMtx), Unlock(AppMtx)}
    BY Outside
<1> HIDE DEF c, d, n
<1>4. CASE \A i \in 1..n : steps[i].op \in {"pass", "store"}
    <2>1. \A i \in 1..n : steps[i] \notin {Lock(AppMtx), Unlock(AppMtx)}
        BY <1>4, StepNames
    <2>2. \A i \in 1..Len(d) : d[i] \notin {Lock(AppMtx), Unlock(AppMtx)}
        BY <1>2, <1>3, <2>1
    <2> QED
        BY <1>2, <1>3, <2>2, NoSection DEF d
<1>5. CASE /\ n > 1 /\ steps[1] = Lock(AppMtx) /\ steps[n] = Unlock(AppMtx)
           /\ \A i \in 2..(n - 1) : Brief(t, steps[i])
    <2>1. \A i \in 1..n : i = 1 \/ i = n \/ i \in 2..(n - 1)
        BY <1>2
    <2>2. 1 \in 1..n /\ n \in 1..n /\ n # 1 /\ n \in 1..Len(d)
        BY <1>2, <1>5
    <2>3. d[1] = Lock(AppMtx) /\ d[n] = Unlock(AppMtx)
        BY <1>2, <1>5, <2>2
    <2>4. \A i \in 2..(n - 1) : Brief(t, d[i])
        BY <1>2, <1>5
    <2>5. \A i \in 2..(n - 1) : d[i] \notin {Lock(AppMtx), Unlock(AppMtx)}
        BY <2>4, StepNames DEF Brief
    <2>6. Lock(AppMtx) # Unlock(AppMtx)
        BY StepNames
    <2>7. \A i \in 1..Len(d) : d[i] = Lock(AppMtx) => i = 1
        BY <1>2, <1>3, <2>1, <2>3, <2>5, <2>6
    <2>8. \A i \in 1..Len(d) : d[i] = Unlock(AppMtx) => i = n
        BY <1>2, <1>3, <2>1, <2>3, <2>5, <2>6
    <2>9. Releases(t, n)'
        <3>1. \A j \in 1..(n - 1) : j = 1 \/ j \in 2..(n - 1)
            BY <1>2
        <3>2. \A j \in 1..(n - 1) : Brief(t, d[j]) \/ (j = 1 /\ d[1] = Lock(AppMtx))
            BY <2>3, <2>4, <3>1
        <3> QED
            BY <2>3, <3>2 DEF Releases, Brief, d
    <2>10. \A i \in 2..Len(d) : i \in 1..Len(d) /\ i # 1
        BY <1>2
    <2>11. \A i \in 2..Len(d) : d[i] # Lock(AppMtx)
        BY <2>7, <2>10
    <2>12. \A i \in 1..Len(d) : d[i] = Unlock(AppMtx) =>
              Releases(t, i)' /\ d[1] = Lock(AppMtx)
        BY <2>3, <2>8, <2>9
    <2>13. \A i, j \in 1..Len(d) : d[i] = Unlock(AppMtx) /\ d[j] = Unlock(AppMtx) => i = j
        BY <2>8
    <2>14. \E i \in 1..Len(d) : Releases(t, i)'
        BY <2>2, <2>9
    <2> QED
        BY <1>3, <2>11, <2>12, <2>13, <2>14 DEF AppSection, d
<1> QED
    BY <1>4, <1>5, CallableShape DEF n

\* A thread outside of the sections runs a callback.
LEMMA SectionRuns ==
    ASSUME CodeOK, NEW t \in Threads, AppSection(t), code[t] # <<>>,
           Head(code[t]).op \in {"call", "callcopy"}, NEW slot, User(slot) \in StepsOf(t),
           code'[t] = <<User(slot)>> \o Tail(code[t]), owner'[AppMtx] = owner[AppMtx]
    PROVE  AppSection(t)' /\ code'[t] \in Seq(StepsOf(t))
<1> DEFINE c == code[t]
           d == code'[t]
<1>1. /\ c \in Seq(StepsOf(t)) /\ Tail(c) \in Seq(StepsOf(t))
      /\ Len(c) \in Nat /\ Len(Tail(c)) = Len(c) - 1
      /\ \A i \in 1..Len(Tail(c)) : Tail(c)[i] = c[i + 1] /\ i + 1 \in 1..Len(c)
    BY Taken DEF CodeOK
<1>2. /\ owner[AppMtx] # t
      /\ \A i \in 1..Len(c) : c[i] \notin {Lock(AppMtx), Unlock(AppMtx)}
    BY Outside
<1>3. /\ d \in Seq(StepsOf(t)) /\ Len(d) = Len(Tail(c)) + 1 /\ d[1] = User(slot)
      /\ \A i \in 1..Len(Tail(c)) : d[i + 1] = Tail(c)[i]
    <2> DEFINE user == User(slot)
               rest == Tail(c)
    <2>1. d = Preceded(user, rest) /\ user \in StepsOf(t) /\ rest \in Seq(StepsOf(t))
        BY <1>1 DEF Preceded
    <2> HIDE DEF user, rest
    <2>2. /\ d \in Seq(StepsOf(t)) /\ Len(d) = Len(rest) + 1 /\ d[1] = user
          /\ \A i \in 1..Len(rest) : d[i + 1] = rest[i]
        <3>1. user \in StepsOf(t) /\ rest \in Seq(StepsOf(t))
            BY <2>1
        <3>2. /\ Preceded(user, rest) \in Seq(StepsOf(t))
              /\ Len(Preceded(user, rest)) = Len(rest) + 1 /\ Preceded(user, rest)[1] = user
              /\ \A i \in 1..Len(rest) : Preceded(user, rest)[i + 1] = rest[i]
            BY <3>1, PrecededShape
        <3> QED
            BY <2>1, <3>2
    <2> QED
        BY <2>2 DEF user, rest
<1>4. \A i \in 1..Len(d) : i # 1 => i - 1 \in 1..Len(Tail(c)) /\ d[(i - 1) + 1] = d[i]
    BY <1>1, <1>3
<1>5. \A i \in 1..Len(d) : d[i] \notin {Lock(AppMtx), Unlock(AppMtx)}
    <2> TAKE i \in 1..Len(d)
    <2>1. CASE i = 1
        BY <1>3, <2>1, StepNames
    <2>2. CASE i # 1
        BY <1>1, <1>2, <1>3, <1>4, <2>2
    <2> QED
        BY <2>1, <2>2
<1> QED
    BY <1>2, <1>3, <1>5, NoSection

------------------------------------------------------------------------------
(* The callbacks of PropertyChanged.                                        *)

\* Steps of other threads, which neither take nor release a cb_mtx_ nor reset a
\* callback.
LEMMA GlibKept ==
    ASSUME GlibOK, code'[Glib] = code[Glib],
           \A p \in Watched : owner'[cb_mtx(p)] = owner[cb_mtx(p)],
           \A p \in Watched : Changed(p) \notin empty => Changed(p) \notin empty'
    PROVE  GlibOK'
<1>1. LocksOnce'
    BY DEF GlibOK, LocksOnce
<1>2. TestsFirst'
    BY DEF GlibOK, TestsFirst
<1>3. Unlocks'
    BY DEF GlibOK, Unlocks
<1>4. StoresElsewhere'
    BY DEF GlibOK, StoresElsewhere
<1>5. RunsLocked'
    BY DEF GlibOK, RunsLocked, Ahead
<1>6. RunsInside'
    BY DEF GlibOK, RunsInside
<1>7. CallsTested'
    BY DEF GlibOK, CallsTested, Ahead
<1> QED
    BY <1>1, <1>2, <1>3, <1>4, <1>5, <1>6, <1>7 DEF GlibOK

\* What is ahead after the first step was taken.
LEMMA AheadAfter ==
    ASSUME CodeOK, Glib \in Threads, code[Glib] # <<>>, code'[Glib] = Tail(code[Glib]),
           NEW i \in 1..Len(code'[Glib]), NEW step
    PROVE  /\ Ahead(i, step)' => Ahead(i + 1, step)
           /\ Ahead(i + 1, step) => code[Glib][1] = step \/ Ahead(i, step)'
<1> DEFINE c == code[Glib]
           d == code'[Glib]
<1>1. /\ Len(c) \in Nat /\ Len(d) = Len(c) - 1
      /\ \A j \in 1..Len(d) : d[j] = c[j + 1]
    BY Taken DEF CodeOK
<1>2. ASSUME NEW j \in 1..(i - 1), d[j] = step PROVE Ahead(i + 1, step)
    <2>1. j + 1 \in 1..((i + 1) - 1) /\ c[j + 1] = step
        BY <1>1, <1>2
    <2> QED
        BY <2>1 DEF Ahead
<1>3. ASSUME NEW j \in 1..((i + 1) - 1), c[j] = step, c[1] # step PROVE Ahead(i, step)'
    <2>1. j - 1 \in 1..(i - 1) /\ d[j - 1] = step
        BY <1>1, <1>3
    <2> QED
        BY <2>1 DEF Ahead
<1> QED
    BY <1>2, <1>3 DEF Ahead

\* A step of the GLib thread that has nothing to do with a cb_mtx_.
LEMMA GlibAdvances ==
    ASSUME CodeOK, GlibOK, Glib \in Threads,
           code[Glib] # <<>>, code'[Glib] = Tail(code[Glib]),
           \A p \in Watched : owner'[cb_mtx(p)] = owner[cb_mtx(p)],
           \A p \in Watched : Changed(p) \notin empty => Changed(p) \notin empty',
           \A p \in Watched : Head(code[Glib]) \notin {Lock(cb_mtx(p)), Unlock(cb_mtx(p))},
           \A p \in Watched : Head(code[Glib]) = Test(Changed(p)) => Changed(p) \notin empty
    PROVE  GlibOK'
<1> DEFINE c == code[Glib]
           d == code'[Glib]
<1>1. /\ Len(c) \in Nat /\ Len(d) = Len(c) - 1 /\ 1 \in 1..Len(c) /\ c[1] = Head(c)
      /\ \A i \in 1..Len(d) : d[i] = c[i + 1] /\ i + 1 \in 1..Len(c)
      /\ \A i \in 1..Len(c) : i # 1 => i - 1 \in 1..Len(d) /\ d[i - 1] = c[i]
    BY Taken DEF CodeOK
<1>2. LocksOnce'
    <2> SUFFICES ASSUME NEW i \in 1..Len(d), NEW p \in Watched, d[i] = Lock(cb_mtx(p))
                 PROVE  /\ \A q \in Watched : owner[cb_mtx(q)] # Glib
                        /\ \A j \in 1..(i - 1) : d[j].op = "test"
                        /\ \A j \in 1..Len(d), q \in Watched :
                              d[j] = Lock(cb_mtx(q)) => j = i
                        /\ \E j \in (i + 1)..Len(d) : d[j] = Unlock(cb_mtx(p))
        BY DEF LocksOnce
    <2>1. /\ \A q \in Watched : owner[cb_mtx(q)] # Glib
          /\ \A j \in 1..((i + 1) - 1) : c[j].op = "test"
          /\ \A j \in 1..Len(c), q \in Watched :
                c[j] = Lock(cb_mtx(q)) => j = i + 1
          /\ \E j \in ((i + 1) + 1)..Len(c) : c[j] = Unlock(cb_mtx(p))
        <3>1. i + 1 \in 1..Len(c) /\ c[i + 1] = Lock(cb_mtx(p))
            BY <1>1
        <3> HIDE DEF c
        <3> QED
            BY <3>1 DEF GlibOK, LocksOnce, c
    <2>2. \A j \in 1..(i - 1) : d[j].op = "test"
        BY <1>1, <2>1
    <2>3. ASSUME NEW j \in 1..Len(d), NEW q \in Watched, d[j] = Lock(cb_mtx(q))
          PROVE  j = i
        <3>1. j + 1 \in 1..Len(c) /\ c[j + 1] = Lock(cb_mtx(q))
            BY <1>1, <2>3
        <3>2. j + 1 = i + 1
            BY <2>1, <3>1
        <3> QED
            BY <3>2
    <2>4. \E j \in (i + 1)..Len(d) : d[j] = Unlock(cb_mtx(p))
        <3>1. PICK j \in ((i + 1) + 1)..Len(c) : c[j] = Unlock(cb_mtx(p))
            BY <2>1
        <3>2. j - 1 \in (i + 1)..Len(d) /\ d[j - 1] = Unlock(cb_mtx(p))
            BY <1>1, <3>1
        <3> QED
            BY <3>2
    <2> QED
        BY <2>1, <2>2, <2>3, <2>4
<1>3. TestsFirst'
    <2> SUFFICES ASSUME NEW i \in 1..Len(d), d[i].op = "test"
                 PROVE  \E j \in (i + 1)..Len(d), p \in Watched : d[j] = Lock(cb_mtx(p))
        BY DEF TestsFirst
    <2>1. PICK j \in ((i + 1) + 1)..Len(c), p \in Watched : c[j] = Lock(cb_mtx(p))
        BY <1>1 DEF GlibOK, TestsFirst
    <2>2. j - 1 \in (i + 1)..Len(d) /\ d[j - 1] = Lock(cb_mtx(p))
        BY <1>1, <2>1
    <2> QED
        BY <2>2
<1>4. Unlocks'
    <2> SUFFICES ASSUME NEW p \in Watched, owner[cb_mtx(p)] = Glib
                 PROVE  \E i \in 1..Len(d) : d[i] = Unlock(cb_mtx(p))
        BY DEF Unlocks
    <2>1. PICK i \in 1..Len(c) : c[i] = Unlock(cb_mtx(p))
        BY DEF GlibOK, Unlocks
    <2>2. i # 1
        BY <1>1, <2>1
    <2>3. i - 1 \in 1..Len(d) /\ d[i - 1] = Unlock(cb_mtx(p))
        BY <1>1, <2>1, <2>2
    <2> QED
        BY <2>3
<1>5. StoresElsewhere'
    BY <1>1 DEF GlibOK, StoresElsewhere
<1>6. RunsLocked'
    <2> SUFFICES ASSUME NEW i \in 1..Len(d), NEW p \in Watched,
                        d[i] \in {Call(Changed(p)), User(Changed(p))}
                 PROVE  /\ owner[cb_mtx(p)] = Glib \/ Ahead(i, Lock(cb_mtx(p)))'
                        /\ ~Ahead(i, Unlock(cb_mtx(p)))'
        BY DEF RunsLocked
    <2>1. /\ owner[cb_mtx(p)] = Glib \/ Ahead(i + 1, Lock(cb_mtx(p)))
          /\ ~Ahead(i + 1, Unlock(cb_mtx(p)))
        BY <1>1 DEF GlibOK, RunsLocked
    <2> QED
        BY <1>1, <2>1, AheadAfter
<1>7. CallsTested'
    <2> SUFFICES ASSUME NEW i \in 1..Len(d), NEW p \in Watched, d[i] = Call(Changed(p))
                 PROVE  Changed(p) \notin empty' \/ Ahead(i, Test(Changed(p)))'
        BY DEF CallsTested
    <2>1. Changed(p) \notin empty \/ Ahead(i + 1, Test(Changed(p)))
        BY <1>1 DEF GlibOK, CallsTested
    <2> QED
        BY <1>1, <2>1, AheadAfter
<1>8. RunsInside'
    BY <1>1 DEF GlibOK, RunsInside
<1> QED
    BY <1>2, <1>3, <1>4, <1>5, <1>6, <1>7, <1>8 DEF GlibOK

\* The GLib thread runs what it was about to call.
LEMMA GlibRuns ==
    ASSUME CodeOK, GlibOK, Glib \in Threads, code[Glib] # <<>>,
           NEW slot, code'[Glib] = <<User(slot)>> \o Tail(code[Glib]),
           Head(code[Glib]).op \in {"call", "callcopy"},
           \A p \in Watched : slot = Changed(p) => Head(code[Glib]) = Call(Changed(p)),
           \A p \in Watched : owner'[cb_mtx(p)] = owner[cb_mtx(p)], empty' = empty
    PROVE  GlibOK'
<1> DEFINE c == code[Glib]
           d == code'[Glib]
<1>1. /\ Len(c) \in Nat /\ 1 \in 1..Len(c) /\ c[1] = Head(c)
      /\ Tail(c) \in Seq(StepsOf(Glib)) /\ Len(Tail(c)) = Len(c) - 1
      /\ \A i \in 1..Len(Tail(c)) : Tail(c)[i] = c[i + 1]
    BY Taken DEF CodeOK
<1>2. Len(d) = Len(c) /\ d[1] = User(slot)
    BY <1>1
<1>3. \A i \in 1..Len(c) : i # 1 => d[i] = c[i]
    BY <1>1
<1>4. d[1].op = "user"
    BY <1>2, StepNames
<1>5. c[1].op \in {"call", "callcopy"}
    BY <1>1
<1> HIDE DEF c, d
<1>6. LocksOnce'
    <2>1. LocksOnce
        BY DEF GlibOK
    <2> QED
        BY <1>1, <1>2, <1>3, <1>4, <1>5, <2>1, StepNames DEF LocksOnce, c, d
<1>7. TestsFirst'
    BY <1>1, <1>2, <1>3, <1>4, <1>5, StepNames DEF GlibOK, TestsFirst, c, d
<1>8. Unlocks'
    BY <1>1, <1>2, <1>3, <1>4, <1>5, StepNames DEF GlibOK, Unlocks, c, d
<1>9. StoresElsewhere'
    BY <1>1, <1>2, <1>3, <1>4, <1>5, StepNames DEF GlibOK, StoresElsewhere, c, d
<1>10. \A i \in 1..Len(c) : \A step :
          step.op \notin {"user", "call", "callcopy"} => (Ahead(i, step)' <=> Ahead(i, step))
    <2> SUFFICES ASSUME NEW i \in 1..Len(c), NEW step,
                        step.op \notin {"user", "call", "callcopy"}
                 PROVE  Ahead(i, step)' <=> Ahead(i, step)
        OBVIOUS
    <2>1. \A j \in 1..(i - 1) : j \in 1..Len(c)
        BY <1>1
    <2>2. \A j \in 1..Len(c) : d[j] = step <=> c[j] = step
        BY <1>2, <1>3, <1>4, <1>5
    <2> QED
        BY <2>1, <2>2 DEF Ahead, c, d
<1>11. RunsLocked'
    <2> SUFFICES ASSUME NEW i \in 1..Len(c), NEW p \in Watched,
                        d[i] \in {Call(Changed(p)), User(Changed(p))}
                 PROVE  /\ owner[cb_mtx(p)] = Glib \/ Ahead(i, Lock(cb_mtx(p)))'
                        /\ ~Ahead(i, Unlock(cb_mtx(p)))'
        BY <1>2 DEF RunsLocked, d
    <2>1. c[i] \in {Call(Changed(p)), User(Changed(p))}
        <3>1. CASE i = 1
            <4>1. slot = Changed(p)
                BY <1>2, <3>1, StepNames
            <4> QED
                BY <1>1, <3>1, <4>1 DEF c
        <3>2. CASE i # 1
            BY <1>3, <3>2
        <3> QED
            BY <3>1, <3>2
    <2>2. /\ owner[cb_mtx(p)] = Glib \/ Ahead(i, Lock(cb_mtx(p)))
          /\ ~Ahead(i, Unlock(cb_mtx(p)))
        BY <2>1 DEF GlibOK, RunsLocked, c
    <2>3. /\ Lock(cb_mtx(p)).op \notin {"user", "call", "callcopy"}
          /\ Unlock(cb_mtx(p)).op \notin {"user", "call", "callcopy"}
        BY StepNames
    <2> QED
        BY <1>10, <2>2, <2>3
<1>12. CallsTested'
    <2> SUFFICES ASSUME NEW i \in 1..Len(c), NEW p \in Watched, d[i] = Call(Changed(p))
                 PROVE  Changed(p) \notin empty \/ Ahead(i, Test(Changed(p)))'
        BY <1>2 DEF CallsTested, d
    <2>1. c[i] = Call(Changed(p))
        BY <1>2, <1>3, <1>4, StepNames
    <2>2. Changed(p) \notin empty \/ Ahead(i, Test(Changed(p)))
        BY <2>1 DEF GlibOK, CallsTested, c
    <2>3. Test(Changed(p)).op \notin {"user", "call", "callcopy"}
        BY StepNames
    <2> QED
        BY <1>10, <2>2, <2>3
<1>13. RunsInside'
    <2> SUFFICES ASSUME NEW i \in 1..Len(c), NEW p \in Watched, d[i] = User(Changed(p))
                 PROVE  owner[cb_mtx(p)] = Glib
        BY <1>2 DEF RunsInside, d
    <2>1. CASE i = 1
        <3>1. slot = Changed(p)
            BY <1>2, <2>1, StepNames
        <3>2. c[1] = Call(Changed(p))
            BY <1>1, <3>1 DEF c
        <3>3. ~Ahead(1, Lock(cb_mtx(p)))
            BY DEF Ahead
        <3> QED
            BY <1>1, <3>2, <3>3 DEF GlibOK, RunsLocked, c
    <2>2. CASE i # 1
        <3>1. c[i] = User(Changed(p))
            BY <1>3, <2>2
        <3> QED
            BY <3>1 DEF GlibOK, RunsInside, c
    <2> QED
        BY <2>1, <2>2
<1> QED
    BY <1>6, <1>7, <1>8, <1>9, <1>11, <1>12, <1>13 DEF GlibOK

\* Without a step to take the GLib thread has no cb_mtx_.
LEMMA GlibStops ==
    ASSUME code'[Glib] = <<>>, \A p \in Watched : owner'[cb_mtx(p)] # Glib
    PROVE  GlibOK'
  BY DEF GlibOK, LocksOnce, TestsFirst, Unlocks, StoresElsewhere, RunsLocked, RunsInside,
         CallsTested

\* A handler of PropertyChanged that finds no callback has no cb_mtx_.
LEMMA NothingHeld ==
    ASSUME CodeOK, GlibOK, Glib \in Threads,
           code[Glib] = <<>> \/ Head(code[Glib]).op = "test"
    PROVE  \A p \in Watched : owner[cb_mtx(p)] # Glib
<1>1. CASE code[Glib] = <<>>
    BY <1>1 DEF GlibOK, Unlocks
<1>2. CASE code[Glib] # <<>> /\ Head(code[Glib]).op = "test"
    <2>1. 1 \in 1..Len(code[Glib]) /\ code[Glib][1].op = "test" /\ Len(code[Glib]) \in Nat
        BY <1>2, Taken DEF CodeOK
    <2>2. PICK j \in 2..Len(code[Glib]), p \in Watched : code[Glib][j] = Lock(cb_mtx(p))
        BY <2>1 DEF GlibOK, TestsFirst
    <2>3. j \in 1..Len(code[Glib])
        BY <2>1, <2>2
    <2> QED
        BY <2>2, <2>3 DEF GlibOK, LocksOnce
<1> QED
    BY <1>1, <1>2

\* The GLib thread takes the cb_mtx_ of a proxy.
LEMMA GlibLocks ==
    ASSUME CodeOK, GlibOK, Glib \in Threads, code[Glib] # <<>>,
           NEW p \in Watched, Head(code[Glib]) = Lock(cb_mtx(p)),
           code'[Glib] = Tail(code[Glib]), empty' = empty,
           owner'[cb_mtx(p)] = Glib,
           \A q \in Watched : q # p => owner'[cb_mtx(q)] = owner[cb_mtx(q)]
    PROVE  GlibOK'
<1> DEFINE c == code[Glib]
           d == code'[Glib]
<1>1. /\ Len(c) \in Nat /\ Len(d) = Len(c) - 1 /\ 1 \in 1..Len(c)
      /\ c[1] = Lock(cb_mtx(p))
      /\ \A i \in 1..Len(d) : d[i] = c[i + 1] /\ i + 1 \in 1..Len(c)
      /\ \A i \in 1..Len(c) : i # 1 => i - 1 \in 1..Len(d) /\ d[i - 1] = c[i]
    BY Taken DEF CodeOK
<1>2. /\ \A q \in Watched : owner[cb_mtx(q)] # Glib
      /\ \A j \in 1..Len(c), q \in Watched : c[j] = Lock(cb_mtx(q)) => j = 1
      /\ \E j \in 2..Len(c) : c[j] = Unlock(cb_mtx(p))
    BY <1>1 DEF GlibOK, LocksOnce
<1>3. \A i \in 1..Len(d), q \in Watched : d[i] # Lock(cb_mtx(q))
    <2> SUFFICES ASSUME NEW i \in 1..Len(d), NEW q \in Watched, d[i] = Lock(cb_mtx(q))
                 PROVE  FALSE
        OBVIOUS
    <2>1. i + 1 \in 1..Len(c) /\ c[i + 1] = Lock(cb_mtx(q))
        BY <1>1
    <2>2. i + 1 = 1
        BY <1>2, <2>1
    <2> QED
        BY <2>2
<1>4. LocksOnce'
    BY <1>3 DEF LocksOnce
<1>5. TestsFirst'
    <2> SUFFICES ASSUME NEW i \in 1..Len(d), d[i].op = "test" PROVE FALSE
        BY DEF TestsFirst
    <2>1. i + 1 \in 1..Len(c) /\ c[i + 1].op = "test"
        BY <1>1
    <2>2. PICK j \in ((i + 1) + 1)..Len(c), q \in Watched : c[j] = Lock(cb_mtx(q))
        BY <2>1 DEF GlibOK, TestsFirst
    <2>3. j = 1
        BY <1>1, <1>2, <2>2
    <2> QED
        BY <2>2, <2>3
<1>6. ASSUME NEW q \in Watched, q # p PROVE ~\E i \in 1..Len(d) :
          d[i] \in {Call(Changed(q)), User(Changed(q))}
    <2> SUFFICES ASSUME NEW i \in 1..Len(d), d[i] \in {Call(Changed(q)), User(Changed(q))}
                 PROVE  FALSE
        OBVIOUS
    <2>1. i + 1 \in 1..Len(c) /\ c[i + 1] \in {Call(Changed(q)), User(Changed(q))}
        BY <1>1
    <2>2. Ahead(i + 1, Lock(cb_mtx(q)))
        BY <1>2, <2>1 DEF GlibOK, RunsLocked
    <2>3. PICK j \in 1..((i + 1) - 1) : c[j] = Lock(cb_mtx(q))
        BY <2>2 DEF Ahead
    <2>4. j \in 1..Len(c)
        BY <1>1, <2>3
    <2>5. c[1] = Lock(cb_mtx(q))
        BY <1>2, <2>3, <2>4
    <2>6. cb_mtx(p) = cb_mtx(q)
        BY <1>1, <2>5 DEF Lock
    <2> QED
        BY <1>6, <2>6, MutexNames
<1>7. RunsLocked'
    <2> SUFFICES ASSUME NEW i \in 1..Len(d), NEW q \in Watched,
                        d[i] \in {Call(Changed(q)), User(Changed(q))}
                 PROVE  owner'[cb_mtx(q)] = Glib /\ ~Ahead(i, Unlock(cb_mtx(q)))'
        BY DEF RunsLocked
    <2>1. owner'[cb_mtx(q)] = Glib
        BY <1>6
    <2>2. ~Ahead(i + 1, Unlock(cb_mtx(q)))
        BY <1>1 DEF GlibOK, RunsLocked
    <2> QED
        BY <2>1, <2>2, AheadAfter
<1>8. CallsTested'
    <2> SUFFICES ASSUME NEW i \in 1..Len(d), NEW q \in Watched, d[i] = Call(Changed(q))
                 PROVE  Changed(q) \notin empty \/ Ahead(i, Test(Changed(q)))'
        BY DEF CallsTested
    <2>1. Changed(q) \notin empty \/ Ahead(i + 1, Test(Changed(q)))
        BY <1>1 DEF GlibOK, CallsTested
    <2>2. c[1] # Test(Changed(q))
        <3>1. c[1].op = "lock" /\ Test(Changed(q)).op = "test"
            BY <1>1, StepNames
        <3> QED
            BY <3>1
    <2> QED
        BY <2>1, <2>2, AheadAfter
<1>9. StoresElsewhere'
    <2> SUFFICES ASSUME NEW i \in 1..Len(d), NEW q \in Watched,
                        d[i].op = "store", d[i].mutex = cb_mtx(q)
                 PROVE  FALSE
        BY DEF StoresElsewhere
    <2> QED
        BY <1>1 DEF GlibOK, StoresElsewhere
<1>10. Unlocks'
    <2> SUFFICES ASSUME NEW q \in Watched, owner'[cb_mtx(q)] = Glib
                 PROVE  \E i \in 1..Len(d) : d[i] = Unlock(cb_mtx(q))
        BY DEF Unlocks
    <2>1. q = p
        BY <1>2
    <2>2. PICK j \in 2..Len(c) : c[j] = Unlock(cb_mtx(p))
        BY <1>2
    <2>3. j - 1 \in 1..Len(d) /\ d[j - 1] = Unlock(cb_mtx(p))
        BY <1>1, <2>2
    <2> QED
        BY <2>1, <2>3
<1>11. RunsInside'
    BY <1>1, <1>2 DEF GlibOK, RunsInside
<1> QED
    BY <1>4, <1>5, <1>7, <1>8, <1>9, <1>10, <1>11 DEF GlibOK

\* The GLib thread releases the cb_mtx_ of a proxy.
LEMMA GlibUnlocks ==
    ASSUME CodeOK, GlibOK, Glib \in Threads, code[Glib] # <<>>,
           NEW p \in Watched, Head(code[Glib]) = Unlock(cb_mtx(p)),
           code'[Glib] = Tail(code[Glib]), empty' = empty,
           owner'[cb_mtx(p)] # Glib,
           \A q \in Watched : q # p => owner'[cb_mtx(q)] = owner[cb_mtx(q)]
    PROVE  GlibOK'
<1> DEFINE c == code[Glib]
           d == code'[Glib]
<1>1. /\ Len(c) \in Nat /\ Len(d) = Len(c) - 1 /\ 1 \in 1..Len(c)
      /\ c[1] = Unlock(cb_mtx(p))
      /\ \A i \in 1..Len(d) : d[i] = c[i + 1] /\ i + 1 \in 1..Len(c)
      /\ \A i \in 1..Len(c) : i # 1 => i - 1 \in 1..Len(d) /\ d[i - 1] = c[i]
    BY Taken DEF CodeOK
<1>2. c[1].op = "unlock"
    BY <1>1, StepNames
<1>3. \A i \in 1..Len(c), q \in Watched : c[i] # Lock(cb_mtx(q))
    <2> SUFFICES ASSUME NEW i \in 1..Len(c), NEW q \in Watched, c[i] = Lock(cb_mtx(q))
                 PROVE  FALSE
        OBVIOUS
    <2>1. c[i].op = "lock"
        BY StepNames
    <2>2. 1 \in 1..(i - 1)
        BY <1>2, <2>1
    <2>3. c[1].op = "test"
        BY <2>2 DEF GlibOK, LocksOnce
    <2> QED
        BY <1>2, <2>3
<1>4. \A i \in 1..Len(c) : c[i].op # "test"
    <2> SUFFICES ASSUME NEW i \in 1..Len(c), c[i].op = "test" PROVE FALSE
        OBVIOUS
    <2>1. PICK j \in (i + 1)..Len(c), q \in Watched : c[j] = Lock(cb_mtx(q))
        BY DEF GlibOK, TestsFirst
    <2>2. j \in 1..Len(c)
        BY <1>1, <2>1
    <2> QED
        BY <1>3, <2>1, <2>2
<1>5. LocksOnce'
    BY <1>1, <1>3 DEF LocksOnce
<1>6. TestsFirst'
    BY <1>1, <1>4 DEF TestsFirst
<1>7. Unlocks'
    <2> SUFFICES ASSUME NEW q \in Watched, owner'[cb_mtx(q)] = Glib
                 PROVE  \E i \in 1..Len(d) : d[i] = Unlock(cb_mtx(q))
        BY DEF Unlocks
    <2>1. q # p /\ owner[cb_mtx(q)] = Glib
        OBVIOUS
    <2>2. PICK i \in 1..Len(c) : c[i] = Unlock(cb_mtx(q))
        BY <2>1 DEF GlibOK, Unlocks
    <2>3. i # 1
        <3>1. Unlock(cb_mtx(q)).mutex = cb_mtx(q) /\ Unlock(cb_mtx(p)).mutex = cb_mtx(p)
            BY StepNames
        <3>2. cb_mtx(q) # cb_mtx(p)
            BY <2>1, MutexNames
        <3> QED
            BY <1>1, <2>2, <3>1, <3>2
    <2>4. i - 1 \in 1..Len(d) /\ d[i - 1] = Unlock(cb_mtx(q))
        BY <1>1, <2>2, <2>3
    <2> QED
        BY <2>4
<1>8. StoresElsewhere'
    <2> SUFFICES ASSUME NEW i \in 1..Len(d), NEW q \in Watched,
                        d[i].op = "store", d[i].mutex = cb_mtx(q)
                 PROVE  owner'[cb_mtx(q)] # Glib
        BY <1>1, <1>3 DEF StoresElsewhere
    <2>1. owner[cb_mtx(q)] # Glib
        BY <1>1 DEF GlibOK, StoresElsewhere
    <2> QED
        BY <2>1
<1>9. RunsLocked'
    <2> SUFFICES ASSUME NEW i \in 1..Len(d), NEW q \in Watched,
                        d[i] \in {Call(Changed(q)), User(Changed(q))}
                 PROVE  owner'[cb_mtx(q)] = Glib /\ ~Ahead(i, Unlock(cb_mtx(q)))'
        BY DEF RunsLocked
    <2>1. /\ owner[cb_mtx(q)] = Glib \/ Ahead(i + 1, Lock(cb_mtx(q)))
          /\ ~Ahead(i + 1, Unlock(cb_mtx(q)))
        BY <1>1 DEF GlibOK, RunsLocked
    <2>2. ~Ahead(i + 1, Lock(cb_mtx(q)))
        <3>1. \A j \in 1..((i + 1) - 1) : j \in 1..Len(c)
            BY <1>1
        <3> QED
            BY <1>3, <3>1 DEF Ahead
    <2>3. q # p
        <3>1. 1 \in 1..((i + 1) - 1)
            BY <1>1
        <3> QED
            BY <1>1, <2>1, <3>1 DEF Ahead
    <2> QED
        BY <2>1, <2>2, <2>3, AheadAfter
<1>10. CallsTested'
    <2> SUFFICES ASSUME NEW i \in 1..Len(d), NEW q \in Watched, d[i] = Call(Changed(q))
                 PROVE  Changed(q) \notin empty
        BY DEF CallsTested
    <2>1. Changed(q) \notin empty \/ Ahead(i + 1, Test(Changed(q)))
        BY <1>1 DEF GlibOK, CallsTested
    <2>2. ~Ahead(i + 1, Test(Changed(q)))
        <3>1. \A j \in 1..((i + 1) - 1) : j \in 1..Len(c)
            BY <1>1
        <3> QED
            BY <1>4, <3>1, StepNames DEF Ahead
    <2> QED
        BY <2>1, <2>2
<1>11. RunsInside'
    <2> SUFFICES ASSUME NEW i \in 1..Len(d), NEW q \in Watched, d[i] = User(Changed(q))
                 PROVE  owner'[cb_mtx(q)] = Glib
        BY DEF RunsInside
    <2>1. i + 1 \in 1..Len(c) /\ c[i + 1] = User(Changed(q))
        BY <1>1
    <2>2. owner[cb_mtx(q)] = Glib /\ ~Ahead(i + 1, Unlock(cb_mtx(q)))
        BY <2>1 DEF GlibOK, RunsLocked, RunsInside
    <2>3. 1 \in 1..((i + 1) - 1)
        BY <1>1
    <2>4. q # p
        BY <1>1, <2>2, <2>3 DEF Ahead
    <2> QED
        BY <2>2, <2>4
<1> QED
    BY <1>5, <1>6, <1>7, <1>8, <1>9, <1>10, <1>11 DEF GlibOK

\* What the application calls takes and tests nothing of PropertyChanged.
LEMMA CallerStepKinds ==
    ASSUME NEW step \in CallerSteps
    PROVE  /\ step.op \in {"lock", "unlock", "pass", "store"}
           /\ \A p \in Watched : step \notin {Lock(cb_mtx(p)), Unlock(cb_mtx(p))}
           /\ \A s : step \notin {Call(s), User(s), Test(s)}
           /\ step.op = "lock" => step = Lock(AppMtx)
           /\ step.op = "unlock" => step = Unlock(AppMtx)
<1>1. step.op \in {"lock", "unlock", "pass", "store"}
    BY DEF CallerSteps, Store
<1>2. step.op \in {"lock", "unlock"} => step \in [op : {"lock", "unlock"}, mutex : {AppMtx}]
    BY DEF CallerSteps, Store
<1>3. \A p \in Watched : step \notin {Lock(cb_mtx(p)), Unlock(cb_mtx(p))}
    BY <1>2, StepNames, MutexNames
<1> QED
    BY <1>1, <1>2, <1>3, StepNames DEF Lock, Unlock

\* The application calls the library from a callback.
LEMMA GlibCalls ==
    ASSUME CodeOK, GlibOK, Glib \in Threads, code[Glib] # <<>>, Head(code[Glib]).op = "user",
           NEW steps \in Seq(CallerSteps),
           \A i \in 1..Len(steps), p \in Watched :
              steps[i].op = "store" /\ steps[i].mutex = cb_mtx(p) => owner[cb_mtx(p)] # Glib,
           code'[Glib] = steps \o code[Glib], empty' = empty, owner' = owner
    PROVE  GlibOK'
<1> DEFINE c == code[Glib]
           d == code'[Glib]
           n == Len(steps)
<1>1. c \in Seq(StepsOf(Glib)) /\ steps \in Seq(StepsOf(Glib))
    BY DEF CodeOK, StepsOf
<1>2. /\ n \in Nat /\ Len(c) \in Nat /\ Len(d) = n + Len(c)
      /\ \A i \in 1..n : d[i] = steps[i] /\ steps[i] \in CallerSteps
      /\ \A i \in 1..Len(c) : d[n + i] = c[i] /\ n + i \in 1..Len(d)
      /\ \A i \in 1..Len(d) : i \in 1..n \/ (i - n \in 1..Len(c) /\ d[i] = c[i - n])
    BY <1>1, Prepended
<1>3. 1 \in 1..Len(c) /\ c[1].op = "user"
    BY <1>1, Taken
<1> HIDE DEF c, d, n
<1>4. \A i \in 1..Len(c), q \in Watched : c[i] # Lock(cb_mtx(q))
    <2> SUFFICES ASSUME NEW i \in 1..Len(c), NEW q \in Watched, c[i] = Lock(cb_mtx(q))
                 PROVE  FALSE
        OBVIOUS
    <2>1. c[i].op = "lock"
        BY StepNames
    <2>2. 1 \in 1..(i - 1)
        BY <1>2, <1>3, <2>1
    <2>3. c[1].op = "test"
        BY <2>2 DEF GlibOK, LocksOnce, c
    <2> QED
        BY <1>3, <2>3
<1>5. \A i \in 1..Len(c) : c[i].op # "test"
    <2> SUFFICES ASSUME NEW i \in 1..Len(c), c[i].op = "test" PROVE FALSE
        OBVIOUS
    <2>1. PICK j \in (i + 1)..Len(c), q \in Watched : c[j] = Lock(cb_mtx(q))
        BY DEF GlibOK, TestsFirst, c
    <2>2. j \in 1..Len(c)
        BY <1>2, <2>1
    <2> QED
        BY <1>4, <2>1, <2>2
<1>6. \A i \in 1..Len(d) : d[i].op # "test" /\ \A q \in Watched : d[i] # Lock(cb_mtx(q))
    <2> TAKE i \in 1..Len(d)
    <2>1. CASE i \in 1..n
        <3>1. d[i] \in CallerSteps
            BY <1>2, <2>1
        <3> QED
            BY <3>1, CallerStepKinds
    <2>2. CASE i - n \in 1..Len(c) /\ d[i] = c[i - n]
        BY <1>4, <1>5, <2>2
    <2> QED
        BY <1>2, <2>1, <2>2
<1>7. LocksOnce' /\ TestsFirst'
    BY <1>6 DEF LocksOnce, TestsFirst, d
<1>8. Unlocks'
    <2> SUFFICES ASSUME NEW p \in Watched, owner[cb_mtx(p)] = Glib
                 PROVE  \E i \in 1..Len(d) : d[i] = Unlock(cb_mtx(p))
        BY DEF Unlocks, d
    <2>1. PICK i \in 1..Len(c) : c[i] = Unlock(cb_mtx(p))
        BY DEF GlibOK, Unlocks, c
    <2> QED
        BY <1>2, <2>1
<1>9. StoresElsewhere'
    <2> SUFFICES ASSUME NEW i \in 1..Len(d), NEW p \in Watched,
                        d[i].op = "store", d[i].mutex = cb_mtx(p)
                 PROVE  owner[cb_mtx(p)] # Glib
        BY <1>6 DEF StoresElsewhere, d
    <2>1. CASE i \in 1..n
        BY <1>2, <2>1 DEF n
    <2>2. CASE i - n \in 1..Len(c) /\ d[i] = c[i - n]
        BY <2>2 DEF GlibOK, StoresElsewhere, c
    <2> QED
        BY <1>2, <2>1, <2>2
<1>10. ASSUME NEW i \in 1..Len(c), NEW step,
              Ahead(n + i, step)', \A j \in 1..n : steps[j] # step
       PROVE  Ahead(i, step)
    <2>1. PICK j \in 1..((n + i) - 1) : d[j] = step
        BY <1>10 DEF Ahead, d
    <2>2. j \in 1..Len(d) /\ j \notin 1..n
        BY <1>2, <1>10, <2>1
    <2>3. j - n \in 1..(i - 1) /\ c[j - n] = step
        BY <1>2, <2>1, <2>2
    <2> QED
        BY <2>3 DEF Ahead, c
<1>11. ASSUME NEW i \in 1..Len(d), NEW p \in Watched,
              d[i] \in {Call(Changed(p)), User(Changed(p))}
       PROVE  i - n \in 1..Len(c) /\ d[i] = c[i - n]
    BY <1>2, <1>11, CallerStepKinds
<1>12. RunsLocked'
    <2> SUFFICES ASSUME NEW i \in 1..Len(d), NEW p \in Watched,
                        d[i] \in {Call(Changed(p)), User(Changed(p))}
                 PROVE  owner[cb_mtx(p)] = Glib /\ ~Ahead(i, Unlock(cb_mtx(p)))'
        BY DEF RunsLocked, d
    <2>1. i - n \in 1..Len(c) /\ c[i - n] \in {Call(Changed(p)), User(Changed(p))}
        BY <1>11
    <2>2. /\ owner[cb_mtx(p)] = Glib \/ Ahead(i - n, Lock(cb_mtx(p)))
          /\ ~Ahead(i - n, Unlock(cb_mtx(p)))
        BY <2>1 DEF GlibOK, RunsLocked, c
    <2>3. ~Ahead(i - n, Lock(cb_mtx(p)))
        <3>1. \A j \in 1..((i - n) - 1) : j \in 1..Len(c)
            BY <1>2, <2>1
        <3> QED
            BY <1>4, <3>1 DEF Ahead, c
    <2>4. \A j \in 1..n : steps[j] # Unlock(cb_mtx(p))
        BY <1>2, CallerStepKinds
    <2>5. n + (i - n) = i
        BY <1>2
    <2> QED
        BY <1>10, <2>1, <2>2, <2>3, <2>4, <2>5
<1>13. CallsTested'
    <2> SUFFICES ASSUME NEW i \in 1..Len(d), NEW p \in Watched, d[i] = Call(Changed(p))
                 PROVE  Changed(p) \notin empty
        BY DEF CallsTested, d
    <2>1. i - n \in 1..Len(c) /\ c[i - n] = Call(Changed(p))
        BY <1>11
    <2>2. Changed(p) \notin empty \/ Ahead(i - n, Test(Changed(p)))
        BY <2>1 DEF GlibOK, CallsTested, c
    <2>3. ~Ahead(i - n, Test(Changed(p)))
        <3>1. \A j \in 1..((i - n) - 1) : j \in 1..Len(c)
            BY <1>2, <2>1
        <3>2. Test(Changed(p)).op = "test"
            BY StepNames
        <3> QED
            BY <1>5, <3>1, <3>2 DEF Ahead, c
    <2> QED
        BY <2>2, <2>3
<1>14. RunsInside'
    <2> SUFFICES ASSUME NEW i \in 1..Len(d), NEW p \in Watched, d[i] = User(Changed(p))
                 PROVE  owner[cb_mtx(p)] = Glib
        BY DEF RunsInside, d
    <2>1. i - n \in 1..Len(c) /\ c[i - n] = User(Changed(p))
        BY <1>11
    <2> QED
        BY <2>1 DEF GlibOK, RunsInside, c
<1> QED
    BY <1>7, <1>8, <1>9, <1>12, <1>13, <1>14 DEF GlibOK

\* The steps of the handlers of the GLib thread.
LEMMA EventShape ==
    ASSUME NEW steps \in Events
    PROVE  /\ steps \in Seq(StepsOf(Glib))
           /\ \A i \in 1..Len(steps) : steps[i] \notin {Lock(AppMtx), Unlock(AppMtx)}
           /\ \/ \A i \in 1..Len(steps) :
                    \/ steps[i].op \in {"copy", "callcopy", "pass"}
                    \/ steps[i] = User(Copied)
              \/ \E p \in Watched :
                    /\ Len(steps) = 4
                    /\ steps[1] = Test(Changed(p)) /\ steps[2] = Lock(cb_mtx(p))
                    /\ steps[3] = Call(Changed(p)) /\ steps[4] = Unlock(cb_mtx(p))
<1> DEFINE S == StepsOf(Glib)
<1>1. /\ CallCopy \in S /\ User(Copied) \in S
      /\ \A s \in ManagerSlots : Copy(ManagerMtx, s) \in S
      /\ \A p \in Proxies : Pass(mtx(p)) \in S
      /\ \A p \in Watched : {Test(Changed(p)), Lock(cb_mtx(p)), Call(Changed(p)),
                             Unlock(cb_mtx(p))} \subseteq S
    <2>1. \A p \in Proxies : Pass(mtx(p)) \in CallerSteps
        BY DEF CallerSteps, Pass, Momentary
    <2>2. /\ CallCopy \in EventSteps /\ User(Copied) \in EventSteps
          /\ \A s \in ManagerSlots : Copy(ManagerMtx, s) \in EventSteps
          /\ \A p \in Watched : {Test(Changed(p)), Lock(cb_mtx(p)), Call(Changed(p)),
                                 Unlock(cb_mtx(p))} \subseteq EventSteps
        BY DEF EventSteps
    <2> QED
        BY <2>1, <2>2 DEF StepsOf
<1> HIDE DEF S
<1>2. ASSUME NEW s \in ManagerSlots, steps = <<Copy(ManagerMtx, s), CallCopy>>
      PROVE  /\ steps \in Seq(S)
             /\ \A i \in 1..Len(steps) : steps[i].op \in {"copy", "callcopy"}
    BY <1>1, <1>2, StepNames
<1>3. ASSUME NEW p \in Proxies, steps = <<Pass(mtx(p)), User(Copied), Pass(mtx(p))>>
      PROVE  /\ steps \in Seq(S)
             /\ \A i \in 1..Len(steps) : steps[i].op = "pass" \/ steps[i] = User(Copied)
    <2>1. steps \in Seq(S) /\ Len(steps) = 3
        BY <1>1, <1>3
    <2>2. steps[1] = Pass(mtx(p)) /\ steps[2] = User(Copied) /\ steps[3] = Pass(mtx(p))
        BY <1>3
    <2>3. \A i \in 1..3 : i = 1 \/ i = 2 \/ i = 3
        OBVIOUS
    <2> QED
        BY <2>1, <2>2, <2>3, StepNames
<1>4. ASSUME NEW p \in Watched, steps = PropertyChanged(p)
      PROVE  /\ steps \in Seq(S) /\ Len(steps) = 4
             /\ steps[1] = Test(Changed(p)) /\ steps[2] = Lock(cb_mtx(p))
             /\ steps[3] = Call(Changed(p)) /\ steps[4] = Unlock(cb_mtx(p))
    <2> DEFINE inner == <<Call(Changed(p))>>
               section == Under(cb_mtx(p), inner)
    <2>1. /\ {Test(Changed(p)), Lock(cb_mtx(p)), Unlock(cb_mtx(p))} \subseteq S
          /\ inner \in Seq(S) /\ Len(inner) = 1 /\ inner[1] = Call(Changed(p))
        BY <1>1
    <2> HIDE DEF inner
    <2>2. /\ section \in Seq(S) /\ Len(section) = 3
          /\ section[1] = Lock(cb_mtx(p)) /\ section[1 + 1] = Call(Changed(p))
          /\ section[3] = Unlock(cb_mtx(p))
        <3>1. Lock(cb_mtx(p)) \in S /\ Unlock(cb_mtx(p)) \in S /\ 1 \in 1..Len(inner)
            BY <2>1
        <3>2. /\ section \in Seq(S) /\ Len(section) = Len(inner) + 2
              /\ section[1] = Lock(cb_mtx(p))
              /\ \A i \in 1..Len(inner) : section[i + 1] = inner[i]
              /\ section[Len(inner) + 2] = Unlock(cb_mtx(p))
            BY <2>1, <3>1, UnderShape
        <3> QED
            BY <2>1, <3>1, <3>2
    <2> HIDE DEF section
    <2>3. /\ Preceded(Test(Changed(p)), section) \in Seq(S)
          /\ Len(Preceded(Test(Changed(p)), section)) = Len(section) + 1
          /\ Preceded(Test(Changed(p)), section)[1] = Test(Changed(p))
          /\ \A i \in 1..Len(section) : Preceded(Test(Changed(p)), section)[i + 1] = section[i]
        <3> DEFINE test == Test(Changed(p))
        <3>1. test \in S
            BY <2>1
        <3>2. section \in Seq(S)
            BY <2>2
        <3> HIDE DEF test
        <3>3. /\ Preceded(test, section) \in Seq(S)
              /\ Len(Preceded(test, section)) = Len(section) + 1
              /\ Preceded(test, section)[1] = test
              /\ \A i \in 1..Len(section) : Preceded(test, section)[i + 1] = section[i]
            BY <3>1, <3>2, PrecededShape
        <3> QED
            BY <3>3 DEF test
    <2>4. /\ Preceded(Test(Changed(p)), section)[1 + 1] = section[1]
          /\ Preceded(Test(Changed(p)), section)[2 + 1] = section[2]
          /\ Preceded(Test(Changed(p)), section)[3 + 1] = section[3]
        BY <2>2, <2>3
    <2>5. steps = Preceded(Test(Changed(p)), section)
        BY <1>4 DEF PropertyChanged, Preceded, inner, section
    <2> QED
        BY <2>2, <2>3, <2>4, <2>5
<1>5. CASE \E p \in Watched : steps = PropertyChanged(p)
    <2>1. PICK p \in Watched : steps = PropertyChanged(p)
        BY <1>5
    <2>2. \A i \in 1..4 : i = 1 \/ i = 2 \/ i = 3 \/ i = 4
        OBVIOUS
    <2>3. {Test(Changed(p)), Lock(cb_mtx(p)), Call(Changed(p)), Unlock(cb_mtx(p))}
             \cap {Lock(AppMtx), Unlock(AppMtx)} = {}
        BY StepNames, MutexNames DEF Lock, Unlock
    <2> QED
        BY <1>4, <2>1, <2>2, <2>3 DEF S
<1>6. CASE \/ \E l \in Lists : steps = ListChanged(l)
           \/ steps = ReportError
    BY <1>2, <1>6, StepNames DEF ListChanged, ReportError, ManagerSlots, S
<1>7. CASE \E p \in Proxies : steps = executeCallBack(p)
    BY <1>3, <1>7, StepNames DEF executeCallBack, S
<1> QED
    BY <1>5, <1>6, <1>7 DEF Events

\* The GLib thread starts to handle something.
LEMMA GlibStarts ==
    ASSUME CodeOK, GlibOK, Glib \in Threads, code[Glib] = <<>>,
           NEW steps \in Events, code'[Glib] = steps, owner' = owner
    PROVE  GlibOK'
<1>1. \A p \in Watched : owner[cb_mtx(p)] # Glib
    BY NothingHeld
<1>2. CASE \A i \in 1..Len(steps) : \/ steps[i].op \in {"copy", "callcopy", "pass"}
                                    \/ steps[i] = User(Copied)
    <2>1. \A i \in 1..Len(steps) :
             /\ steps[i].op \notin {"test", "store"}
             /\ \A p \in Watched : steps[i] \notin
                   {Lock(cb_mtx(p)), Call(Changed(p)), User(Changed(p))}
        <3>1. \A p \in Watched : Changed(p) # Copied
            BY SlotNames
        <3> QED
            BY <1>2, <3>1, StepNames
    <2> QED
        BY <1>1, <2>1 DEF GlibOK, LocksOnce, TestsFirst, Unlocks, StoresElsewhere,
                          RunsLocked, RunsInside, CallsTested
<1>3. ASSUME NEW p \in Watched,
             Len(steps) = 4,
             steps[1] = Test(Changed(p)), steps[2] = Lock(cb_mtx(p)),
             steps[3] = Call(Changed(p)), steps[4] = Unlock(cb_mtx(p))
      PROVE  GlibOK'
    <2>1. \A i \in 1..4 : i = 1 \/ i = 2 \/ i = 3 \/ i = 4
        OBVIOUS
    <2>2. /\ steps[1].op = "test" /\ steps[2].op = "lock"
          /\ steps[3].op = "call" /\ steps[4].op = "unlock"
        BY <1>3, StepNames
    <2>3. \A i \in 1..4, q \in Watched : steps[i] = Lock(cb_mtx(q)) => i = 2 /\ q = p
        BY <1>3, <2>1, <2>2, StepNames, MutexNames
    <2>4. \A i \in 1..4, q \in Watched :
             steps[i] \in {Call(Changed(q)), User(Changed(q))} => i = 3 /\ q = p
        BY <1>3, <2>1, <2>2, StepNames, SlotNames
    <2>5. \A i \in 1..4 : steps[i].op = "test" => i = 1
        BY <2>1, <2>2
    <2>6. LocksOnce'
        BY <1>1, <1>3, <2>2, <2>3 DEF LocksOnce
    <2>7. TestsFirst'
        BY <1>3, <2>5 DEF TestsFirst
    <2>8. Unlocks'
        BY <1>1 DEF Unlocks
    <2>9. StoresElsewhere'
        BY <1>3, <2>1, <2>2 DEF StoresElsewhere
    <2>10. RunsLocked'
        BY <1>3, <2>1, <2>2, <2>4, StepNames DEF RunsLocked, Ahead
    <2>11. CallsTested'
        BY <1>3, <2>1, <2>2, <2>4, StepNames DEF CallsTested, Ahead
    <2>12. RunsInside'
        BY <1>3, <2>2, <2>4, StepNames DEF RunsInside
    <2> QED
        BY <2>6, <2>7, <2>8, <2>9, <2>10, <2>11, <2>12 DEF GlibOK
<1> QED
    BY <1>2, <1>3, EventShape

------------------------------------------------------------------------------
(* The steps of Next.                                                       *)

\* What a step of a thread has to show.
LEMMA StepOfThread ==
    ASSUME IInv, NEW t \in Threads, NEW steps \in Seq(StepsOf(t)), Continue(t, steps),
           owner' \in [Mutexes -> Threads \cup {None}],
           empty' \subseteq Slots \ {List(l) : l \in Lists}, copied' \subseteq Threads,
           \A m \in Momentary : owner'[m] = None,
           \A p \in Watched : owner'[cb_mtx(p)] \in {None, Glib},
           \A u \in Threads : u # t => (owner'[AppMtx] = u <=> owner[AppMtx] = u),
           t # Glib => \A p \in Watched : owner'[cb_mtx(p)] = owner[cb_mtx(p)],
           t # Glib => \A p \in Watched : Changed(p) \notin empty => Changed(p) \notin empty',
           AppSection(t)', t = Glib => GlibOK'
    PROVE  IInv'
<1>1. /\ code' \in [Threads -> UNION {Seq(StepsOf(u)) : u \in Threads}]
      /\ \A u \in Threads : code'[u] \in Seq(StepsOf(u))
      /\ \A u \in Threads : u # t => code'[u] = code[u]
    BY Continued DEF IInv
<1>2. CodeOK'
    BY <1>1 DEF CodeOK
<1>3. Keepers'
    BY DEF Keepers
<1>4. ASSUME NEW u \in Threads, u # t PROVE AppSection(u)'
    BY <1>1, <1>4, SectionKept DEF IInv
<1>5. GlibOK'
    <2>1. CASE t = Glib
        BY <2>1
    <2>2. CASE t # Glib
        BY <1>1, <2>2, GlibKept DEF IInv, Threads
    <2> QED
        BY <2>1, <2>2
<1> QED
    BY <1>2, <1>3, <1>4, <1>5 DEF IInv

\* The first step of a thread.
LEMMA FirstStep ==
    ASSUME IInv, NEW t \in Threads, code[t] # <<>>
    PROVE  /\ Step(t) \in StepsOf(t) /\ Step(t) = Head(code[t])
           /\ Tail(code[t]) \in Seq(StepsOf(t))
  BY Taken DEF IInv, CodeOK, Step

\* A step that changes no mutex.
LEMMA OwnersKept ==
    ASSUME IInv, owner' = owner
    PROVE  /\ owner' \in [Mutexes -> Threads \cup {None}]
           /\ \A m \in Momentary : owner'[m] = None
           /\ \A p \in Watched : owner'[cb_mtx(p)] \in {None, Glib}
           /\ \A u \in Threads : owner'[AppMtx] = u <=> owner[AppMtx] = u
           /\ \A p \in Watched : owner'[cb_mtx(p)] = owner[cb_mtx(p)]
  BY DEF IInv, CodeOK, Keepers

\* The GLib thread is no other.
LEMMA ThreadNames ==
    /\ Glib \in Threads /\ None \notin Threads
    /\ \A t \in AppThreads : t \in Threads /\ t # Glib
    /\ \A t \in InputThreads : t \in Threads /\ t # Glib
  BY CallbacksAssumption DEF Threads

\* A thread takes a mutex that it keeps.
LEMMA AcquireStep ==
    ASSUME IInv, NEW t \in Threads, Acquire(t)
    PROVE  IInv'
<1>1. /\ code[t] # <<>> /\ Step(t).op = "lock" /\ Continue(t, Tail(code[t]))
      /\ Step(t) \in StepsOf(t) /\ Step(t) = Head(code[t])
      /\ Tail(code[t]) \in Seq(StepsOf(t)) /\ empty' = empty /\ copied' = copied
    BY FirstStep DEF Acquire, At, Advance
<1>2. /\ code'[t] = Tail(code[t])
      /\ CodeOK /\ AppSection(t) /\ GlibOK /\ Keepers
      /\ empty \subseteq Slots \ {List(l) : l \in Lists} /\ copied \subseteq Threads
      /\ owner \in [Mutexes -> Threads \cup {None}]
    BY <1>1, Continued DEF IInv, CodeOK
<1>3. CASE Step(t) = Lock(AppMtx)
    <2>1. AppMtx \in Mutexes /\ Step(t).mutex = AppMtx
        BY <1>3, StepNames, MutexNames
    <2>2. /\ owner[AppMtx] = None /\ owner'[AppMtx] = t
          /\ \A m \in Mutexes : m # AppMtx => owner'[m] = owner[m]
          /\ owner' \in [Mutexes -> Threads \cup {None}]
        BY <1>2, <2>1 DEF Acquire, Free
    <2>3. /\ \A m \in Momentary : owner'[m] = None
          /\ \A p \in Watched : owner'[cb_mtx(p)] \in {None, Glib}
          /\ \A p \in Watched : owner'[cb_mtx(p)] = owner[cb_mtx(p)]
        BY <1>2, <2>2, MutexNames DEF Keepers
    <2>4. \A u \in Threads : u # t => (owner'[AppMtx] = u <=> owner[AppMtx] = u)
        BY <2>2, ThreadNames
    <2>5. AppSection(t)'
        BY <1>1, <1>2, <1>3, <2>2, SectionEntered
    <2>6. ASSUME t = Glib PROVE GlibOK'
        <3>1. \A p \in Watched : Head(code[Glib]) \notin {Lock(cb_mtx(p)), Unlock(cb_mtx(p))}
            BY <1>1, <1>3, <2>6, StepNames, MutexNames
        <3>2. \A p \in Watched : Head(code[Glib]) # Test(Changed(p))
            BY <1>1, <2>6, StepNames
        <3> QED
            BY <1>1, <1>2, <2>3, <2>6, <3>1, <3>2, GlibAdvances
    <2> QED
        BY <1>1, <1>2, <2>2, <2>3, <2>4, <2>5, <2>6, StepOfThread
<1>4. ASSUME NEW p \in Watched, t = Glib, Step(t) = Lock(cb_mtx(p)) PROVE IInv'
    <2>1. cb_mtx(p) \in Mutexes /\ Step(t).mutex = cb_mtx(p)
        BY <1>4, StepNames, MutexNames
    <2>2. /\ owner'[cb_mtx(p)] = Glib
          /\ \A m \in Mutexes : m # cb_mtx(p) => owner'[m] = owner[m]
          /\ owner' \in [Mutexes -> Threads \cup {None}]
        BY <1>2, <1>4, <2>1 DEF Acquire
    <2>3. /\ \A m \in Momentary : owner'[m] = None
          /\ \A q \in Watched : owner'[cb_mtx(q)] \in {None, Glib}
          /\ \A q \in Watched : q # p => owner'[cb_mtx(q)] = owner[cb_mtx(q)]
          /\ owner'[AppMtx] = owner[AppMtx]
        BY <1>2, <2>2, MutexNames DEF Keepers
    <2>4. Head(code[t]) \notin {Lock(AppMtx), Unlock(AppMtx)}
        BY <1>1, <1>4, StepNames, MutexNames
    <2>5. AppSection(t)'
        BY <1>1, <1>2, <2>3, <2>4, SectionAdvances
    <2>6. GlibOK'
        BY <1>1, <1>2, <1>4, <2>2, <2>3, GlibLocks
    <2> QED
        BY <1>1, <1>2, <1>4, <2>2, <2>3, <2>5, <2>6, StepOfThread
<1> QED
    BY <1>1, <1>3, <1>4, StepKinds

\* A thread releases a mutex.
LEMMA ReleaseStep ==
    ASSUME IInv, NEW t \in Threads, Release(t)
    PROVE  IInv'
<1>1. /\ code[t] # <<>> /\ Step(t).op = "unlock" /\ Continue(t, Tail(code[t]))
      /\ Step(t) \in StepsOf(t) /\ Step(t) = Head(code[t])
      /\ Tail(code[t]) \in Seq(StepsOf(t)) /\ empty' = empty /\ copied' = copied
    BY FirstStep DEF Release, At, Advance
<1>2. /\ code'[t] = Tail(code[t])
      /\ CodeOK /\ AppSection(t) /\ GlibOK /\ Keepers
      /\ empty \subseteq Slots \ {List(l) : l \in Lists} /\ copied \subseteq Threads
      /\ owner \in [Mutexes -> Threads \cup {None}]
    BY <1>1, Continued DEF IInv, CodeOK
<1>3. CASE Step(t) = Unlock(AppMtx)
    <2>1. AppMtx \in Mutexes /\ Step(t).mutex = AppMtx
        BY <1>3, StepNames, MutexNames
    <2>2. /\ owner'[AppMtx] = None
          /\ \A m \in Mutexes : m # AppMtx => owner'[m] = owner[m]
          /\ owner' \in [Mutexes -> Threads \cup {None}]
        BY <1>2, <2>1 DEF Release
    <2>3. /\ \A m \in Momentary : owner'[m] = None
          /\ \A p \in Watched : owner'[cb_mtx(p)] \in {None, Glib}
          /\ \A p \in Watched : owner'[cb_mtx(p)] = owner[cb_mtx(p)]
        BY <1>2, <2>2, MutexNames DEF Keepers
    <2>4. AppSection(t)' /\ owner[AppMtx] = t
        BY <1>1, <1>2, <1>3, <2>2, ThreadNames, SectionLeft
    <2>5. \A u \in Threads : u # t => (owner'[AppMtx] = u <=> owner[AppMtx] = u)
        BY <2>2, <2>4, ThreadNames
    <2>6. ASSUME t = Glib PROVE GlibOK'
        <3>1. \A p \in Watched : Head(code[Glib]) \notin {Lock(cb_mtx(p)), Unlock(cb_mtx(p))}
            BY <1>1, <1>3, <2>6, StepNames, MutexNames
        <3>2. \A p \in Watched : Head(code[Glib]) # Test(Changed(p))
            BY <1>1, <2>6, StepNames
        <3> QED
            BY <1>1, <1>2, <2>3, <2>6, <3>1, <3>2, GlibAdvances
    <2> QED
        BY <1>1, <1>2, <2>2, <2>3, <2>4, <2>5, <2>6, StepOfThread
<1>4. ASSUME NEW p \in Watched, t = Glib, Step(t) = Unlock(cb_mtx(p)) PROVE IInv'
    <2>1. cb_mtx(p) \in Mutexes /\ Step(t).mutex = cb_mtx(p)
        BY <1>4, StepNames, MutexNames
    <2>2. /\ owner'[cb_mtx(p)] = None
          /\ \A m \in Mutexes : m # cb_mtx(p) => owner'[m] = owner[m]
          /\ owner' \in [Mutexes -> Threads \cup {None}]
        BY <1>2, <1>4, <2>1 DEF Release
    <2>3. /\ \A m \in Momentary : owner'[m] = None
          /\ \A q \in Watched : owner'[cb_mtx(q)] \in {None, Glib}
          /\ \A q \in Watched : q # p => owner'[cb_mtx(q)] = owner[cb_mtx(q)]
          /\ owner'[AppMtx] = owner[AppMtx]
        BY <1>2, <2>2, MutexNames DEF Keepers
    <2>4. Head(code[t]) \notin {Lock(AppMtx), Unlock(AppMtx)}
        BY <1>1, <1>4, StepNames, MutexNames
    <2>5. AppSection(t)'
        BY <1>1, <1>2, <2>3, <2>4, SectionAdvances
    <2>6. GlibOK'
        BY <1>1, <1>2, <1>4, <2>2, <2>3, ThreadNames, GlibUnlocks
    <2> QED
        BY <1>1, <1>2, <1>4, <2>2, <2>3, <2>5, <2>6, StepOfThread
<1> QED
    BY <1>1, <1>3, <1>4, StepKinds

\* A step that is taken, changes no mutex and resets no callback of
\* PropertyChanged.
LEMMA PlainStep ==
    ASSUME IInv, NEW t \in Threads, code[t] # <<>>, Advance(t), owner' = owner,
           Step(t).op \notin {"lock", "unlock"},
           empty' \subseteq Slots \ {List(l) : l \in Lists}, copied' \subseteq Threads,
           \A p \in Watched : Changed(p) \notin empty => Changed(p) \notin empty',
           \A p \in Watched : Step(t) = Test(Changed(p)) => Changed(p) \notin empty
    PROVE  IInv'
<1>1. /\ Continue(t, Tail(code[t])) /\ Step(t) = Head(code[t])
      /\ Tail(code[t]) \in Seq(StepsOf(t))
    BY FirstStep DEF Advance
<1>2. code'[t] = Tail(code[t]) /\ CodeOK /\ AppSection(t) /\ GlibOK
    BY <1>1, Continued DEF IInv
<1>3. \A m : Head(code[t]) \notin {Lock(m), Unlock(m)}
    BY <1>1, StepNames
<1>4. AppSection(t)'
    BY <1>2, <1>3, SectionAdvances
<1>5. ASSUME t = Glib PROVE GlibOK'
    <2>1. \A p \in Watched : Head(code[Glib]) = Test(Changed(p)) => Changed(p) \notin empty
        BY <1>1, <1>5
    <2> QED
        BY <1>2, <1>3, <1>5, <2>1, GlibAdvances
<1> QED
    BY <1>1, <1>4, <1>5, OwnersKept, StepOfThread

\* Those that change no callback either.
LEMMA PlainSteps ==
    ASSUME IInv, NEW t \in Threads, code[t] # <<>>, Advance(t), owner' = owner,
           Step(t).op \notin {"lock", "unlock", "test"},
           empty' = empty, copied' \subseteq copied \cup {t}
    PROVE  IInv'
<1>1. \A s : Step(t) # Test(s)
    BY StepNames
<1>2. /\ empty \subseteq Slots \ {List(l) : l \in Lists}
      /\ copied' \subseteq Threads
    BY DEF IInv, CodeOK
<1> QED
    BY <1>1, <1>2, PlainStep

\* A thread stores a callback.
LEMMA AssignStep ==
    ASSUME IInv, NEW t \in Threads, Assign(t)
    PROVE  IInv'
<1>1. /\ code[t] # <<>> /\ Step(t).op = "store" /\ Advance(t)
      /\ Step(t) \in StepsOf(t) /\ owner' = owner /\ copied' = copied
    BY FirstStep DEF Assign, At
<1>2. CASE Step(t).fills
    <2>1. empty' = empty \ {Step(t).slot}
        BY <1>2 DEF Assign
    <2>2. \A s : Step(t) # Test(s)
        BY <1>1, StepNames
    <2>3. /\ empty \subseteq Slots \ {List(l) : l \in Lists}
          /\ copied \subseteq Threads
        BY DEF IInv, CodeOK
    <2> QED
        BY <1>1, <2>1, <2>2, <2>3, PlainStep
<1>3. CASE ~Step(t).fills
    <2>1. Step(t).slot \in {Error, Input} /\ empty' = empty \cup {Step(t).slot}
        BY <1>1, <1>3, StepKinds DEF Assign
    <2>2. \A p \in Watched : Changed(p) # Step(t).slot
        BY <2>1 DEF Changed, Error, Input
    <2>3. Step(t).slot \in Slots \ {List(l) : l \in Lists}
        BY <2>1, CallbacksAssumption DEF Slots, Error, Input, List
    <2>4. empty' \subseteq Slots \ {List(l) : l \in Lists}
        BY <2>1, <2>3 DEF IInv, CodeOK
    <2>5. \A s : Step(t) # Test(s)
        BY <1>1, StepNames
    <2>6. copied' \subseteq Threads
        BY <1>1 DEF IInv, CodeOK
    <2> QED
        BY <1>1, <2>1, <2>2, <2>4, <2>5, <2>6, PlainStep
<1> QED
    BY <1>2, <1>3

\* A handler tests its callback.
LEMMA TestStep ==
    ASSUME IInv, NEW t \in Threads, TestSlot(t)
    PROVE  IInv'
<1>1. /\ code[t] # <<>> /\ Step(t).op = "test" /\ Step(t) = Head(code[t])
      /\ owner' = owner /\ copied' = copied /\ empty' = empty
    BY FirstStep DEF TestSlot, At
<1>2. CASE Step(t).slot \notin empty
    <2>1. \A p \in Watched : Step(t) = Test(Changed(p)) => Changed(p) \notin empty
        BY <1>2, StepNames
    <2> QED
        BY <1>1, <1>2, <2>1, PlainStep DEF TestSlot, IInv, CodeOK
<1>3. CASE Step(t).slot \in empty
    <2>1. Continue(t, <<>>) /\ <<>> \in Seq(StepsOf(t))
        BY <1>3 DEF TestSlot
    <2>2. code'[t] = <<>> /\ CodeOK /\ AppSection(t) /\ GlibOK
        BY <2>1, Continued DEF IInv
    <2>3. owner[AppMtx] # t
        BY <1>1, <2>2, Outside
    <2>4. AppSection(t)'
        <3>1. code'[t] \in Seq(StepsOf(t)) /\ \A i \in 1..Len(code'[t]) : FALSE
            BY <2>1, <2>2
        <3>2. owner'[AppMtx] # t
            BY <1>1, <2>3
        <3> QED
            BY <3>1, <3>2, NoSection
    <2>5. ASSUME t = Glib PROVE GlibOK'
        BY <1>1, <2>2, <2>5, NothingHeld, GlibStops
    <2> QED
        BY <1>1, <2>1, <2>4, <2>5, OwnersKept, StepOfThread DEF IInv, CodeOK
<1> QED
    BY <1>2, <1>3

\* A callback starts to run.
LEMMA Runs ==
    ASSUME IInv, NEW t \in Threads, code[t] # <<>>, Step(t).op \in {"call", "callcopy"},
           NEW slot, User(slot) \in StepsOf(t),
           \A p \in Watched : slot = Changed(p) => Step(t) = Call(Changed(p)),
           Continue(t, <<User(slot)>> \o Tail(code[t])),
           owner' = owner, empty' = empty, copied' \subseteq Threads
    PROVE  IInv'
<1> DEFINE steps == <<User(slot)>> \o Tail(code[t])
<1>1. Step(t) = Head(code[t]) /\ CodeOK /\ AppSection(t) /\ GlibOK
    BY FirstStep DEF IInv
<1>2. code'[t] = steps
    BY <1>1 DEF Continue, CodeOK
<1>3. AppSection(t)' /\ steps \in Seq(StepsOf(t))
    BY <1>1, <1>2, SectionRuns
<1>4. ASSUME t = Glib PROVE GlibOK'
    BY <1>1, <1>2, <1>4, GlibRuns
<1> HIDE DEF steps
<1>5. Continue(t, steps)
    BY DEF steps
<1> QED
    BY <1>3, <1>4, <1>5, OwnersKept, StepOfThread DEF IInv, CodeOK

\* A handler calls its callback where it is stored.
LEMMA RunStep ==
    ASSUME IInv, NEW t \in Threads, Run(t)
    PROVE  IInv'
<1>1. /\ code[t] # <<>> /\ Step(t).op = "call" /\ Step(t) = Head(code[t])
      /\ Step(t) \in StepsOf(t)
      /\ owner' = owner /\ copied' = copied /\ empty' = empty
    BY FirstStep DEF Run, At
<1>2. CASE t \in InputThreads /\ Step(t).slot \in empty
    <2>1. Continue(t, <<>>) /\ <<>> \in Seq(StepsOf(t)) /\ t # Glib
        BY <1>2, ThreadNames DEF Run
    <2>2. code'[t] = <<>> /\ CodeOK /\ AppSection(t)
        BY <2>1, Continued DEF IInv
    <2>3. owner[AppMtx] # t
        BY <1>1, <2>2, Outside
    <2>4. AppSection(t)'
        <3>1. code'[t] \in Seq(StepsOf(t)) /\ \A i \in 1..Len(code'[t]) : FALSE
            BY <2>1, <2>2
        <3>2. owner'[AppMtx] # t
            BY <1>1, <2>3
        <3> QED
            BY <3>1, <3>2, NoSection
    <2> QED
        BY <1>1, <2>1, <2>4, OwnersKept, StepOfThread DEF IInv, CodeOK
<1>3. CASE ~(t \in InputThreads /\ Step(t).slot \in empty)
    <2>1. Continue(t, <<User(Step(t).slot)>> \o Tail(code[t]))
        BY <1>3 DEF Run
    <2>2. /\ User(Step(t).slot) \in StepsOf(t)
          /\ \A p \in Watched : Step(t).slot = Changed(p) => Step(t) = Call(Changed(p))
        <3>1. CASE t = Glib /\ \E p \in Watched : Step(t) = Call(Changed(p))
            BY <3>1, StepNames DEF StepsOf, EventSteps
        <3>2. CASE t \in InputThreads /\ Step(t) = Call(Input)
            BY <3>2, StepNames, SlotNames, ThreadNames DEF StepsOf, InputSteps
        <3> QED
            BY <1>1, <3>1, <3>2, StepKinds
    <2>3. copied' \subseteq Threads
        BY <1>1 DEF IInv, CodeOK
    <2> QED
        BY <1>1, <2>1, <2>2, <2>3, Runs
<1> QED
    BY <1>2, <1>3

\* The GLib thread calls the copy it made.
LEMMA RunCopyStep ==
    ASSUME IInv, NEW t \in Threads, RunCopy(t)
    PROVE  IInv'
<1>1. /\ code[t] # <<>> /\ Step(t).op = "callcopy" /\ Step(t) = Head(code[t])
      /\ Step(t) \in StepsOf(t) /\ t = Glib
      /\ owner' = owner /\ copied' \subseteq Threads /\ empty' = empty
    BY FirstStep, StepKinds DEF RunCopy, At, IInv, CodeOK
<1>2. CASE t \in copied
    <2>1. Continue(t, <<User(Copied)>> \o Tail(code[t]))
        BY <1>2 DEF RunCopy
    <2>2. User(Copied) \in StepsOf(t) /\ \A p \in Watched : Copied # Changed(p)
        BY <1>1, SlotNames DEF StepsOf, EventSteps
    <2> QED
        BY <1>1, <2>1, <2>2, Runs
<1>3. CASE t \notin copied
    <2>1. Advance(t)
        BY <1>3 DEF RunCopy
    <2> QED
        BY <1>1, <2>1, PlainStep, StepNames DEF IInv, CodeOK
<1> QED
    BY <1>2, <1>3

\* The application calls the library.
LEMMA CallsStep ==
    ASSUME IInv, NEW t \in Threads, UserCalls(t)
    PROVE  IInv'
<1>1. /\ CodeOK /\ AppSection(t) /\ GlibOK /\ code[t] \in Seq(StepsOf(t))
      /\ owner' = owner /\ copied' = copied /\ empty' = empty
    BY DEF IInv, CodeOK, UserCalls
<1>2. PICK steps \in Callable(t) : Continue(t, steps \o code[t])
    BY DEF UserCalls
<1>3. /\ code[t] = <<>> \/ Head(code[t]).op = "user"
      /\ t = Glib => code[t] # <<>> /\ Head(code[t]).op = "user"
    BY ThreadNames DEF UserCalls, At, Step
<1>4. /\ steps \in Seq(CallerSteps)
      /\ \A i \in 1..Len(steps), p \in Watched :
            steps[i].op = "store" /\ steps[i].mutex = cb_mtx(p) => owner[cb_mtx(p)] # t
    BY <1>1, CallableShape
<1>5. steps \o code[t] \in Seq(StepsOf(t))
    <2>1. steps \in Seq(StepsOf(t))
        <3>1. CallerSteps \subseteq StepsOf(t)
            BY DEF StepsOf
        <3> QED
            BY <1>4, <3>1
    <2> QED
        BY <1>1, <2>1
<1>6. code'[t] = steps \o code[t]
    BY <1>1, <1>2 DEF Continue, CodeOK
<1>7. AppSection(t)'
    BY <1>1, <1>3, <1>6, SectionCalls
<1>8. ASSUME t = Glib PROVE GlibOK'
    BY <1>1, <1>3, <1>4, <1>6, <1>8, GlibCalls
<1> QED
    BY <1>1, <1>2, <1>5, <1>7, <1>8, OwnersKept, StepOfThread DEF IInv, CodeOK

\* The GLib thread dispatches a source.
LEMMA DispatchStep ==
    ASSUME IInv, Dispatch
    PROVE  IInv'
<1>1. /\ CodeOK /\ AppSection(Glib) /\ GlibOK /\ code[Glib] = <<>> /\ Glib \in Threads
      /\ owner' = owner /\ copied' = copied /\ empty' = empty
    BY ThreadNames DEF IInv, Dispatch
<1>2. PICK steps \in Events : Continue(Glib, steps)
    BY DEF Dispatch
<1>3. /\ steps \in Seq(StepsOf(Glib))
      /\ \A i \in 1..Len(steps) : steps[i] \notin {Lock(AppMtx), Unlock(AppMtx)}
    BY EventShape
<1>4. code'[Glib] = steps
    BY <1>1, <1>2 DEF Continue, CodeOK
<1>5. owner'[AppMtx] # Glib
    BY <1>1, Outside
<1>6. AppSection(Glib)'
    BY <1>1, <1>3, <1>4, <1>5, NoSection
<1>7. GlibOK'
    BY <1>1, <1>4, GlibStarts
<1> QED
    BY <1>1, <1>2, <1>3, <1>6, <1>7, OwnersKept, StepOfThread DEF IInv, CodeOK

\* A RequestInput arrives.
LEMMA InputStep ==
    ASSUME IInv, NEW t \in InputThreads, StartInput(t)
    PROVE  IInv'
<1>1. /\ CodeOK /\ code[t] = <<>> /\ t \in Threads /\ t # Glib /\ AppSection(t)
      /\ owner' = owner /\ copied' = copied /\ empty' = empty
    BY ThreadNames DEF IInv, StartInput
<1>2. {Pass(ManagerMtx), Test(Input), Call(Input)} \subseteq StepsOf(t)
    <2>1. Pass(ManagerMtx) \in CallerSteps
        BY DEF Pass, CallerSteps, Momentary
    <2>2. {Test(Input), Call(Input)} \subseteq InputSteps
        BY DEF InputSteps
    <2> QED
        BY <1>1, <2>1, <2>2 DEF StepsOf
<1>3. /\ RequestInput \in Seq(StepsOf(t)) /\ Len(RequestInput) = 3
      /\ RequestInput[1] = Pass(ManagerMtx) /\ RequestInput[2] = Test(Input)
      /\ RequestInput[3] = Call(Input)
    BY <1>2 DEF RequestInput
<1>4. \A i \in 1..3 : i = 1 \/ i = 2 \/ i = 3
    OBVIOUS
<1>5. \A i \in 1..Len(RequestInput) : RequestInput[i] \notin {Lock(AppMtx), Unlock(AppMtx)}
    BY <1>3, <1>4, StepNames
<1>6. Continue(t, RequestInput)
    BY DEF StartInput
<1>7. code'[t] = RequestInput
    BY <1>1, <1>6 DEF Continue, CodeOK
<1>8. owner'[AppMtx] # t
    BY <1>1, Outside
<1>9. AppSection(t)'
    BY <1>1, <1>3, <1>5, <1>7, <1>8, NoSection
<1> QED
    BY <1>1, <1>3, <1>6, <1>9, OwnersKept, StepOfThread DEF IInv, CodeOK

\* The invariant holds in every state that Spec reaches.
THEOREM InvariantCorrect == Spec => []IInv
<1>1. Init => IInv
    <2> SUFFICES ASSUME Init PROVE IInv
        OBVIOUS
    <2>1. CodeOK
        BY DEF Init, CodeOK
    <2>2. Keepers
        BY MutexNames DEF Init, Keepers
    <2>3. \A t \in Threads : AppSection(t)
        <3> SUFFICES ASSUME NEW t \in Threads PROVE AppSection(t)
            OBVIOUS
        <3>1. code[t] = <<>> /\ owner[AppMtx] # t
            BY MutexNames, ThreadNames DEF Init
        <3>2. Len(code[t]) = 0
            BY <3>1
        <3>3. (\A i \in 1..0 : FALSE) /\ (\A i \in 2..0 : FALSE)
            OBVIOUS
        <3> QED
            BY <3>1, <3>2, <3>3 DEF AppSection
    <2>4. code[Glib] = <<>> /\ \A p \in Watched : owner[cb_mtx(p)] # Glib
        BY MutexNames, ThreadNames DEF Init
    <2>5. GlibOK
        BY <2>4 DEF GlibOK, LocksOnce, TestsFirst, Unlocks, StoresElsewhere, RunsLocked,
                    RunsInside, CallsTested
    <2> QED
        BY <2>1, <2>2, <2>3, <2>5 DEF IInv
<1>2. IInv /\ [Next]_vars => IInv'
    <2> SUFFICES ASSUME IInv, [Next]_vars PROVE IInv'
        OBVIOUS
    <2>1. CASE Dispatch
        BY <2>1, DispatchStep
    <2>2. ASSUME NEW t \in InputThreads, StartInput(t) PROVE IInv'
        BY <2>2, InputStep
    <2>3. ASSUME NEW t \in Threads, Acquire(t) PROVE IInv'
        BY <2>3, AcquireStep
    <2>4. ASSUME NEW t \in Threads, Release(t) PROVE IInv'
        BY <2>4, ReleaseStep
    <2>5. ASSUME NEW t \in Threads, PassMutex(t) PROVE IInv'
        <3>1. /\ code[t] # <<>> /\ Step(t).op = "pass" /\ Advance(t)
              /\ owner' = owner /\ empty' = empty /\ copied' \subseteq copied \cup {t}
            BY <2>5 DEF PassMutex, At
        <3> QED
            BY <3>1, PlainSteps
    <2>6. ASSUME NEW t \in Threads, Assign(t) PROVE IInv'
        BY <2>6, AssignStep
    <2>7. ASSUME NEW t \in Threads, TakeCopy(t) PROVE IInv'
        <3>1. /\ code[t] # <<>> /\ Step(t).op = "copy" /\ Advance(t)
              /\ owner' = owner /\ empty' = empty /\ copied' \subseteq copied \cup {t}
            BY <2>7 DEF TakeCopy, At
        <3> QED
            BY <3>1, PlainSteps
    <2>8. ASSUME NEW t \in Threads, TestSlot(t) PROVE IInv'
        BY <2>8, TestStep
    <2>9. ASSUME NEW t \in Threads, Run(t) PROVE IInv'
        BY <2>9, RunStep
    <2>10. ASSUME NEW t \in Threads, RunCopy(t) PROVE IInv'
        BY <2>10, RunCopyStep
    <2>11. ASSUME NEW t \in Threads, Return(t) PROVE IInv'
        <3>1. /\ code[t] # <<>> /\ Step(t).op = "user" /\ Advance(t)
              /\ owner' = owner /\ empty' = empty /\ copied' \subseteq copied \cup {t}
            BY <2>11 DEF Return, At
        <3> QED
            BY <3>1, PlainSteps
    <2>12. ASSUME NEW t \in Threads, UserCalls(t) PROVE IInv'
        BY <2>12, CallsStep
    <2>13. CASE UNCHANGED vars
        BY <2>13 DEF vars, IInv, CodeOK, Keepers, AppSection, Releases, Brief, GlibOK,
                     LocksOnce, TestsFirst, Unlocks, StoresElsewhere, RunsLocked,
                     RunsInside, CallsTested, Ahead
    <2> QED
        BY <2>1, <2>2, <2>3, <2>4, <2>5, <2>6, <2>7, <2>8, <2>9, <2>10, <2>11, <2>12,
           <2>13 DEF Next, Library
<1> QED
    BY <1>1, <1>2, PTL DEF Spec

------------------------------------------------------------------------------
(* The properties.                                                          *)

\* Threads take only the steps there are, on mutexes and callbacks there are,
\* and the callbacks for lists are never empty (gconnman_manager.cpp:346-443).
THEOREM TypeCorrect == Spec => []TypeOK
<1>1. IInv => TypeOK
    <2> SUFFICES ASSUME IInv PROVE TypeOK
        OBVIOUS
    <2>1. CodeOK
        BY DEF IInv
    <2>2. ASSUME NEW t \in Threads, NEW i \in DOMAIN code[t]
          PROVE  LET step == code[t][i] IN
                 /\ step.op \in {"lock", "unlock", "pass"} => step.mutex \in Mutexes
                 /\ step.op \in {"store", "copy", "test", "call"} => step.slot \in Slots
                 /\ step.op = "user" => step.slot \in Slots \cup {Copied}
        <3> DEFINE step == code[t][i]
        <3>1. step \in StepsOf(t)
            BY <2>1 DEF CodeOK
        <3> HIDE DEF step
        <3>2. step.op \in {"lock", "unlock", "pass"} => step.mutex \in Mutexes
            BY <3>1, StepKinds, StepNames, MutexNames
        <3>3. Input \in ManagerSlots
            BY DEF ManagerSlots
        <3>4. step.op \in {"store", "copy", "test", "call"} => step.slot \in Slots
            BY <3>1, <3>3, StepKinds, StepNames, SlotNames
        <3>5. step.op = "user" => step.slot \in Slots \cup {Copied}
            BY <3>1, <3>3, StepKinds, StepNames, SlotNames
        <3> QED
            BY <3>2, <3>4, <3>5 DEF step
    <2> QED
        BY <2>1, <2>2 DEF TypeOK, CodeOK
<1> QED
    BY <1>1, InvariantCorrect, PTL

\* No handler of the GLib thread calls an empty std::function, although
\* on_properties_changed_cb tests its callback before it takes cb_mtx_
\* (gproxy.hpp:56-58, 182-187).
THEOREM NeverEmptyCallback == Spec => []NoEmptyCallback
<1>1. IInv => NoEmptyCallback
    <2> SUFFICES ASSUME IInv, NEW t \in Threads \ InputThreads, At(t, "call")
                 PROVE  Step(t).slot \notin empty
        BY DEF NoEmptyCallback
    <2>1. /\ code[t] # <<>> /\ Step(t).op = "call" /\ Step(t) \in StepsOf(t)
          /\ Step(t) = Head(code[t])
        BY FirstStep DEF At
    <2>2. PICK p \in Watched : t = Glib /\ Step(t) = Call(Changed(p))
        BY <2>1, StepKinds
    <2>3. 1 \in 1..Len(code[Glib]) /\ code[Glib][1] = Call(Changed(p))
        BY <2>1, <2>2, Taken DEF IInv, CodeOK
    <2>4. ~Ahead(1, Test(Changed(p)))
        BY DEF Ahead
    <2>5. Changed(p) \notin empty
        BY <2>3, <2>4 DEF IInv, GlibOK, CallsTested
    <2> QED
        BY <2>2, <2>5, StepNames
<1> QED
    BY <1>1, InvariantCorrect, PTL

\* Only the application's mutex or the cb_mtx_ of a proxy is ever waited for.
LEMMA WaitsFor ==
    ASSUME IInv, NEW t \in Blocked
    PROVE  /\ t \in Threads
           /\ owner[Step(t).mutex] # None
           /\ \/ Step(t) = Lock(AppMtx) /\ Step(t).mutex = AppMtx
              \/ /\ Step(t).op \in {"lock", "store"} /\ t # Glib
                 /\ \E p \in Watched : Step(t).mutex = cb_mtx(p)
<1>1. /\ t \in Threads /\ code[t] # <<>> /\ Step(t).op \in {"lock", "pass", "store", "copy"}
      /\ owner[Step(t).mutex] # None
    BY DEF Blocked, Free
<1>2. Step(t) \in StepsOf(t) /\ Step(t) = Head(code[t])
    BY <1>1, FirstStep
<1>3. Step(t).mutex \notin Momentary /\ ManagerMtx \in Momentary
    BY <1>1 DEF IInv, Keepers, Momentary
<1>4. \/ Step(t) = Lock(AppMtx) /\ Step(t).mutex = AppMtx
      \/ t = Glib /\ \E p \in Watched : Step(t) = Lock(cb_mtx(p))
      \/ Step(t).op = "store" /\ \E p \in Watched : Step(t).mutex = cb_mtx(p)
    BY <1>1, <1>2, <1>3, StepKinds, StepNames
<1>5. ASSUME t = Glib
      PROVE  /\ ~\E p \in Watched : Step(t) = Lock(cb_mtx(p))
             /\ ~\E p \in Watched : Step(t).op = "store" /\ Step(t).mutex = cb_mtx(p)
    <2>1. 1 \in 1..Len(code[Glib]) /\ code[Glib][1] = Step(t)
        BY <1>1, <1>2, <1>5, Taken DEF IInv, CodeOK
    <2>2. \A p \in Watched : owner[cb_mtx(p)] \in {None, Glib}
        BY DEF IInv, Keepers
    <2>3. ASSUME NEW p \in Watched, Step(t) = Lock(cb_mtx(p)) PROVE FALSE
        <3>1. owner[cb_mtx(p)] # None
            BY <1>1, <2>3, StepNames
        <3>2. owner[cb_mtx(p)] # Glib
            BY <2>1, <2>3 DEF IInv, GlibOK, LocksOnce
        <3> QED
            BY <2>2, <3>1, <3>2
    <2>4. ASSUME NEW p \in Watched, Step(t).op = "store", Step(t).mutex = cb_mtx(p)
          PROVE  FALSE
        BY <1>1, <2>1, <2>2, <2>4 DEF IInv, GlibOK, StoresElsewhere
    <2> QED
        BY <2>3, <2>4
<1> QED
    BY <1>1, <1>4, <1>5, StepNames

\* Who has the application's mutex waits for nobody.
LEMMA OwnerRuns ==
    ASSUME IInv, NEW t \in Threads, owner[AppMtx] = t
    PROVE  t \notin Blocked \cup Asking
<1>1. AppSection(t) /\ CodeOK
    BY DEF IInv
<1>2. PICK i \in 1..Len(code[t]) : Releases(t, i) /\ code[t][1] # Lock(AppMtx)
    BY <1>1 DEF AppSection
<1>3. code[t] # <<>> /\ Len(code[t]) \in Nat
    BY <1>1, <1>2 DEF CodeOK
<1>4. Step(t) = code[t][1] /\ Step(t) \in StepsOf(t)
    BY <1>1, <1>3, Taken DEF CodeOK, Step
<1>5. CASE i = 1
    <2>1. Step(t).op = "unlock"
        BY <1>2, <1>4, <1>5, StepNames DEF Releases
    <2> QED
        BY <2>1 DEF Blocked, Asking, At
<1>6. CASE i # 1
    <2>1. 1 \in 1..(i - 1)
        BY <1>2, <1>3, <1>6
    <2>2. Step(t).op \in {"pass", "store"}
        BY <1>2, <1>4, <2>1 DEF Releases, Brief
    <2>3. Step(t).mutex \in Momentary \/ t = Glib
        BY <1>2, <1>4, <2>1 DEF Releases, Brief
    <2>4. t \notin Asking
        BY <2>2 DEF Asking, At
    <2>5. t \notin Blocked
        <3>1. ASSUME t \in Blocked PROVE FALSE
            <4>1. Step(t).op # "lock" /\ Lock(AppMtx).op = "lock"
                BY <2>2, StepNames
            <4>2. t # Glib /\ \E p \in Watched : Step(t).mutex = cb_mtx(p)
                BY <3>1, <4>1, WaitsFor
            <4> QED
                BY <2>3, <4>2, MutexNames
        <3> QED
            BY <3>1
    <2> QED
        BY <2>4, <2>5
<1> QED
    BY <1>5, <1>6

\* No threads wait for each other, and none for itself or for the user of a
\* RequestInput, although callbacks call the library while it runs them
\* (gproxy.hpp:50-60, 182-187, 203-217, gconnman_manager.cpp:88-223, 346-443).
THEOREM NeverDeadlocks == Spec => []NoDeadlock
<1>1. IInv => NoDeadlock
    <2> SUFFICES ASSUME IInv, NEW waiting \in SUBSET Blocked, waiting # {}
                 PROVE  \E t \in waiting : owner[Step(t).mutex] \notin waiting \cup Asking
        BY DEF NoDeadlock
    <2>1. ASSUME NEW t \in waiting, Step(t).mutex = AppMtx
          PROVE  owner[Step(t).mutex] \notin waiting \cup Asking
        <3>1. owner[AppMtx] \in Threads
            <4>1. owner[AppMtx] # None
                BY <2>1, WaitsFor
            <4> QED
                BY <4>1, MutexNames DEF IInv, CodeOK
        <3>2. owner[AppMtx] \notin Blocked \cup Asking
            BY <3>1, OwnerRuns
        <3> QED
            BY <2>1, <3>2
    <2>2. PICK t \in waiting : TRUE
        OBVIOUS
    <2>3. CASE Step(t).mutex = AppMtx
        BY <2>1, <2>3
    <2>4. CASE Step(t).mutex # AppMtx
        <3>1. PICK p \in Watched : Step(t).mutex = cb_mtx(p)
            BY <2>4, WaitsFor
        <3>2. owner[Step(t).mutex] = Glib
            BY <3>1, WaitsFor DEF IInv, Keepers
        <3>3. Glib \notin Asking
            BY ThreadNames DEF Asking
        <3>4. CASE Glib \in waiting
            <4>1. Step(Glib).mutex = AppMtx
                BY <3>4, WaitsFor
            <4> QED
                BY <2>1, <3>4, <4>1
        <3>5. CASE Glib \notin waiting
            BY <3>2, <3>3, <3>5
        <3> QED
            BY <3>4, <3>5
    <2> QED
        BY <2>3, <2>4
<1> QED
    BY <1>1, InvariantCorrect, PTL

\* A callback that runs where it is stored is not replaced while the GLib thread
\* is inside of it, wherever it called to (gproxy.hpp:56-58, 182-187,
\* gconnman_manager.cpp:206-222, 287-309, 351-379, 418-443).
THEOREM RunningStaysAlive == Spec => RunningIsAlive
<1> DEFINE Alive ==
        \A i \in DOMAIN code[Glib] :
           code[Glib][i].op = "user"
              => \A t \in Threads : Assign(t) => Step(t).slot # code[Glib][i].slot
<1>1. IInv => Alive
    <2> SUFFICES ASSUME IInv, NEW i \in DOMAIN code[Glib], code[Glib][i].op = "user",
                        NEW t \in Threads, Assign(t)
                 PROVE  Step(t).slot # code[Glib][i].slot
        OBVIOUS
    <2>1. code[Glib] \in Seq(StepsOf(Glib))
        BY ThreadNames DEF IInv, CodeOK
    <2>2. i \in 1..Len(code[Glib]) /\ code[Glib][i] \in StepsOf(Glib)
        BY <2>1
    <2>3. \/ code[Glib][i] = User(Copied)
          \/ \E p \in Watched : code[Glib][i] = User(Changed(p))
        BY <2>2, StepKinds, ThreadNames
    <2>4. /\ code[t] # <<>> /\ Step(t).op = "store" /\ Step(t) \in StepsOf(t)
          /\ owner[Step(t).mutex] = None
        BY FirstStep DEF Assign, At, Free
    <2>5. \/ Step(t).slot \in ManagerSlots
          \/ \E q \in Watched : Step(t).mutex = cb_mtx(q) /\ Step(t).slot = Changed(q)
        BY <2>4, StepKinds
    <2>6. CASE code[Glib][i] = User(Copied)
        <3>1. code[Glib][i].slot = Copied
            BY <2>6, StepNames
        <3> QED
            BY <2>5, <3>1, SlotNames
    <2>7. ASSUME NEW p \in Watched, code[Glib][i] = User(Changed(p)),
                 Step(t).slot = Changed(p)
          PROVE  FALSE
        <3>1. owner[cb_mtx(p)] = Glib
            BY <2>2, <2>7 DEF IInv, GlibOK, RunsInside
        <3>2. Step(t).mutex = cb_mtx(p)
            BY <2>5, <2>7, SlotNames
        <3> QED
            BY <2>4, <3>1, <3>2, ThreadNames
    <2> QED
        BY <2>3, <2>6, <2>7, StepNames
<1>2. IInv /\ [Next]_vars => [Alive]_vars
    BY <1>1
<1>3. Spec => [][Alive]_vars
    BY <1>2, InvariantCorrect, PTL DEF Spec
<1> QED
    BY <1>3 DEF RunningIsAlive

==============================================================================
