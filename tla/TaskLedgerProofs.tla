-------------------------- MODULE TaskLedgerProofs --------------------------
(***************************************************************************)
(* What holds of TaskLedger for every set of tasks, references and reapers *)
(* and for every budget and bound.                                         *)
(***************************************************************************)
EXTENDS TaskLedger, SequenceTheorems, WellFoundedInduction, TLAPS

(* Sequence facts the log's proofs rest on. *)

\* One or two events of the right kind are a sequence of events.
LEMMA EventTuples ==
  ASSUME NEW e \in Events, NEW f \in Events
  PROVE  <<e>> \in Seq(Events) /\ <<e, f>> \in Seq(Events)
  OBVIOUS

\* Concatenation stays in Seq(Events) and ends with the second part's end.
LEMMA ConcatEvents ==
  ASSUME NEW s \in Seq(Events), NEW u \in Seq(Events), Len(u) > 0
  PROVE  /\ s \o u \in Seq(Events)
         /\ Len(s \o u) = Len(s) + Len(u)
         /\ (s \o u)[Len(s \o u)] = u[Len(u)]
  OBVIOUS

\* The events the actions append.
LEMMA EventsBuilt ==
  /\ \A type \in PlainTypes : PlainEvent(type) \in Events
  /\ \A a, b \in Statuses : StatusChange(a, b) \in Events
  BY DEF PlainEvent, StatusChange, Events

\* Appending keeps the logs typed and makes the log of the task longer.
LEMMA AppendAllKeepsLog ==
  ASSUME TypeOK, NEW t \in Tasks, NEW events \in Seq(Events), Len(events) > 0,
         AppendAll(t, events)
  PROVE  /\ log' \in [Tasks -> Seq(Events)]
         /\ Len(log'[t]) > Len(log[t])
         /\ log'[t][Len(log'[t])] = events[Len(events)]
         /\ \A u \in Tasks : u # t => log'[u] = log[u]
<1>1. log[t] \in Seq(Events)
  BY DEF TypeOK
<1>2. log'[t] = log[t] \o events
  BY DEF AppendAll, TypeOK
<1>3. /\ log[t] \o events \in Seq(Events)
      /\ Len(log[t] \o events) = Len(log[t]) + Len(events)
      /\ (log[t] \o events)[Len(log[t] \o events)] = events[Len(events)]
  BY <1>1, ConcatEvents
<1>4. log' \in [Tasks -> Seq(Events)]
  BY <1>3 DEF AppendAll, TypeOK
<1>5. Len(log[t]) \in Nat /\ Len(events) \in Nat
  BY <1>1
<1> QED
  BY <1>2, <1>3, <1>4, <1>5 DEF AppendAll, TypeOK

\* Appending one event.
LEMMA AppendOne ==
  ASSUME TypeOK, NEW t \in Tasks, NEW e \in Events, AppendAll(t, <<e>>)
  PROVE  /\ log' \in [Tasks -> Seq(Events)]
         /\ Len(log'[t]) > Len(log[t])
         /\ log'[t][Len(log'[t])] = e
         /\ \A u \in Tasks : u # t => log'[u] = log[u]
<1> DEFINE added == <<e>>
<1>1. added \in Seq(Events) /\ Len(added) = 1 /\ added[1] = e
  BY EventTuples
<1>2. AppendAll(t, added)
  OBVIOUS
<1> HIDE DEF added
<1> QED
  BY <1>1, <1>2, AppendAllKeepsLog

\* Appending two events in one transaction.
LEMMA AppendTwo ==
  ASSUME TypeOK, NEW t \in Tasks, NEW e \in Events, NEW f \in Events,
         AppendAll(t, <<e, f>>)
  PROVE  /\ log' \in [Tasks -> Seq(Events)]
         /\ Len(log'[t]) > Len(log[t])
         /\ log'[t][Len(log'[t])] = f
         /\ \A u \in Tasks : u # t => log'[u] = log[u]
<1> DEFINE added == <<e, f>>
<1>1. added \in Seq(Events) /\ Len(added) = 2 /\ added[2] = f
  BY EventTuples
<1>2. AppendAll(t, added)
  OBVIOUS
<1> HIDE DEF added
<1>3. Len(added) > 0
  BY <1>1
<1>4. /\ log' \in [Tasks -> Seq(Events)]
      /\ Len(log'[t]) > Len(log[t])
      /\ log'[t][Len(log'[t])] = added[Len(added)]
      /\ \A u \in Tasks : u # t => log'[u] = log[u]
  BY <1>1, <1>2, <1>3, AppendAllKeepsLog, Zenon
<1>5. added[Len(added)] = f
  BY <1>1
<1> QED
  BY <1>4, <1>5, Zenon

-----------------------------------------------------------------------------
(* Type correctness *)

\* Init establishes the type invariant.
LEMMA InitTypeOK == Init => TypeOK
  BY LedgerAssumption DEF Init, LifecycleInit, TypeOK, Lease

\* The type invariant is inductive: every transaction writes values of the
\* columns' types and appends well-formed events.
LEMMA NextTypeOK == TypeOK /\ [Next]_ledgerVars => TypeOK'
<1> SUFFICES ASSUME TypeOK, [Next]_ledgerVars PROVE TypeOK'
  OBVIOUS
<1> USE LedgerAssumption
<1>1. ASSUME NEW t \in Tasks, NEW r \in Refs \cup {NoRef}, Submit(t, r)
      PROVE  TypeOK'
  <2>1. log' \in [Tasks -> Seq(Events)]
    BY <1>1, AppendOne, EventsBuilt DEF Submit, PlainTypes
  <2> QED
    BY <1>1, <2>1 DEF TypeOK, Submit, Create, Statuses
<1>2. ASSUME NEW t \in Tasks, NEW to \in Statuses, SetStatus(t, to)
      PROVE  TypeOK'
  <2>1. log' \in [Tasks -> Seq(Events)]
    BY <1>2, AppendOne, EventsBuilt DEF SetStatus, Move, CheckTransition
  <2> QED
    BY <1>2, <2>1 DEF TypeOK, SetStatus, Move
<1>3. ASSUME NEW t \in Tasks, Claim(t)
      PROVE  TypeOK'
  <2>0. "working" \in Statuses
    BY DEF Statuses
  <2>1. log' \in [Tasks -> Seq(Events)]
    BY <1>3, <2>0, AppendOne, EventsBuilt DEF Claim, Move, CheckTransition
  <2> QED
    BY <1>3, <2>0, <2>1 DEF TypeOK, Claim, Move, Lease
<1>4. ASSUME NEW t \in Tasks, ExtendLease(t)
      PROVE  TypeOK'
  BY <1>4 DEF TypeOK, ExtendLease, Lease
<1>5. ASSUME NEW t \in Tasks, AssignAgent(t)
      PROVE  TypeOK'
  <2>1. log' \in [Tasks -> Seq(Events)]
    BY <1>5, AppendOne, EventsBuilt DEF AssignAgent, PlainTypes
  <2> QED
    BY <1>5, <2>1 DEF TypeOK, AssignAgent
<1>6. ASSUME NEW t \in Tasks, NEW type \in ClientEvents, AppendEvent(t, type)
      PROVE  TypeOK'
  <2>0. type \in PlainTypes
    BY DEF PlainTypes
  <2>1. log' \in [Tasks -> Seq(Events)]
    BY <1>6, <2>0, AppendOne, EventsBuilt DEF AppendEvent
  <2> QED
    BY <1>6, <2>1 DEF TypeOK, AppendEvent
<1>7. ASSUME NEW t \in Tasks, SpendWithin(t)
      PROVE  TypeOK'
  <2>1. spent' \in [Tasks -> 0..MaxSpent]
    BY <1>7 DEF TypeOK, SpendWithin
  <2> QED
    BY <1>7, <2>1 DEF TypeOK, SpendWithin
<1>8. ASSUME NEW t \in Tasks, SpendOver(t)
      PROVE  TypeOK'
  <2>0. "working" \in Statuses /\ "input_required" \in Statuses
    BY DEF Statuses
  <2>1. spent' \in [Tasks -> 0..MaxSpent]
    BY <1>8 DEF TypeOK, SpendOver
  <2>2. log' \in [Tasks -> Seq(Events)]
    <3>1. CASE status[t] = "working"
      BY <1>8, <3>1, <2>0, AppendTwo, EventsBuilt DEF SpendOver, PlainTypes
    <3>2. CASE status[t] # "working"
      BY <1>8, <3>2, AppendOne, EventsBuilt DEF SpendOver, PlainTypes
    <3> QED
      BY <3>1, <3>2
  <2>3. status' \in [Tasks -> Statuses \cup {"absent"}]
    BY <1>8, <2>0 DEF TypeOK, SpendOver
  <2> QED
    BY <1>8, <2>1, <2>2, <2>3 DEF TypeOK, SpendOver
<1>9. ASSUME NEW t \in Tasks, LeaseLapses(t)
      PROVE  TypeOK'
  BY <1>9 DEF TypeOK, LeaseLapses, Lease
<1>10. ASSUME NEW p \in Reapers, ReapSelect(p)
      PROVE  TypeOK'
  <2>1. reaping' \in [Reapers -> SUBSET Tasks]
    BY <1>10 DEF TypeOK, ReapSelect
  <2> QED
    BY <1>10, <2>1 DEF TypeOK, ReapSelect
<1>11. ASSUME NEW p \in Reapers, NEW t \in Tasks, ReapTask(p, t)
      PROVE  TypeOK'
  <2>0. "working" \in Statuses /\ "submitted" \in Statuses
    BY DEF Statuses
  <2>1. log' \in [Tasks -> Seq(Events)]
    <3>1. AppendAll(t, <<PlainEvent("error"), StatusChange("working", "submitted")>>)
      BY <1>11 DEF ReapTask
    <3>2. /\ PlainEvent("error") \in Events
          /\ StatusChange("working", "submitted") \in Events
      BY EventsBuilt, <2>0 DEF PlainTypes
    <3> QED
      BY <3>1, <3>2, AppendTwo
  <2>2. reaping' \in [Reapers -> SUBSET Tasks]
    BY <1>11 DEF TypeOK, ReapTask
  <2>3. CASE status[t] = "working"
    <3>1. /\ status' = [status EXCEPT ![t] = "submitted"]
          /\ lease' = [lease EXCEPT ![t] = "none"]
          /\ UNCHANGED <<ref, agent, spent>>
      BY <1>11, <2>3 DEF ReapTask
    <3> QED
      BY <3>1, <2>0, <2>1, <2>2 DEF TypeOK, Lease
  <2>4. CASE status[t] # "working"
    <3>1. UNCHANGED <<status, lease, ref, agent, spent>>
      BY <1>11, <2>4 DEF ReapTask
    <3> QED
      BY <3>1, <2>1, <2>2 DEF TypeOK
  <2> QED
    BY <2>3, <2>4
<1>12. ASSUME NEW p \in Reapers, ReapAbort(p)
      PROVE  TypeOK'
  <2>1. reaping' \in [Reapers -> SUBSET Tasks]
    BY <1>12 DEF TypeOK, ReapAbort
  <2> QED
    BY <1>12, <2>1 DEF TypeOK, ReapAbort
<1>13. CASE UNCHANGED ledgerVars
  BY <1>13 DEF TypeOK, ledgerVars
<1> QED
  BY <1>1, <1>2, <1>3, <1>4, <1>5, <1>6, <1>7, <1>8, <1>9, <1>10, <1>11,
     <1>12, <1>13 DEF Next

\* The rows, the log and the reapers' lists keep their types for every
\* sequence of ledger transactions.
THEOREM TypeCorrect == Spec => []TypeOK
  BY InitTypeOK, NextTypeOK, PTL DEF Spec

-----------------------------------------------------------------------------
(* The ledger implements the lifecycle *)

\* Every transaction is a step of TaskLifecycle or leaves its variables
\* alone: the moves the reaper and the budget make on their own are moves of
\* the state machine too.
LEMMA StepIsLifecycle ==
  ASSUME TypeOK, [Next]_ledgerVars
  PROVE  [LifecycleNext]_lifecycleVars
<1> USE DEF lifecycleVars
<1>0. /\ CheckTransition("working", "submitted")
      /\ CheckTransition("working", "input_required")
      /\ "submitted" \in Statuses /\ "input_required" \in Statuses
      /\ "working" \in Statuses
  BY DEF CheckTransition, Statuses, Transitions
<1>1. ASSUME NEW t \in Tasks, NEW r \in Refs \cup {NoRef}, Submit(t, r)
      PROVE  LifecycleNext
  BY <1>1 DEF Submit, LifecycleNext
<1>2. ASSUME NEW t \in Tasks, NEW to \in Statuses, SetStatus(t, to)
      PROVE  LifecycleNext
  BY <1>2 DEF SetStatus, LifecycleNext
<1>3. ASSUME NEW t \in Tasks, Claim(t)
      PROVE  LifecycleNext
  BY <1>3, <1>0 DEF Claim, LifecycleNext
<1>4. ASSUME NEW t \in Tasks, SpendOver(t)
      PROVE  LifecycleNext \/ UNCHANGED lifecycleVars
  <2>1. CASE status[t] = "working"
    <3>1. Move(t, "input_required")
      BY <1>4, <2>1, <1>0 DEF SpendOver, Move
    <3> QED
      BY <3>1, <1>0 DEF LifecycleNext
  <2>2. CASE status[t] # "working"
    BY <1>4, <2>2 DEF SpendOver
  <2> QED
    BY <2>1, <2>2
<1>5. ASSUME NEW p \in Reapers, NEW t \in Tasks, ReapTask(p, t)
      PROVE  LifecycleNext \/ UNCHANGED lifecycleVars
  <2>1. CASE status[t] = "working"
    <3>1. Move(t, "submitted")
      BY <1>5, <2>1, <1>0 DEF ReapTask, Move
    <3> QED
      BY <3>1, <1>0 DEF LifecycleNext
  <2>2. CASE status[t] # "working"
    BY <1>5, <2>2 DEF ReapTask
  <2> QED
    BY <2>1, <2>2
<1>6. ASSUME NEW t \in Tasks,
             \/ ExtendLease(t)
             \/ AssignAgent(t)
             \/ \E type \in ClientEvents : AppendEvent(t, type)
             \/ SpendWithin(t)
             \/ LeaseLapses(t)
      PROVE  UNCHANGED lifecycleVars
  BY <1>6 DEF ExtendLease, AssignAgent, AppendEvent, SpendWithin, LeaseLapses
<1>7. ASSUME NEW p \in Reapers, ReapSelect(p) \/ ReapAbort(p)
      PROVE  UNCHANGED lifecycleVars
  BY <1>7 DEF ReapSelect, ReapAbort
<1>8. CASE UNCHANGED ledgerVars
  BY <1>8 DEF ledgerVars
<1> QED
  BY <1>1, <1>2, <1>3, <1>4, <1>5, <1>6, <1>7, <1>8 DEF Next

\* TaskLedger implements TaskLifecycle: seen through status and external_ref
\* alone, the ledger makes only the moves of task.go's state machine and
\* never admits a second open task for a reference.
THEOREM ImplementsLifecycle == Spec => LifecycleSpec
<1>1. Init => LifecycleInit
  BY DEF Init
<1>2. TypeOK /\ [Next]_ledgerVars => [LifecycleNext]_lifecycleVars
  BY StepIsLifecycle
<1> QED
  BY <1>1, <1>2, TypeCorrect, PTL DEF Spec, LifecycleSpec

\* A step of the lifecycle opens a task only when it creates it.
LEMMA OnlyCreateOpens ==
  ASSUME NEW t \in Tasks, NEW to \in Statuses, Move(t, to)
  PROVE  status[t] \in Open
  BY DEF Move, CheckTransition, Transitions, Statuses, Open

\* OneOpenPerRef is inductive over lifecycle steps.
LEMMA LifecycleKeepsOneOpen ==
  ASSUME TypeOK, OneOpenPerRef, [LifecycleNext]_lifecycleVars
  PROVE  OneOpenPerRef'
<1>1. ASSUME NEW t \in Tasks, NEW r \in Refs \cup {NoRef}, Create(t, r)
      PROVE  OneOpenPerRef'
  <2>1. \A u \in Tasks : u # t => status'[u] = status[u] /\ ref'[u] = ref[u]
    BY <1>1 DEF Create, TypeOK
  <2>2. ref'[t] = r
    BY <1>1 DEF Create, TypeOK
  <2>3. r # NoRef => \A u \in Tasks : ~(status[u] \in Open /\ ref[u] = r)
    BY <1>1 DEF Create, OpenWithRef
  <2> QED
    BY <2>1, <2>2, <2>3 DEF OneOpenPerRef
<1>2. ASSUME NEW t \in Tasks, NEW to \in Statuses, Move(t, to)
      PROVE  OneOpenPerRef'
  <2>1. \A u \in Tasks : status'[u] \in Open => status[u] \in Open
    BY <1>2, OnlyCreateOpens DEF Move, TypeOK
  <2>2. ref' = ref
    BY <1>2 DEF Move
  <2> QED
    BY <2>1, <2>2 DEF OneOpenPerRef
<1>3. CASE UNCHANGED lifecycleVars
  BY <1>3 DEF lifecycleVars, OneOpenPerRef
<1> QED
  BY <1>1, <1>2, <1>3 DEF LifecycleNext

\* One OPEN task per external reference, in every reachable state of the
\* ledger: a late reaper transaction cannot reopen a task whose reference a
\* newer one holds.
THEOREM OneOpenTask == Spec => []OneOpenPerRef
<1>1. Init => OneOpenPerRef
  BY DEF Init, LifecycleInit, OneOpenPerRef, Open
<1>2. TypeOK /\ OneOpenPerRef /\ [Next]_ledgerVars => OneOpenPerRef'
  BY StepIsLifecycle, LifecycleKeepsOneOpen
<1> QED
  BY <1>1, <1>2, TypeCorrect, PTL DEF Spec

-----------------------------------------------------------------------------
(* Induction over the length of a log, and what a replay adds for one event *)

\* A set of numbers has a least one.
LEMMA LeastNumber ==
    ASSUME NEW T, T \subseteq Nat, T # {}
    PROVE \E n \in T : \A m \in T : n <= m
<1>1. \E x \in T : \A y \in T : ~(<<y, x>> \in OpToRel(<, Nat))
  BY WFMin, NatLessThanWellFounded
<1>2. PICK x \in T : \A y \in T : ~(<<y, x>> \in OpToRel(<, Nat))
  BY <1>1
<1>3. ASSUME NEW y \in T PROVE x <= y
  <2>1. ~(<<y, x>> \in OpToRel(<, Nat))
    BY <1>2
  <2>2. ~(y < x)
    BY <2>1 DEF OpToRel
  <2> QED
    BY <2>2
<1> QED
  BY <1>3

\* Induction, for a set instead of a predicate.
LEMMA NatSetInduction ==
    ASSUME NEW T, 0 \in T, \A n \in Nat : n \in T => n + 1 \in T
    PROVE  \A n \in Nat : n \in T
<1> DEFINE U == {n \in Nat : n \notin T}
<1>1. SUFFICES ASSUME U # {} PROVE FALSE
  OBVIOUS
<1>2. PICK n \in U : \A m \in U : n <= m
  <2> HIDE DEF U
  <2>1. U \subseteq Nat
    BY DEF U
  <2> QED
    BY <1>1, <2>1, LeastNumber
<1>3. n \in Nat /\ n \notin T /\ n # 0
  BY <1>2
<1>4. n - 1 \in Nat /\ n - 1 \notin U
  BY <1>2, <1>3
<1>5. n - 1 \in T
  BY <1>4
<1> QED
  BY <1>3, <1>4, <1>5

\* One event of a replay: the status after it, from the status before it.
StepTo(e, s) == IF e.type = "status_change" /\ e.from = s THEN e.to ELSE s

\* Two logs with the same first n events.
Alike(ev, ew, n) == \A i \in 1..n : ev[i] = ew[i]

\* f is what ReplayTo reaches after each of the first n events.
Reached(events, n, f) == f = [i \in 0..n |-> IF i = 0 THEN "submitted" ELSE StepTo(events[i], f[i-1])]

\* There is such a function for every length: one event more extends it by one value.
LEMMA ReachedExists ==
    ASSUME NEW events
    PROVE  \A n \in Nat : \E f : Reached(events, n, f)
<1> DEFINE T == {n \in Nat : \E f : Reached(events, n, f)}
<1>1. 0 \in T
  <2> DEFINE f == [i \in 0..0 |-> "submitted"]
  <2>1. f = [i \in 0..0 |-> IF i = 0 THEN "submitted" ELSE StepTo(events[i], f[i-1])]
    OBVIOUS
  <2> QED
    BY <2>1 DEF Reached
<1>2. ASSUME NEW n \in Nat, n \in T PROVE n + 1 \in T
  <2>1. PICK f : Reached(events, n, f)
    BY <1>2
  <2> DEFINE g == [i \in 0..(n+1) |-> IF i = 0 THEN "submitted" ELSE StepTo(events[i], f[i-1])]
  <2>2. \A i \in 0..n : g[i] = f[i]
    BY <2>1 DEF Reached
  <2>3. g = [i \in 0..(n+1) |-> IF i = 0 THEN "submitted" ELSE StepTo(events[i], g[i-1])]
    <3>1. \A i \in 0..(n+1) : i = 0 \/ i - 1 \in 0..n
      OBVIOUS
    <3> QED
      BY <2>2, <3>1
  <2>4. \E h : Reached(events, n + 1, h)
    BY <2>3 DEF Reached
  <2> QED
    BY <2>4
<1>3. \A n \in Nat : n \in T
  <2> HIDE DEF T
  <2> QED
    BY <1>1, <1>2, NatSetInduction
<1> QED
  BY <1>3

\* Two logs that begin alike reach the same statuses.
LEMMA ReachedAgree ==
    \A ev, ew, f, g : \A N, M \in Nat :
        Reached(ev, N, f) /\ Reached(ew, M, g) /\ N <= M /\ Alike(ev, ew, N) => f[N] = g[N]
<1> SUFFICES ASSUME NEW ev, NEW ew, NEW f, NEW g, NEW N \in Nat, NEW M \in Nat, Reached(ev, N, f), Reached(ew, M, g),
                    N <= M, \A i \in 1..N : ev[i] = ew[i]
             PROVE  f[N] = g[N]
  BY DEF Alike
<1> DEFINE T == {n \in Nat : n <= N => f[n] = g[n]}
<1>1. 0 \in T
  BY DEF Reached
<1>2. ASSUME NEW n \in Nat, n \in T PROVE n + 1 \in T
  <2> SUFFICES ASSUME n + 1 <= N PROVE f[n+1] = g[n+1]
    OBVIOUS
  <2>1. f[n] = g[n] /\ n + 1 \in 0..N /\ n + 1 \in 0..M /\ n + 1 # 0 /\ (n + 1) - 1 = n /\ ev[n+1] = ew[n+1]
    BY <1>2
  <2>2. f[n+1] = StepTo(ev[n+1], f[n])
    BY <2>1 DEF Reached
  <2>3. g[n+1] = StepTo(ew[n+1], g[n])
    BY <2>1 DEF Reached
  <2> QED
    BY <2>1, <2>2, <2>3
<1>3. \A n \in Nat : n \in T
  <2> HIDE DEF T
  <2> QED
    BY <1>1, <1>2, NatSetInduction
<1> QED
  BY <1>3

\* The recursion in ReplayTo is well founded, so its value is the last one reached.
LEMMA ReplayIs ==
    ASSUME NEW events, Len(events) \in Nat
    PROVE  \E f : Reached(events, Len(events), f) /\ ReplayTo(events) = f[Len(events)]
<1>1. \E f : Reached(events, Len(events), f)
  BY ReachedExists
<1> QED
  BY <1>1 DEF ReplayTo, Reached, StepTo

\* Replaying one event more is one step more.
LEMMA ReplayAppend ==
    ASSUME NEW S, NEW s \in Seq(S), NEW e \in S
    PROVE  ReplayTo(Append(s, e)) = StepTo(e, ReplayTo(s))
<1> DEFINE t == Append(s, e)
<1>1. /\ t \in Seq(S) /\ Len(t) = Len(s) + 1 /\ Len(s) \in Nat /\ t[Len(s)+1] = e
      /\ \A i \in 1..Len(s) : s[i] = t[i]
  OBVIOUS
<1> HIDE DEF t
<1>2. PICK f : Reached(s, Len(s), f) /\ ReplayTo(s) = f[Len(s)]
  BY <1>1, ReplayIs
<1>3. PICK g : Reached(t, Len(t), g) /\ ReplayTo(t) = g[Len(t)]
  BY <1>1, ReplayIs
<1>4. f[Len(s)] = g[Len(s)]
  <2>1. Len(s) \in Nat /\ Len(t) \in Nat /\ Len(s) <= Len(t)
    BY <1>1
  <2>2. Reached(s, Len(s), f) /\ Reached(t, Len(t), g)
    BY <1>2, <1>3
  <2>3. Alike(s, t, Len(s))
    BY <1>1 DEF Alike
  <2> QED
    BY <2>1, <2>2, <2>3, ReachedAgree
<1>5. g[Len(t)] = StepTo(e, g[Len(s)])
  BY <1>1, <1>3 DEF Reached
<1> QED
  BY <1>2, <1>3, <1>4, <1>5 DEF t

\* A plain event leaves a replay where it is; a status_change moves it when it starts from there.
LEMMA ReplayEvents ==
    ASSUME NEW s \in Seq(Events)
    PROVE  /\ \A type \in PlainTypes : ReplayTo(Append(s, PlainEvent(type))) = ReplayTo(s)
           /\ \A a, b \in Statuses :
                ReplayTo(Append(s, StatusChange(a, b))) = IF ReplayTo(s) = a THEN b ELSE ReplayTo(s)
<1>1. ASSUME NEW type \in PlainTypes
      PROVE  ReplayTo(Append(s, PlainEvent(type))) = ReplayTo(s)
  <2>1. ReplayTo(Append(s, PlainEvent(type))) = StepTo(PlainEvent(type), ReplayTo(s))
    BY EventsBuilt, ReplayAppend
  <2> QED
    BY <2>1 DEF StepTo, PlainEvent, PlainTypes
<1>2. ASSUME NEW a \in Statuses, NEW b \in Statuses
      PROVE  ReplayTo(Append(s, StatusChange(a, b))) = IF ReplayTo(s) = a THEN b ELSE ReplayTo(s)
  <2>1. ReplayTo(Append(s, StatusChange(a, b))) = StepTo(StatusChange(a, b), ReplayTo(s))
    BY EventsBuilt, ReplayAppend
  <2> QED
    BY <2>1 DEF StepTo, StatusChange
<1> QED
  BY <1>1, <1>2

\* An empty log replays to the status that a task is created with.
LEMMA ReplayEmpty == ReplayTo(<<>>) = "submitted"
<1>1. PICK f : Reached(<<>>, Len(<<>>), f) /\ ReplayTo(<<>>) = f[Len(<<>>)]
  BY ReplayIs
<1> QED
  BY <1>1 DEF Reached

-----------------------------------------------------------------------------
(* The log and the row move together *)

\* A row that is not there has no log, and no reaper waits for it.
AbsentIsSilent ==
    /\ \A t \in Tasks : ~Exists(t) => log[t] = <<>>
    /\ \A p \in Reapers : \A t \in reaping[p] : Exists(t)

\* Every way a step may treat a task: nothing, a plain event, the move it logs, or a plain event and a
\* change from working that the row follows if it is working.
RowWithLog(t) ==
    \/ status'[t] = status[t] /\ log'[t] = log[t]
    \/ \E type \in PlainTypes :
         /\ log'[t] = Append(log[t], PlainEvent(type))
         /\ \/ Exists(t) /\ status'[t] = status[t]
            \/ ~Exists(t) /\ status'[t] = "submitted"
    \/ /\ status[t] \in Statuses /\ status'[t] \in Statuses
       /\ log'[t] = Append(log[t], StatusChange(status[t], status'[t]))
    \/ \E type \in PlainTypes, to \in Statuses :
         /\ log'[t] = Append(Append(log[t], PlainEvent(type)), StatusChange("working", to))
         /\ Exists(t)
         /\ status'[t] = IF status[t] = "working" THEN to ELSE status[t]

\* AppendAll with one event or two, as Append.
LEMMA AppendedAs ==
    ASSUME TypeOK, NEW t \in Tasks, NEW e \in Events, NEW f \in Events
    PROVE  /\ AppendAll(t, <<e>>) => log'[t] = Append(log[t], e) /\ \A u \in Tasks \ {t} : log'[u] = log[u]
           /\ AppendAll(t, <<e, f>>) => log'[t] = Append(Append(log[t], e), f) /\ \A u \in Tasks \ {t} : log'[u] = log[u]
<1>1. log[t] \in Seq(Events)
  BY DEF TypeOK
<1>2. ASSUME NEW s \in Seq(Events) PROVE s \o <<e>> = Append(s, e) /\ s \o <<e, f>> = Append(Append(s, e), f)
  OBVIOUS
<1>3. ASSUME NEW added, AppendAll(t, added)
      PROVE  log'[t] = log[t] \o added /\ \A u \in Tasks \ {t} : log'[u] = log[u]
  BY <1>3 DEF AppendAll, TypeOK
<1> QED
  BY <1>1, <1>2, <1>3

\* Every step treats every task in one of these ways.
LEMMA StepsRowWithLog ==
    ASSUME TypeOK, AbsentIsSilent, [Next]_ledgerVars, NEW u \in Tasks
    PROVE  RowWithLog(u)
<1> USE LedgerAssumption
<1>0. /\ {"submitted", "routed", "error", "budget_exhausted"} \subseteq PlainTypes /\ ClientEvents \subseteq PlainTypes
      /\ "working" \in Statuses /\ "submitted" \in Statuses /\ "input_required" \in Statuses /\ "absent" \notin Statuses
  BY DEF PlainTypes, Statuses
<1>a. ASSUME NEW t \in Tasks, NEW type \in PlainTypes, AppendAll(t, <<PlainEvent(type)>>),
             \/ status' = status /\ Exists(t)
             \/ status' = [status EXCEPT ![t] = "submitted"] /\ ~Exists(t)
      PROVE  RowWithLog(u)
  <2>1. PlainEvent(type) \in Events
    BY EventsBuilt
  <2>2. log'[t] = Append(log[t], PlainEvent(type)) /\ \A v \in Tasks \ {t} : log'[v] = log[v]
    BY <1>a, <2>1, AppendedAs
  <2>3. CASE u = t
    BY <1>a, <2>2, <2>3 DEF RowWithLog, Exists, TypeOK
  <2>4. CASE u # t
    BY <1>a, <2>2, <2>4 DEF RowWithLog, TypeOK
  <2> QED
    BY <2>3, <2>4
<1>b. ASSUME NEW t \in Tasks, NEW to \in Statuses, status[t] \in Statuses, status' = [status EXCEPT ![t] = to],
             AppendAll(t, <<StatusChange(status[t], to)>>)
      PROVE  RowWithLog(u)
  <2>1. StatusChange(status[t], to) \in Events
    BY <1>b, EventsBuilt
  <2>2. log'[t] = Append(log[t], StatusChange(status[t], to)) /\ \A v \in Tasks \ {t} : log'[v] = log[v]
    BY <1>b, <2>1, AppendedAs
  <2>3. CASE u = t
    BY <1>b, <2>2, <2>3 DEF RowWithLog, TypeOK
  <2>4. CASE u # t
    BY <1>b, <2>2, <2>4 DEF RowWithLog, TypeOK
  <2> QED
    BY <2>3, <2>4
<1>c. ASSUME NEW t \in Tasks, NEW type \in PlainTypes, NEW to \in Statuses, Exists(t),
             status' = IF status[t] = "working" THEN [status EXCEPT ![t] = to] ELSE status,
             AppendAll(t, <<PlainEvent(type), StatusChange("working", to)>>)
      PROVE  RowWithLog(u)
  <2>1. PlainEvent(type) \in Events /\ StatusChange("working", to) \in Events
    BY <1>0, EventsBuilt
  <2>2. log'[t] = Append(Append(log[t], PlainEvent(type)), StatusChange("working", to)) /\ \A v \in Tasks \ {t} : log'[v] = log[v]
    BY <1>c, <2>1, AppendedAs
  <2>3. /\ status'[t] = IF status[t] = "working" THEN to ELSE status[t]
        /\ u # t => status'[u] = status[u]
    BY <1>c DEF TypeOK
  <2>4. CASE u = t
    BY <1>c, <2>2, <2>3, <2>4 DEF RowWithLog
  <2>5. CASE u # t
    BY <2>2, <2>3, <2>5 DEF RowWithLog
  <2> QED
    BY <2>4, <2>5
<1>1. ASSUME NEW t \in Tasks, NEW r \in Refs \cup {NoRef}, Submit(t, r)
      PROVE  RowWithLog(u)
  BY <1>1, <1>a, <1>0 DEF Submit, Create, Exists
<1>2. ASSUME NEW t \in Tasks, NEW to \in Statuses, SetStatus(t, to)
      PROVE  RowWithLog(u)
  BY <1>2, <1>b DEF SetStatus, Move, CheckTransition
<1>3. ASSUME NEW t \in Tasks, Claim(t)
      PROVE  RowWithLog(u)
  BY <1>3, <1>b, <1>0 DEF Claim, Move, CheckTransition
<1>4. ASSUME NEW t \in Tasks, AssignAgent(t) \/ \E type \in ClientEvents : AppendEvent(t, type)
      PROVE  RowWithLog(u)
  BY <1>4, <1>a, <1>0 DEF AssignAgent, AppendEvent
<1>5. ASSUME NEW t \in Tasks, SpendOver(t)
      PROVE  RowWithLog(u)
  <2>1. CASE status[t] = "working"
    <3>1. /\ status' = IF status[t] = "working" THEN [status EXCEPT ![t] = "input_required"] ELSE status
          /\ AppendAll(t, <<PlainEvent("budget_exhausted"), StatusChange("working", "input_required")>>) /\ Exists(t)
      BY <1>5, <2>1 DEF SpendOver
    <3> QED
      BY <3>1, <1>c, <1>0
  <2>2. CASE status[t] # "working"
    BY <1>5, <2>2, <1>a, <1>0 DEF SpendOver
  <2> QED
    BY <2>1, <2>2
<1>6. ASSUME NEW p \in Reapers, NEW t \in Tasks, ReapTask(p, t)
      PROVE  RowWithLog(u)
  <2>1. /\ status' = IF status[t] = "working" THEN [status EXCEPT ![t] = "submitted"] ELSE status
        /\ AppendAll(t, <<PlainEvent("error"), StatusChange("working", "submitted")>>)
    BY <1>6 DEF ReapTask
  <2>2. Exists(t)
    BY <1>6 DEF ReapTask, AbsentIsSilent
  <2> QED
    BY <2>1, <2>2, <1>c, <1>0
<1>7. ASSUME status' = status /\ log' = log
      PROVE  RowWithLog(u)
  BY <1>7 DEF RowWithLog
<1>8. ASSUME NEW t \in Tasks, ExtendLease(t) \/ SpendWithin(t) \/ LeaseLapses(t)
      PROVE  RowWithLog(u)
  BY <1>7, <1>8 DEF ExtendLease, SpendWithin, LeaseLapses
<1>9. ASSUME NEW p \in Reapers, ReapSelect(p) \/ ReapAbort(p)
      PROVE  RowWithLog(u)
  BY <1>7, <1>9 DEF ReapSelect, ReapAbort
<1>10. CASE UNCHANGED ledgerVars
  BY <1>7, <1>10 DEF ledgerVars
<1> QED
  BY <1>1, <1>2, <1>3, <1>4, <1>5, <1>6, <1>8, <1>9, <1>10 DEF Next

\* A row that exists is never deleted.
LEMMA RowsStay ==
    ASSUME TypeOK, AbsentIsSilent, [Next]_ledgerVars, NEW t \in Tasks, Exists(t)
    PROVE  Exists(t)'
<1>1. RowWithLog(t)
  BY StepsRowWithLog
<1> QED
  BY <1>1 DEF RowWithLog, Exists, Statuses

\* No step writes to the log of a task that it does not create, or hands one to a reaper.
LEMMA StepAbsentIsSilent ==
    ASSUME TypeOK, AbsentIsSilent, [Next]_ledgerVars
    PROVE  AbsentIsSilent'
<1>1. ASSUME NEW t \in Tasks, ~Exists(t)'
      PROVE  log'[t] = <<>>
  <2>1. ~Exists(t)
    BY <1>1, RowsStay
  <2>2. RowWithLog(t)
    BY StepsRowWithLog
  <2> QED
    BY <1>1, <2>1, <2>2 DEF RowWithLog, Exists, AbsentIsSilent, Statuses
<1>2. ASSUME NEW p \in Reapers, NEW t \in reaping'[p]
      PROVE  Exists(t)'
  <2>1. t \in Tasks /\ Exists(t)
    <3>1. CASE UNCHANGED reaping
      BY <3>1, <1>2 DEF AbsentIsSilent, TypeOK
    <3>2. ASSUME NEW q \in Reapers, ReapSelect(q)
          PROVE  t \in Tasks /\ Exists(t)
      BY <3>2, <1>2 DEF AbsentIsSilent, TypeOK, ReapSelect, Exists
    <3>3. ASSUME NEW q \in Reapers, NEW v \in Tasks, ReapTask(q, v) \/ ReapAbort(q)
          PROVE  t \in Tasks /\ Exists(t)
      BY <3>3, <1>2 DEF AbsentIsSilent, TypeOK, ReapTask, ReapAbort
    <3>4. ASSUME NEW q \in Reapers, ReapAbort(q)
          PROVE  t \in Tasks /\ Exists(t)
      BY <3>4, <1>2 DEF AbsentIsSilent, TypeOK, ReapAbort
    <3>5. ASSUME NEW v \in Tasks,
                 \/ \E r \in Refs \cup {NoRef} : Submit(v, r)
                 \/ \E to \in Statuses : SetStatus(v, to)
                 \/ Claim(v) \/ ExtendLease(v) \/ AssignAgent(v)
                 \/ \E type \in ClientEvents : AppendEvent(v, type)
                 \/ SpendWithin(v) \/ SpendOver(v) \/ LeaseLapses(v)
          PROVE  UNCHANGED reaping
      BY <3>5 DEF Submit, SetStatus, Claim, ExtendLease, AssignAgent, AppendEvent, SpendWithin, SpendOver, LeaseLapses
    <3> QED
      BY <3>1, <3>2, <3>3, <3>4, <3>5 DEF Next, ledgerVars
  <2> QED
    BY <2>1, RowsStay
<1> QED
  BY <1>1, <1>2 DEF AbsentIsSilent

\* The replay follows the row through every step.
LEMMA StepLogRebuildsTable ==
    ASSUME TypeOK, AbsentIsSilent, LogRebuildsTable, [Next]_ledgerVars
    PROVE  LogRebuildsTable'
<1> SUFFICES ASSUME NEW t \in Tasks, Exists(t)'
             PROVE  ReplayTo(log'[t]) = status'[t]
  BY DEF LogRebuildsTable
<1>1. log[t] \in Seq(Events) /\ RowWithLog(t) /\ (Exists(t) => ReplayTo(log[t]) = status[t])
  BY StepsRowWithLog DEF TypeOK, LogRebuildsTable
<1>2. "working" \in Statuses /\ "absent" \notin Statuses
  BY DEF Statuses
<1>3. CASE status'[t] = status[t] /\ log'[t] = log[t]
  BY <1>1, <1>3 DEF Exists
<1>4. ASSUME NEW type \in PlainTypes, log'[t] = Append(log[t], PlainEvent(type)),
             \/ Exists(t) /\ status'[t] = status[t]
             \/ ~Exists(t) /\ status'[t] = "submitted"
      PROVE  ReplayTo(log'[t]) = status'[t]
  <2>1. ReplayTo(log'[t]) = ReplayTo(log[t])
    BY <1>1, <1>4, ReplayEvents
  <2>2. CASE Exists(t)
    BY <1>1, <1>4, <2>1, <2>2
  <2>3. CASE ~Exists(t)
    BY <1>4, <2>1, <2>3, ReplayEmpty DEF AbsentIsSilent
  <2> QED
    BY <2>2, <2>3
<1>5. CASE /\ status[t] \in Statuses /\ status'[t] \in Statuses
           /\ log'[t] = Append(log[t], StatusChange(status[t], status'[t]))
  <2>1. Exists(t)
    BY <1>5, <1>2 DEF Exists
  <2>2. \A a, b \in Statuses : ReplayTo(Append(log[t], StatusChange(a, b))) = IF ReplayTo(log[t]) = a THEN b ELSE ReplayTo(log[t])
    BY <1>1, ReplayEvents
  <2> QED
    BY <1>1, <1>5, <2>1, <2>2
<1>6. ASSUME NEW type \in PlainTypes, NEW to \in Statuses, Exists(t),
             log'[t] = Append(Append(log[t], PlainEvent(type)), StatusChange("working", to)),
             status'[t] = IF status[t] = "working" THEN to ELSE status[t]
      PROVE  ReplayTo(log'[t]) = status'[t]
  <2> DEFINE mid == Append(log[t], PlainEvent(type))
  <2>1. ReplayTo(mid) = ReplayTo(log[t])
    BY <1>1, ReplayEvents
  <2>2. mid \in Seq(Events)
    BY <1>1, EventsBuilt
  <2> HIDE DEF mid
  <2>3. ReplayTo(Append(mid, StatusChange("working", to))) = IF ReplayTo(mid) = "working" THEN to ELSE ReplayTo(mid)
    BY <1>2, <2>2, ReplayEvents
  <2>4. log'[t] = Append(mid, StatusChange("working", to))
    BY <1>6 DEF mid
  <2> QED
    BY <1>1, <1>6, <2>1, <2>3, <2>4
<1> QED
  BY <1>1, <1>3, <1>4, <1>5, <1>6 DEF RowWithLog

\* The audit log suffices to rebuild the tasks table, whatever the length of the log, the number of clients
\* and the number of reapers whose late transactions leave requeue events behind: in every reachable state,
\* replaying a task's events ends in the status of its row.
THEOREM LogIsTheTable == Spec => []LogRebuildsTable
<1>1. Init => AbsentIsSilent /\ LogRebuildsTable
  BY DEF Init, LifecycleInit, AbsentIsSilent, LogRebuildsTable, Exists
<1>2. TypeOK /\ (AbsentIsSilent /\ LogRebuildsTable) /\ [Next]_ledgerVars => (AbsentIsSilent /\ LogRebuildsTable)'
  BY StepAbsentIsSilent, StepLogRebuildsTable
<1> QED
  BY <1>1, <1>2, TypeCorrect, PTL DEF Spec

\* "The ledger IS the audit log": a step that changes the status of a row appends the event that says so, from
\* the old status to the new one, as the last of that task.
THEOREM MovesAreLogged == Spec => RowMovesAreLogged
<1> DEFINE Logs == \A t \in Tasks : /\ status'[t] # status[t]
                                    /\ Exists(t)
                     => /\ Len(log'[t]) > Len(log[t])
                        /\ log'[t][Len(log'[t])] = StatusChange(status[t], status'[t])
<1>1. Init => AbsentIsSilent
  BY DEF Init, LifecycleInit, AbsentIsSilent, Exists
<1>2. TypeOK /\ AbsentIsSilent /\ [Next]_ledgerVars => AbsentIsSilent'
  BY StepAbsentIsSilent
<1>3. TypeOK /\ AbsentIsSilent /\ [Next]_ledgerVars => [Logs]_ledgerVars
  <2> SUFFICES ASSUME TypeOK, AbsentIsSilent, [Next]_ledgerVars, NEW t \in Tasks, status'[t] # status[t], Exists(t)
               PROVE  Len(log'[t]) > Len(log[t]) /\ log'[t][Len(log'[t])] = StatusChange(status[t], status'[t])
    OBVIOUS
  <2>1. log[t] \in Seq(Events) /\ RowWithLog(t)
    BY StepsRowWithLog DEF TypeOK
  <2>2. ASSUME NEW e, NEW s \in Seq(Events), e \in Events
        PROVE  Append(s, e) \in Seq(Events) /\ Len(Append(s, e)) = Len(s) + 1 /\ Append(s, e)[Len(s) + 1] = e /\ Len(s) \in Nat
    BY <2>2
  <2>3. CASE /\ status[t] \in Statuses /\ status'[t] \in Statuses
             /\ log'[t] = Append(log[t], StatusChange(status[t], status'[t]))
    BY <2>1, <2>2, <2>3, EventsBuilt
  <2>4. ASSUME NEW type \in PlainTypes, NEW to \in Statuses,
               log'[t] = Append(Append(log[t], PlainEvent(type)), StatusChange("working", to)),
               status'[t] = IF status[t] = "working" THEN to ELSE status[t]
        PROVE  Len(log'[t]) > Len(log[t]) /\ log'[t][Len(log'[t])] = StatusChange(status[t], status'[t])
    <3> DEFINE mid == Append(log[t], PlainEvent(type))
    <3>1. mid \in Seq(Events) /\ Len(mid) = Len(log[t]) + 1 /\ Len(log[t]) \in Nat
      BY <2>1, <2>2, EventsBuilt
    <3>2. StatusChange("working", to) \in Events /\ status[t] = "working" /\ status'[t] = to
      BY <2>4, EventsBuilt DEF Statuses
    <3>3. log'[t] = Append(mid, StatusChange("working", to))
      BY <2>4
    <3> HIDE DEF mid
    <3> QED
      BY <3>1, <3>2, <3>3, <2>2
  <2> QED
    BY <2>1, <2>3, <2>4 DEF RowWithLog
<1> QED
  BY <1>1, <1>2, <1>3, TypeCorrect, PTL DEF Spec, RowMovesAreLogged
=============================================================================
