------------------------ MODULE InvestigationProofs -------------------------
(***************************************************************************)
(* The investigation loop for any number of servers, replays, tasks, runs, *)
(* crashes and budgets: types, the lifecycle, evidence and the tool-call   *)
(* cap.                                                                    *)
(***************************************************************************)
EXTENDS Investigation, FiniteSetTheorems, SequenceTheorems, TLAPS

Statuses == Lifecycle!Statuses

\* Where a frame is in the middle of its model turn's tool calls.
CallPcs == {"tool", "count", "spawn", "append", "snapshot"}

\* What a RunTask frame may rely on: its task has a row, it still owes the
\* calls of its turn, the seqs it hands the model are stored calls of its
\* own task, a finding it is about to record passed validateFinding, and a
\* task it is about to complete has one.
FrameOK(f) ==
    /\ status[f.task] # "absent"
    /\ f.pc \in CallPcs => f.calls # 0
    /\ f.seqs \subseteq ToolCalls(f.task) \cap snaps[f.task]
    /\ f.pc = "snapshot" => f.seq \in ToolCalls(f.task)
    /\ f.pc = "finding" => ValidFinding(f.seqs, f.cites)
    /\ f.pc = "complete" => Findings(f.task) # {}

FramesOK == \A p \in Procs : \A i \in DOMAIN stack[p] : FrameOK(stack[p][i])

\* A row that does not exist yet has neither events nor costs, and nobody
\* has listed it.
AbsentOK == \A t \in Tasks : status[t] = "absent" =>
                /\ log[t] = <<>> /\ spent[t] = 0
                /\ \A p \in Servers : t \notin queue[p]

Inv == TypeOK /\ FramesOK /\ AbsentOK /\ FindingsAreSound

\* Calls that were paid for and are not recorded yet.
InFlight(t) == {x \in Procs \X Nat :
                  /\ x[2] \in DOMAIN stack[x[1]]
                  /\ stack[x[1]][x[2]].task = t
                  /\ stack[x[1]][x[2]].pc \in {"count", "spawn", "append"}}

\* What is recorded and what is on its way was paid for, within the cap.
PaidWithin(t) ==
    /\ IsFiniteSet(InFlight(t))
    /\ Cardinality(ToolCalls(t)) + Cardinality(InFlight(t)) <= spent[t]
    /\ cap[t] > 0 => Cardinality(ToolCalls(t)) + Cardinality(InFlight(t)) <= cap[t]

BudgetInv == \A t \in Tasks : PaidWithin(t)

-----------------------------------------------------------------------------
(* Statuses, frames and stacks *)

\* The statuses the code writes.
LEMMA StatusNames ==
  /\ {"submitted", "working", "input_required", "completed", "canceled"} \subseteq Statuses
  /\ "absent" \notin Statuses
  /\ Lifecycle!CheckTransition("working", "submitted")
  /\ Lifecycle!CheckTransition("working", "input_required")
  /\ \A from, to : Lifecycle!CheckTransition(from, to) => from \in Statuses /\ to \in Statuses
<1>1. /\ {"submitted", "working", "input_required", "completed", "canceled"} \subseteq Statuses
      /\ "absent" \notin Statuses
  BY DEF Statuses, Lifecycle!Statuses
<1>2. /\ Lifecycle!CheckTransition("working", "submitted")
      /\ Lifecycle!CheckTransition("working", "input_required")
  BY DEF Lifecycle!CheckTransition, Lifecycle!Transitions, Lifecycle!Statuses
<1>3. ASSUME NEW from, NEW to, Lifecycle!CheckTransition(from, to)
      PROVE  from \in Statuses /\ to \in Statuses
  BY <1>3 DEF Lifecycle!CheckTransition, Lifecycle!Transitions, Lifecycle!Statuses, Statuses
<1> QED
  BY <1>1, <1>2, <1>3

\* The frame of the innermost run.
LEMMA TopFrame ==
  ASSUME TypeOK, NEW p \in Procs, Running(p)
  PROVE  /\ stack[p] \in Seq(Frames)
         /\ Len(stack[p]) \in Nat \ {0}
         /\ DOMAIN stack[p] = 1..Len(stack[p])
         /\ Len(stack[p]) \in DOMAIN stack[p]
         /\ Top(p) = stack[p][Len(stack[p])]
         /\ Top(p) \in Frames /\ Top(p).task \in Tasks
<1>1. stack[p] \in Seq(Frames)
  BY DEF TypeOK
<1>2. stack[p] # <<>>
  BY DEF Running
<1>3. Len(stack[p]) \in Nat \ {0} /\ DOMAIN stack[p] = 1..Len(stack[p])
  BY <1>1, <1>2, EmptySeq
<1>4. Len(stack[p]) \in DOMAIN stack[p]
  BY <1>3
<1>5. stack[p][Len(stack[p])] \in Frames
  BY <1>1, <1>4
<1>6. Top(p).task \in Tasks
  BY <1>5 DEF Top, Frames
<1> QED
  BY <1>1, <1>3, <1>4, <1>5, <1>6 DEF Top

\* A step's frames are old frames in their old places, or among F.
OnlyNew(F) == \A q \in Procs : \A i \in DOMAIN stack'[q] :
                 \/ i \in DOMAIN stack[q] /\ stack'[q][i] = stack[q][i]
                 \/ stack'[q][i] \in F

\* The top frame goes on.
LEMMA GoEffect ==
  ASSUME TypeOK, NEW p \in Procs, Running(p), NEW f \in Frames, Go(p, f)
  PROVE  /\ stack' \in [Procs -> Seq(Frames)]
         /\ \A q \in Procs : DOMAIN stack'[q] = DOMAIN stack[q]
         /\ \A q \in Procs : \A i \in DOMAIN stack[q] :
              stack'[q][i] = IF q = p /\ i = Len(stack[p]) THEN f ELSE stack[q][i]
         /\ OnlyNew({f})
<1>1. /\ stack[p] \in Seq(Frames) /\ Len(stack[p]) \in Nat \ {0}
      /\ DOMAIN stack[p] = 1..Len(stack[p])
  BY TopFrame
<1>2. stack \in [Procs -> Seq(Frames)]
  BY DEF TypeOK
<1> DEFINE s == [stack[p] EXCEPT ![Len(stack[p])] = f]
<1>3. stack' = [stack EXCEPT ![p] = s]
  BY DEF Go
<1>4. /\ s \in Seq(Frames) /\ DOMAIN s = DOMAIN stack[p]
      /\ \A i \in DOMAIN stack[p] : s[i] = IF i = Len(stack[p]) THEN f ELSE stack[p][i]
  BY <1>1
<1> HIDE DEF s
<1>5. stack'[p] = s /\ \A q \in Procs : q # p => stack'[q] = stack[q]
  BY <1>2, <1>3
<1>6. /\ stack' \in [Procs -> Seq(Frames)]
      /\ \A q \in Procs : DOMAIN stack'[q] = DOMAIN stack[q]
  BY <1>2, <1>3, <1>4, <1>5
<1>7. ASSUME NEW q \in Procs, NEW i \in DOMAIN stack[q]
      PROVE  stack'[q][i] = IF q = p /\ i = Len(stack[p]) THEN f ELSE stack[q][i]
  BY <1>4, <1>5
<1> QED
  BY <1>6, <1>7 DEF OnlyNew

\* RunTask returns.
LEMMA ReturnEffect ==
  ASSUME TypeOK, NEW p \in Procs, Running(p), Return(p)
  PROVE  /\ stack' \in [Procs -> Seq(Frames)]
         /\ \A q \in Procs : \A i : i \in DOMAIN stack'[q] <=>
              i \in DOMAIN stack[q] /\ ~(q = p /\ i = Len(stack[p]))
         /\ \A q \in Procs : \A i \in DOMAIN stack'[q] : stack'[q][i] = stack[q][i]
         /\ OnlyNew({})
<1>1. /\ stack[p] \in Seq(Frames) /\ Len(stack[p]) \in Nat \ {0}
      /\ DOMAIN stack[p] = 1..Len(stack[p])
  BY TopFrame
<1>2. stack \in [Procs -> Seq(Frames)]
  BY DEF TypeOK
<1> DEFINE s == Front(stack[p])
<1>3. stack' = [stack EXCEPT ![p] = s]
  BY DEF Return
<1>4. /\ s \in Seq(Frames) /\ DOMAIN s = 1..(Len(stack[p]) - 1)
      /\ \A i \in 1..(Len(stack[p]) - 1) : s[i] = stack[p][i]
  BY <1>1 DEF Front
<1> HIDE DEF s
<1>5. stack'[p] = s /\ \A q \in Procs : q # p => stack'[q] = stack[q]
  BY <1>2, <1>3
<1>6. stack' \in [Procs -> Seq(Frames)]
  BY <1>2, <1>3, <1>4
<1>7. ASSUME NEW q \in Procs, NEW i
      PROVE  /\ i \in DOMAIN stack'[q] <=> i \in DOMAIN stack[q] /\ ~(q = p /\ i = Len(stack[p]))
             /\ i \in DOMAIN stack'[q] => stack'[q][i] = stack[q][i]
  <2>1. CASE q # p
    BY <1>5, <2>1
  <2>2. CASE q = p
    BY <1>1, <1>4, <1>5, <2>2
  <2> QED
    BY <2>1, <2>2
<1> QED
  BY <1>6, <1>7 DEF OnlyNew

\* A process starts its first run.
LEMMA StartEffect ==
  ASSUME TypeOK, NEW p \in Procs, ~Running(p), NEW f \in Frames,
         stack' = [stack EXCEPT ![p] = <<f>>]
  PROVE  /\ stack' \in [Procs -> Seq(Frames)]
         /\ DOMAIN stack'[p] = {1} /\ stack'[p][1] = f /\ DOMAIN stack[p] = {}
         /\ \A q \in Procs : q # p => stack'[q] = stack[q]
         /\ OnlyNew({f})
<1>1. stack \in [Procs -> Seq(Frames)] /\ stack[p] = <<>>
  BY DEF TypeOK, Running
<1> DEFINE s == <<f>>
<1>2. s \in Seq(Frames) /\ DOMAIN s = {1} /\ s[1] = f
  OBVIOUS
<1>3. stack' = [stack EXCEPT ![p] = s]
  OBVIOUS
<1> HIDE DEF s
<1>4. stack'[p] = s /\ \A q \in Procs : q # p => stack'[q] = stack[q]
  BY <1>1, <1>3
<1>5. stack' \in [Procs -> Seq(Frames)]
  BY <1>1, <1>2, <1>3
<1>6. DOMAIN stack[p] = {}
  BY <1>1
<1>7. OnlyNew({f})
  BY <1>2, <1>4 DEF OnlyNew
<1> QED
  BY <1>2, <1>4, <1>5, <1>6, <1>7

\* On top of p's stack g goes on and f is new.
Spawned(p, g, f) ==
    /\ \A q \in Procs : \A i : i \in DOMAIN stack'[q] <=>
         i \in DOMAIN stack[q] \/ (q = p /\ i = Len(stack[p]) + 1)
    /\ \A q \in Procs : \A i \in DOMAIN stack'[q] : stack'[q][i] =
         IF q = p /\ i = Len(stack[p]) THEN g
         ELSE IF q = p /\ i = Len(stack[p]) + 1 THEN f
         ELSE stack[q][i]

\* A run starts a run.
LEMMA SpawnEffect ==
  ASSUME TypeOK, NEW p \in Procs, Running(p), NEW g \in Frames, NEW f \in Frames,
         stack' = [stack EXCEPT ![p] = Append(Front(@), g) \o <<f>>]
  PROVE  stack' \in [Procs -> Seq(Frames)] /\ Spawned(p, g, f) /\ OnlyNew({g, f})
<1>1. /\ stack[p] \in Seq(Frames) /\ Len(stack[p]) \in Nat \ {0}
      /\ DOMAIN stack[p] = 1..Len(stack[p])
  BY TopFrame
<1>2. stack \in [Procs -> Seq(Frames)]
  BY DEF TypeOK
<1> DEFINE b == Front(stack[p])
           c == Append(b, g)
           s == c \o <<f>>
<1>3. stack' = [stack EXCEPT ![p] = s]
  OBVIOUS
<1>4. /\ b \in Seq(Frames) /\ Len(b) = Len(stack[p]) - 1
      /\ \A i \in 1..(Len(stack[p]) - 1) : b[i] = stack[p][i]
  BY <1>1 DEF Front
<1>5. /\ c \in Seq(Frames) /\ Len(c) = Len(stack[p])
      /\ \A i \in 1..(Len(stack[p]) - 1) : c[i] = stack[p][i]
      /\ c[Len(stack[p])] = g
  <2> HIDE DEF b
  <2> QED
    BY <1>1, <1>4
<1>6. /\ s \in Seq(Frames) /\ DOMAIN s = 1..(Len(stack[p]) + 1)
      /\ \A i \in 1..Len(stack[p]) : s[i] = c[i]
      /\ s[Len(stack[p]) + 1] = f
  <2> HIDE DEF c
  <2> QED
    BY <1>1, <1>5
<1> HIDE DEF b, c, s
<1>7. stack'[p] = s /\ \A q \in Procs : q # p => stack'[q] = stack[q]
  BY <1>2, <1>3
<1>8. stack' \in [Procs -> Seq(Frames)]
  BY <1>2, <1>3, <1>6
<1>9. ASSUME NEW q \in Procs, NEW i
      PROVE  /\ i \in DOMAIN stack'[q] <=> i \in DOMAIN stack[q] \/ (q = p /\ i = Len(stack[p]) + 1)
             /\ i \in DOMAIN stack'[q] => stack'[q][i] =
                  IF q = p /\ i = Len(stack[p]) THEN g
                  ELSE IF q = p /\ i = Len(stack[p]) + 1 THEN f
                  ELSE stack[q][i]
  <2>1. CASE q # p
    BY <1>7, <2>1
  <2>2. CASE q = p
    <3>1. i \in DOMAIN s <=> i \in DOMAIN stack[p] \/ i = Len(stack[p]) + 1
      BY <1>1, <1>6
    <3>2. CASE i \in 1..(Len(stack[p]) - 1)
      BY <1>1, <1>5, <1>6, <1>7, <2>2, <3>1, <3>2
    <3>3. CASE i = Len(stack[p])
      BY <1>1, <1>5, <1>6, <1>7, <2>2, <3>1, <3>3
    <3>4. CASE i = Len(stack[p]) + 1
      BY <1>1, <1>6, <1>7, <2>2, <3>1, <3>4
    <3>5. i \in DOMAIN s => \/ i \in 1..(Len(stack[p]) - 1) \/ i = Len(stack[p])
                            \/ i = Len(stack[p]) + 1
      BY <1>1, <1>6
    <3> QED
      BY <1>7, <2>2, <3>1, <3>2, <3>3, <3>4, <3>5
  <2> QED
    BY <2>1, <2>2
<1> QED
  BY <1>8, <1>9 DEF OnlyNew, Spawned

\* A process stops.
LEMMA StopEffect ==
  ASSUME TypeOK, NEW p \in Procs, stack' = [stack EXCEPT ![p] = <<>>]
  PROVE  /\ stack' \in [Procs -> Seq(Frames)]
         /\ DOMAIN stack'[p] = {}
         /\ \A q \in Procs : q # p => stack'[q] = stack[q]
         /\ OnlyNew({})
<1>1. stack \in [Procs -> Seq(Frames)]
  BY DEF TypeOK
<1> DEFINE s == <<>>
<1>2. s \in Seq(Frames) /\ DOMAIN s = {}
  OBVIOUS
<1>3. stack' = [stack EXCEPT ![p] = s]
  OBVIOUS
<1> HIDE DEF s
<1>4. stack'[p] = s /\ \A q \in Procs : q # p => stack'[q] = stack[q]
  BY <1>1, <1>3
<1> QED
  BY <1>1, <1>2, <1>3, <1>4 DEF OnlyNew

-----------------------------------------------------------------------------
(* Types, statuses and frames, action by action *)

\* TypeOK but for the stacks.
RestOK ==
    /\ status \in [Tasks -> Statuses \cup {"absent"}]
    /\ agent \in [Tasks -> BOOLEAN]
    /\ lease \in [Tasks -> Lease]
    /\ parent \in [Tasks -> 0..MaxTasks]
    /\ cap \in [Tasks -> Nat]
    /\ spent \in [Tasks -> Nat]
    /\ log \in [Tasks -> Seq(Entries)]
    /\ snaps \in [Tasks -> SUBSET Nat]
    /\ shadow \subseteq Tasks
    /\ known \in BOOLEAN
    /\ queue \in [Servers -> SUBSET Tasks]
    /\ handlers \in [Servers -> SUBSET ({"route", "park", "requeue"} \X Tasks)]
    /\ reaping \in [Servers -> SUBSET Tasks]
    /\ used \in [DOMAIN Limit -> Nat]

\* Task ids are numbers.
LEMMA TaskIds == \A t \in Tasks : t \in Nat /\ t \in 0..MaxTasks
BY InvestigationAssumption DEF Tasks

\* TypeOK in two parts.
LEMMA TypeParts == TypeOK <=> RestOK /\ stack \in [Procs -> Seq(Frames)]
BY DEF TypeOK, RestOK, Statuses

\* A bounded event is counted.
LEMMA UseCounts ==
  ASSUME RestOK, NEW what \in DOMAIN Limit, Use(what)
  PROVE  used' \in [DOMAIN Limit -> Nat]
<1>1. used[what] + 1 \in Nat
  BY DEF RestOK
<1> QED
  BY <1>1 DEF Use, RestOK

\* The names of the bounded events.
LEMMA UseNames == {"slow", "crash", "requeue", "reload"} \subseteq DOMAIN Limit
BY DEF Limit

\* What a frame can become is a frame.
LEMMA FrameRecords ==
  ASSUME NEW f \in Frames
  PROVE  /\ \A pc \in Pcs : [f EXCEPT !.pc = pc] \in Frames
         /\ \A pc \in Pcs, n \in Nat :
              [[f EXCEPT !.spentAtStart = n] EXCEPT !.pc = pc] \in Frames
         /\ f.iter < MaxIterations =>
              [f EXCEPT !.pc = "chat", !.iter = @ + 1] \in Frames
         /\ \A n \in 1..MaxCalls : [f EXCEPT !.pc = "tool", !.calls = n] \in Frames
         /\ \A S \in SUBSET Nat : [f EXCEPT !.pc = "finding", !.cites = S] \in Frames
         /\ \A n \in Nat : [f EXCEPT !.pc = "snapshot", !.seq = n] \in Frames
         /\ f.calls # 0 => \A pc \in {"tool", "loop"} :
              [f EXCEPT !.seqs = @ \cup {f.seq}, !.calls = @ - 1, !.pc = pc] \in Frames
<1>1. /\ f.task \in Tasks /\ f.pc \in Pcs /\ f.iter \in 0..MaxIterations
      /\ f.calls \in 0..MaxCalls /\ f.seq \in Nat /\ f.seqs \in SUBSET Nat
      /\ f.cites \in SUBSET Nat /\ f.spentAtStart \in Nat
  BY DEF Frames
<1>2. MaxIterations \in Nat /\ MaxCalls \in Nat
  BY InvestigationAssumption
<1>3. /\ \A pc \in Pcs : [f EXCEPT !.pc = pc] \in Frames
      /\ \A pc \in Pcs, n \in Nat :
           [[f EXCEPT !.spentAtStart = n] EXCEPT !.pc = pc] \in Frames
  BY DEF Frames
<1>4. ASSUME f.iter < MaxIterations
      PROVE  [f EXCEPT !.pc = "chat", !.iter = @ + 1] \in Frames
  <2>1. f.iter + 1 \in 0..MaxIterations
    BY <1>1, <1>2, <1>4
  <2> QED
    BY <2>1 DEF Frames, Pcs
<1>5. ASSUME NEW n \in 1..MaxCalls
      PROVE  [f EXCEPT !.pc = "tool", !.calls = n] \in Frames
  <2>1. n \in 0..MaxCalls
    BY <1>2
  <2> QED
    BY <2>1 DEF Frames, Pcs
<1>6. /\ \A S \in SUBSET Nat : [f EXCEPT !.pc = "finding", !.cites = S] \in Frames
      /\ \A n \in Nat : [f EXCEPT !.pc = "snapshot", !.seq = n] \in Frames
  BY DEF Frames, Pcs
<1>7. ASSUME f.calls # 0, NEW pc \in {"tool", "loop"}
      PROVE  [f EXCEPT !.seqs = @ \cup {f.seq}, !.calls = @ - 1, !.pc = pc] \in Frames
  <2>1. f.calls - 1 \in 0..MaxCalls /\ f.seqs \cup {f.seq} \in SUBSET Nat
    BY <1>1, <1>2, <1>7
  <2> QED
    BY <2>1 DEF Frames, Pcs
<1> QED
  BY <1>3, <1>4, <1>5, <1>6, <1>7

\* A new run's frame.
LEMMA NewFrame ==
  ASSUME NEW t \in Tasks, NEW pc \in Pcs
  PROVE  /\ Frame(t, pc) \in Frames
         /\ Frame(t, pc).task = t /\ Frame(t, pc).pc = pc
         /\ Frame(t, pc).seqs = {}
<1>1. 0 \in 0..MaxIterations /\ 0 \in 0..MaxCalls
  BY InvestigationAssumption
<1> QED
  BY <1>1 DEF Frame, Frames

\* The events of a log only grow in number, and so do the stored results;
\* a row stays a row.
Grows == \A t \in Tasks :
           /\ status[t] # "absent" => status'[t] # "absent"
           /\ DOMAIN log[t] \subseteq DOMAIN log'[t]
           /\ \A i \in DOMAIN log[t] : log'[t][i] = log[t][i]
           /\ snaps[t] \subseteq snaps'[t]

\* What a frame relies on is not taken from it.
LEMMA FrameStays ==
  ASSUME Grows, NEW f \in Frames, FrameOK(f)
  PROVE  FrameOK(f)'
<1>1. f.task \in Tasks
  BY DEF Frames
<1>2. /\ ToolCalls(f.task) \subseteq ToolCalls(f.task)'
      /\ Findings(f.task) \subseteq Findings(f.task)'
  BY <1>1 DEF Grows, ToolCalls, Findings
<1>3. /\ snaps[f.task] \subseteq snaps'[f.task]
      /\ status[f.task] # "absent" => status'[f.task] # "absent"
  BY <1>1 DEF Grows
<1> QED
  BY <1>2, <1>3 DEF FrameOK

\* Old frames and good new ones are good frames.
LEMMA FramesStay ==
  ASSUME TypeOK, FramesOK, Grows, NEW F, OnlyNew(F), \A f \in F : FrameOK(f)'
  PROVE  FramesOK'
<1>1. ASSUME NEW q \in Procs, NEW i \in DOMAIN stack'[q]
      PROVE  FrameOK(stack[q][i])'
  <2>1. CASE stack'[q][i] \in F
    <3>1. PICK f \in F : f = stack'[q][i]
      BY <2>1
    <3> QED
      BY <3>1 DEF FrameOK
  <2>2. CASE i \in DOMAIN stack[q] /\ stack'[q][i] = stack[q][i]
    <3>1. stack[q] \in Seq(Frames)
      BY DEF TypeOK
    <3>2. PICK f \in Frames : f = stack[q][i]
      BY <2>2, <3>1
    <3>3. FrameOK(f)
      BY <2>2, <3>2 DEF FramesOK
    <3>4. FrameOK(f)'
      BY <3>3, FrameStays
    <3> QED
      BY <2>2, <3>2, <3>4
  <2> QED
    BY <1>1, <2>1, <2>2 DEF OnlyNew
<1> QED
  BY <1>1 DEF FramesOK

-----------------------------------------------------------------------------
(* The lifecycle *)

\* The status of one task moves along the state machine, or its row appears.
Moves(t, to) == /\ \/ status[t] = "absent" /\ to = "submitted"
                   \/ CanMove(t, to)
                /\ SetTo(t, to)

\* Every write of a status: nothing but Complete writes "completed".
StatusStep == \/ UNCHANGED status
              \/ \E t \in Tasks, to \in Statuses \ {"completed"} : Moves(t, to)
              \/ \E p \in Procs : At(p, "complete") /\ Moves(Top(p).task, "completed")

\* A write that CheckTransition allows, and one that is tried.
LEMMA TriedMoves ==
  ASSUME NEW t \in Tasks, NEW to \in Statuses \ {"completed"}
  PROVE  /\ CanMove(t, to) /\ SetTo(t, to) => StatusStep
         /\ TrySetTo(t, to) => StatusStep
         /\ UNCHANGED status => StatusStep
BY DEF TrySetTo, Moves, StatusStep

\* A new row.
LEMMA InsertMoves ==
  ASSUME NEW t \in Tasks, NEW n, Insert(t, n)
  PROVE  StatusStep /\ status[t] = "absent"
<1>1. status[t] = "absent" /\ SetTo(t, "submitted")
  BY DEF Insert, Fresh, Absent
<1>2. "submitted" \in Statuses \ {"completed"}
  BY StatusNames
<1> QED
  BY <1>1, <1>2 DEF Moves, StatusStep

\* The ledger parks a working task on its own.
LEMMA LedgerMoves ==
  ASSUME NEW t \in Tasks, ParkedByLedger(t)
  PROVE  StatusStep
<1>1. "input_required" \in Statuses \ {"completed"}
      /\ Lifecycle!CheckTransition("working", "input_required")
  BY StatusNames
<1> QED
  BY <1>1 DEF ParkedByLedger, Moves, StatusStep, CanMove

\* Every action is a StatusStep.
LEMMA NextStatus ==
  ASSUME TypeOK, [Next]_vars
  PROVE  StatusStep
<1>0. /\ {"submitted", "working", "input_required", "canceled"} \subseteq Statuses \ {"completed"}
      /\ Lifecycle!CheckTransition("working", "submitted")
  BY StatusNames
<1>1. CASE UNCHANGED status
  BY <1>1 DEF StatusStep
<1>2. ASSUME NEW p \in Servers, NEW t \in Tasks,
             Intake(p, t) \/ Handle(p, t) \/ Requeue(p, t) \/ ReapTask(p, t)
      PROVE  StatusStep
  <2>1. CASE Intake(p, t)
    BY <2>1, InsertMoves DEF Intake
  <2>2. CASE RouteAssign(p, t) \/ RouteFails(p, t)
    BY <1>1, <2>2 DEF RouteAssign, RouteFails, rows
  <2>3. CASE RoutePark(p, t)
    BY <1>0, <2>3, TriedMoves DEF RoutePark
  <2>4. CASE RouteParked(p, t)
    BY <1>0, <2>4, TriedMoves DEF RouteParked
  <2>5. CASE Requeued(p, t)
    BY <1>0, <2>5, TriedMoves DEF Requeued
  <2>6. CASE Requeue(p, t)
    BY <1>0, <2>6, TriedMoves DEF Requeue
  <2>7. CASE ReapTask(p, t)
    <3>1. \/ status[t] = "working" /\ SetTo(t, "submitted")
          \/ UNCHANGED status
      BY <2>7 DEF ReapTask
    <3> QED
      BY <1>0, <3>1, TriedMoves DEF CanMove
  <2> QED
    BY <1>2, <2>1, <2>2, <2>3, <2>4, <2>5, <2>6, <2>7 DEF Handle
<1>3. ASSUME NEW t \in Tasks, Cancel(t)
      PROVE  StatusStep
  BY <1>0, <1>3, TriedMoves DEF Cancel
<1>4. ASSUME NEW p \in Replayers, NEW orig \in Tasks, NEW t \in Tasks, Rerun(p, orig, t)
      PROVE  StatusStep
  BY <1>4, InsertMoves DEF Rerun
<1>5. ASSUME NEW p \in Procs, NEW c \in Tasks, Spawn(p, c)
      PROVE  StatusStep
  BY <1>5, InsertMoves DEF Spawn
<1>6. ASSUME NEW p \in Procs, Claim(p) \/ Park(p) \/ ChatOverBudget(p) \/ ToolCallStep(p)
      PROVE  StatusStep
  <2>1. Running(p)
    BY <1>6 DEF Claim, Park, ChatOverBudget, ToolCallStep, At
  <2>2. Top(p).task \in Tasks
    BY <2>1, TopFrame
  <2>3. CASE Claim(p)
    BY <1>0, <2>2, <2>3, TriedMoves DEF Claim
  <2>4. CASE Park(p)
    BY <1>0, <2>2, <2>4, TriedMoves DEF Park
  <2>5. CASE ChatOverBudget(p)
    BY <2>2, <2>5, LedgerMoves DEF ChatOverBudget
  <2>6. CASE ToolCallStep(p)
    <3>1. ParkedByLedger(Top(p).task) \/ UNCHANGED status
      BY <2>6 DEF ToolCallStep
    <3> QED
      BY <1>1, <2>2, <3>1, LedgerMoves
  <2> QED
    BY <1>6, <2>3, <2>4, <2>5, <2>6
<1>7. ASSUME NEW p \in Procs, Complete(p)
      PROVE  StatusStep
  BY <1>7 DEF Complete, TrySetTo, Moves, StatusStep
<1>8. ASSUME NEW p \in Procs,
             \/ Assign(p) \/ Get(p) \/ GiveUp(p) \/ Loop(p) \/ Chat(p) \/ CountChildren(p)
             \/ AppendToolCall(p) \/ Snapshot(p) \/ AppendFinding(p)
             \/ StatementFails(p) \/ Crash(p)
      PROVE  UNCHANGED status
  BY <1>8 DEF Assign, Get, GiveUp, Loop, Chat, CountChildren, AppendToolCall, Snapshot,
              AppendFinding, StatementFails, Crash, rows
<1>9. ASSUME NEW p \in Servers, Tick(p) \/ Dispatch(p) \/ ReapSelect(p)
      PROVE  UNCHANGED status
  BY <1>9 DEF Tick, Dispatch, ReapSelect, rows
<1>10. ASSUME NEW t \in Tasks, LapseUnattended(t) \/ LapseSlow(t)
       PROVE  UNCHANGED status
  BY <1>10 DEF LapseUnattended, LapseSlow, LeaseLapses
<1>11. ASSUME Reload \/ UNCHANGED vars
       PROVE  UNCHANGED status
  BY <1>11 DEF Reload, rows, vars
<1> QED
  BY <1>1, <1>2, <1>3, <1>4, <1>5, <1>6, <1>7, <1>8, <1>9, <1>10, <1>11 DEF Next, Run

\* Every step is a step of TaskLifecycle.
LEMMA StepIsLifecycle ==
  ASSUME TypeOK, [Next]_vars
  PROVE  [Lifecycle!LifecycleNext]_(Lifecycle!lifecycleVars)
<1>1. ASSUME NEW t \in Tasks, NEW to \in Statuses, Moves(t, to)
      PROVE  Lifecycle!LifecycleNext
  <2>1. CASE CanMove(t, to)
    <3>1. Lifecycle!Move(t, to)
      BY <1>1, <2>1 DEF Moves, SetTo, CanMove, Lifecycle!Move
    <3> QED
      BY <3>1 DEF Lifecycle!LifecycleNext, Statuses
  <2>2. CASE status[t] = "absent" /\ to = "submitted"
    <3>1. Lifecycle!Create(t, NoRef)
      BY <1>1, <2>2 DEF Moves, SetTo, Lifecycle!Create
    <3> QED
      BY <3>1 DEF Lifecycle!LifecycleNext
  <2> QED
    BY <1>1, <2>1, <2>2 DEF Moves
<1>2. CASE UNCHANGED status
  BY <1>2 DEF Lifecycle!lifecycleVars
<1>3. ASSUME NEW p \in Procs, At(p, "complete"), Moves(Top(p).task, "completed")
      PROVE  Lifecycle!LifecycleNext
  <2>1. Top(p).task \in Tasks
    BY <1>3, TopFrame DEF At
  <2> QED
    BY <1>1, <1>3, <2>1, StatusNames
<1> QED
  BY <1>1, <1>2, <1>3, NextStatus DEF StatusStep

-----------------------------------------------------------------------------
(* What grows *)

\* A row stays a row, with a status of the state machine.
LEMMA RowsStay ==
  ASSUME TypeOK, [Next]_vars
  PROVE  /\ status' \in [Tasks -> Statuses \cup {"absent"}]
         /\ \A t \in Tasks : status[t] # "absent" => status'[t] # "absent"
<1>0. status \in [Tasks -> Statuses \cup {"absent"}]
  BY TypeParts DEF RestOK
<1>1. ASSUME NEW t \in Tasks, NEW to \in Statuses, Moves(t, to)
      PROVE  /\ status' \in [Tasks -> Statuses \cup {"absent"}]
             /\ \A u \in Tasks : status[u] # "absent" => status'[u] # "absent"
  BY <1>0, <1>1, StatusNames DEF Moves, SetTo
<1>2. ASSUME NEW p \in Procs, At(p, "complete"), Moves(Top(p).task, "completed")
      PROVE  Top(p).task \in Tasks /\ "completed" \in Statuses
  BY <1>2, TopFrame, StatusNames DEF At
<1>3. CASE UNCHANGED status
  BY <1>0, <1>3
<1> QED
  BY <1>1, <1>2, <1>3, NextStatus DEF StatusStep

\* Append of one event to the log of t.
LEMMA AppendEffect ==
  ASSUME TypeOK, NEW t \in Tasks, NEW e \in Entries,
         log' = [log EXCEPT ![t] = Append(@, e)]
  PROVE  /\ log' \in [Tasks -> Seq(Entries)]
         /\ Len(log[t]) \in Nat /\ DOMAIN log[t] = 1..Len(log[t])
         /\ DOMAIN log'[t] = DOMAIN log[t] \cup {Len(log[t]) + 1}
         /\ log'[t][Len(log[t]) + 1] = e
         /\ \A i \in DOMAIN log[t] : log'[t][i] = log[t][i]
         /\ \A u \in Tasks : u # t => log'[u] = log[u]
<1>1. log \in [Tasks -> Seq(Entries)]
  BY DEF TypeOK
<1>2. log[t] \in Seq(Entries) /\ Len(log[t]) \in Nat /\ DOMAIN log[t] = 1..Len(log[t])
  BY <1>1
<1> DEFINE s == Append(log[t], e)
<1>3. /\ s \in Seq(Entries) /\ Len(s) = Len(log[t]) + 1
      /\ s[Len(log[t]) + 1] = e /\ \A i \in 1..Len(log[t]) : s[i] = log[t][i]
  BY <1>2, AppendProperties
<1>4. DOMAIN s = DOMAIN log[t] \cup {Len(log[t]) + 1}
  BY <1>2, <1>3
<1>5. log' = [log EXCEPT ![t] = s]
  OBVIOUS
<1> HIDE DEF s
<1>6. log'[t] = s /\ \A u \in Tasks : u # t => log'[u] = log[u]
  BY <1>1, <1>5
<1>7. log' \in [Tasks -> Seq(Entries)]
  BY <1>1, <1>3, <1>5
<1> QED
  BY <1>2, <1>3, <1>4, <1>6, <1>7

\* The events of a run.
LEMMA RunEvents ==
  ASSUME NEW p \in Procs, NEW S \in SUBSET Nat
  PROVE  /\ ToolCall(p) \in Entries /\ ToolCall(p).type = "tool_call"
         /\ Finding(p, S) \in Entries /\ Finding(p, S).type = "finding"
         /\ Finding(p, S).cites = S
BY DEF ToolCall, Finding, World, Entries

\* Only three steps of a run write evidence.
LEMMA EvidenceWriters ==
  ASSUME [Next]_vars
  PROVE  \/ UNCHANGED evidence
         \/ \E p \in Procs : AppendToolCall(p) \/ Snapshot(p) \/ AppendFinding(p)
<1>1. ASSUME NEW p \in Procs, Run(p) \/ StatementFails(p) \/ Crash(p)
      PROVE  UNCHANGED evidence \/ AppendToolCall(p) \/ Snapshot(p) \/ AppendFinding(p)
  BY <1>1 DEF Run, Assign, Get, Claim, GiveUp, Park, Loop, ChatOverBudget, Chat, ToolCallStep,
              CountChildren, Spawn, Complete, StatementFails, Crash
<1>2. ASSUME NEW p \in Servers, NEW t \in Tasks,
             Intake(p, t) \/ Handle(p, t) \/ Requeue(p, t) \/ ReapTask(p, t)
      PROVE  UNCHANGED evidence
  BY <1>2 DEF Intake, Handle, RouteAssign, RouteFails, RoutePark, RouteParked, Requeued,
              Requeue, ReapTask
<1>3. ASSUME NEW p \in Servers, Tick(p) \/ Dispatch(p) \/ ReapSelect(p)
      PROVE  UNCHANGED evidence
  BY <1>3 DEF Tick, Dispatch, ReapSelect
<1>4. ASSUME NEW p \in Replayers, NEW orig \in Tasks, NEW t \in Tasks, Rerun(p, orig, t)
      PROVE  UNCHANGED evidence
  BY <1>4 DEF Rerun
<1>5. ASSUME NEW t \in Tasks, Cancel(t) \/ LapseUnattended(t) \/ LapseSlow(t)
      PROVE  UNCHANGED evidence
  BY <1>5 DEF Cancel, LapseUnattended, LapseSlow, LeaseLapses
<1>6. ASSUME Reload \/ UNCHANGED vars
      PROVE  UNCHANGED evidence
  BY <1>6 DEF Reload, vars
<1> QED
  BY <1>1, <1>2, <1>3, <1>4, <1>5, <1>6 DEF Next

\* The three writers, by what they write.
LEMMA WritersEffect ==
  ASSUME TypeOK, NEW p \in Procs
  PROVE  /\ AppendToolCall(p) =>
              /\ Running(p) /\ snaps' = snaps
              /\ log' = [log EXCEPT ![Top(p).task] = Append(@, ToolCall(p))]
         /\ AppendFinding(p) =>
              /\ Running(p) /\ snaps' = snaps /\ Top(p).cites \in SUBSET Nat
              /\ log' = [log EXCEPT ![Top(p).task] = Append(@, Finding(p, Top(p).cites))]
         /\ Snapshot(p) =>
              /\ Running(p) /\ log' = log /\ Top(p).seq \in Nat
              /\ snaps' = [snaps EXCEPT ![Top(p).task] = @ \cup {Top(p).seq}]
<1>1. Running(p) => Top(p) \in Frames
  BY TopFrame
<1>2. Running(p) => Top(p).cites \in SUBSET Nat /\ Top(p).seq \in Nat
  BY <1>1 DEF Frames
<1> QED
  BY <1>2 DEF AppendToolCall, AppendFinding, Snapshot, At

\* Every step Grows, and keeps the types of the evidence.
LEMMA NextGrows ==
  ASSUME TypeOK, [Next]_vars
  PROVE  /\ Grows
         /\ log' \in [Tasks -> Seq(Entries)] /\ snaps' \in [Tasks -> SUBSET Nat]
<1>0. log \in [Tasks -> Seq(Entries)] /\ snaps \in [Tasks -> SUBSET Nat]
  BY DEF TypeOK
<1>1. CASE UNCHANGED evidence
  BY <1>0, <1>1, RowsStay DEF Grows, evidence
<1>2. ASSUME NEW p \in Procs, AppendToolCall(p)
      PROVE  Grows /\ log' \in [Tasks -> Seq(Entries)] /\ snaps' \in [Tasks -> SUBSET Nat]
  <2>1. /\ Top(p).task \in Tasks /\ snaps' = snaps
        /\ log' = [log EXCEPT ![Top(p).task] = Append(@, ToolCall(p))]
    BY <1>2, WritersEffect, TopFrame
  <2>2. ToolCall(p) \in Entries
    BY RunEvents
  <2> QED
    BY <1>0, <2>1, <2>2, AppendEffect, RowsStay DEF Grows
<1>3. ASSUME NEW p \in Procs, AppendFinding(p)
      PROVE  Grows /\ log' \in [Tasks -> Seq(Entries)] /\ snaps' \in [Tasks -> SUBSET Nat]
  <2>1. /\ Top(p).task \in Tasks /\ snaps' = snaps /\ Top(p).cites \in SUBSET Nat
        /\ log' = [log EXCEPT ![Top(p).task] = Append(@, Finding(p, Top(p).cites))]
    BY <1>3, WritersEffect, TopFrame
  <2>2. Finding(p, Top(p).cites) \in Entries
    BY <2>1, RunEvents
  <2> QED
    BY <1>0, <2>1, <2>2, AppendEffect, RowsStay DEF Grows
<1>4. ASSUME NEW p \in Procs, Snapshot(p)
      PROVE  Grows /\ log' \in [Tasks -> Seq(Entries)] /\ snaps' \in [Tasks -> SUBSET Nat]
  <2>1. /\ Top(p).task \in Tasks /\ log' = log /\ Top(p).seq \in Nat
        /\ snaps' = [snaps EXCEPT ![Top(p).task] = @ \cup {Top(p).seq}]
    BY <1>4, WritersEffect, TopFrame
  <2> QED
    BY <1>0, <2>1, RowsStay DEF Grows
<1> QED
  BY <1>1, <1>2, <1>3, <1>4, EvidenceWriters

-----------------------------------------------------------------------------
(* The other variables *)

\* The columns, the handlers and the counters of a step have their types.
LEMMA NextRest ==
  ASSUME TypeOK, [Next]_vars
  PROVE  RestOK'
<1>0. RestOK
  BY TypeParts
<1> DEFINE Cols == /\ agent' \in [Tasks -> BOOLEAN]
                   /\ lease' \in [Tasks -> Lease]
                   /\ parent' \in [Tasks -> 0..MaxTasks]
                   /\ cap' \in [Tasks -> Nat]
                   /\ spent' \in [Tasks -> Nat]
                   /\ shadow' \subseteq Tasks
                   /\ known' \in BOOLEAN
                   /\ queue' \in [Servers -> SUBSET Tasks]
                   /\ handlers' \in [Servers -> SUBSET ({"route", "park", "requeue"} \X Tasks)]
                   /\ reaping' \in [Servers -> SUBSET Tasks]
                   /\ used' \in [DOMAIN Limit -> Nat]
<1>1. ASSUME UNCHANGED <<agent, lease, parent, cap, spent, shadow, known, queue, handlers,
                         reaping, used>>
      PROVE  Cols
  BY <1>0, <1>1 DEF RestOK
<1>2. ASSUME NEW p \in Servers, NEW t \in Tasks,
             Intake(p, t) \/ Handle(p, t) \/ Requeue(p, t) \/ ReapTask(p, t)
      PROVE  Cols
  <2>1. CASE Intake(p, t)
    BY <1>0, <2>1, InvestigationAssumption DEF Intake, Insert, Enter, RestOK
  <2>2. CASE RouteAssign(p, t)
    BY <1>0, <2>2 DEF RouteAssign, Leave, RestOK
  <2>6. CASE RouteFails(p, t)
    <3>1. handlers' \in [Servers -> SUBSET ({"route", "park", "requeue"} \X Tasks)]
      BY <1>0, <2>6 DEF RouteFails, Leave, RestOK
    <3>2. UNCHANGED <<agent, lease, parent, cap, spent, shadow, known, queue, reaping, used>>
      BY <2>6 DEF RouteFails, rows
    <3> QED
      BY <1>0, <3>1, <3>2 DEF RestOK
  <2>3. CASE RoutePark(p, t) \/ RouteParked(p, t) \/ Requeued(p, t)
    BY <1>0, <2>3 DEF RoutePark, RouteParked, Requeued, Leave, RestOK
  <2>4. CASE Requeue(p, t)
    <3>1. handlers' \in [Servers -> SUBSET ({"route", "park", "requeue"} \X Tasks)]
      BY <1>0, <2>4 DEF Requeue, Enter, RestOK
    <3>2. used' \in [DOMAIN Limit -> Nat]
      BY <1>0, <2>4, UseCounts, UseNames DEF Requeue
    <3>3. UNCHANGED <<agent, lease, parent, cap, spent, shadow, known, queue, reaping>>
      BY <2>4 DEF Requeue
    <3> QED
      BY <1>0, <3>1, <3>2, <3>3 DEF RestOK
  <2>5. CASE ReapTask(p, t)
    BY <1>0, <2>5 DEF ReapTask, RestOK, Lease
  <2> QED
    BY <1>2, <2>1, <2>2, <2>3, <2>4, <2>5, <2>6 DEF Handle
<1>3. ASSUME NEW p \in Servers, Tick(p) \/ Dispatch(p) \/ ReapSelect(p)
      PROVE  Cols
  <2>1. CASE Tick(p)
    BY <1>0, <2>1 DEF Tick, Newest, RestOK, rows
  <2>2. CASE Dispatch(p)
    BY <1>0, <2>2 DEF Dispatch, RestOK, rows
  <2>3. CASE ReapSelect(p)
    BY <1>0, <2>3 DEF ReapSelect, RestOK, rows
  <2> QED
    BY <1>3, <2>1, <2>2, <2>3
<1>4. ASSUME NEW t \in Tasks, Cancel(t) \/ LapseUnattended(t) \/ LapseSlow(t)
      PROVE  Cols
  <2>1. CASE Cancel(t)
    BY <1>0, <2>1 DEF Cancel, RestOK, local
  <2>2. CASE LapseUnattended(t)
    BY <1>0, <2>2 DEF LapseUnattended, LeaseLapses, RestOK, local, Lease
  <2>3. CASE LapseSlow(t)
    BY <1>0, <2>3, UseCounts, UseNames DEF LapseSlow, LeaseLapses, RestOK, local, Lease
  <2> QED
    BY <1>4, <2>1, <2>2, <2>3
<1>5. ASSUME NEW p \in Replayers, NEW orig \in Tasks, NEW t \in Tasks, Rerun(p, orig, t)
      PROVE  Cols
  BY <1>0, <1>5 DEF Rerun, Insert, RestOK
<1>6. ASSUME Reload
      PROVE  Cols
  BY <1>0, <1>6, UseCounts, UseNames DEF Reload, RestOK, rows, local
<1>7. ASSUME NEW p \in Procs, Crash(p)
      PROVE  Cols
  BY <1>0, <1>7, UseCounts, UseNames DEF Crash, RestOK, rows
<1>8. ASSUME NEW p \in Procs, StatementFails(p)
      PROVE  Cols
  BY <1>0, <1>8, UseCounts, UseNames DEF StatementFails, RestOK, rows
<1>9. ASSUME NEW p \in Procs, Run(p)
      PROVE  Cols
  <2>0. Running(p)
    BY <1>9 DEF Run, Assign, Get, Claim, GiveUp, Park, Loop, ChatOverBudget, Chat,
                ToolCallStep, CountChildren, Spawn, AppendToolCall, Snapshot, AppendFinding,
                Complete, At
  <2>1. Top(p) \in Frames /\ Top(p).task \in Tasks /\ Top(p).spentAtStart \in Nat
    BY <2>0, TopFrame DEF Frames
  <2>2. CASE Assign(p)
    BY <1>0, <2>1, <2>2 DEF Assign, RestOK
  <2>3. CASE Claim(p)
    BY <1>0, <2>1, <2>3 DEF Claim, RestOK, Lease
  <2>4. CASE Loop(p)
    BY <1>0, <2>1, <2>4 DEF Loop, RestOK, Lease
  <2>5. CASE Park(p) \/ ChatOverBudget(p) \/ Complete(p)
    BY <1>0, <2>5 DEF Park, ChatOverBudget, Complete, RestOK
  <2>6. CASE ToolCallStep(p)
    BY <1>0, <2>1, <2>6 DEF ToolCallStep, RestOK
  <2>7. ASSUME NEW c \in Tasks, Spawn(p, c)
        PROVE  Cols
    <3> DEFINE t == Top(p).task
               n == Monus(cap[t], Top(p).spentAtStart) \div 2
    <3>1. cap[t] \in Nat
      BY <1>0, <2>1 DEF RestOK
    <3>2. n \in Nat
      BY <2>1, <3>1 DEF Monus
    <3>3. cap' = [cap EXCEPT ![c] = n] /\ parent' = [parent EXCEPT ![c] = t]
      BY <2>7 DEF Spawn, Insert
    <3>4. t \in 0..MaxTasks
      BY <2>1, TaskIds
    <3> HIDE DEF t, n
    <3> QED
      BY <1>0, <2>7, <3>2, <3>3, <3>4 DEF Spawn, RestOK
  <2>8. CASE Get(p) \/ GiveUp(p) \/ Chat(p) \/ CountChildren(p)
    BY <1>0, <2>8 DEF Get, GiveUp, Chat, CountChildren, RestOK, rows
  <2>9. CASE AppendToolCall(p) \/ Snapshot(p) \/ AppendFinding(p)
    BY <1>0, <2>9 DEF AppendToolCall, Snapshot, AppendFinding, RestOK, rows
  <2> QED
    BY <1>9, <2>2, <2>3, <2>4, <2>5, <2>6, <2>7, <2>8, <2>9 DEF Run
<1>10. Cols
  <2>1. CASE UNCHANGED vars
    BY <1>1, <2>1 DEF vars, rows, local
  <2> QED
    BY <1>2, <1>3, <1>4, <1>5, <1>6, <1>7, <1>8, <1>9, <2>1 DEF Next
<1> QED
  BY <1>10, RowsStay, NextGrows DEF RestOK

-----------------------------------------------------------------------------
(* Runs *)

\* What a run knows when its process is in one of its steps.
LEMMA TopOK ==
  ASSUME TypeOK, FramesOK, NEW p \in Procs, Running(p)
  PROVE  FrameOK(Top(p))
BY TopFrame DEF FramesOK

\* A frame that goes on to a place where it owes nothing more than it did.
LEMMA GoesOn ==
  ASSUME TypeOK, FramesOK, Grows, NEW p \in Procs, Running(p), NEW g \in Frames, Go(p, g),
         g.task = Top(p).task, g.seqs = Top(p).seqs,
         \/ g.pc \in Pcs \ (CallPcs \cup {"finding", "complete"})
         \/ g.pc \in CallPcs \ {"snapshot"} /\ g.calls # 0
  PROVE  stack' \in [Procs -> Seq(Frames)] /\ FramesOK'
<1>1. FrameOK(Top(p))
  BY TopOK
<1>2. FrameOK(g)
  BY <1>1 DEF FrameOK, CallPcs
<1>3. FrameOK(g)'
  BY <1>2, FrameStays
<1>4. stack' \in [Procs -> Seq(Frames)] /\ OnlyNew({g})
  BY GoEffect
<1>5. \A f \in {g} : FrameOK(f)'
  BY <1>3
<1> QED
  BY <1>4, <1>5, FramesStay

\* A frame that goes on to any place it may be in after the step.
LEMMA GoesWell ==
  ASSUME TypeOK, FramesOK, Grows, NEW p \in Procs, Running(p), NEW g \in Frames, Go(p, g),
         FrameOK(g)'
  PROVE  stack' \in [Procs -> Seq(Frames)] /\ FramesOK'
<1>1. stack' \in [Procs -> Seq(Frames)] /\ OnlyNew({g})
  BY GoEffect
<1>2. \A f \in {g} : FrameOK(f)'
  OBVIOUS
<1> QED
  BY <1>1, <1>2, FramesStay

\* A run that only changes its place.
LEMMA GoesTo ==
  ASSUME TypeOK, FramesOK, Grows, NEW p \in Procs, Running(p), NEW pc \in Pcs,
         Go(p, [Top(p) EXCEPT !.pc = pc]),
         \/ pc \in Pcs \ (CallPcs \cup {"finding", "complete"})
         \/ pc \in CallPcs \ {"snapshot"} /\ Top(p).pc \in CallPcs
  PROVE  stack' \in [Procs -> Seq(Frames)] /\ FramesOK'
<1>1. Top(p) \in Frames /\ FrameOK(Top(p))
  BY TopFrame, TopOK
<1>2. [Top(p) EXCEPT !.pc = pc] \in Frames
  BY <1>1, FrameRecords
<1>3. PICK g \in Frames : g = [Top(p) EXCEPT !.pc = pc]
  BY <1>2
<1>4. /\ g.task = Top(p).task /\ g.seqs = Top(p).seqs /\ g.pc = pc /\ g.calls = Top(p).calls
  BY <1>1, <1>3 DEF Frames
<1>5. Top(p).pc \in CallPcs => Top(p).calls # 0
  BY <1>1 DEF FrameOK
<1>6. Go(p, g)
  BY <1>3
<1> QED
  BY <1>4, <1>5, <1>6, GoesOn

\* A run that ends.
LEMMA Ends ==
  ASSUME TypeOK, FramesOK, Grows, NEW p \in Procs, Running(p), Return(p)
  PROVE  stack' \in [Procs -> Seq(Frames)] /\ FramesOK'
<1>1. stack' \in [Procs -> Seq(Frames)] /\ OnlyNew({})
  BY ReturnEffect
<1> QED
  BY <1>1, FramesStay

\* A first run, of a task that has a row.
LEMMA Starts ==
  ASSUME TypeOK, FramesOK, Grows, NEW p \in Procs, ~Running(p), NEW t \in Tasks,
         NEW pc \in {"get", "assign"}, stack' = [stack EXCEPT ![p] = <<Frame(t, pc)>>],
         status'[t] # "absent"
  PROVE  stack' \in [Procs -> Seq(Frames)] /\ FramesOK'
<1>1. pc \in Pcs
  BY DEF Pcs
<1>2. PICK f \in Frames : f = Frame(t, pc)
  BY <1>1, NewFrame
<1>3. f.task = t /\ f.pc = pc /\ f.seqs = {}
  BY <1>1, <1>2, NewFrame
<1>4. FrameOK(f)'
  BY <1>3 DEF FrameOK, CallPcs
<1>5. stack' \in [Procs -> Seq(Frames)] /\ OnlyNew({f})
  BY <1>2, StartEffect
<1>6. \A g \in {f} : FrameOK(g)'
  BY <1>4
<1> QED
  BY <1>5, <1>6, FramesStay

\* A subagent's run begins while its parent waits to record the call.
LEMMA SpawnKeeps ==
  ASSUME TypeOK, FramesOK, Grows, NEW p \in Procs, NEW c \in Tasks, Spawn(p, c)
  PROVE  stack' \in [Procs -> Seq(Frames)] /\ FramesOK'
<1>1. Running(p) /\ Top(p).pc = "spawn"
  BY DEF Spawn, At
<1>2. Top(p) \in Frames /\ FrameOK(Top(p))
  BY <1>1, TopFrame, TopOK
<1>3. "append" \in Pcs /\ "assign" \in Pcs
  BY DEF Pcs
<1>4. PICK g \in Frames : g = [Top(p) EXCEPT !.pc = "append"]
  BY <1>2, <1>3, FrameRecords
<1>5. g.task = Top(p).task /\ g.seqs = Top(p).seqs /\ g.pc = "append" /\ g.calls = Top(p).calls
  BY <1>2, <1>4 DEF Frames
<1>6. FrameOK(g)
  BY <1>1, <1>2, <1>5 DEF FrameOK, CallPcs
<1>7. FrameOK(g)'
  BY <1>6, FrameStays
<1>8. PICK f \in Frames : f = Frame(c, "assign")
  BY <1>3, NewFrame
<1>9. f.task = c /\ f.pc = "assign" /\ f.seqs = {}
  BY <1>3, <1>8, NewFrame
<1>10. status'[c] # "absent"
  BY DEF Spawn, Insert, SetTo, TypeOK
<1>11. FrameOK(f)'
  BY <1>9, <1>10 DEF FrameOK, CallPcs
<1>12. stack' = [stack EXCEPT ![p] = Append(Front(@), g) \o <<f>>]
  BY <1>4, <1>8 DEF Spawn
<1>13. stack' \in [Procs -> Seq(Frames)] /\ OnlyNew({g, f})
  BY <1>1, <1>12, SpawnEffect
<1>14. \A h \in {g, f} : FrameOK(h)'
  BY <1>7, <1>11
<1> QED
  BY <1>13, <1>14, FramesStay

\* The steps of a run that write no evidence.
LEMMA RunKeeps ==
  ASSUME TypeOK, FramesOK, Grows, NEW p \in Procs,
         \/ Assign(p) \/ Get(p) \/ Claim(p) \/ GiveUp(p) \/ Park(p) \/ Loop(p)
         \/ ChatOverBudget(p) \/ Chat(p) \/ ToolCallStep(p) \/ CountChildren(p) \/ Complete(p)
         \/ StatementFails(p)
  PROVE  stack' \in [Procs -> Seq(Frames)] /\ FramesOK'
<1>0. /\ {"get", "claim", "loop", "chat", "park"} \subseteq Pcs \ (CallPcs \cup {"finding", "complete"})
      /\ {"tool", "count", "spawn", "append"} \subseteq CallPcs \ {"snapshot"}
      /\ CallPcs \subseteq Pcs
  BY DEF Pcs, CallPcs
<1>1. Running(p)
  BY DEF Assign, Get, Claim, GiveUp, Park, Loop, ChatOverBudget, Chat, ToolCallStep,
         CountChildren, Complete, StatementFails, At
<1>2. Top(p) \in Frames /\ FrameOK(Top(p)) /\ Top(p).task \in Tasks
  BY <1>1, TopFrame, TopOK
<1>3. CASE Return(p)
  BY <1>1, <1>3, Ends
<1>4. ASSUME NEW pc \in {"get", "claim", "loop", "chat", "park"},
             Go(p, [Top(p) EXCEPT !.pc = pc])
      PROVE  stack' \in [Procs -> Seq(Frames)] /\ FramesOK'
  BY <1>0, <1>1, <1>4, GoesTo
<1>5. ASSUME NEW pc \in {"count", "spawn", "append"}, Top(p).pc \in CallPcs,
             Go(p, [Top(p) EXCEPT !.pc = pc])
      PROVE  stack' \in [Procs -> Seq(Frames)] /\ FramesOK'
  BY <1>0, <1>1, <1>5, GoesTo
<1>6. CASE Get(p)
  <2> DEFINE n == spent[Top(p).task]
  <2>1. n \in Nat
    BY <1>2 DEF TypeOK
  <2>2. \/ \E pc \in {"park", "claim", "loop"} :
             Go(p, [[Top(p) EXCEPT !.spentAtStart = n] EXCEPT !.pc = pc])
        \/ Return(p)
    BY <1>6 DEF Get
  <2> HIDE DEF n
  <2>3. ASSUME NEW pc \in {"park", "claim", "loop"},
               Go(p, [[Top(p) EXCEPT !.spentAtStart = n] EXCEPT !.pc = pc])
        PROVE  stack' \in [Procs -> Seq(Frames)] /\ FramesOK'
    <3>1. PICK g \in Frames : g = [[Top(p) EXCEPT !.spentAtStart = n] EXCEPT !.pc = pc]
      BY <1>0, <1>2, <2>1, FrameRecords
    <3>2. g.task = Top(p).task /\ g.seqs = Top(p).seqs /\ g.pc = pc
      BY <1>2, <3>1 DEF Frames
    <3>3. Go(p, g)
      BY <2>3, <3>1
    <3> QED
      BY <1>0, <1>1, <3>2, <3>3, GoesOn
  <2> QED
    BY <1>3, <2>2, <2>3
<1>7. CASE Loop(p)
  <2>1. Top(p).iter < MaxIterations /\ Go(p, [Top(p) EXCEPT !.pc = "chat", !.iter = @ + 1])
    BY <1>7 DEF Loop
  <2>2. PICK g \in Frames : g = [Top(p) EXCEPT !.pc = "chat", !.iter = @ + 1]
    BY <1>2, <2>1, FrameRecords
  <2>3. g.task = Top(p).task /\ g.seqs = Top(p).seqs /\ g.pc = "chat"
    BY <1>2, <2>2 DEF Frames
  <2>4. Go(p, g)
    BY <2>1, <2>2
  <2> QED
    BY <1>0, <1>1, <2>3, <2>4, GoesOn
<1>8. CASE Chat(p)
  <2>1. ASSUME NEW n \in 1..MaxCalls, Go(p, [Top(p) EXCEPT !.pc = "tool", !.calls = n])
        PROVE  stack' \in [Procs -> Seq(Frames)] /\ FramesOK'
    <3>1. PICK g \in Frames : g = [Top(p) EXCEPT !.pc = "tool", !.calls = n]
      BY <1>2, FrameRecords
    <3>2. g.task = Top(p).task /\ g.seqs = Top(p).seqs /\ g.pc = "tool" /\ g.calls = n /\ n # 0
      BY <1>2, <3>1 DEF Frames
    <3>3. Go(p, g)
      BY <2>1, <3>1
    <3> QED
      BY <1>0, <1>1, <3>2, <3>3, GoesOn
  <2>2. ASSUME NEW S \in SUBSET (DOMAIN log[Top(p).task]), ValidFinding(Top(p).seqs, S),
               Go(p, [Top(p) EXCEPT !.pc = "finding", !.cites = S])
        PROVE  stack' \in [Procs -> Seq(Frames)] /\ FramesOK'
    <3>1. log[Top(p).task] \in Seq(Entries)
      BY <1>2 DEF TypeOK
    <3>2. S \in SUBSET Nat
      BY <3>1
    <3>3. PICK g \in Frames : g = [Top(p) EXCEPT !.pc = "finding", !.cites = S]
      BY <1>2, <3>2, FrameRecords
    <3>4. g.task = Top(p).task /\ g.seqs = Top(p).seqs /\ g.pc = "finding" /\ g.cites = S
      BY <1>2, <3>3 DEF Frames
    <3>5. FrameOK(g)
      BY <1>2, <2>2, <3>4 DEF FrameOK, CallPcs
    <3>6. FrameOK(g)' /\ Go(p, g)
      BY <2>2, <3>3, <3>5, FrameStays
    <3> QED
      BY <1>1, <3>6, GoesWell
  <2> QED
    BY <1>4, <1>8, <2>1, <2>2 DEF Chat
<1>9. CASE Assign(p)
  BY <1>3, <1>4, <1>9 DEF Assign
<1>10. CASE Claim(p)
  BY <1>3, <1>4, <1>10 DEF Claim
<1>11. CASE GiveUp(p) \/ Park(p) \/ ChatOverBudget(p) \/ Complete(p)
  BY <1>3, <1>4, <1>11 DEF GiveUp, Park, ChatOverBudget, Complete
<1>12. CASE ToolCallStep(p)
  <2>1. Top(p).pc \in CallPcs
    BY <1>12 DEF ToolCallStep, At, CallPcs
  <2> QED
    BY <1>3, <1>5, <1>12, <2>1 DEF ToolCallStep
<1>13. CASE CountChildren(p)
  <2>1. Top(p).pc \in CallPcs
    BY <1>13 DEF CountChildren, At, CallPcs
  <2> QED
    BY <1>5, <1>13, <2>1 DEF CountChildren
<1>14. CASE StatementFails(p)
  <2>1. \/ Top(p).pc \in CallPcs /\ Go(p, [Top(p) EXCEPT !.pc = "append"])
        \/ Return(p)
    BY <1>14 DEF StatementFails, CallPcs
  <2> QED
    BY <1>3, <1>5, <2>1
<1> QED
  BY <1>6, <1>7, <1>8, <1>9, <1>10, <1>11, <1>12, <1>13, <1>14

\* The steps that write evidence: the seq is a call of the task's log, the
\* snapshot makes it one a finding may cite, the finding is there when the
\* task is completed.
LEMMA WritersKeep ==
  ASSUME TypeOK, FramesOK, Grows, NEW p \in Procs,
         AppendToolCall(p) \/ Snapshot(p) \/ AppendFinding(p)
  PROVE  stack' \in [Procs -> Seq(Frames)] /\ FramesOK'
<1>1. Running(p)
  BY DEF AppendToolCall, Snapshot, AppendFinding, At
<1>2. Top(p) \in Frames /\ FrameOK(Top(p)) /\ Top(p).task \in Tasks
  BY <1>1, TopFrame, TopOK
<1>3. PICK t \in Tasks : t = Top(p).task
  BY <1>2
<1>4. Top(p).seqs \in SUBSET Nat /\ Top(p).seq \in Nat /\ Top(p).calls \in Nat
  BY <1>2 DEF Frames
<1>5. CASE AppendToolCall(p)
  <2>1. /\ log' = [log EXCEPT ![t] = Append(@, ToolCall(p))]
        /\ Top(p).pc = "append"
        /\ Go(p, [Top(p) EXCEPT !.pc = "snapshot", !.seq = Len(log[t]) + 1])
    BY <1>3, <1>5 DEF AppendToolCall, At
  <2>2. ToolCall(p) \in Entries /\ ToolCall(p).type = "tool_call"
    BY RunEvents
  <2>3. /\ Len(log[t]) \in Nat
        /\ Len(log[t]) + 1 \in DOMAIN log'[t] /\ log'[t][Len(log[t]) + 1] = ToolCall(p)
    BY <2>1, <2>2, AppendEffect
  <2>4. PICK n \in Nat : n = Len(log[t]) + 1
    BY <2>3
  <2>5. n \in ToolCalls(t)'
    BY <2>2, <2>3, <2>4 DEF ToolCalls
  <2>6. PICK g \in Frames : g = [Top(p) EXCEPT !.pc = "snapshot", !.seq = n]
    BY <1>2, FrameRecords
  <2>7. /\ g.task = t /\ g.seqs = Top(p).seqs /\ g.pc = "snapshot" /\ g.seq = n
        /\ g.calls = Top(p).calls
    BY <1>2, <1>3, <2>6 DEF Frames
  <2>8. PICK S : S = Top(p).seqs
    OBVIOUS
  <2>9. S \subseteq ToolCalls(t) \cap snaps[t] /\ status[t] # "absent" /\ g.calls # 0
    BY <1>2, <1>3, <2>1, <2>7, <2>8 DEF FrameOK, CallPcs
  <2>10. S \subseteq ToolCalls(t)' \cap snaps'[t] /\ status'[t] # "absent"
    BY <2>9 DEF Grows, ToolCalls
  <2>11. FrameOK(g)'
    BY <2>5, <2>7, <2>8, <2>9, <2>10 DEF FrameOK
  <2>12. Go(p, g)
    BY <2>1, <2>4, <2>6
  <2> QED
    BY <1>1, <2>11, <2>12, GoesWell
<1>6. CASE Snapshot(p)
  <2>1. /\ snaps' = [snaps EXCEPT ![t] = @ \cup {Top(p).seq}]
        /\ Top(p).pc = "snapshot"
    BY <1>3, <1>6 DEF Snapshot, At
  <2>2. PICK pc \in {"tool", "loop"} : pc = (IF Top(p).calls > 1 THEN "tool" ELSE "loop")
    OBVIOUS
  <2>3. Top(p).calls # 0 /\ Top(p).seq \in ToolCalls(t) /\ status[t] # "absent"
        /\ Top(p).seqs \subseteq ToolCalls(t) \cap snaps[t]
    BY <1>2, <1>3, <2>1 DEF FrameOK, CallPcs
  <2>4. PICK g \in Frames :
          g = [Top(p) EXCEPT !.seqs = @ \cup {Top(p).seq}, !.calls = @ - 1, !.pc = pc]
    BY <1>2, <2>3, FrameRecords
  <2>5. /\ g.task = t /\ g.seqs = Top(p).seqs \cup {Top(p).seq} /\ g.pc = pc
        /\ g.calls = Top(p).calls - 1
    BY <1>2, <1>3, <2>4 DEF Frames
  <2>6. Go(p, g)
    BY <1>6, <2>2, <2>4 DEF Snapshot
  <2>7. g.pc = "tool" => g.calls # 0
    BY <1>4, <2>2, <2>5
  <2>8. PICK S : S = g.seqs
    OBVIOUS
  <2>9. S \subseteq ToolCalls(t) /\ S \subseteq snaps'[t]
    BY <2>1, <2>3, <2>5, <2>8 DEF TypeOK
  <2>10. S \subseteq ToolCalls(t)' \cap snaps'[t] /\ status'[t] # "absent"
    BY <2>3, <2>9 DEF Grows, ToolCalls
  <2>11. FrameOK(g)'
    BY <2>2, <2>5, <2>7, <2>8, <2>10 DEF FrameOK, CallPcs
  <2> QED
    BY <1>1, <2>6, <2>11, GoesWell
<1>7. CASE AppendFinding(p)
  <2>1. /\ log' = [log EXCEPT ![t] = Append(@, Finding(p, Top(p).cites))]
        /\ Go(p, [Top(p) EXCEPT !.pc = "complete"])
        /\ Top(p).cites \in SUBSET Nat
    BY <1>3, <1>7, WritersEffect DEF AppendFinding
  <2>2. /\ Finding(p, Top(p).cites) \in Entries
        /\ Finding(p, Top(p).cites).type = "finding"
    BY <2>1, RunEvents
  <2>3. /\ Len(log[t]) + 1 \in DOMAIN log'[t]
        /\ log'[t][Len(log[t]) + 1] = Finding(p, Top(p).cites)
    BY <2>1, <2>2, AppendEffect
  <2>4. Len(log[t]) + 1 \in Findings(t)'
    BY <2>2, <2>3 DEF Findings
  <2>5. "complete" \in Pcs
    BY DEF Pcs
  <2>6. PICK g \in Frames : g = [Top(p) EXCEPT !.pc = "complete"]
    BY <1>2, <2>5, FrameRecords
  <2>7. g.task = t /\ g.seqs = Top(p).seqs /\ g.pc = "complete"
    BY <1>2, <1>3, <2>6 DEF Frames
  <2>8. PICK S : S = Top(p).seqs
    OBVIOUS
  <2>9. S \subseteq ToolCalls(t) \cap snaps[t] /\ status[t] # "absent"
    BY <1>2, <1>3, <2>8 DEF FrameOK
  <2>10. S \subseteq ToolCalls(t)' \cap snaps'[t] /\ status'[t] # "absent"
    BY <2>9 DEF Grows, ToolCalls
  <2>11. FrameOK(g)'
    BY <2>4, <2>7, <2>8, <2>10 DEF FrameOK, CallPcs
  <2>12. Go(p, g)
    BY <2>1, <2>6
  <2> QED
    BY <1>1, <2>11, <2>12, GoesWell
<1> QED
  BY <1>5, <1>6, <1>7

\* Only runs, and what starts and stops them, touch the stacks.
LEMMA StackWriters ==
  ASSUME [Next]_vars
  PROVE  \/ UNCHANGED stack
         \/ \E p \in Procs : Run(p) \/ StatementFails(p) \/ Crash(p)
         \/ \E p \in Servers : Dispatch(p)
         \/ \E p \in Replayers, orig, t \in Tasks : Rerun(p, orig, t)
<1>1. ASSUME NEW p \in Servers, NEW t \in Tasks,
             Intake(p, t) \/ Handle(p, t) \/ Requeue(p, t) \/ ReapTask(p, t)
      PROVE  UNCHANGED stack
  BY <1>1 DEF Intake, Handle, RouteAssign, RouteFails, RoutePark, RouteParked, Requeued,
              Requeue, ReapTask
<1>2. ASSUME NEW p \in Servers, Tick(p) \/ ReapSelect(p)
      PROVE  UNCHANGED stack
  BY <1>2 DEF Tick, ReapSelect
<1>3. ASSUME NEW t \in Tasks, Cancel(t) \/ LapseUnattended(t) \/ LapseSlow(t)
      PROVE  UNCHANGED stack
  BY <1>3 DEF Cancel, LapseUnattended, LapseSlow, LeaseLapses, local
<1>4. ASSUME Reload \/ UNCHANGED vars
      PROVE  UNCHANGED stack
  BY <1>4 DEF Reload, vars, local
<1> QED
  BY <1>1, <1>2, <1>3, <1>4 DEF Next

\* Every step keeps the frames what they are.
LEMMA NextFrames ==
  ASSUME TypeOK, FramesOK, AbsentOK, [Next]_vars
  PROVE  stack' \in [Procs -> Seq(Frames)] /\ FramesOK'
<1>0. Grows
  BY NextGrows
<1>1. CASE UNCHANGED stack
  <2>1. OnlyNew({})
    BY <1>1 DEF OnlyNew
  <2> QED
    BY <1>0, <1>1, <2>1, FramesStay DEF TypeOK
<1>2. ASSUME NEW p \in Procs, Run(p) \/ StatementFails(p)
      PROVE  stack' \in [Procs -> Seq(Frames)] /\ FramesOK'
  BY <1>0, <1>2, RunKeeps, WritersKeep, SpawnKeeps DEF Run
<1>3. ASSUME NEW p \in Procs, Crash(p)
      PROVE  stack' \in [Procs -> Seq(Frames)] /\ FramesOK'
  <2>1. stack' = [stack EXCEPT ![p] = <<>>]
    BY <1>3 DEF Crash
  <2> QED
    BY <1>0, <2>1, StopEffect, FramesStay
<1>4. ASSUME NEW p \in Servers, Dispatch(p)
      PROVE  stack' \in [Procs -> Seq(Frames)] /\ FramesOK'
  <2>1. PICK t \in queue[p] : stack' = [stack EXCEPT ![p] = <<Frame(t, "get")>>]
    BY <1>4 DEF Dispatch
  <2>2. p \in Procs /\ ~Running(p) /\ t \in Tasks /\ status' = status
    BY <1>4, <2>1 DEF Dispatch, Procs, rows, TypeOK
  <2>3. status'[t] # "absent"
    BY <2>1, <2>2 DEF AbsentOK
  <2> QED
    BY <1>0, <2>1, <2>2, <2>3, Starts
<1>5. ASSUME NEW p \in Replayers, NEW orig \in Tasks, NEW t \in Tasks, Rerun(p, orig, t)
      PROVE  stack' \in [Procs -> Seq(Frames)] /\ FramesOK'
  <2>1. /\ p \in Procs /\ ~Running(p) /\ SetTo(t, "submitted")
        /\ stack' = [stack EXCEPT ![p] = <<Frame(t, "assign")>>]
    BY <1>5 DEF Rerun, Insert, Procs
  <2>2. status'[t] # "absent"
    BY <2>1 DEF SetTo, TypeOK
  <2> QED
    BY <1>0, <2>1, <2>2, Starts
<1> QED
  BY <1>1, <1>2, <1>3, <1>4, <1>5, StackWriters

\* Costs are counted by one step only.
LEMMA SpentWriters ==
  ASSUME [Next]_vars
  PROVE  spent' = spent \/ \E p \in Procs : ToolCallStep(p)
<1>1. ASSUME NEW p \in Procs, Run(p) \/ StatementFails(p) \/ Crash(p)
      PROVE  spent' = spent \/ ToolCallStep(p)
  BY <1>1 DEF Run, Assign, Get, Claim, GiveUp, Park, Loop, ChatOverBudget, Chat, AppendToolCall,
              Snapshot, AppendFinding, CountChildren, Spawn, Complete, StatementFails, Crash, rows
<1>2. ASSUME NEW p \in Servers, NEW t \in Tasks,
             Intake(p, t) \/ Handle(p, t) \/ Requeue(p, t) \/ ReapTask(p, t)
      PROVE  spent' = spent
  BY <1>2 DEF Intake, Handle, RouteAssign, RouteFails, RoutePark, RouteParked, Requeued,
              Requeue, ReapTask, rows
<1>3. ASSUME NEW p \in Servers, Tick(p) \/ Dispatch(p) \/ ReapSelect(p)
      PROVE  spent' = spent
  BY <1>3 DEF Tick, Dispatch, ReapSelect, rows
<1>4. ASSUME NEW p \in Replayers, NEW orig \in Tasks, NEW t \in Tasks, Rerun(p, orig, t)
      PROVE  spent' = spent
  BY <1>4 DEF Rerun
<1>5. ASSUME NEW t \in Tasks, Cancel(t) \/ LapseUnattended(t) \/ LapseSlow(t)
      PROVE  spent' = spent
  BY <1>5 DEF Cancel, LapseUnattended, LapseSlow, LeaseLapses
<1>6. ASSUME Reload \/ UNCHANGED vars
      PROVE  spent' = spent
  BY <1>6 DEF Reload, vars, rows
<1> QED
  BY <1>1, <1>2, <1>3, <1>4, <1>5, <1>6 DEF Next

\* Lists are read by one step only, and shrink otherwise.
LEMMA QueueWriters ==
  ASSUME TypeOK, [Next]_vars
  PROVE  \A p \in Servers : \A t \in queue'[p] : t \in queue[p] \/ status'[t] = "submitted"
<1>0. queue \in [Servers -> SUBSET Tasks]
  BY DEF TypeOK
<1>1. CASE UNCHANGED queue
  BY <1>1
<1>2. ASSUME NEW p \in Servers, Tick(p)
      PROVE  \A q \in Servers : \A t \in queue'[q] : t \in queue[q] \/ status'[t] = "submitted"
  BY <1>0, <1>2 DEF Tick, Newest, rows
<1>3. ASSUME NEW p \in Servers, Dispatch(p)
      PROVE  \A q \in Servers : queue'[q] \subseteq queue[q]
  BY <1>0, <1>3 DEF Dispatch
<1>4. ASSUME NEW p \in Procs, Crash(p)
      PROVE  \A q \in Servers : queue'[q] \subseteq queue[q]
  BY <1>0, <1>4 DEF Crash
<1>5. ASSUME NEW p \in Procs, Run(p) \/ StatementFails(p)
      PROVE  UNCHANGED queue
  BY <1>5 DEF Run, Assign, Get, Claim, GiveUp, Park, Loop, ChatOverBudget, Chat, AppendToolCall,
              Snapshot, AppendFinding, CountChildren, Spawn, Complete, StatementFails, ToolCallStep
<1>6. ASSUME NEW p \in Servers, NEW t \in Tasks,
             Intake(p, t) \/ Handle(p, t) \/ Requeue(p, t) \/ ReapTask(p, t)
      PROVE  UNCHANGED queue
  BY <1>6 DEF Intake, Handle, RouteAssign, RouteFails, RoutePark, RouteParked, Requeued,
              Requeue, ReapTask
<1>7. ASSUME NEW p \in Replayers, NEW orig \in Tasks, NEW t \in Tasks, Rerun(p, orig, t)
      PROVE  UNCHANGED queue
  BY <1>7 DEF Rerun
<1>8. ASSUME NEW t \in Tasks, Cancel(t) \/ LapseUnattended(t) \/ LapseSlow(t)
      PROVE  UNCHANGED queue
  BY <1>8 DEF Cancel, LapseUnattended, LapseSlow, LeaseLapses, local
<1>9. ASSUME Reload \/ UNCHANGED vars \/ \E p \in Servers : ReapSelect(p)
      PROVE  UNCHANGED queue
  BY <1>9 DEF Reload, vars, local, ReapSelect
<1> QED
  BY <1>1, <1>2, <1>3, <1>4, <1>5, <1>6, <1>7, <1>8, <1>9 DEF Next

\* A row that does not exist stays blank.
LEMMA NextAbsent ==
  ASSUME TypeOK, FramesOK, AbsentOK, [Next]_vars
  PROVE  AbsentOK'
<1> SUFFICES ASSUME NEW t \in Tasks, status'[t] = "absent"
             PROVE  /\ log'[t] = <<>> /\ spent'[t] = 0
                    /\ \A p \in Servers : t \notin queue'[p]
  BY DEF AbsentOK
<1>1. status[t] = "absent"
  BY RowsStay
<1>2. log[t] = <<>> /\ spent[t] = 0 /\ \A p \in Servers : t \notin queue[p]
  BY <1>1 DEF AbsentOK
<1>3. ASSUME NEW p \in Procs, Running(p)
      PROVE  Top(p).task \in Tasks /\ Top(p).task # t
  BY <1>1, <1>3, TopFrame, TopOK DEF FrameOK
<1>4. log'[t] = log[t]
  <2>1. CASE UNCHANGED evidence
    BY <2>1 DEF evidence
  <2>2. ASSUME NEW p \in Procs, AppendToolCall(p) \/ Snapshot(p) \/ AppendFinding(p)
        PROVE  log'[t] = log[t]
    BY <1>3, <2>2, WritersEffect DEF TypeOK
  <2> QED
    BY <2>1, <2>2, EvidenceWriters
<1>5. spent'[t] = spent[t]
  <2>1. ASSUME NEW p \in Procs, ToolCallStep(p)
        PROVE  spent'[t] = spent[t]
    <3>1. Running(p) /\ spent' = [spent EXCEPT ![Top(p).task] = @ + 1]
      BY <2>1 DEF ToolCallStep, At
    <3> QED
      BY <1>3, <3>1 DEF TypeOK
  <2> QED
    BY <2>1, SpentWriters
<1>6. \A p \in Servers : t \notin queue'[p]
  BY <1>2, QueueWriters
<1> QED
  BY <1>2, <1>4, <1>5, <1>6

-----------------------------------------------------------------------------
(* Evidence *)

\* What a recorded finding cites stays cited, recorded and stored.
LEMMA NextEvidence ==
  ASSUME TypeOK, FramesOK, FindingsHaveEvidence, [Next]_vars
  PROVE  FindingsHaveEvidence'
<1>0. Grows
  BY NextGrows
<1>1. ASSUME NEW t \in Tasks, NEW i \in Findings(t)', i \in DOMAIN log[t]
      PROVE  /\ log'[t][i].cites # {}
             /\ log'[t][i].cites \subseteq {j \in ToolCalls(t)' : j < i} \cap snaps'[t]
  <2>1. log'[t][i] = log[t][i] /\ i \in Findings(t)
    BY <1>0, <1>1 DEF Grows, Findings
  <2>2. /\ log[t][i].cites # {}
        /\ log[t][i].cites \subseteq {j \in ToolCalls(t) : j < i} \cap snaps[t]
    BY <2>1 DEF FindingsHaveEvidence
  <2>3. ToolCalls(t) \subseteq ToolCalls(t)' /\ snaps[t] \subseteq snaps'[t]
    BY <1>0 DEF Grows, ToolCalls
  <2> QED
    BY <2>1, <2>2, <2>3
<1>2. ASSUME NEW t \in Tasks, NEW i \in Findings(t)', i \notin DOMAIN log[t]
      PROVE  /\ log'[t][i].cites # {}
             /\ log'[t][i].cites \subseteq {j \in ToolCalls(t)' : j < i} \cap snaps'[t]
  <2>1. i \in DOMAIN log'[t] /\ log'[t][i].type = "finding"
    BY <1>2 DEF Findings
  <2>2. ~UNCHANGED evidence
    BY <1>2, <2>1 DEF evidence
  <2>3. PICK p \in Procs : AppendToolCall(p) \/ Snapshot(p) \/ AppendFinding(p)
    BY <2>2, EvidenceWriters
  <2>4. Running(p) /\ Top(p) \in Frames /\ Top(p).task \in Tasks /\ FrameOK(Top(p))
    BY <2>3, WritersEffect, TopFrame, TopOK
  <2>5. ~Snapshot(p)
    BY <1>2, <2>1, WritersEffect
  <2>6. ~AppendToolCall(p)
    <3> SUFFICES ASSUME AppendToolCall(p) PROVE FALSE
      OBVIOUS
    <3>1. log' = [log EXCEPT ![Top(p).task] = Append(@, ToolCall(p))]
      BY WritersEffect
    <3>2. ToolCall(p) \in Entries /\ ToolCall(p).type = "tool_call"
      BY RunEvents
    <3>3. log'[t][i] = ToolCall(p)
      BY <1>2, <2>1, <2>4, <3>1, <3>2, AppendEffect
    <3> QED
      BY <2>1, <3>2, <3>3
  <2>7. /\ AppendFinding(p) /\ Top(p).pc = "finding" /\ Top(p).cites \in SUBSET Nat
        /\ snaps' = snaps
        /\ log' = [log EXCEPT ![Top(p).task] = Append(@, Finding(p, Top(p).cites))]
    BY <2>3, <2>5, <2>6, WritersEffect DEF AppendFinding, At
  <2>8. /\ Finding(p, Top(p).cites) \in Entries
        /\ Finding(p, Top(p).cites).cites = Top(p).cites
    BY <2>7, RunEvents
  <2>9. /\ t = Top(p).task /\ log'[t][i] = Finding(p, Top(p).cites)
        /\ i = Len(log[t]) + 1 /\ Len(log[t]) \in Nat /\ DOMAIN log[t] = 1..Len(log[t])
    BY <1>2, <2>1, <2>4, <2>7, <2>8, AppendEffect
  <2>10. /\ Top(p).cites # {} /\ Top(p).cites \subseteq Top(p).seqs
         /\ Top(p).seqs \subseteq ToolCalls(t) \cap snaps[t]
    BY <2>4, <2>7, <2>9 DEF FrameOK, ValidFinding
  <2>11. ToolCalls(t) \subseteq ToolCalls(t)' /\ ToolCalls(t) \subseteq 1..Len(log[t])
    BY <1>0, <2>9 DEF Grows, ToolCalls
  <2>12. \A j \in ToolCalls(t) : j < i
    BY <2>9, <2>11
  <2> QED
    BY <2>7, <2>8, <2>9, <2>10, <2>11, <2>12
<1>3. ASSUME NEW t \in Tasks, NEW i \in Findings(t)'
      PROVE  /\ log'[t][i].cites # {}
             /\ log'[t][i].cites \subseteq {j \in ToolCalls(t)' : j < i} \cap snaps'[t]
  BY <1>1, <1>2
<1> QED
  BY <1>3 DEF FindingsHaveEvidence

\* A task is completed by a run that has recorded a finding on it.
LEMMA NextCompleted ==
  ASSUME TypeOK, FramesOK, CompletedHasFinding, [Next]_vars
  PROVE  CompletedHasFinding'
<1> SUFFICES ASSUME NEW t \in Tasks, status'[t] = "completed"
             PROVE  Findings(t)' # {}
  BY DEF CompletedHasFinding
<1>0. Grows /\ status \in [Tasks -> Statuses \cup {"absent"}]
  BY NextGrows, TypeParts DEF RestOK
<1>1. Findings(t) \subseteq Findings(t)'
  BY <1>0 DEF Grows, Findings
<1>2. CASE status[t] = "completed"
  BY <1>1, <1>2 DEF CompletedHasFinding
<1>3. CASE status[t] # "completed"
  <2>1. ~(UNCHANGED status)
    BY <1>3
  <2>2. ~\E u \in Tasks, to \in Statuses \ {"completed"} : Moves(u, to)
    BY <1>0, <1>3 DEF Moves, SetTo
  <2>3. PICK p \in Procs : At(p, "complete") /\ Moves(Top(p).task, "completed")
    BY <2>1, <2>2, NextStatus DEF StatusStep
  <2>4. Top(p).task = t
    BY <1>0, <1>3, <2>3 DEF Moves, SetTo
  <2>5. Findings(t) # {}
    BY <2>3, <2>4, TopOK DEF FrameOK, At
  <2> QED
    BY <1>1, <2>5
<1> QED
  BY <1>2, <1>3

\* The invariant holds at the start.
LEMMA InitInv == Init => Inv
<1> SUFFICES ASSUME Init PROVE Inv
  OBVIOUS
<1>1. status \in [Tasks -> Statuses \cup {"absent"}]
  BY DEF Init
<1>2. RestOK
  <2>1. <<>> \in Seq(Entries)
    OBVIOUS
  <2>2. 0 \in 0..MaxTasks
    BY InvestigationAssumption
  <2> QED
    BY <1>1, <2>1, <2>2 DEF Init, RestOK, Lease
<1>3. stack \in [Procs -> Seq(Frames)]
  BY DEF Init
<1>4. \A p \in Procs : DOMAIN stack[p] = {}
  BY DEF Init
<1>5. \A t \in Tasks : log[t] = <<>> /\ DOMAIN log[t] = {}
  BY DEF Init
<1>6. FindingsAreSound
  BY <1>5 DEF Init, FindingsAreSound, FindingsHaveEvidence, CompletedHasFinding, Findings
<1>7. AbsentOK
  BY DEF Init, AbsentOK
<1> QED
  BY <1>2, <1>3, <1>4, <1>6, <1>7, TypeParts DEF Inv, FramesOK

\* Every step keeps the invariant.
LEMMA NextInv == Inv /\ [Next]_vars => Inv'
<1> SUFFICES ASSUME Inv, [Next]_vars PROVE Inv'
  OBVIOUS
<1>1. TypeOK /\ FramesOK /\ AbsentOK /\ FindingsHaveEvidence /\ CompletedHasFinding
  BY DEF Inv, FindingsAreSound
<1>2. TypeOK'
  <2>1. RestOK' /\ stack' \in [Procs -> Seq(Frames)]
    BY <1>1, NextRest, NextFrames
  <2> QED
    BY <2>1 DEF TypeOK, RestOK, Statuses
<1> QED
  BY <1>1, <1>2, NextFrames, NextAbsent, NextEvidence, NextCompleted DEF Inv, FindingsAreSound

\* The invariant holds throughout.
LEMMA Invariance == Spec => []Inv
<1> QED
  BY InitInv, NextInv, PTL DEF Spec

\* Rows, evidence, queues and stacks keep their types in every state; in
\* particular no run passes MaxIterations.
THEOREM InvestigationTypeCorrect == Spec => []TypeOK
<1>1. Inv => TypeOK
  BY DEF Inv
<1> QED
  BY <1>1, Invariance, PTL

\* "Evidence or it did not happen" (internal/agent/runtime.go): whoever runs
\* a task, however often, and whatever crashes, every finding on its log
\* cites earlier tool calls of the same log whose results are stored, and a
\* completed task has a finding.
THEOREM EvidenceOrItDidNotHappen == Spec => []FindingsAreSound
<1>1. Inv => FindingsAreSound
  BY DEF Inv
<1> QED
  BY <1>1, Invariance, PTL

\* Every path that writes a status, of handlers, router, runtime, budget and
\* reaper, moves it along the state machine of internal/task/task.go.
THEOREM RunsFollowLifecycle == Spec => LifecycleSpec
<1>1. Init => Lifecycle!LifecycleInit
  BY DEF Init, Lifecycle!LifecycleInit
<1>2. TypeOK /\ [Next]_vars => [Lifecycle!LifecycleNext]_(Lifecycle!lifecycleVars)
  BY StepIsLifecycle
<1> QED
  BY <1>1, <1>2, InvestigationTypeCorrect, PTL
     DEF Spec, LifecycleSpec, Lifecycle!LifecycleSpec

-----------------------------------------------------------------------------
(* Budgets *)

FlightPcs == {"count", "spawn", "append"}

\* The frame i of process q is a call of t in flight.
Flies(q, i, t) == /\ i \in DOMAIN stack[q]
                  /\ stack[q][i].task = t /\ stack[q][i].pc \in FlightPcs

\* InFlight, frame by frame.
LEMMA FlightMembers ==
  ASSUME NEW t
  PROVE  /\ \A q \in Procs, i \in Nat : <<q, i>> \in InFlight(t) <=> Flies(q, i, t)
         /\ \A x \in InFlight(t) : x \in Procs \X Nat /\ x = <<x[1], x[2]>>
BY DEF InFlight, Flies, FlightPcs

\* ... and after a step.
LEMMA FlightMembersNext ==
  ASSUME NEW t
  PROVE  /\ \A q \in Procs, i \in Nat : <<q, i>> \in InFlight(t)' <=> Flies(q, i, t)'
         /\ \A x \in InFlight(t)' : x \in Procs \X Nat /\ x = <<x[1], x[2]>>
BY DEF InFlight, Flies, FlightPcs

\* Frames that go on where they were, or vanish.
LEMMA FlightShrinks ==
  ASSUME NEW t, \A q \in Procs, i \in Nat : Flies(q, i, t)' => Flies(q, i, t)
  PROVE  InFlight(t)' \subseteq InFlight(t)
<1>1. ASSUME NEW x \in InFlight(t)' PROVE x \in InFlight(t)
  <2>1. x \in Procs \X Nat /\ x = <<x[1], x[2]>>
    BY FlightMembersNext
  <2>2. PICK q \in Procs, i \in Nat : x = <<q, i>>
    BY <2>1
  <2> QED
    BY <1>1, <2>2, FlightMembers, FlightMembersNext
<1> QED
  BY <1>1

\* The top frame goes on: only its own flight can begin or end.
LEMMA FlightGo ==
  ASSUME TypeOK, NEW p \in Procs, Running(p), NEW g \in Frames, Go(p, g), NEW t
  PROVE  LET x == <<p, Len(stack[p])>>
         IN  /\ InFlight(t)' \ {x} = InFlight(t) \ {x}
             /\ x \in InFlight(t) <=> Top(p).task = t /\ Top(p).pc \in FlightPcs
             /\ x \in InFlight(t)' <=> g.task = t /\ g.pc \in FlightPcs
<1>1. PICK n \in Nat : n = Len(stack[p]) /\ n \in DOMAIN stack[p] /\ Top(p) = stack[p][n]
  BY TopFrame
<1> DEFINE x == <<p, n>>
<1>2. /\ \A q \in Procs : DOMAIN stack'[q] = DOMAIN stack[q]
      /\ \A q \in Procs : \A i \in DOMAIN stack[q] :
           stack'[q][i] = IF q = p /\ i = n THEN g ELSE stack[q][i]
  <2>1. /\ \A q \in Procs : DOMAIN stack'[q] = DOMAIN stack[q]
        /\ \A q \in Procs : \A i \in DOMAIN stack[q] :
             stack'[q][i] = IF q = p /\ i = Len(stack[p]) THEN g ELSE stack[q][i]
    BY GoEffect
  <2> QED
    BY <1>1, <2>1
<1>3. ASSUME NEW q \in Procs, NEW i \in Nat, <<q, i>> # x
      PROVE  Flies(q, i, t)' <=> Flies(q, i, t)
  <2>1. ~(q = p /\ i = n)
    BY <1>3
  <2>2. DOMAIN stack'[q] = DOMAIN stack[q]
    BY <1>2
  <2>3. i \in DOMAIN stack[q] => stack'[q][i] = stack[q][i]
    BY <1>2, <2>1
  <2> QED
    BY <2>2, <2>3 DEF Flies
<1>4. ASSUME NEW y, y # x
      PROVE  y \in InFlight(t)' <=> y \in InFlight(t)
  <2>1. CASE y \in Procs \X Nat
    <3>1. PICK q \in Procs, i \in Nat : y = <<q, i>>
      BY <2>1
    <3> QED
      BY <1>3, <1>4, <3>1, FlightMembers, FlightMembersNext
  <2>2. CASE y \notin Procs \X Nat
    BY <2>2, FlightMembers, FlightMembersNext
  <2> QED
    BY <2>1, <2>2
<1>5. x \in InFlight(t) <=> Top(p).task = t /\ Top(p).pc \in FlightPcs
  BY <1>1, FlightMembers DEF Flies
<1>6. x \in InFlight(t)' <=> Flies(p, n, t)'
  BY FlightMembersNext
<1>7. Flies(p, n, t)' <=> g.task = t /\ g.pc \in FlightPcs
  BY <1>1, <1>2 DEF Flies
<1>8. InFlight(t)' \ {x} = InFlight(t) \ {x}
  BY <1>4
<1> QED
  BY <1>1, <1>5, <1>6, <1>7, <1>8

\* A run that ends takes its call along.
LEMMA FlightReturn ==
  ASSUME TypeOK, NEW p \in Procs, Running(p), Return(p), NEW t
  PROVE  InFlight(t)' \subseteq InFlight(t)
<1>1. \A q \in Procs : \A i \in DOMAIN stack'[q] :
         i \in DOMAIN stack[q] /\ stack'[q][i] = stack[q][i]
  BY ReturnEffect
<1>2. ASSUME NEW q \in Procs, NEW i \in Nat, Flies(q, i, t)'
      PROVE  Flies(q, i, t)
  BY <1>1, <1>2 DEF Flies
<1> QED
  BY <1>2, FlightShrinks

\* A process that starts has nothing in flight yet.
LEMMA FlightStart ==
  ASSUME TypeOK, NEW p \in Procs, ~Running(p), NEW u \in Tasks, NEW pc \in {"get", "assign"},
         stack' = [stack EXCEPT ![p] = <<Frame(u, pc)>>], NEW t
  PROVE  InFlight(t)' \subseteq InFlight(t)
<1>1. pc \in Pcs
  BY DEF Pcs
<1>2. Frame(u, pc) \in Frames /\ Frame(u, pc).pc = pc
  BY <1>1, NewFrame
<1>3. /\ DOMAIN stack'[p] = {1} /\ stack'[p][1] = Frame(u, pc)
      /\ \A q \in Procs : q # p => stack'[q] = stack[q]
  BY <1>2, StartEffect
<1>4. ASSUME NEW q \in Procs, NEW i \in Nat, Flies(q, i, t)'
      PROVE  Flies(q, i, t)
  <2>1. q # p
    BY <1>2, <1>3, <1>4 DEF Flies, FlightPcs
  <2> QED
    BY <1>3, <1>4, <2>1 DEF Flies
<1> QED
  BY <1>4, FlightShrinks

\* The parent's call stays in flight while its subagent runs.
LEMMA FlightSpawn ==
  ASSUME TypeOK, NEW p \in Procs, NEW c \in Tasks, Spawn(p, c), NEW t
  PROVE  InFlight(t)' \subseteq InFlight(t)
<1>1. Running(p) /\ Top(p).pc = "spawn"
  BY DEF Spawn, At
<1>2. Top(p) \in Frames
  BY <1>1, TopFrame
<1>3. "append" \in Pcs /\ "assign" \in Pcs
  BY DEF Pcs
<1>4. PICK g \in Frames : g = [Top(p) EXCEPT !.pc = "append"]
  BY <1>2, <1>3, FrameRecords
<1>5. PICK f \in Frames : f = Frame(c, "assign") /\ f.pc = "assign"
  BY <1>3, NewFrame
<1>6. g.task = Top(p).task
  BY <1>2, <1>4 DEF Frames
<1>7. stack' = [stack EXCEPT ![p] = Append(Front(@), g) \o <<f>>]
  BY <1>4, <1>5 DEF Spawn
<1>8. \A q \in Procs : \A i \in DOMAIN stack'[q] :
         /\ i \in DOMAIN stack[q] \/ (q = p /\ i = Len(stack[p]) + 1)
         /\ q = p /\ i = Len(stack[p]) => stack'[q][i] = g
         /\ q = p /\ i = Len(stack[p]) + 1 /\ i # Len(stack[p]) => stack'[q][i] = f
         /\ ~(q = p /\ i \in {Len(stack[p]), Len(stack[p]) + 1}) => stack'[q][i] = stack[q][i]
  <2>1. Spawned(p, g, f)
    BY <1>1, <1>7, SpawnEffect
  <2> QED
    BY <2>1 DEF Spawned
<1>9. Len(stack[p]) \in Nat /\ Len(stack[p]) \in DOMAIN stack[p] /\ Top(p) = stack[p][Len(stack[p])]
  BY <1>1, TopFrame
<1>10. ASSUME NEW q \in Procs, NEW i \in Nat, Flies(q, i, t)'
       PROVE  Flies(q, i, t)
  <2>1. i \in DOMAIN stack'[q] /\ stack'[q][i].task = t /\ stack'[q][i].pc \in FlightPcs
    BY <1>10 DEF Flies
  <2>2. CASE q = p /\ i = Len(stack[p])
    <3>1. stack'[q][i] = g
      BY <1>8, <2>1, <2>2
    <3> QED
      BY <1>1, <1>6, <1>9, <2>1, <2>2, <3>1 DEF Flies, FlightPcs
  <2>3. ~(q = p /\ i = Len(stack[p]) + 1)
    <3> SUFFICES ASSUME q = p, i = Len(stack[p]) + 1 PROVE FALSE
      OBVIOUS
    <3>1. stack'[q][i] = f
      BY <1>8, <1>9, <2>1
    <3> QED
      BY <1>5, <2>1, <3>1 DEF FlightPcs
  <2>4. CASE ~(q = p /\ i = Len(stack[p]))
    <3>1. i \in DOMAIN stack[q] /\ stack'[q][i] = stack[q][i]
      BY <1>8, <2>1, <2>3, <2>4
    <3> QED
      BY <2>1, <3>1 DEF Flies
  <2> QED
    BY <2>2, <2>4
<1> QED
  BY <1>10, FlightShrinks

\* A run that goes on with nothing new in flight.
LEMMA FlightCalm ==
  ASSUME TypeOK, NEW p \in Procs, Running(p), NEW g \in Frames, Go(p, g), NEW t,
         g.pc \notin FlightPcs \/ (Top(p).pc \in FlightPcs /\ g.task = Top(p).task)
  PROVE  InFlight(t)' \subseteq InFlight(t)
<1> DEFINE x == <<p, Len(stack[p])>>
<1>1. /\ InFlight(t)' \ {x} = InFlight(t) \ {x}
      /\ x \in InFlight(t) <=> Top(p).task = t /\ Top(p).pc \in FlightPcs
      /\ x \in InFlight(t)' <=> g.task = t /\ g.pc \in FlightPcs
  BY FlightGo
<1> HIDE DEF x
<1> QED
  BY <1>1

\* All steps but two leave no more calls in flight than there were.
LEMMA NothingTakesOff ==
  ASSUME TypeOK, FramesOK, [Next]_vars, NEW t,
         ~\E p \in Procs : ToolCallStep(p)
  PROVE  InFlight(t)' \subseteq InFlight(t)
<1>1. CASE UNCHANGED stack
  BY <1>1, FlightShrinks DEF Flies
<1>2. ASSUME NEW p \in Procs, Running(p), NEW pc \in Pcs, Go(p, [Top(p) EXCEPT !.pc = pc]),
             pc \notin FlightPcs \/ Top(p).pc \in FlightPcs
      PROVE  InFlight(t)' \subseteq InFlight(t)
  <2>1. Top(p) \in Frames
    BY <1>2, TopFrame
  <2>2. PICK g \in Frames : g = [Top(p) EXCEPT !.pc = pc]
    BY <2>1, FrameRecords
  <2>3. g.task = Top(p).task /\ g.pc = pc
    BY <2>1, <2>2 DEF Frames
  <2>4. Go(p, g)
    BY <1>2, <2>2
  <2> QED
    BY <1>2, <2>3, <2>4, FlightCalm
<1>3. ASSUME NEW p \in Procs, Running(p), NEW g \in Frames, Go(p, g), g.pc \notin FlightPcs
      PROVE  InFlight(t)' \subseteq InFlight(t)
  BY <1>3, FlightCalm
<1>4. /\ {"get", "claim", "loop", "park", "complete"} \subseteq Pcs
      /\ {"count", "spawn", "append"} \subseteq Pcs
      /\ {"get", "claim", "loop", "park", "complete", "chat", "tool", "finding", "snapshot"}
           \cap FlightPcs = {}
  BY DEF Pcs, FlightPcs
<1>5. ASSUME NEW p \in Procs, Run(p) \/ StatementFails(p)
      PROVE  InFlight(t)' \subseteq InFlight(t)
  <2>0. ~ToolCallStep(p)
    OBVIOUS
  <2>1. Running(p)
    BY <1>5 DEF Run, Assign, Get, Claim, GiveUp, Park, Loop, ChatOverBudget, Chat, ToolCallStep,
                CountChildren, Spawn, AppendToolCall, Snapshot, AppendFinding, Complete, At,
                StatementFails
  <2>2. Top(p) \in Frames /\ Top(p).task \in Tasks /\ FrameOK(Top(p))
    BY <2>1, TopFrame, TopOK
  <2>3. CASE Return(p)
    BY <2>1, <2>3, FlightReturn
  <2>4. CASE Assign(p) \/ Claim(p) \/ GiveUp(p) \/ Park(p) \/ ChatOverBudget(p) \/ Complete(p)
             \/ AppendFinding(p)
    BY <1>2, <1>4, <2>1, <2>3, <2>4
       DEF Assign, Claim, GiveUp, Park, ChatOverBudget, Complete, AppendFinding
  <2>5. CASE Get(p)
    <3> DEFINE n == spent[Top(p).task]
    <3>1. n \in Nat
      BY <2>2 DEF TypeOK
    <3>2. \/ \E pc \in {"park", "claim", "loop"} :
               Go(p, [[Top(p) EXCEPT !.spentAtStart = n] EXCEPT !.pc = pc])
          \/ Return(p)
      BY <2>5 DEF Get
    <3> HIDE DEF n
    <3>3. ASSUME NEW pc \in {"park", "claim", "loop"},
                 Go(p, [[Top(p) EXCEPT !.spentAtStart = n] EXCEPT !.pc = pc])
          PROVE  InFlight(t)' \subseteq InFlight(t)
      <4>1. PICK g \in Frames : g = [[Top(p) EXCEPT !.spentAtStart = n] EXCEPT !.pc = pc]
        BY <1>4, <2>2, <3>1, FrameRecords
      <4>2. g.pc = pc
        BY <2>2, <4>1 DEF Frames
      <4>3. Go(p, g)
        BY <3>3, <4>1
      <4> QED
        BY <1>3, <1>4, <2>1, <4>2, <4>3
    <3> QED
      BY <2>3, <3>2, <3>3
  <2>6. CASE Loop(p)
    <3>1. Top(p).iter < MaxIterations /\ Go(p, [Top(p) EXCEPT !.pc = "chat", !.iter = @ + 1])
      BY <2>6 DEF Loop
    <3>2. PICK g \in Frames : g = [Top(p) EXCEPT !.pc = "chat", !.iter = @ + 1]
      BY <2>2, <3>1, FrameRecords
    <3>3. g.pc = "chat" /\ Go(p, g)
      BY <2>2, <3>1, <3>2 DEF Frames
    <3> QED
      BY <1>3, <1>4, <2>1, <3>3
  <2>7. CASE Chat(p)
    <3>1. ASSUME NEW n \in 1..MaxCalls, Go(p, [Top(p) EXCEPT !.pc = "tool", !.calls = n])
          PROVE  InFlight(t)' \subseteq InFlight(t)
      <4>1. PICK g \in Frames : g = [Top(p) EXCEPT !.pc = "tool", !.calls = n]
        BY <2>2, FrameRecords
      <4>2. g.pc = "tool" /\ Go(p, g)
        BY <2>2, <3>1, <4>1 DEF Frames
      <4> QED
        BY <1>3, <1>4, <2>1, <4>2
    <3>2. ASSUME NEW S \in SUBSET (DOMAIN log[Top(p).task]),
                 Go(p, [Top(p) EXCEPT !.pc = "finding", !.cites = S])
          PROVE  InFlight(t)' \subseteq InFlight(t)
      <4>1. log[Top(p).task] \in Seq(Entries)
        BY <2>2 DEF TypeOK
      <4>2. S \in SUBSET Nat
        BY <4>1
      <4>3. PICK g \in Frames : g = [Top(p) EXCEPT !.pc = "finding", !.cites = S]
        BY <2>2, <4>2, FrameRecords
      <4>4. g.pc = "finding" /\ Go(p, g)
        BY <2>2, <3>2, <4>3 DEF Frames
      <4> QED
        BY <1>3, <1>4, <2>1, <4>4
    <3> QED
      BY <1>2, <1>4, <2>1, <2>7, <3>1, <3>2 DEF Chat
  <2>8. CASE CountChildren(p)
    BY <1>2, <1>4, <2>1, <2>8 DEF CountChildren, At, FlightPcs
  <2>9. CASE StatementFails(p)
    BY <1>2, <1>4, <2>1, <2>3, <2>9 DEF StatementFails, FlightPcs
  <2>10. ASSUME NEW c \in Tasks, Spawn(p, c)
         PROVE  InFlight(t)' \subseteq InFlight(t)
    BY <2>10, FlightSpawn
  <2>11. CASE AppendToolCall(p)
    <3>1. Go(p, [Top(p) EXCEPT !.pc = "snapshot", !.seq = Len(log[Top(p).task]) + 1])
      BY <2>11 DEF AppendToolCall
    <3>2. PICK n \in Nat : n = Len(log[Top(p).task]) + 1
      BY <2>2 DEF TypeOK
    <3>3. PICK g \in Frames : g = [Top(p) EXCEPT !.pc = "snapshot", !.seq = n]
      BY <2>2, FrameRecords
    <3>4. g.pc = "snapshot" /\ Go(p, g)
      BY <2>2, <3>1, <3>2, <3>3 DEF Frames
    <3> QED
      BY <1>3, <1>4, <2>1, <3>4
  <2>12. CASE Snapshot(p)
    <3>1. PICK pc \in {"tool", "loop"} : pc = (IF Top(p).calls > 1 THEN "tool" ELSE "loop")
      OBVIOUS
    <3>2. Top(p).calls # 0
      BY <2>2, <2>12 DEF Snapshot, At, FrameOK, CallPcs
    <3>3. PICK g \in Frames :
            g = [Top(p) EXCEPT !.seqs = @ \cup {Top(p).seq}, !.calls = @ - 1, !.pc = pc]
      BY <2>2, <3>2, FrameRecords
    <3>4. g.pc = pc
      BY <2>2, <3>3 DEF Frames
    <3>5. Go(p, g)
      BY <2>12, <3>1, <3>3 DEF Snapshot
    <3> QED
      BY <1>3, <1>4, <2>1, <3>4, <3>5
  <2> QED
    BY <1>5, <2>0, <2>4, <2>5, <2>6, <2>7, <2>8, <2>9, <2>10, <2>11, <2>12 DEF Run
<1>6. ASSUME NEW p \in Procs, Crash(p)
      PROVE  InFlight(t)' \subseteq InFlight(t)
  <2>1. stack' = [stack EXCEPT ![p] = <<>>]
    BY <1>6 DEF Crash
  <2>2. DOMAIN stack'[p] = {} /\ \A q \in Procs : q # p => stack'[q] = stack[q]
    BY <2>1, StopEffect
  <2>3. ASSUME NEW q \in Procs, NEW i \in Nat, Flies(q, i, t)'
        PROVE  Flies(q, i, t)
    BY <2>2, <2>3 DEF Flies
  <2> QED
    BY <2>3, FlightShrinks
<1>7. ASSUME NEW p \in Servers, Dispatch(p)
      PROVE  InFlight(t)' \subseteq InFlight(t)
  <2>1. PICK u \in queue[p] : stack' = [stack EXCEPT ![p] = <<Frame(u, "get")>>]
    BY <1>7 DEF Dispatch
  <2>2. p \in Procs /\ ~Running(p) /\ u \in Tasks
    BY <1>7, <2>1 DEF Dispatch, Procs, TypeOK
  <2> QED
    BY <2>1, <2>2, FlightStart
<1>8. ASSUME NEW p \in Replayers, NEW orig \in Tasks, NEW u \in Tasks, Rerun(p, orig, u)
      PROVE  InFlight(t)' \subseteq InFlight(t)
  <2>1. /\ p \in Procs /\ ~Running(p)
        /\ stack' = [stack EXCEPT ![p] = <<Frame(u, "assign")>>]
    BY <1>8 DEF Rerun, Procs
  <2> QED
    BY <2>1, FlightStart
<1> QED
  BY <1>1, <1>5, <1>6, <1>7, <1>8, StackWriters

\* Recorded calls can be counted.
LEMMA CallsCount ==
  ASSUME TypeOK, NEW t \in Tasks
  PROVE  IsFiniteSet(ToolCalls(t)) /\ Cardinality(ToolCalls(t)) \in Nat
<1>1. Len(log[t]) \in Nat /\ DOMAIN log[t] = 1..Len(log[t])
  BY DEF TypeOK
<1>2. IsFiniteSet(1..Len(log[t]))
  <2>1. 1 \in Int /\ Len(log[t]) \in Int
    BY <1>1
  <2> QED
    BY <2>1, FS_Interval, Zenon
<1>3. ToolCalls(t) \subseteq 1..Len(log[t])
  BY <1>1 DEF ToolCalls
<1>4. IsFiniteSet(ToolCalls(t))
  BY <1>2, <1>3, FS_Subset
<1> QED
  BY <1>4, FS_CardinalityType

\* Nothing more is owed, and no less is paid.
LEMMA StaysWithin ==
  ASSUME TypeOK, TypeOK', NEW t \in Tasks, PaidWithin(t),
         InFlight(t)' \subseteq InFlight(t), ToolCalls(t)' = ToolCalls(t),
         spent'[t] >= spent[t], cap'[t] = cap[t]
  PROVE  PaidWithin(t)'
<1>1. /\ IsFiniteSet(InFlight(t)) /\ IsFiniteSet(InFlight(t)')
      /\ Cardinality(InFlight(t)') <= Cardinality(InFlight(t))
  BY FS_Subset DEF PaidWithin
<1>2. Cardinality(InFlight(t)) \in Nat /\ Cardinality(InFlight(t)') \in Nat
  BY <1>1, FS_CardinalityType
<1>3. Cardinality(ToolCalls(t)) \in Nat /\ spent[t] \in Nat /\ spent'[t] \in Nat /\ cap[t] \in Nat
  BY CallsCount DEF TypeOK
<1>4. Cardinality(ToolCalls(t)') = Cardinality(ToolCalls(t))
  OBVIOUS
<1> QED
  BY <1>1, <1>2, <1>3, <1>4 DEF PaidWithin

\* A row that appears has nothing recorded and nothing in flight.
LEMMA BlankIsWithin ==
  ASSUME TypeOK', NEW t \in Tasks, InFlight(t)' = {}, ToolCalls(t)' = {}
  PROVE  PaidWithin(t)'
<1>1. IsFiniteSet({}) /\ Cardinality({}) = 0
  BY FS_EmptySet
<1>2. IsFiniteSet(InFlight(t)') /\ Cardinality(InFlight(t)') = 0 /\ Cardinality(ToolCalls(t)') = 0
  BY <1>1
<1>3. spent'[t] \in Nat /\ cap'[t] \in Nat
  BY DEF TypeOK
<1> QED
  BY <1>2, <1>3 DEF PaidWithin

\* A call is paid for: SpendToolCall counts it, refuses it at the cap, or
\* lets it fly.
LEMMA PaysWithin ==
  ASSUME TypeOK, TypeOK', FramesOK, BudgetInv, NEW p \in Procs, ToolCallStep(p)
  PROVE  BudgetInv'
<1>1. Running(p) /\ Top(p).pc = "tool"
  BY DEF ToolCallStep, At
<1>2. Top(p) \in Frames /\ Top(p).task \in Tasks
  BY <1>1, TopFrame
<1>3. PICK t \in Tasks : t = Top(p).task
  BY <1>2
<1>4. /\ spent' = [spent EXCEPT ![t] = @ + 1] /\ cap' = cap /\ log' = log
      /\ \/ Return(p)
         \/ /\ ~OverCap(t)
            /\ \E pc \in {"append", "count"} : Go(p, [Top(p) EXCEPT !.pc = pc])
  BY <1>3 DEF ToolCallStep, evidence
<1>5. /\ spent'[t] = spent[t] + 1
      /\ \A u \in Tasks : spent[u] \in Nat /\ cap[u] \in Nat /\ spent'[u] >= spent[u]
  BY <1>4 DEF TypeOK
<1>6. \A u \in Tasks : ToolCalls(u)' = ToolCalls(u)
  BY <1>4 DEF ToolCalls
<1>7. ASSUME NEW u \in Tasks, InFlight(u)' \subseteq InFlight(u)
      PROVE  PaidWithin(u)'
  <2>1. cap'[u] = cap[u] /\ PaidWithin(u)
    BY <1>4 DEF BudgetInv
  <2> QED
    BY <1>5, <1>6, <1>7, <2>1, StaysWithin
<1>8. CASE Return(p)
  <2>1. \A u \in Tasks : InFlight(u)' \subseteq InFlight(u)
    BY <1>1, <1>8, FlightReturn
  <2> QED
    BY <1>7, <2>1 DEF BudgetInv
<1>9. ASSUME ~OverCap(t), NEW pc \in {"append", "count"}, Go(p, [Top(p) EXCEPT !.pc = pc])
      PROVE  BudgetInv'
  <2>1. pc \in Pcs /\ pc \in FlightPcs /\ "tool" \notin FlightPcs
    BY DEF Pcs, FlightPcs
  <2>2. PICK g \in Frames : g = [Top(p) EXCEPT !.pc = pc]
    BY <1>2, <2>1, FrameRecords
  <2>3. g.task = t /\ g.pc = pc /\ Go(p, g)
    BY <1>2, <1>3, <1>9, <2>2 DEF Frames
  <2>4. PICK x : x = <<p, Len(stack[p])>>
    OBVIOUS
  <2>5. \A u : /\ InFlight(u)' \ {x} = InFlight(u) \ {x}
               /\ x \notin InFlight(u)
               /\ x \in InFlight(u)' <=> u = t
    <3>1. ASSUME NEW u
          PROVE  /\ InFlight(u)' \ {x} = InFlight(u) \ {x}
                 /\ x \in InFlight(u) <=> Top(p).task = u /\ Top(p).pc \in FlightPcs
                 /\ x \in InFlight(u)' <=> g.task = u /\ g.pc \in FlightPcs
      BY <1>1, <2>3, <2>4, FlightGo
    <3> QED
      BY <1>1, <2>1, <2>3, <3>1
  <2>6. \A u \in Tasks : u # t => PaidWithin(u)'
    <3>1. \A u \in Tasks : u # t => InFlight(u)' \subseteq InFlight(u)
      BY <2>5
    <3> QED
      BY <1>7, <3>1
  <2>7. PaidWithin(t)'
    <3>1. InFlight(t)' = InFlight(t) \cup {x} /\ x \notin InFlight(t)
      BY <2>5
    <3>2. PaidWithin(t)
      BY DEF BudgetInv
    <3>3. /\ IsFiniteSet(InFlight(t)) /\ IsFiniteSet(InFlight(t)')
          /\ Cardinality(InFlight(t)') = Cardinality(InFlight(t)) + 1
      BY <3>1, <3>2, FS_AddElement DEF PaidWithin
    <3>4. Cardinality(InFlight(t)) \in Nat /\ Cardinality(ToolCalls(t)) \in Nat
      BY <3>3, FS_CardinalityType, CallsCount
    <3>5. Cardinality(ToolCalls(t)') = Cardinality(ToolCalls(t)) /\ cap'[t] = cap[t]
      BY <1>4, <1>6
    <3>6. cap[t] > 0 => spent[t] + 1 <= cap[t]
      BY <1>5, <1>9 DEF OverCap
    <3>7. Cardinality(ToolCalls(t)) + Cardinality(InFlight(t)) <= spent[t]
      BY <3>2 DEF PaidWithin
    <3> QED
      BY <1>5, <3>3, <3>4, <3>5, <3>6, <3>7 DEF PaidWithin
  <2> QED
    BY <2>6, <2>7 DEF BudgetInv
<1> QED
  BY <1>4, <1>8, <1>9

\* A call lands: what was in flight is recorded.
LEMMA LandsWithin ==
  ASSUME TypeOK, TypeOK', FramesOK, BudgetInv, NEW p \in Procs, AppendToolCall(p)
  PROVE  BudgetInv'
<1>1. Running(p) /\ Top(p).pc = "append"
  BY DEF AppendToolCall, At
<1>2. Top(p) \in Frames /\ Top(p).task \in Tasks
  BY <1>1, TopFrame
<1>3. PICK t \in Tasks : t = Top(p).task
  BY <1>2
<1>4. /\ spent' = spent /\ cap' = cap
      /\ log' = [log EXCEPT ![t] = Append(@, ToolCall(p))]
      /\ Go(p, [Top(p) EXCEPT !.pc = "snapshot", !.seq = Len(log[t]) + 1])
  BY <1>3 DEF AppendToolCall, rows
<1>5. ToolCall(p) \in Entries /\ ToolCall(p).type = "tool_call"
  BY RunEvents
<1>6. /\ Len(log[t]) \in Nat /\ DOMAIN log[t] = 1..Len(log[t])
      /\ DOMAIN log'[t] = DOMAIN log[t] \cup {Len(log[t]) + 1}
      /\ log'[t][Len(log[t]) + 1] = ToolCall(p)
      /\ \A i \in DOMAIN log[t] : log'[t][i] = log[t][i]
      /\ \A u \in Tasks : u # t => log'[u] = log[u]
  BY <1>4, <1>5, AppendEffect
<1>7. PICK n \in Nat : n = Len(log[t]) + 1
  BY <1>6
<1>8. ToolCalls(t)' = ToolCalls(t) \cup {n} /\ n \notin ToolCalls(t)
  BY <1>5, <1>6, <1>7 DEF ToolCalls
<1>9. \A u \in Tasks : u # t => ToolCalls(u)' = ToolCalls(u)
  BY <1>6 DEF ToolCalls
<1>10. PICK g \in Frames : g = [Top(p) EXCEPT !.pc = "snapshot", !.seq = n]
  BY <1>2, FrameRecords
<1>11. g.task = t /\ g.pc = "snapshot" /\ Go(p, g)
  BY <1>2, <1>3, <1>4, <1>7, <1>10 DEF Frames
<1>12. PICK x : x = <<p, Len(stack[p])>>
  OBVIOUS
<1>13. "snapshot" \notin FlightPcs /\ "append" \in FlightPcs
  BY DEF FlightPcs
<1>14. \A u : /\ InFlight(u)' \ {x} = InFlight(u) \ {x}
              /\ x \in InFlight(u) <=> u = t
              /\ x \notin InFlight(u)'
  <2>1. ASSUME NEW u
        PROVE  /\ InFlight(u)' \ {x} = InFlight(u) \ {x}
               /\ x \in InFlight(u) <=> Top(p).task = u /\ Top(p).pc \in FlightPcs
               /\ x \in InFlight(u)' <=> g.task = u /\ g.pc \in FlightPcs
    BY <1>1, <1>11, <1>12, FlightGo
  <2> QED
    BY <1>1, <1>3, <1>11, <1>13, <2>1
<1>15. ASSUME NEW u \in Tasks, u # t
       PROVE  PaidWithin(u)'
  <2>1. InFlight(u)' \subseteq InFlight(u) /\ ToolCalls(u)' = ToolCalls(u) /\ PaidWithin(u)
    BY <1>9, <1>14, <1>15 DEF BudgetInv
  <2>2. spent'[u] >= spent[u] /\ cap'[u] = cap[u]
    BY <1>4 DEF TypeOK
  <2> QED
    BY <2>1, <2>2, StaysWithin
<1>16. PaidWithin(t)'
  <2>1. PaidWithin(t) /\ InFlight(t)' = InFlight(t) \ {x} /\ x \in InFlight(t)
    BY <1>14 DEF BudgetInv
  <2>2. /\ IsFiniteSet(InFlight(t)) /\ IsFiniteSet(InFlight(t)')
        /\ Cardinality(InFlight(t)') = Cardinality(InFlight(t)) - 1
    BY <2>1, FS_RemoveElement DEF PaidWithin
  <2>3. Cardinality(ToolCalls(t)') = Cardinality(ToolCalls(t)) + 1
    BY <1>8, CallsCount, FS_AddElement
  <2>4. Cardinality(InFlight(t)) \in Nat /\ Cardinality(ToolCalls(t)) \in Nat
    BY <2>2, FS_CardinalityType, CallsCount
  <2>5. spent'[t] = spent[t] /\ cap'[t] = cap[t] /\ spent[t] \in Nat /\ cap[t] \in Nat
    BY <1>4 DEF TypeOK
  <2> QED
    BY <2>1, <2>2, <2>3, <2>4, <2>5 DEF PaidWithin
<1> QED
  BY <1>15, <1>16 DEF BudgetInv

\* A cap is written once, when the row appears.
LEMMA CapWriters ==
  ASSUME TypeOK, [Next]_vars, NEW t \in Tasks, cap'[t] # cap[t]
  PROVE  status[t] = "absent"
<1>1. ASSUME NEW c \in Tasks, NEW n, Insert(c, n)
      PROVE  status[t] = "absent"
  <2>1. cap' = [cap EXCEPT ![c] = n] /\ status[c] = "absent"
    BY <1>1 DEF Insert, Fresh, Absent
  <2> QED
    BY <2>1 DEF TypeOK
<1>2. ASSUME NEW p \in Procs, Run(p) \/ StatementFails(p) \/ Crash(p)
      PROVE  status[t] = "absent"
  <2>1. \/ UNCHANGED cap
        \/ \E c \in Tasks : Insert(c, Monus(cap[Top(p).task], Top(p).spentAtStart) \div 2)
    BY <1>2 DEF Run, Assign, Get, Claim, GiveUp, Park, Loop, ChatOverBudget, Chat, AppendToolCall,
                Snapshot, AppendFinding, CountChildren, Spawn, Complete, ToolCallStep,
                StatementFails, Crash, rows
  <2> QED
    BY <1>1, <2>1
<1>3. ASSUME NEW p \in Servers, NEW u \in Tasks,
             Intake(p, u) \/ Handle(p, u) \/ Requeue(p, u) \/ ReapTask(p, u)
      PROVE  status[t] = "absent"
  <2>1. UNCHANGED cap \/ Insert(u, ToolBudget)
    BY <1>3 DEF Intake, Handle, RouteAssign, RouteFails, RoutePark, RouteParked, Requeued,
                Requeue, ReapTask, rows
  <2> QED
    BY <1>1, <2>1
<1>4. ASSUME NEW p \in Replayers, NEW orig \in Tasks, NEW u \in Tasks, Rerun(p, orig, u)
      PROVE  status[t] = "absent"
  BY <1>1, <1>4 DEF Rerun
<1>5. ASSUME NEW p \in Servers, Tick(p) \/ Dispatch(p) \/ ReapSelect(p)
      PROVE  UNCHANGED cap
  BY <1>5 DEF Tick, Dispatch, ReapSelect, rows
<1>6. ASSUME NEW u \in Tasks, Cancel(u) \/ LapseUnattended(u) \/ LapseSlow(u)
      PROVE  UNCHANGED cap
  BY <1>6 DEF Cancel, LapseUnattended, LapseSlow, LeaseLapses
<1>7. ASSUME Reload \/ UNCHANGED vars
      PROVE  UNCHANGED cap
  BY <1>7 DEF Reload, vars, rows
<1> QED
  BY <1>2, <1>3, <1>4, <1>5, <1>6, <1>7 DEF Next

\* Recorded calls: no other step adds one.
LEMMA CallWriters ==
  ASSUME TypeOK, [Next]_vars, ~\E p \in Procs : AppendToolCall(p), NEW t \in Tasks
  PROVE  ToolCalls(t)' = ToolCalls(t)
<1>1. CASE UNCHANGED log
  BY <1>1 DEF ToolCalls
<1>2. ASSUME NEW p \in Procs, AppendFinding(p)
      PROVE  ToolCalls(t)' = ToolCalls(t)
  <2>1. /\ Top(p).task \in Tasks /\ Top(p).cites \in SUBSET Nat
        /\ log' = [log EXCEPT ![Top(p).task] = Append(@, Finding(p, Top(p).cites))]
    BY <1>2, WritersEffect, TopFrame
  <2>2. /\ Finding(p, Top(p).cites) \in Entries
        /\ Finding(p, Top(p).cites).type # "tool_call"
    BY <2>1, RunEvents
  <2>3. CASE t # Top(p).task
    BY <2>1, <2>2, <2>3, AppendEffect DEF ToolCalls
  <2>4. CASE t = Top(p).task
    <3>1. /\ Len(log[t]) \in Nat /\ DOMAIN log[t] = 1..Len(log[t])
          /\ DOMAIN log'[t] = DOMAIN log[t] \cup {Len(log[t]) + 1}
          /\ log'[t][Len(log[t]) + 1] = Finding(p, Top(p).cites)
          /\ \A i \in DOMAIN log[t] : log'[t][i] = log[t][i]
      BY <2>1, <2>2, <2>4, AppendEffect
    <3> QED
      BY <2>2, <3>1 DEF ToolCalls
  <2> QED
    BY <2>3, <2>4
<1>3. UNCHANGED log \/ \E p \in Procs : AppendFinding(p)
  <2>1. CASE UNCHANGED evidence
    BY <2>1 DEF evidence
  <2> QED
    BY <2>1, EvidenceWriters, WritersEffect
<1> QED
  BY <1>1, <1>2, <1>3

\* Every step keeps what is recorded and in flight within what is paid.
LEMMA NextBudget == Inv /\ BudgetInv /\ [Next]_vars => BudgetInv'
<1> SUFFICES ASSUME Inv, BudgetInv, [Next]_vars PROVE BudgetInv'
  OBVIOUS
<1>1. TypeOK /\ FramesOK /\ AbsentOK /\ Inv'
  BY NextInv DEF Inv
<1>2. TypeOK'
  BY <1>1 DEF Inv
<1>3. CASE \E p \in Procs : ToolCallStep(p)
  BY <1>1, <1>2, <1>3, PaysWithin
<1>4. CASE \E p \in Procs : AppendToolCall(p)
  BY <1>1, <1>2, <1>4, LandsWithin
<1>5. ASSUME ~\E p \in Procs : ToolCallStep(p), ~\E p \in Procs : AppendToolCall(p),
             NEW t \in Tasks
      PROVE  PaidWithin(t)'
  <2>1. /\ InFlight(t)' \subseteq InFlight(t) /\ ToolCalls(t)' = ToolCalls(t)
        /\ spent' = spent /\ PaidWithin(t)
    BY <1>1, <1>5, NothingTakesOff, CallWriters, SpentWriters DEF BudgetInv
  <2>2. CASE cap'[t] = cap[t]
    <3>1. spent'[t] >= spent[t]
      BY <1>1, <2>1 DEF TypeOK
    <3> QED
      BY <1>1, <1>2, <2>1, <2>2, <3>1, StaysWithin
  <2>3. CASE cap'[t] # cap[t]
    <3>1. status[t] = "absent"
      BY <1>1, <2>3, CapWriters
    <3>2. log[t] = <<>>
      BY <1>1, <3>1 DEF AbsentOK
    <3>3. ToolCalls(t) = {}
      BY <3>2 DEF ToolCalls
    <3>4. \A q \in Procs, i \in Nat : ~Flies(q, i, t)
      BY <1>1, <3>1 DEF Flies, FramesOK, FrameOK
    <3>5. InFlight(t) = {}
      <4>1. ASSUME NEW x \in InFlight(t) PROVE FALSE
        <5>1. PICK q \in Procs, i \in Nat : x = <<q, i>>
          BY FlightMembers
        <5> QED
          BY <3>4, <4>1, <5>1, FlightMembers
      <4> QED
        BY <4>1
    <3> QED
      BY <1>2, <2>1, <3>3, <3>5, BlankIsWithin
  <2> QED
    BY <2>2, <2>3
<1> QED
  BY <1>3, <1>4, <1>5 DEF BudgetInv

\* "Budgets are hard" (internal/task/ledger.go): over all runs of a task
\* together, in however many processes at once, its log never holds more
\* tool calls than its cap.
THEOREM BudgetsAreHard == Spec => []ToolBudgetIsHard
<1>1. Init => BudgetInv
  <2> SUFFICES ASSUME Init, NEW t \in Tasks PROVE PaidWithin(t)
    BY DEF BudgetInv
  <2>1. InFlight(t) = {} /\ ToolCalls(t) = {}
    BY DEF Init, InFlight, ToolCalls
  <2>2. IsFiniteSet({}) /\ Cardinality({}) = 0
    BY FS_EmptySet
  <2>3. spent[t] = 0 /\ cap[t] = 0
    BY DEF Init
  <2> QED
    BY <2>1, <2>2, <2>3 DEF PaidWithin
<1>2. Inv /\ BudgetInv => ToolBudgetIsHard
  <2> SUFFICES ASSUME Inv, BudgetInv, NEW t \in Tasks, cap[t] > 0
               PROVE  Cardinality(ToolCalls(t)) <= cap[t]
    BY DEF ToolBudgetIsHard
  <2>1. TypeOK /\ PaidWithin(t)
    BY DEF Inv, BudgetInv
  <2>2. Cardinality(ToolCalls(t)) \in Nat /\ cap[t] \in Nat
    BY <2>1, CallsCount DEF TypeOK
  <2>3. Cardinality(InFlight(t)) \in Nat
    BY <2>1, FS_CardinalityType DEF PaidWithin
  <2> QED
    BY <2>1, <2>2, <2>3 DEF PaidWithin
<1> QED
  BY <1>1, <1>2, NextBudget, Invariance, PTL DEF Spec
=============================================================================
