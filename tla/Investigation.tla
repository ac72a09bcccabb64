--------------------------- MODULE Investigation ---------------------------
(***************************************************************************)
(* The life of an investigation: the API handlers that take a task in,     *)
(* route it, cancel it or requeue it; the dispatcher and the agent runtime *)
(* that run it and its subagent tasks; the lease reaper; "punk replay",    *)
(* which runs shadow tasks on the same ledger; crashes and restarts.       *)
(*                                                                         *)
(* A process runs one goroutine per activity.  The dispatcher's goroutine  *)
(* is a stack of RunTask frames (spawnSubagent calls RunTask); every       *)
(* database transaction and every external call is a step of its own, so   *)
(* other processes and handlers run in between.                            *)
(*                                                                         *)
(* The log keeps the events evidence is made of, tool_call and finding;    *)
(* TaskLedger has the others.  What a model or a tool answers is a choice. *)
(***************************************************************************)
EXTENDS Naturals, Sequences, FiniteSets, SequencesExt

CONSTANTS Servers,       \* punk serve processes
          Replayers,     \* punk replay processes, on the same database
          MaxTasks,      \* bound: tasks ever submitted
          Page,          \* tasks one dispatcher tick lists (10 in the code)
          MaxIterations, \* Runtime.MaxIterations (8 in the code)
          ToolBudget,    \* budget_tool_calls of an intake; 0 = no cap
          Subagents,     \* budget_subagents of an intake
          MaxCalls,      \* bound: tool calls in one model turn
          MaxSlow,       \* bound: leases that lapse under a live run
          MaxCrashes,    \* bound: process crashes and failed transactions
          MaxRequeues,   \* bound: operator requeues
          MaxReloads     \* bound: reloads that change the active snapshot

Procs == Servers \cup Replayers

Tasks == 1..MaxTasks   \* in order of created_at

ASSUME InvestigationAssumption ==
    /\ Servers \cap Replayers = {}
    /\ {MaxTasks, Page, MaxIterations, ToolBudget, Subagents, MaxCalls,
        MaxSlow, MaxCrashes, MaxRequeues, MaxReloads} \subseteq Nat

VARIABLES status,    \* tasks.status, "absent" before the row exists
          agent,     \* tasks.agent_name is set
          lease,     \* tasks.lease_expires_at
          parent,    \* tasks.parent_task_id, 0 when there is none
          cap,       \* tasks.budget_tool_calls
          spent,     \* tasks.spent_tool_calls
          log,       \* tool_call and finding events of each task
          snaps,     \* tool_snapshots: seqs whose full result is stored
          shadow,    \* tasks a replay submitted
          known,     \* the agent is in the registry's active snapshot
          queue,     \* dispatcher: listed tasks still to run, newest first
          stack,     \* RunTask frames of the process's runner
          handlers,  \* API requests between two of their transactions
          reaping,   \* reaper: selected tasks still to requeue
          used       \* how often each bounded event has happened

rows == <<status, agent, lease, parent, cap, spent, shadow>>
evidence == <<log, snaps>>
local == <<queue, stack, handlers, reaping>>
vars == <<rows, evidence, known, local, used>>

Lease == {"none", "live", "lapsed"}

NoRef == "-"

\* The ledger's promise about statuses; references play no part here.
Lifecycle == INSTANCE TaskLifecycle WITH Refs <- {},
                                         ref <- [t \in Tasks |-> NoRef]

Limit == [slow |-> MaxSlow, crash |-> MaxCrashes,
          requeue |-> MaxRequeues, reload |-> MaxReloads]

Use(what) == /\ used[what] < Limit[what]
             /\ used' = [used EXCEPT ![what] = @ + 1]

\* Tool calls of a server reach the real systems, a replay's the snapshots.
World(p) == IF p \in Servers THEN "live" ELSE "frozen"

ToolCall(p) == [type |-> "tool_call", world |-> World(p), cites |-> {}]

Finding(p, seqs) == [type |-> "finding", world |-> World(p), cites |-> seqs]

ToolCalls(t) == {i \in DOMAIN log[t] : log[t][i].type = "tool_call"}

Findings(t) == {i \in DOMAIN log[t] : log[t][i].type = "finding"}

Absent == {t \in Tasks : status[t] = "absent"}

\* The next row: created_at grows with the id.
Fresh(t) == t \in Absent /\ \A u \in Absent : t <= u

\* SetStatus, when the move is allowed and when CheckTransition refuses it.
CanMove(t, to) == Lifecycle!CheckTransition(status[t], to)

SetTo(t, to) == status' = [status EXCEPT ![t] = to]

TrySetTo(t, to) == IF CanMove(t, to) THEN SetTo(t, to) ELSE UNCHANGED status

-----------------------------------------------------------------------------
(* Frames of RunTask *)

Frame(t, pc) == [task |-> t, pc |-> pc, iter |-> 0, calls |-> 0,
                 seq |-> 0, seqs |-> {}, cites |-> {}, spentAtStart |-> 0]

Running(p) == stack[p] # <<>>

Top(p) == stack[p][Len(stack[p])]

At(p, pc) == Running(p) /\ Top(p).pc = pc

\* The top frame goes on as f.
Go(p, f) == stack' = [stack EXCEPT ![p][Len(stack[p])] = f]

\* RunTask returns, with or without an error; a caller in spawnSubagent
\* already waits at "append".
Return(p) == stack' = [stack EXCEPT ![p] = Front(@)]

Init == /\ status = [t \in Tasks |-> "absent"]
        /\ agent = [t \in Tasks |-> FALSE]
        /\ lease = [t \in Tasks |-> "none"]
        /\ parent = [t \in Tasks |-> 0]
        /\ cap = [t \in Tasks |-> 0]
        /\ spent = [t \in Tasks |-> 0]
        /\ log = [t \in Tasks |-> <<>>]
        /\ snaps = [t \in Tasks |-> {}]
        /\ shadow = {}
        /\ known = TRUE
        /\ queue = [p \in Servers |-> {}]
        /\ stack = [p \in Procs |-> <<>>]
        /\ handlers = [p \in Servers |-> {}]
        /\ reaping = [p \in Servers |-> {}]
        /\ used = [what \in DOMAIN Limit |-> 0]

-----------------------------------------------------------------------------
(* The API: intake with routing, cancel, requeue.  A request that makes    *)
(* two transactions stays in handlers in between.                          *)

Enter(p, op, t) == handlers' = [handlers EXCEPT ![p] = @ \cup {<<op, t>>}]

Leave(p, op, t) == handlers' = [handlers EXCEPT ![p] = @ \ {<<op, t>>}]

In(p, op, t) == <<op, t>> \in handlers[p]

\* INSERT of Submit, with the caller's budget.
Insert(t, calls) == /\ Fresh(t)
                    /\ SetTo(t, "submitted")
                    /\ cap' = [cap EXCEPT ![t] = calls]

\* handleSubmitTask and its siblings: Submit, then Route.
Intake(p, t) ==
    /\ Insert(t, ToolBudget)
    /\ Enter(p, "route", t)
    /\ UNCHANGED <<agent, lease, parent, spent, shadow, evidence, known, used,
                   queue, stack, reaping>>

\* Route found an agent: AssignAgent.
RouteAssign(p, t) ==
    /\ In(p, "route", t)
    /\ known
    /\ agent' = [agent EXCEPT ![t] = TRUE]
    /\ Leave(p, "route", t)
    /\ UNCHANGED <<status, lease, parent, cap, spent, shadow, evidence, known,
                   used, queue, stack, reaping>>

\* Route returns an error: no snapshot, record fails, or the chosen
\* (fallback) agent is not in the snapshot.
RouteFails(p, t) ==
    /\ In(p, "route", t)
    /\ Leave(p, "route", t)
    /\ UNCHANGED <<rows, evidence, known, used, queue, stack, reaping>>

\* No candidate and no fallback: to working, then to input_required.
RoutePark(p, t) ==
    /\ In(p, "route", t)
    /\ IF CanMove(t, "working")
         THEN /\ SetTo(t, "working")
              /\ handlers' = [handlers EXCEPT
                    ![p] = (@ \ {<<"route", t>>}) \cup {<<"park", t>>}]
         ELSE /\ Leave(p, "route", t)
              /\ UNCHANGED status
    /\ UNCHANGED <<agent, lease, parent, cap, spent, shadow, evidence, known,
                   used, queue, stack, reaping>>

RouteParked(p, t) ==
    /\ In(p, "park", t)
    /\ TrySetTo(t, "input_required")
    /\ Leave(p, "park", t)
    /\ UNCHANGED <<agent, lease, parent, cap, spent, shadow, evidence, known,
                   used, queue, stack, reaping>>

\* handleCancelTask, a2aTasksCancel.
Cancel(t) ==
    /\ CanMove(t, "canceled")
    /\ SetTo(t, "canceled")
    /\ UNCHANGED <<agent, lease, parent, cap, spent, shadow, evidence, known,
                   used, local>>

\* Requeue, first transaction; the lease column is left as it was.
Requeue(p, t) ==
    /\ CanMove(t, "working")
    /\ Use("requeue")
    /\ SetTo(t, "working")
    /\ Enter(p, "requeue", t)
    /\ UNCHANGED <<agent, lease, parent, cap, spent, shadow, evidence, known,
                   queue, stack, reaping>>

Requeued(p, t) ==
    /\ In(p, "requeue", t)
    /\ TrySetTo(t, "submitted")
    /\ Leave(p, "requeue", t)
    /\ UNCHANGED <<agent, lease, parent, cap, spent, shadow, evidence, known,
                   used, queue, stack, reaping>>

Handle(p, t) == RouteAssign(p, t) \/ RouteFails(p, t) \/ RoutePark(p, t)
                \/ RouteParked(p, t) \/ Requeued(p, t)

-----------------------------------------------------------------------------
(* The dispatcher and punk replay *)

\* The newest k submitted tasks.
Newest(k) ==
    {t \in Tasks : /\ status[t] = "submitted"
                   /\ Cardinality({u \in Tasks : u > t /\ status[u] = "submitted"}) < k}

\* List: the newest submitted tasks, one page of them; the loop then skips
\* the unrouted ones and the subagents'.
Tick(p) ==
    /\ ~Running(p)
    /\ queue[p] = {}
    /\ queue' = [queue EXCEPT ![p] = {t \in Newest(Page) : agent[t] /\ parent[t] = 0}]
    /\ UNCHANGED <<rows, evidence, known, used, stack, handlers, reaping>>

\* The loop over the list, newest first.
Dispatch(p) ==
    /\ ~Running(p)
    /\ \E t \in queue[p] :
         /\ \A u \in queue[p] : u <= t
         /\ stack' = [stack EXCEPT ![p] = <<Frame(t, "get")>>]
         /\ queue' = [queue EXCEPT ![p] = @ \ {t}]
    /\ UNCHANGED <<rows, evidence, known, used, handlers, reaping>>

\* Rerun: a shadow task with the recorded task's budget, run here and now.
\* (Replays of subagent tasks are not enumerated.)
Rerun(p, orig, t) ==
    /\ ~Running(p)
    /\ snaps[orig] # {} /\ agent[orig] /\ parent[orig] = 0
    /\ Insert(t, cap[orig])
    /\ shadow' = shadow \cup {t}
    /\ stack' = [stack EXCEPT ![p] = <<Frame(t, "assign")>>]
    /\ UNCHANGED <<agent, lease, parent, spent, evidence, known, used, queue,
                   handlers, reaping>>

\* AssignAgent by Rerun (which first insists on the snapshot) and by
\* spawnSubagent (which does not look again).
Assign(p) ==
    /\ At(p, "assign")
    /\ IF Top(p).task \in shadow /\ ~known
         THEN Return(p) /\ UNCHANGED agent
         ELSE /\ agent' = [agent EXCEPT ![Top(p).task] = TRUE]
              /\ Go(p, [Top(p) EXCEPT !.pc = "get"])
    /\ UNCHANGED <<status, lease, parent, cap, spent, shadow, evidence, known,
                   used, queue, handlers, reaping>>

-----------------------------------------------------------------------------
(* RunTask *)

\* Get and the registry lookup.  A task that is already working is run
\* without claiming it.
Get(p) ==
    /\ At(p, "get")
    /\ LET f == [Top(p) EXCEPT !.spentAtStart = spent[Top(p).task]]
           s == status[f.task]
       IN  \/ ~known /\ Go(p, [f EXCEPT !.pc = "park"])
           \/ known /\ s = "submitted" /\ Go(p, [f EXCEPT !.pc = "claim"])
           \/ known /\ s = "working" /\ Go(p, [f EXCEPT !.pc = "loop"])
           \/ known /\ s \notin {"submitted", "working"} /\ Return(p)
    /\ UNCHANGED <<rows, evidence, known, used, queue, handlers, reaping>>

Claim(p) ==
    /\ At(p, "claim")
    /\ LET t == Top(p).task
       IN  IF CanMove(t, "working")
             THEN /\ SetTo(t, "working")
                  /\ lease' = [lease EXCEPT ![t] = "live"]
                  /\ Go(p, [Top(p) EXCEPT !.pc = "loop"])
             ELSE /\ Return(p)
                  /\ UNCHANGED <<status, lease>>
    /\ UNCHANGED <<agent, parent, cap, spent, shadow, evidence, known, used,
                   queue, handlers, reaping>>

\* No client for the profile, daily spend, wall clock, a failed model call,
\* or MaxIterations: park.
GiveUp(p) ==
    /\ At(p, "loop") \/ At(p, "chat")
    /\ Go(p, [Top(p) EXCEPT !.pc = "park"])
    /\ UNCHANGED <<rows, evidence, known, used, queue, handlers, reaping>>

\* park: refused (RunTask returns the error) unless the task is working.
Park(p) ==
    /\ At(p, "park")
    /\ TrySetTo(Top(p).task, "input_required")
    /\ Return(p)
    /\ UNCHANGED <<agent, lease, parent, cap, spent, shadow, evidence, known,
                   used, queue, handlers, reaping>>

\* An iteration begins: ExtendLease, whose failure is only logged.
Loop(p) ==
    /\ At(p, "loop")
    /\ Top(p).iter < MaxIterations
    /\ lease' = [lease EXCEPT ![Top(p).task] =
                   IF status[Top(p).task] = "working" THEN "live" ELSE @]
    /\ Go(p, [Top(p) EXCEPT !.pc = "chat", !.iter = @ + 1])
    /\ UNCHANGED <<status, agent, parent, cap, spent, shadow, evidence, known,
                   used, queue, handlers, reaping>>

\* The ledger parks a working task that is over a cap.
ParkedByLedger(t) == IF status[t] = "working" THEN SetTo(t, "input_required")
                                              ELSE UNCHANGED status

\* SpendTokens finds the answer over the token cap.
ChatOverBudget(p) ==
    /\ At(p, "chat")
    /\ ParkedByLedger(Top(p).task)
    /\ Return(p)
    /\ UNCHANGED <<agent, lease, parent, cap, spent, shadow, evidence, known,
                   used, queue, handlers, reaping>>

\* validateFinding: some evidence, all of it tool calls of this run.
ValidFinding(seqs, cites) == cites # {} /\ cites \subseteq seqs

\* The model answers with tool calls, with a finding, or with neither (an
\* interim note or a finding that is rejected).
Chat(p) ==
    /\ At(p, "chat")
    /\ LET f == Top(p)
       IN  \/ \E n \in 1..MaxCalls : Go(p, [f EXCEPT !.pc = "tool", !.calls = n])
           \/ \E cites \in SUBSET (DOMAIN log[f.task]) :
                /\ ValidFinding(f.seqs, cites)
                /\ Go(p, [f EXCEPT !.pc = "finding", !.cites = cites])
           \/ Go(p, [f EXCEPT !.pc = "loop"])
    /\ UNCHANGED <<rows, evidence, known, used, queue, handlers, reaping>>

OverCap(t) == cap[t] > 0 /\ spent[t] + 1 > cap[t]

SubagentBudget(t) == IF parent[t] = 0 THEN Subagents ELSE 0

\* Mutant: the cap is checked before the call is counted.
ToolCallLate(p) ==
    /\ At(p, "tool")
    /\ LET t == Top(p).task
       IN  /\ spent' = [spent EXCEPT ![t] = @ + 1]
           /\ IF cap[t] > 0 /\ spent[t] > cap[t]
                THEN ParkedByLedger(t) /\ Return(p)
                ELSE /\ \/ Go(p, [Top(p) EXCEPT !.pc = "append"])
                        \/ /\ SubagentBudget(t) > 0
                           /\ Go(p, [Top(p) EXCEPT !.pc = "count"])
                     /\ UNCHANGED status
    /\ UNCHANGED <<agent, lease, parent, cap, shadow, evidence, known, used,
                   queue, handlers, reaping>>

\* SpendToolCall, then the call itself: refused, proposed, a memory tool or
\* executed in this process's world; spawn_subagent when it is offered.
ToolCallStep(p) ==
    /\ At(p, "tool")
    /\ LET t == Top(p).task
       IN  /\ spent' = [spent EXCEPT ![t] = @ + 1]
           /\ IF OverCap(t)
                THEN ParkedByLedger(t) /\ Return(p)
                ELSE /\ \/ Go(p, [Top(p) EXCEPT !.pc = "append"])
                        \/ /\ SubagentBudget(t) > 0
                           /\ Go(p, [Top(p) EXCEPT !.pc = "count"])
                     /\ UNCHANGED status
    /\ UNCHANGED <<agent, lease, parent, cap, shadow, evidence, known, used,
                   queue, handlers, reaping>>

Children(t) == {c \in Tasks : parent[c] = t}

\* spawnSubagent up to CountChildren: unknown agent and spent subagent
\* budget are tool errors.
CountChildren(p) ==
    /\ At(p, "count")
    /\ Go(p, [Top(p) EXCEPT !.pc =
         IF known /\ Cardinality(Children(Top(p).task)) < SubagentBudget(Top(p).task)
           THEN "spawn" ELSE "append"])
    /\ UNCHANGED <<rows, evidence, known, used, queue, handlers, reaping>>

Monus(a, b) == IF a > b THEN a - b ELSE 0

\* spawnSubagent: Submit the child with half of what was left when this run
\* of the parent began, and run it here; the parent goes on at "append".
Spawn(p, c) ==
    /\ At(p, "spawn")
    /\ LET t == Top(p).task
       IN  /\ Insert(c, Monus(cap[t], Top(p).spentAtStart) \div 2)
           /\ parent' = [parent EXCEPT ![c] = t]
    /\ stack' = [stack EXCEPT ![p] =
                   Append(Front(@), [Top(p) EXCEPT !.pc = "append"])
                   \o <<Frame(c, "assign")>>]
    /\ UNCHANGED <<agent, lease, spent, shadow, evidence, known, used, queue,
                   handlers, reaping>>

\* Append of the tool_call event; its seq is the evidence handle.
AppendToolCall(p) ==
    /\ At(p, "append")
    /\ LET t == Top(p).task
       IN  /\ log' = [log EXCEPT ![t] = Append(@, ToolCall(p))]
           /\ Go(p, [Top(p) EXCEPT !.pc = "snapshot", !.seq = Len(log[t]) + 1])
    /\ UNCHANGED <<rows, snaps, known, used, queue, handlers, reaping>>

\* Mutant: the model is handed the seq although the snapshot is not stored.
SnapshotLost(p) ==
    /\ At(p, "snapshot")
    /\ Go(p, [Top(p) EXCEPT !.seqs = @ \cup {Top(p).seq}, !.calls = @ - 1,
                            !.pc = IF Top(p).calls > 1 THEN "tool" ELSE "loop"])
    /\ UNCHANGED <<rows, log, snaps, known, used, queue, handlers, reaping>>

\* Snapshot of the full result; only now may a finding cite the seq.
Snapshot(p) ==
    /\ At(p, "snapshot")
    /\ snaps' = [snaps EXCEPT ![Top(p).task] = @ \cup {Top(p).seq}]
    /\ Go(p, [Top(p) EXCEPT !.seqs = @ \cup {Top(p).seq}, !.calls = @ - 1,
                            !.pc = IF Top(p).calls > 1 THEN "tool" ELSE "loop"])
    /\ UNCHANGED <<rows, log, known, used, queue, handlers, reaping>>

AppendFinding(p) ==
    /\ At(p, "finding")
    /\ log' = [log EXCEPT ![Top(p).task] = Append(@, Finding(p, Top(p).cites))]
    /\ Go(p, [Top(p) EXCEPT !.pc = "complete"])
    /\ UNCHANGED <<rows, snaps, known, used, queue, handlers, reaping>>

\* Mutant: completes the row without checking the transition.
CompleteForced(p) ==
    /\ At(p, "complete")
    /\ SetTo(Top(p).task, "completed")
    /\ Return(p)
    /\ UNCHANGED <<agent, lease, parent, cap, spent, shadow, evidence, known,
                   used, queue, handlers, reaping>>

Complete(p) ==
    /\ At(p, "complete")
    /\ TrySetTo(Top(p).task, "completed")
    /\ Return(p)
    /\ UNCHANGED <<agent, lease, parent, cap, spent, shadow, evidence, known,
                   used, queue, handlers, reaping>>

\* A transaction of RunTask fails (a busy database, a lost connection): the
\* error ends the run, and is a tool's answer inside spawnSubagent.
StatementFails(p) ==
    /\ Running(p)
    /\ Use("crash")
    /\ IF Top(p).pc \in {"count", "spawn"}
         THEN Go(p, [Top(p) EXCEPT !.pc = "append"])
         ELSE Return(p)
    /\ UNCHANGED <<rows, evidence, known, queue, handlers, reaping>>

-----------------------------------------------------------------------------
(* The lease reaper, time, reloads and crashes *)

ReapSelect(p) ==
    /\ reaping[p] = {}
    /\ reaping' = [reaping EXCEPT
                     ![p] = {t \in Tasks : status[t] = "working"
                                           /\ lease[t] = "lapsed"}]
    /\ UNCHANGED <<rows, evidence, known, used, queue, stack, handlers>>

\* Mutant: the UPDATE matches no row.
ReapNothing(p, t) ==
    /\ t \in reaping[p]
    /\ reaping' = [reaping EXCEPT ![p] = @ \ {t}]
    /\ UNCHANGED <<rows, evidence, known, used, queue, stack, handlers>>

ReapTask(p, t) ==
    /\ t \in reaping[p]
    /\ reaping' = [reaping EXCEPT ![p] = @ \ {t}]
    /\ IF status[t] = "working"
         THEN /\ SetTo(t, "submitted")
              /\ lease' = [lease EXCEPT ![t] = "none"]
         ELSE UNCHANGED <<status, lease>>
    /\ UNCHANGED <<agent, parent, cap, spent, shadow, evidence, known, used,
                   queue, stack, handlers>>

HasRunner(t) == \E p \in Procs : \E i \in DOMAIN stack[p] : stack[p][i].task = t

\* Time passes over a lease: of a task nobody runs, or of a run that takes
\* longer than its lease (a slow tool, a long subagent).
LeaseLapses(t) ==
    /\ lease[t] = "live"
    /\ lease' = [lease EXCEPT ![t] = "lapsed"]
    /\ UNCHANGED <<status, agent, parent, cap, spent, shadow, evidence, known,
                   local>>

LapseUnattended(t) == ~HasRunner(t) /\ LeaseLapses(t) /\ UNCHANGED used

LapseSlow(t) == HasRunner(t) /\ LeaseLapses(t) /\ Use("slow")

\* The watcher or SIGHUP activates a snapshot with or without the agent.
Reload == /\ Use("reload")
          /\ known' = ~known
          /\ UNCHANGED <<rows, evidence, local>>

\* A process dies and is started again: what is not in the database is gone.
Crash(p) ==
    /\ Use("crash")
    /\ stack' = [stack EXCEPT ![p] = <<>>]
    /\ IF p \in Servers
         THEN /\ queue' = [queue EXCEPT ![p] = {}]
              /\ handlers' = [handlers EXCEPT ![p] = {}]
              /\ reaping' = [reaping EXCEPT ![p] = {}]
         ELSE UNCHANGED <<queue, handlers, reaping>>
    /\ UNCHANGED <<rows, evidence, known>>

-----------------------------------------------------------------------------

Run(p) == \/ Assign(p) \/ Get(p) \/ Claim(p) \/ GiveUp(p) \/ Park(p)
          \/ Loop(p) \/ ChatOverBudget(p) \/ Chat(p) \/ ToolCallStep(p)
          \/ CountChildren(p) \/ (\E c \in Tasks : Spawn(p, c))
          \/ AppendToolCall(p) \/ Snapshot(p) \/ AppendFinding(p) \/ Complete(p)

Next == \/ \E p \in Procs : Run(p) \/ StatementFails(p) \/ Crash(p)
        \/ \E p \in Servers :
             \/ Tick(p)
             \/ Dispatch(p)
             \/ ReapSelect(p)
             \/ \E t \in Tasks : \/ Intake(p, t)
                                 \/ Handle(p, t)
                                 \/ Requeue(p, t)
                                 \/ ReapTask(p, t)
        \/ \E p \in Replayers, orig, t \in Tasks : Rerun(p, orig, t)
        \/ \E t \in Tasks : Cancel(t) \/ LapseUnattended(t) \/ LapseSlow(t)
        \/ Reload

Spec == Init /\ [][Next]_vars

\* Every goroutine keeps being scheduled, the model and the tools answer,
\* time passes.  Intake, operators, reloads, crashes and slowness owe nothing.
Fairness ==
    /\ \A p \in Procs : WF_vars(Run(p))
    /\ \A p \in Servers :
         /\ WF_vars(Tick(p))
         /\ WF_vars(Dispatch(p))
         /\ WF_vars(ReapSelect(p))
         /\ \A t \in Tasks : WF_vars(Handle(p, t)) /\ WF_vars(ReapTask(p, t))
    /\ \A t \in Tasks : WF_vars(LapseUnattended(t))

FairSpec == Spec /\ Fairness

-----------------------------------------------------------------------------
(* Properties *)

Pcs == {"assign", "get", "claim", "loop", "chat", "tool", "count", "spawn",
        "append", "snapshot", "finding", "complete", "park"}

Frames == [task : Tasks, pc : Pcs, iter : 0..MaxIterations, calls : 0..MaxCalls,
           seq : Nat, seqs : SUBSET Nat, cites : SUBSET Nat, spentAtStart : Nat]

Entries == [type : {"tool_call", "finding"}, world : {"live", "frozen"},
            cites : SUBSET Nat]

\* Type correctness of the rows, the evidence and the processes; no run
\* passes MaxIterations.
TypeOK ==
    /\ status \in [Tasks -> Lifecycle!Statuses \cup {"absent"}]
    /\ agent \in [Tasks -> BOOLEAN]
    /\ lease \in [Tasks -> Lease]
    /\ parent \in [Tasks -> 0..MaxTasks]
    /\ cap \in [Tasks -> Nat]
    /\ spent \in [Tasks -> Nat]
    /\ log \in [Tasks -> Seq(Entries)]
    /\ snaps \in [Tasks -> SUBSET Nat]
    /\ shadow \subseteq Tasks
    /\ known \in BOOLEAN
    /\ queue \in [Servers -> SUBSET Tasks]
    /\ stack \in [Procs -> Seq(Frames)]
    /\ handlers \in [Servers -> SUBSET ({"route", "park", "requeue"} \X Tasks)]
    /\ reaping \in [Servers -> SUBSET Tasks]
    /\ used \in [DOMAIN Limit -> Nat]

\* "Evidence or it did not happen": every finding on a task's log cites
\* tool_call events of that same log, recorded before it, whose full result
\* is stored for replay; whoever ran the task, however often it was
\* restarted, and whoever else ran it at the same time.
FindingsHaveEvidence ==
    \A t \in Tasks : \A i \in Findings(t) :
        /\ log[t][i].cites # {}
        /\ log[t][i].cites \subseteq {j \in ToolCalls(t) : j < i} \cap snaps[t]

\* A completed task has a finding: no path through a stale, a duplicate or
\* an abandoned run completes a task that reported nothing.
CompletedHasFinding ==
    \A t \in Tasks : status[t] = "completed" => Findings(t) # {}

\* The statuses move as the ledger promises, for every path that writes them:
\* API handlers, router, runtime, the parking in spend and the reaper.
LifecycleSpec == Lifecycle!LifecycleSpec

\* What a finished investigation reports can be checked: its findings cite stored
\* calls of its own, and it is not finished without one.
FindingsAreSound == FindingsHaveEvidence /\ CompletedHasFinding

\* "Budgets are hard": a task with a cap never records more tool calls than
\* the cap, over all its runs together.
ToolBudgetIsHard ==
    \A t \in Tasks : cap[t] > 0 => Cardinality(ToolCalls(t)) <= cap[t]

Settled(t) == status[t] \in Lifecycle!Terminal \cup {"input_required"}

\* "routed-but-unclaimed tasks get an investigation loop" and "RunTask
\* drives one task to a terminal or parked state": a routed top-level task is
\* settled in the end, though a server crashes under it and a slow run outlives its
\* lease; as long as its agent stays in the registry, nobody requeues it, and the
\* dispatcher's page holds every submitted task.
RoutedTasksSettle ==
    \A t \in Tasks : agent[t] /\ parent[t] = 0 ~> Settled(t)

\* "Requeue returns a parked (input_required) task to the dispatcher".
RequeueReachesDispatcher ==
    \A t \in Tasks :
        (\E p \in Servers : In(p, "requeue", t)) ~> HasRunner(t) \/ Settled(t)

\* "Budgets are hard": the subagents of a task with a tool-call cap have one.
SubagentsAreCapped ==
    \A c \in Tasks : parent[c] # 0 /\ cap[parent[c]] > 0 => cap[c] > 0

\* "Budgets are hard": no task has more subagents than its budget.
SubagentBudgetIsHard ==
    \A t \in Tasks : Cardinality(Children(t)) <= SubagentBudget(t)

\* "Rerun re-executes a completed task's investigation against its frozen
\* snapshots": a shadow task makes no call in the live world.
ReplayStaysFrozen ==
    \A t \in shadow : \A i \in ToolCalls(t) : log[t][i].world = "frozen"
=============================================================================
