----------------------------- MODULE TaskLedger -----------------------------
(***************************************************************************)
(* The event-sourced task ledger (internal/task): the tasks table, the     *)
(* append-only task_events log, and every transaction of Ledger, called in *)
(* any order by any number of clients.  A transaction that reads a row and *)
(* then writes it locks the row first (FOR UPDATE on Postgres, the single  *)
(* writer on SQLite), so it is one action here.  ReapExpired is the        *)
(* exception: it selects the lapsed rows in one statement and requeues     *)
(* them one transaction at a time, so other clients run in between.        *)
(*                                                                         *)
(* Time is abstracted to what the ledger tells apart: a lease has not been *)
(* given, lies in the future, or has lapsed.                               *)
(***************************************************************************)
EXTENDS Naturals, Sequences, FiniteSets, TaskLifecycle

CONSTANTS Reapers,   \* punk serve processes that run the lease reaper
          Budget,    \* tasks.budget_tool_calls given to every task; 0 = no cap
          ClientEvents, \* types of the events clients add with Append
          MaxSpent,  \* bound: total spend recorded on one task
          MaxLog     \* bound: rows of task_events

ASSUME LedgerAssumption == /\ NoRef \notin Refs
                           /\ Budget \in Nat
                           /\ ClientEvents \subseteq {"error", "message"}
                           /\ MaxSpent \in Nat
                           /\ MaxLog \in Nat

VARIABLES agent,     \* tasks.agent_name is set
          lease,     \* tasks.lease_expires_at
          spent,     \* tasks.spent_tool_calls (spent_tokens is alike)
          log,       \* task_events of each task, in order of seq
          reaping    \* the ids each reaper has selected and not requeued yet

ledgerVars == <<status, ref, agent, lease, spent, log, reaping>>

Lease == {"none", "live", "lapsed"}

\* An event keeps its type, and for a status_change its payload's from and to.
PlainTypes == {"submitted", "routed", "error", "budget_exhausted", "message"}

PlainEvent(type) == [type |-> type, from |-> "-", to |-> "-"]

StatusChange(from, to) == [type |-> "status_change", from |-> from, to |-> to]

Events == [type : PlainTypes, from : {"-"}, to : {"-"}]
          \cup [type : {"status_change"}, from : Statuses, to : Statuses]

Exists(t) == status[t] # "absent"

Logged == Cardinality({e \in Tasks \X (1..MaxLog) : e[2] <= Len(log[e[1]])})

\* appendTx: every event goes to the end of its own task's log.
AppendAll(t, events) == /\ Logged + Len(events) <= MaxLog
                        /\ log' = [log EXCEPT ![t] = @ \o events]

-----------------------------------------------------------------------------

Init == /\ LifecycleInit
        /\ agent = [t \in Tasks |-> FALSE]
        /\ lease = [t \in Tasks |-> "none"]
        /\ spent = [t \in Tasks |-> 0]
        /\ log = [t \in Tasks |-> <<>>]
        /\ reaping = [p \in Reapers |-> {}]

\* Submit: the INSERT fails on the unique index when an open task holds the
\* reference, and the caller then gets that task: no state changes.
Submit(t, r) ==
    /\ Create(t, r)
    /\ AppendAll(t, <<PlainEvent("submitted")>>)
    /\ UNCHANGED <<agent, lease, spent, reaping>>

\* SetStatus: check the move, update the row and append the event.
SetStatus(t, to) ==
    /\ Move(t, to)
    /\ AppendAll(t, <<StatusChange(status[t], to)>>)
    /\ UNCHANGED <<agent, lease, spent, reaping>>

\* Mutant: claims without checking the transition.
ClaimUnchecked(t) ==
    /\ Exists(t)
    /\ status' = [status EXCEPT ![t] = "working"]
    /\ agent' = [agent EXCEPT ![t] = TRUE]
    /\ lease' = [lease EXCEPT ![t] = "live"]
    /\ AppendAll(t, <<StatusChange(status[t], "working")>>)
    /\ UNCHANGED <<ref, spent, reaping>>

\* Claim: any status that may move to working, with a fresh lease.
Claim(t) ==
    /\ Move(t, "working")
    /\ agent' = [agent EXCEPT ![t] = TRUE]
    /\ lease' = [lease EXCEPT ![t] = "live"]
    /\ AppendAll(t, <<StatusChange(status[t], "working")>>)
    /\ UNCHANGED <<spent, reaping>>

ExtendLease(t) ==
    /\ status[t] = "working"
    /\ lease' = [lease EXCEPT ![t] = "live"]
    /\ UNCHANGED <<status, ref, agent, spent, log, reaping>>

\* AssignAgent does not look at the status.
AssignAgent(t) ==
    /\ Exists(t)
    /\ agent' = [agent EXCEPT ![t] = TRUE]
    /\ AppendAll(t, <<PlainEvent("routed")>>)
    /\ UNCHANGED <<status, ref, lease, spent, reaping>>

\* Append: a citable event on a task in any status.
AppendEvent(t, type) ==
    /\ Exists(t)
    /\ AppendAll(t, <<PlainEvent(type)>>)
    /\ UNCHANGED <<status, ref, agent, lease, spent, reaping>>

Exhausted(n) == Budget > 0 /\ n > Budget

\* spend within the cap only counts.
SpendWithin(t) ==
    /\ Exists(t)
    /\ spent[t] < MaxSpent
    /\ ~Exhausted(spent[t] + 1)
    /\ spent' = [spent EXCEPT ![t] = @ + 1]
    /\ UNCHANGED <<status, ref, agent, lease, log, reaping>>

\* Mutant: parks without appending the status_change.
SpendOverUnlogged(t) ==
    /\ Exists(t)
    /\ spent[t] < MaxSpent
    /\ Exhausted(spent[t] + 1)
    /\ spent' = [spent EXCEPT ![t] = @ + 1]
    /\ status' = [status EXCEPT ![t] = IF @ = "working" THEN "input_required" ELSE @]
    /\ AppendAll(t, <<PlainEvent("budget_exhausted")>>)
    /\ UNCHANGED <<ref, agent, lease, reaping>>

\* spend over the cap parks a working task in the same transaction; in any
\* other status only the event is added.
SpendOver(t) ==
    /\ Exists(t)
    /\ spent[t] < MaxSpent
    /\ Exhausted(spent[t] + 1)
    /\ spent' = [spent EXCEPT ![t] = @ + 1]
    /\ \/ /\ status[t] = "working"
          /\ status' = [status EXCEPT ![t] = "input_required"]
          /\ AppendAll(t, <<PlainEvent("budget_exhausted"),
                            StatusChange("working", "input_required")>>)
       \/ /\ status[t] # "working"
          /\ AppendAll(t, <<PlainEvent("budget_exhausted")>>)
          /\ UNCHANGED status
    /\ UNCHANGED <<ref, agent, lease, reaping>>

\* ReapExpired, first statement: the working rows whose lease has lapsed.
ReapSelect(p) ==
    /\ reaping[p] = {}
    /\ reaping' = [reaping EXCEPT
                     ![p] = {t \in Tasks : status[t] = "working"
                                           /\ lease[t] = "lapsed"}]
    /\ UNCHANGED <<status, ref, agent, lease, spent, log>>

\* Mutant: the UPDATE without AND status = 'working'.
ReapTaskUnguarded(p, t) ==
    /\ t \in reaping[p]
    /\ reaping' = [reaping EXCEPT ![p] = @ \ {t}]
    /\ AppendAll(t, <<PlainEvent("error"), StatusChange("working", "submitted")>>)
    /\ status' = [status EXCEPT ![t] = "submitted"]
    /\ lease' = [lease EXCEPT ![t] = "none"]
    /\ UNCHANGED <<ref, agent, spent>>

\* ReapExpired, one transaction per selected id.  The UPDATE applies to a
\* working row only; the two events are appended whatever the row says.
ReapTask(p, t) ==
    /\ t \in reaping[p]
    /\ reaping' = [reaping EXCEPT ![p] = @ \ {t}]
    /\ AppendAll(t, <<PlainEvent("error"), StatusChange("working", "submitted")>>)
    /\ IF status[t] = "working"
         THEN /\ status' = [status EXCEPT ![t] = "submitted"]
              /\ lease' = [lease EXCEPT ![t] = "none"]
         ELSE UNCHANGED <<status, lease>>
    /\ UNCHANGED <<ref, agent, spent>>

\* ReapExpired returns on its first error, and a crash ends it too: the ids
\* it has not reached wait for the next pass.
ReapAbort(p) ==
    /\ reaping[p] # {}
    /\ reaping' = [reaping EXCEPT ![p] = {}]
    /\ UNCHANGED <<status, ref, agent, lease, spent, log>>

\* Time passes: lease_expires_at falls behind now.
LeaseLapses(t) ==
    /\ lease[t] = "live"
    /\ lease' = [lease EXCEPT ![t] = "lapsed"]
    /\ UNCHANGED <<status, ref, agent, spent, log, reaping>>

Next == \/ \E t \in Tasks :
             \/ \E r \in Refs \cup {NoRef} : Submit(t, r)
             \/ \E to \in Statuses : SetStatus(t, to)
             \/ Claim(t)
             \/ ExtendLease(t)
             \/ AssignAgent(t)
             \/ \E type \in ClientEvents : AppendEvent(t, type)
             \/ SpendWithin(t)
             \/ SpendOver(t)
             \/ LeaseLapses(t)
        \/ \E p \in Reapers :
             \/ ReapSelect(p)
             \/ \E t \in Tasks : ReapTask(p, t)
             \/ ReapAbort(p)

Spec == Init /\ [][Next]_ledgerVars

-----------------------------------------------------------------------------
(* Properties *)

\* Type correctness of the rows, the log and the reapers' id lists.
TypeOK == /\ status \in [Tasks -> Statuses \cup {"absent"}]
          /\ ref \in [Tasks -> Refs \cup {NoRef}]
          /\ agent \in [Tasks -> BOOLEAN]
          /\ lease \in [Tasks -> Lease]
          /\ spent \in [Tasks -> 0..MaxSpent]
          /\ log \in [Tasks -> Seq(Events)]
          /\ reaping \in [Reapers -> SUBSET Tasks]

\* One OPEN task per external_ref (Submit's promise to an intake that is
\* retried): no interleaving of closings, requeues and late reaper
\* transactions reopens a task whose reference a newer task has taken.
OneOpenPerRef ==
    \A t, u \in Tasks :
        /\ status[t] \in Open
        /\ status[u] \in Open
        /\ ref[t] = ref[u]
        /\ ref[t] # NoRef
        => t = u

\* "The ledger IS the audit log": a step that changes a row's status appends
\* the status_change that says so, from the old status to the new one, as
\* the last event of that task.  This is about every path that writes the
\* column: SetStatus, Claim, the parking in spend and the reaper.
RowMovesAreLogged ==
    [][\A t \in Tasks :
         /\ status'[t] # status[t]
         /\ Exists(t)
         => /\ Len(log'[t]) > Len(log[t])
            /\ log'[t][Len(log'[t])] = StatusChange(status[t], status'[t])]_ledgerVars

\* The status after the first n events, when a status_change whose from is
\* not the status reached so far is passed over.
ReplayTo(events) ==
    LET reached[n \in 0..Len(events)] ==
          IF n = 0 THEN "submitted"
          ELSE IF events[n].type = "status_change" /\ events[n].from = reached[n-1]
                 THEN events[n].to
                 ELSE reached[n-1]
    IN  reached[Len(events)]

\* The audit log suffices to rebuild the tasks table: replaying a task's
\* events, passing over the requeue events that late reaper transactions
\* leave behind, ends in the status of the row.
LogRebuildsTable == \A t \in Tasks : Exists(t) => ReplayTo(log[t]) = status[t]

StatusChanges(t) == {i \in 1..Len(log[t]) : log[t][i].type = "status_change"}

\* What TestLedgerNoDriftBetweenStatusAndEvents states: the last
\* status_change event equals the row's status.  It is what a reader of the
\* log who trusts every event relies on.
NoDrift ==
    \A t \in Tasks : \A i \in StatusChanges(t) :
        (\A j \in StatusChanges(t) : j <= i) => log[t][i].to = status[t]

\* What ExtendLease's comment states: an investigation that keeps its lease
\* ahead of the clock is never requeued by the reaper.
LiveInvestigationNeverReaped ==
    [][\A p \in Reapers, t \in Tasks :
         /\ t \in reaping[p] /\ t \notin reaping'[p]
         /\ status[t] = "working" /\ status'[t] = "submitted"
         => lease[t] = "lapsed"]_ledgerVars
=============================================================================
