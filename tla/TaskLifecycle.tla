--------------------------- MODULE TaskLifecycle ---------------------------
(***************************************************************************)
(* What the task ledger promises about the status of a task, whoever calls *)
(* it: a task is created "submitted", moves only along the state machine   *)
(* of internal/task/task.go, and at most one open task carries any given   *)
(* external reference.  TaskLedger and Investigation implement it.         *)
(***************************************************************************)
CONSTANTS Tasks,   \* task ids
          Refs,    \* external references of intakes
          NoRef    \* an intake without an external reference

VARIABLES status,  \* tasks.status, "absent" before the row exists
          ref      \* tasks.external_ref

lifecycleVars == <<status, ref>>

Statuses == {"submitted", "working", "input_required",
             "completed", "failed", "canceled"}

Open == {"submitted", "working", "input_required"}

Terminal == Statuses \ Open

\* The transitions map of task.go; working -> submitted is the reaper's.
Transitions ==
    [s \in Statuses |->
        CASE s = "submitted"      -> {"working", "canceled"}
          [] s = "working"        -> {"completed", "failed", "input_required",
                                      "canceled", "submitted"}
          [] s = "input_required" -> {"working", "canceled"}
          [] OTHER                -> {}]

\* Mutant: an unknown from-status is let through.
CheckTransitionUnknown(from, to) == from \in Statuses => to \in Transitions[from]

\* CheckTransition: the move a caller asks for is one of the map's.
CheckTransition(from, to) == /\ from \in Statuses
                             /\ to \in Transitions[from]

\* The rows idx_tasks_open_ref (a partial unique index) ranges over.
OpenWithRef(r) == {t \in Tasks : status[t] \in Open /\ ref[t] = r}

-----------------------------------------------------------------------------

LifecycleInit == /\ status = [t \in Tasks |-> "absent"]
                 /\ ref = [t \in Tasks |-> NoRef]

Create(t, r) == /\ status[t] = "absent"
                /\ r # NoRef => OpenWithRef(r) = {}
                /\ status' = [status EXCEPT ![t] = "submitted"]
                /\ ref' = [ref EXCEPT ![t] = r]

Move(t, to) == /\ CheckTransition(status[t], to)
               /\ status' = [status EXCEPT ![t] = to]
               /\ UNCHANGED ref

LifecycleNext == \E t \in Tasks :
                    \/ \E r \in Refs \cup {NoRef} : Create(t, r)
                    \/ \E to \in Statuses : Move(t, to)

LifecycleSpec == LifecycleInit /\ [][LifecycleNext]_lifecycleVars
=============================================================================
