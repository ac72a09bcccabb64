----------------------------- MODULE NativeWake -----------------------------
(* The native wake bridge.  Hook events of a session run `punk hook wake`
   (internal/hookcli/wake.go): "ensure" spawns one detached listener, "stop"
   tears it down.  The listener (internal/nativewake/runner.go) watches the
   session's inbox and nudges the host, within a budget kept on disk.  They
   share the session's state directory: a control marker per generation, the
   pointer to the current one, the listener record and two kinds of lock.

   A generation is random in the code; here a number that nobody uses any more
   may be drawn again.  Times are kept as the ticks that remain of them, so the
   clock needs no bound.  One server and one namespace: the budget is per
   identity (stateSubdir), and the sessions differ by their native endpoint.   *)
EXTENDS Integers, FiniteSets, Sequences, SequencesExt, FiniteSetsExt

CONSTANTS Callers,      \* hook subprocesses that ensure or stop
          Endpoints,    \* native endpoints of the session's processes
          NoEndpoint,   \* the capability is missing
          Gens,         \* bound: generations in use at once are 1..Gens
          Mails,        \* bound: messages are 1..Mails, in order of arrival
          Refused,      \* mails whose sender is outside the allowlist
          PageSize,     \* metadataLimit
          LogPage,      \* logPageLimit
          LogBudget,    \* logScanBudget
          MaxWakes, WakeWindow, Cooldown,
          WakeFaults    \* bound: crashes, failures and ends of sessions

ASSUME WakeConstants ==
    /\ NoEndpoint \notin Endpoints
    /\ {Mails, MaxWakes, LogBudget, WakeFaults} \subseteq Nat
    /\ {Gens, PageSize, LogPage, WakeWindow, Cooldown} \subseteq Nat \ {0}
    /\ Refused \subseteq 1..Mails
    /\ Cooldown <= WakeWindow   \* 60 and 600 seconds unless configured

VARIABLES dir,      \* the state directory, the lifecycle's part
          caller,   \* the hook subprocesses
          ledger,   \* the state file of the budget, and who holds its lock
          worker,   \* the listeners, by generation
          mail,     \* the session's inbox
          nudged,   \* history: life left of the attempts that reached the host
          pardons,  \* history: nudges of a worker since it lost its marker
          wakeMishaps   \* faults so far

wakeVars == <<dir, caller, ledger, worker, mail, nudged, pardons, wakeMishaps>>

Gen == 1..Gens
Mail == 1..Mails
Life == 1..WakeWindow
Budget == [attempts : Seq(Life), print : SUBSET Mail, cool : 0..Cooldown]
Record == [gen : 0..Gens, endpoint : Endpoints \cup {NoEndpoint}, young : BOOLEAN]
NoRecord == [gen |-> 0, endpoint |-> NoEndpoint, young |-> FALSE]
NoBudget == [attempts |-> <<>>, print |-> {}, cool |-> 0]

\* proof: its lifetime lock is the file that the generation's directory has now;
\* due: ticks until the recheck timer, -1 when it is not armed; since: life left
\* of an attempt stamped when the current pass looked at the clock.
NewWorker == [pc |-> "none", proof |-> FALSE, mem |-> NoBudget, hint |-> FALSE, due |-> -1,
              linked |-> FALSE, scan |-> {}, since |-> 0, stop |-> FALSE]

NewCaller == [pc |-> "idle", endpoint |-> NoEndpoint, old |-> NoRecord, alive |-> FALSE, gen |-> 0]

WakeInit == /\ dir = [markers |-> {}, current |-> 0, record |-> NoRecord, locked |-> FALSE]
            /\ caller = [c \in Callers |-> NewCaller]
            /\ ledger = [disk |-> NoBudget, holder |-> 0]
            /\ worker = [g \in Gen |-> NewWorker]
            /\ mail = [m \in Mail |-> "unsent"]
            /\ nudged = <<>>
            /\ pardons = [g \in Gen |-> 0]
            /\ wakeMishaps = 0

WakeMishap == wakeMishaps < WakeFaults /\ wakeMishaps' = wakeMishaps + 1
Smooth == UNCHANGED wakeMishaps
Lives(g) == worker[g].pc # "none"

-----------------------------------------------------------------------------
(* Lifecycle: ensure and stop *)

\* Mutant: only the generation the pointer names is cancelled.
CancelCurrent ==
    /\ dir' = [dir EXCEPT !.markers = @ \ {dir.current}, !.current = 0, !.record = NoRecord]
    /\ worker' = [g \in Gen |-> IF g = dir.current THEN [worker[g] EXCEPT !.proof = FALSE] ELSE worker[g]]

\* wakeCancelGenerations: the directories of all generations go, and with them
\* the lock files of workers that still run.
CancelAll ==
    /\ dir' = [dir EXCEPT !.markers = {}, !.current = 0, !.record = NoRecord]
    /\ worker' = [g \in Gen |-> [worker[g] EXCEPT !.proof = FALSE]]

\* wakeWorkerRunning: the lifetime lock is held, or the process lives and its
\* record is not older than the grace period.
Running(rec) == rec.gen # 0 /\ Lives(rec.gen) /\ (worker[rec.gen].proof \/ rec.young)

CallerAt(c, pc) == caller[c].pc = pc

\* wakeEnsure up to the lifecycle lock, which it takes here; without a native
\* endpoint, or with messaging switched off, it tears the listener down.
EnsureListener(c, e) ==
    /\ CallerAt(c, "idle")
    /\ ~dir.locked
    /\ dir' = [dir EXCEPT !.locked = TRUE]
    /\ caller' = [caller EXCEPT ![c] = [NewCaller EXCEPT !.endpoint = e,
                                            !.pc = IF e = NoEndpoint THEN "teardown" ELSE "decide"]]
    /\ IF e = NoEndpoint THEN WakeMishap ELSE Smooth
    /\ UNCHANGED <<ledger, worker, mail, nudged, pardons>>

\* The same configuration, a current marker and a worker that provably runs.
UpToDate(e) == /\ dir.record.gen # 0 /\ dir.record.endpoint = e
               /\ dir.current = dir.record.gen /\ dir.current \in dir.markers
               /\ Running(dir.record)

\* Nothing to do.
KeepListener(c) ==
    /\ CallerAt(c, "decide")
    /\ UpToDate(caller[c].endpoint)
    /\ dir' = [dir EXCEPT !.locked = FALSE]
    /\ caller' = [caller EXCEPT ![c] = NewCaller]
    /\ UNCHANGED <<ledger, worker, mail, nudged, pardons, wakeMishaps>>

\* Otherwise: remember the outgoing worker and cancel every generation.
SupersedeListener(c) ==
    /\ CallerAt(c, "decide")
    /\ ~UpToDate(caller[c].endpoint)
    /\ CancelAll
    /\ caller' = [caller EXCEPT ![c] = [@ EXCEPT !.pc = "mint", !.old = dir.record,
                                                 !.alive = Running(dir.record)]]
    /\ UNCHANGED <<ledger, mail, nudged, pardons, wakeMishaps>>

\* A fresh generation: its marker, then the pointer, both before the spawn.
Mint(c) ==
    /\ CallerAt(c, "mint")
    /\ \E g \in Gen :
         /\ ~Lives(g) /\ ~(caller[c].alive /\ g = caller[c].old.gen)
         /\ dir' = [dir EXCEPT !.markers = @ \cup {g}]
         /\ caller' = [caller EXCEPT ![c] = [@ EXCEPT !.pc = "point", !.gen = g]]
         /\ pardons' = [pardons EXCEPT ![g] = 0]
    /\ UNCHANGED <<ledger, worker, mail, nudged, wakeMishaps>>

Point(c) ==
    /\ CallerAt(c, "point")
    /\ dir' = [dir EXCEPT !.current = caller[c].gen]
    /\ caller' = [caller EXCEPT ![c] = [@ EXCEPT !.pc = "spawn"]]
    /\ UNCHANGED <<ledger, worker, mail, nudged, pardons, wakeMishaps>>

\* The worker starts, and then the record is written; or it does not start, and
\* the outgoing one gets its marker, pointer and record back if it was running.
Spawn(c) ==
    /\ CallerAt(c, "spawn")
    /\ worker' = [worker EXCEPT ![caller[c].gen] = [NewWorker EXCEPT !.pc = "start"]]
    /\ caller' = [caller EXCEPT ![c] = [@ EXCEPT !.pc = "record"]]
    /\ UNCHANGED <<dir, ledger, mail, nudged, pardons, wakeMishaps>>

WriteRecord(c) ==
    /\ CallerAt(c, "record")
    /\ dir' = [dir EXCEPT !.record = [gen |-> caller[c].gen, endpoint |-> caller[c].endpoint, young |-> TRUE],
                          !.locked = FALSE]
    /\ caller' = [caller EXCEPT ![c] = NewCaller]
    /\ UNCHANGED <<ledger, worker, mail, nudged, pardons, wakeMishaps>>

SpawnFails(c) ==
    /\ CallerAt(c, "spawn")
    /\ WakeMishap
    /\ CancelAll
    /\ caller' = [caller EXCEPT ![c] = [@ EXCEPT !.pc = IF caller[c].alive THEN "restore" ELSE "leave"]]
    /\ UNCHANGED <<ledger, mail, nudged, pardons>>

\* wakeRestoreGeneration; the record keeps the time of its start.
Restore(c) ==
    /\ CallerAt(c, "restore")
    /\ dir' = [dir EXCEPT !.markers = @ \cup {caller[c].old.gen}, !.current = caller[c].old.gen,
                          !.record = caller[c].old]
    /\ pardons' = [pardons EXCEPT ![caller[c].old.gen] = 0]
    /\ caller' = [caller EXCEPT ![c] = [@ EXCEPT !.pc = "leave"]]
    /\ UNCHANGED <<ledger, worker, mail, nudged, wakeMishaps>>

Leave(c) ==
    /\ CallerAt(c, "leave")
    /\ dir' = [dir EXCEPT !.locked = FALSE]
    /\ caller' = [caller EXCEPT ![c] = NewCaller]
    /\ UNCHANGED <<ledger, worker, mail, nudged, pardons, wakeMishaps>>

\* wakeStop looks at the record without the lock: a listener on another endpoint
\* than its own is left alone.
Stop(c, e) ==
    /\ CallerAt(c, "idle")
    /\ e = NoEndpoint \/ dir.record.gen = 0 \/ dir.record.endpoint = e
    /\ WakeMishap
    /\ caller' = [caller EXCEPT ![c] = [NewCaller EXCEPT !.pc = "stop", !.endpoint = e]]
    /\ UNCHANGED <<dir, ledger, worker, mail, nudged, pardons>>

\* wakeTeardownLocked takes the lock, or leaves the listener running.
StopLocks(c) ==
    /\ CallerAt(c, "stop")
    /\ ~dir.locked
    /\ dir' = [dir EXCEPT !.locked = TRUE]
    /\ caller' = [caller EXCEPT ![c] = [@ EXCEPT !.pc = "teardown"]]
    /\ UNCHANGED <<ledger, worker, mail, nudged, pardons, wakeMishaps>>

Teardown(c) ==
    /\ CallerAt(c, "teardown")
    /\ CancelAll
    /\ caller' = [caller EXCEPT ![c] = [@ EXCEPT !.pc = "leave"]]
    /\ UNCHANGED <<ledger, mail, nudged, pardons, wakeMishaps>>

\* The host kills the hook, or the machine does: the lock is free again.
CallerDies(c) ==
    /\ ~CallerAt(c, "idle")
    /\ WakeMishap
    /\ dir' = [dir EXCEPT !.locked = IF CallerAt(c, "stop") THEN @ ELSE FALSE]
    /\ caller' = [caller EXCEPT ![c] = NewCaller]
    /\ UNCHANGED <<ledger, worker, mail, nudged, pardons>>

LifecycleStep(c) == \/ KeepListener(c) \/ SupersedeListener(c) \/ Mint(c) \/ Point(c) \/ Spawn(c)
                    \/ WriteRecord(c) \/ SpawnFails(c) \/ Restore(c) \/ Leave(c)
                    \/ StopLocks(c) \/ Teardown(c)

-----------------------------------------------------------------------------
(* The listener *)

WorkerAt(g, pc) == worker[g].pc = pc
Put(g, rec) == worker' = [worker EXCEPT ![g] = rec]

\* controlOK: the generation's marker is in place.
ControlOK(g) == g \in dir.markers

\* The process ends; the identity's lock ends with it.
EndWorker(g) == /\ Put(g, NewWorker)
                /\ ledger' = [ledger EXCEPT !.holder = IF @ = g THEN 0 ELSE @]

\* wakeRun: the marker is checked and the lifetime lock taken; a stop that landed
\* since the spawn wins.
Begin(g) ==
    /\ WorkerAt(g, "start")
    /\ IF ControlOK(g) THEN Put(g, [worker[g] EXCEPT !.pc = "lock", !.proof = TRUE]) /\ UNCHANGED ledger
                       ELSE EndWorker(g)
    /\ UNCHANGED <<dir, caller, mail, nudged, pardons, wakeMishaps>>

\* acquireLockWait and loadWakeState.
TakeLedger(g) ==
    /\ WorkerAt(g, "lock")
    /\ ControlOK(g)
    /\ ledger.holder = 0
    /\ ledger' = [ledger EXCEPT !.holder = g]
    /\ Put(g, [worker[g] EXCEPT !.pc = "boot", !.mem = ledger.disk])
    /\ UNCHANGED <<dir, caller, mail, nudged, pardons, wakeMishaps>>

\* Superseded while it waits, or the predecessor does not let go in time.
GiveUp(g) ==
    /\ WorkerAt(g, "lock")
    /\ IF ControlOK(g) THEN ledger.holder # 0 /\ WakeMishap ELSE Smooth
    /\ EndWorker(g)
    /\ UNCHANGED <<dir, caller, mail, nudged, pardons>>

\* Registered and probed: the loop begins with a pass of its own.
Boot(g) ==
    /\ WorkerAt(g, "boot")
    /\ Put(g, [worker[g] EXCEPT !.pc = "loop", !.hint = TRUE])
    /\ UNCHANGED <<dir, caller, ledger, mail, nudged, pardons, wakeMishaps>>

\* A probe answers that the native target is gone.
ProbeFails(g) ==
    /\ worker[g].pc \in {"boot", "loop"}
    /\ WakeMishap
    /\ EndWorker(g)
    /\ UNCHANGED <<dir, caller, mail, nudged, pardons>>

\* watchControl polls the marker and cancels; the loop then ends.
WatchControl(g) ==
    /\ worker[g].pc \notin {"none", "start", "lock"}
    /\ ~ControlOK(g) /\ ~worker[g].stop
    /\ Put(g, [worker[g] EXCEPT !.stop = TRUE])
    /\ UNCHANGED <<dir, caller, ledger, mail, nudged, pardons, wakeMishaps>>

Cancelled(g) ==
    /\ worker[g].pc \in {"boot", "loop"} /\ worker[g].stop
    /\ EndWorker(g)
    /\ UNCHANGED <<dir, caller, mail, nudged, pardons, wakeMishaps>>

\* sseLoop: connected, it gets the server's first hint; the stream may break.
StreamOpens(g) ==
    /\ WorkerAt(g, "loop") /\ ~worker[g].linked
    /\ Put(g, [worker[g] EXCEPT !.linked = TRUE, !.hint = TRUE])
    /\ UNCHANGED <<dir, caller, ledger, mail, nudged, pardons, wakeMishaps>>

StreamBreaks(g) ==
    /\ worker[g].linked
    /\ WakeMishap
    /\ Put(g, [worker[g] EXCEPT !.linked = FALSE])
    /\ UNCHANGED <<dir, caller, ledger, mail, nudged, pardons>>

\* The server's reconciliation of an open stream while mail can be read.
ReconcileTick(g) ==
    /\ worker[g].linked /\ ~worker[g].hint
    /\ \E m \in Mail : mail[m] = "unread"
    /\ Put(g, [worker[g] EXCEPT !.hint = TRUE])
    /\ UNCHANGED <<dir, caller, ledger, mail, nudged, pardons, wakeMishaps>>

\* fetchUnread: the oldest page of readable mail; only when it is full and all of
\* it is refused, scanLog pages the whole log from its newest entry, read and
\* leased mail included, up to the first page with a hit or to its budget.
UnreadMail == {m \in Mail : mail[m] = "unread"}
Logged == {m \in Mail : mail[m] # "unsent"}
Page == {m \in UnreadMail : Cardinality({n \in UnreadMail : n < m}) < PageSize}
LogPages(k) == {m \in Logged : Cardinality({n \in Logged : n > m}) < k * LogPage}
LogScan(k) == (LogPages(k) \cap UnreadMail) \ Refused
LogHits == LET ks == {k \in 1..LogBudget : (k - 1) * LogPage < LogBudget /\ LogScan(k) # {}}
           IN IF ks = {} THEN {} ELSE LogScan(Min(ks))

\* Mutant: no second scan behind a page of refused senders.
PageOnly == Page \ Refused

FetchUnread == IF Cardinality(Page) = PageSize /\ Page \subseteq Refused THEN LogHits ELSE Page \ Refused

\* A pass of the loop: for a hint, or when the recheck timer fires.
Scan(g, byTimer) ==
    /\ WorkerAt(g, "loop") /\ ~worker[g].stop /\ MaxWakes > 0
    /\ IF byTimer THEN worker[g].due = 0 ELSE worker[g].hint
    /\ LET w == IF byTimer THEN [worker[g] EXCEPT !.due = -1] ELSE [worker[g] EXCEPT !.hint = FALSE] IN
       \/ Smooth /\ Put(g, IF FetchUnread = {} THEN w
                            ELSE [w EXCEPT !.pc = "gate", !.scan = FetchUnread])
       \/ WakeMishap /\ Put(g, [w EXCEPT !.due = 0])
    /\ UNCHANGED <<dir, caller, ledger, mail, nudged, pardons>>

\* The gates of processWake: the cooldown of an unchanged inbox, the budget, and
\* the marker once more.
Gate(g) ==
    /\ WorkerAt(g, "gate")
    /\ LET w == worker[g] IN
       IF (w.scan = w.mem.print /\ w.mem.cool > 0) \/ Len(w.mem.attempts) >= MaxWakes
         THEN Put(g, [w EXCEPT !.pc = "schedule", !.scan = {}]) /\ UNCHANGED ledger
       ELSE IF ControlOK(g)
         THEN Put(g, [w EXCEPT !.pc = "reserve", !.since = WakeWindow]) /\ UNCHANGED ledger
       ELSE EndWorker(g)
    /\ UNCHANGED <<dir, caller, mail, nudged, pardons, wakeMishaps>>

\* Mutant: an attempt is reserved whether its window is still open or not.
ReservedStale(w) == [w.mem EXCEPT !.attempts = Append(@, w.since)]

\* reserveAttempt, on disk before the handoff.  A save that fails keeps the
\* attempt in memory and is retried by the timer.
Reserved(w) == [w.mem EXCEPT !.attempts = IF w.since > 0 THEN Append(@, w.since) ELSE @]

ReserveAttempt(g) ==
    /\ WorkerAt(g, "reserve")
    /\ LET mem == Reserved(worker[g]) IN
       \/ /\ Smooth
          /\ ledger' = [ledger EXCEPT !.disk = mem]
          /\ Put(g, [worker[g] EXCEPT !.pc = "wake", !.mem = mem])
       \/ /\ WakeMishap
          /\ Put(g, [worker[g] EXCEPT !.pc = "loop", !.mem = mem, !.due = 0, !.scan = {}])
          /\ UNCHANGED ledger
    /\ UNCHANGED <<dir, caller, mail, nudged, pardons>>

\* The host has the nudge.
Reaches(g) == /\ nudged' = IF worker[g].since > 0 THEN Append(nudged, worker[g].since) ELSE nudged
              /\ pardons' = IF ControlOK(g) THEN pardons ELSE [pardons EXCEPT ![g] = @ + 1]

\* A save of the state file after the handoff is best effort.
SaveBestEffort(mem) == \/ Smooth /\ ledger' = [ledger EXCEPT !.disk = mem]
                       \/ WakeMishap /\ UNCHANGED ledger

\* Accepted: the set it was for is remembered, for a cooldown that began when the
\* pass looked at the clock.
WakeAccepted(g) ==
    /\ WorkerAt(g, "wake")
    /\ Reaches(g)
    /\ LET cool == Cooldown - (WakeWindow - worker[g].since)
           mem == [worker[g].mem EXCEPT !.print = worker[g].scan, !.cool = IF cool > 0 THEN cool ELSE 0] IN
       /\ SaveBestEffort(mem)
       /\ Put(g, [worker[g] EXCEPT !.pc = "schedule", !.mem = mem, !.scan = {}])
    /\ UNCHANGED <<dir, caller, mail>>

\* refundAttempt takes the latest reservation back.
Refunded(w) == [w.mem EXCEPT !.attempts = IF @ = <<>> THEN @ ELSE Front(@)]

\* Nothing reached the host: it was busy.
WakeBusy(g) ==
    /\ WorkerAt(g, "wake")
    /\ LET mem == Refunded(worker[g]) IN
       /\ SaveBestEffort(mem)
       /\ Put(g, [worker[g] EXCEPT !.pc = "loop", !.mem = mem, !.due = 0, !.scan = {}])
    /\ UNCHANGED <<dir, caller, mail, nudged, pardons>>

\* Or gone: the listener ends.
WakeUnavailable(g) ==
    /\ WorkerAt(g, "wake")
    /\ WakeMishap
    /\ Put(g, NewWorker)
    /\ ledger' \in {[disk |-> d, holder |-> 0] : d \in {ledger.disk, Refunded(worker[g])}}
    /\ UNCHANGED <<dir, caller, mail, nudged, pardons>>

\* Any other error, a cancelled call included, may have reached the host: the
\* attempt stays reserved.
WakeAmbiguous(g) ==
    /\ WorkerAt(g, "wake")
    /\ IF worker[g].stop THEN Smooth ELSE WakeMishap
    /\ Reaches(g) \/ UNCHANGED <<nudged, pardons>>
    /\ Put(g, [worker[g] EXCEPT !.pc = "loop", !.due = 0, !.scan = {}])
    /\ UNCHANGED <<dir, caller, ledger, mail>>

\* scheduleMaintenance, with a clock of its own: the end of the cooldown or of
\* the oldest attempt when the budget is full, whatever comes first and lies
\* ahead; when neither does, the timer stays as it is.
ScheduleMaintenance(g) ==
    /\ WorkerAt(g, "schedule")
    /\ LET mem == worker[g].mem
           ahead == (IF mem.cool > 0 THEN {mem.cool} ELSE {})
                    \cup (IF Len(mem.attempts) >= MaxWakes THEN {mem.attempts[1]} ELSE {}) IN
       Put(g, [worker[g] EXCEPT !.pc = "loop", !.due = IF ahead = {} THEN @ ELSE Min(ahead)])
    /\ UNCHANGED <<dir, caller, ledger, mail, nudged, pardons, wakeMishaps>>

WorkerDies(g) ==
    /\ Lives(g)
    /\ WakeMishap
    /\ EndWorker(g)
    /\ UNCHANGED <<dir, caller, mail, nudged, pardons>>

ListenerStep(g) == \/ Begin(g) \/ TakeLedger(g) \/ GiveUp(g) \/ Boot(g) \/ Cancelled(g)
                   \/ Scan(g, FALSE) \/ Scan(g, TRUE) \/ Gate(g) \/ ReserveAttempt(g)
                   \/ WakeAccepted(g) \/ WakeBusy(g) \/ WakeUnavailable(g) \/ WakeAmbiguous(g)
                   \/ ScheduleMaintenance(g)

-----------------------------------------------------------------------------
(* Around it *)

\* A letter arrives; the bus hints to the open streams.
MailArrives(m) ==
    /\ mail[m] = "unsent"
    /\ m > 1 => mail[m - 1] # "unsent"
    /\ mail' = [mail EXCEPT ![m] = "unread"]
    /\ worker' = [g \in Gen |-> [worker[g] EXCEPT !.hint = @ \/ worker[g].linked]]
    /\ UNCHANGED <<dir, caller, ledger, nudged, pardons, wakeMishaps>>

\* The session's inbox hook leases a letter, and acknowledges it or lets it go.
HookReads(m) ==
    /\ \/ mail[m] = "unread" /\ mail' = [mail EXCEPT ![m] = "leased"]
       \/ mail[m] = "leased" /\ \E st \in {"unread", "read"} : mail' = [mail EXCEPT ![m] = st]
    /\ UNCHANGED <<dir, caller, ledger, worker, nudged, pardons, wakeMishaps>>

Aged(n) == IF n > 0 THEN n - 1 ELSE n
\* pruneAttempts: in their order, the attempts that have a window left.
AgedSeq(s) == LET kept[n \in 0..Len(s)] == IF n = 0 THEN <<>>
                                           ELSE IF s[n] > 1 THEN Append(kept[n-1], s[n] - 1)
                                           ELSE kept[n-1]
              IN  kept[Len(s)]
AgedBudget(b) == [b EXCEPT !.attempts = AgedSeq(@), !.cool = Aged(@)]

\* Time passes; an attempt whose window is over is pruned before it is counted.
\* A tick is longer than the start of a worker, as the grace period is.
WakeTick ==
    /\ \A g \in Gen : ~WorkerAt(g, "start")
    /\ worker' = [g \in Gen |-> [worker[g] EXCEPT !.mem = AgedBudget(@), !.due = Aged(@), !.since = Aged(@)]]
    /\ ledger' = [ledger EXCEPT !.disk = AgedBudget(@)]
    /\ nudged' = AgedSeq(nudged)
    /\ dir' = [dir EXCEPT !.record.young = FALSE]
    /\ caller' = [c \in Callers |-> [caller[c] EXCEPT !.old.young = FALSE]]
    /\ UNCHANGED <<mail, pardons, wakeMishaps>>

WakeNext ==
    \/ \E c \in Callers : \/ \E e \in Endpoints \cup {NoEndpoint} : EnsureListener(c, e) \/ Stop(c, e)
                           \/ LifecycleStep(c) \/ CallerDies(c)
    \/ \E g \in Gen : \/ ListenerStep(g) \/ WatchControl(g) \/ ProbeFails(g) \/ StreamOpens(g)
                       \/ StreamBreaks(g) \/ ReconcileTick(g) \/ WorkerDies(g)
    \/ \E m \in Mail : MailArrives(m) \/ HookReads(m)
    \/ WakeTick

WakeSpec == WakeInit /\ [][WakeNext]_wakeVars

\* Hooks and listeners go on, streams reconnect, the clock ticks, the user keeps
\* prompting; a busy host is idle in the end.
WakeRecurs(i, c, g) == \/ i = 1 /\ \E e \in Endpoints : EnsureListener(c, e)
                       \/ i = 2 /\ WakeAccepted(g)
                       \/ i = 3 /\ Scan(g, FALSE)
                       \/ i = 4 /\ StreamOpens(g)
                       \/ i = 5 /\ ReconcileTick(g)

WakeProceeds(i, c, g) == \/ i = 1 /\ LifecycleStep(c)
                         \/ i = 2 /\ ListenerStep(g)
                         \/ i = 3 /\ WatchControl(g)
                         \/ i = 4 /\ WakeTick

WakeFairness == \A c \in Callers, g \in Gen : /\ \A i \in 1..4 : WF_wakeVars(WakeProceeds(i, c, g))
                                              /\ \A i \in 1..5 : SF_wakeVars(WakeRecurs(i, c, g))

WakeFairSpec == WakeSpec /\ WakeFairness

-----------------------------------------------------------------------------
(* Properties *)

\* Type correctness of the directory, the budget, the processes and the history.
WakeTypeOK ==
    /\ dir.markers \subseteq Gen /\ dir.current \in 0..Gens
    /\ dir.record \in Record /\ dir.locked \in BOOLEAN
    /\ ledger.disk \in Budget /\ ledger.holder \in 0..Gens
    /\ \A c \in Callers : caller[c].old \in Record /\ caller[c].gen \in 0..Gens
    /\ \A g \in Gen : /\ worker[g].mem \in Budget /\ worker[g].scan \subseteq Mail
                      /\ worker[g].due \in -1..WakeWindow + Cooldown
                      /\ worker[g].since \in 0..WakeWindow
    /\ mail \in [Mail -> {"unsent", "unread", "leased", "read"}]
    /\ nudged \in Seq(Life)
    /\ wakeMishaps \in 0..WakeFaults

\* "a daemon bounce cannot reset the storm cap": whatever crashes, is replaced or
\* fails to save, the host is nudged at most MaxWakes times in any window.
StormCap == Len(nudged) <= MaxWakes

\* "guarantees ONE detached listener": at most one generation has its marker,
\* wherever an ensure was killed and whatever a failed spawn restored.
OneGeneration == Cardinality(dir.markers) <= 1

\* A superseded worker stops: it hands over at most the one nudge that was past
\* its last look at the marker when the marker went away.
SupersededIsSilent == \A g \in Gen : pardons[g] <= 1

\* Mail of an allowed sender that stays in the inbox is nudged about, again and
\* again, although crashes end listeners, the budget runs out, the host is busy
\* and refused mail fills the first page.
MailIsNudged == \A m \in Mail \ Refused :
    <>[](mail[m] = "unread") => []<><<\E g \in Gen : WakeAccepted(g)>>_wakeVars

\* A stop "proves it is looking at ITS listener before tearing down": a listener
\* recorded for another endpoint survives it.
StopSparesOthers ==
    [][\A c \in Callers : Teardown(c) /\ caller[c].endpoint \in Endpoints /\ dir.record.gen # 0
                          => dir.record.endpoint = caller[c].endpoint]_wakeVars

\* The listener's promises to its host: a capped rate, one generation, no nudge by
\* a superseded worker beyond the one that was under way.
WakeSafety == StormCap /\ OneGeneration /\ SupersededIsSilent
=============================================================================
