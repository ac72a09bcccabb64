----------------------------- MODULE HookInbox ------------------------------
(* `punk hook inbox` (internal/hookcli/inbox.go): a subprocess per hook event
   leases the unread messages of its session, prints them for the client and
   acknowledges what was printed.  Two of them may overlap.  All they share is
   the server's inbox and one state file per session, changed under a lock.

   A letter is a message of the inbox; their numbers are the order of arrival.
   How many letters fit into the client's reply is a choice (Render).  Answers
   that return before anything was read or written (bad payload, messaging off,
   namespace lookup failed) are left out.                                     *)
EXTENDS Integers, FiniteSets, Sequences

CONSTANTS Hooks,        \* hook subprocesses of one session
          NoHook,       \* no running owner
          Letters,      \* bound: messages are 1..Letters
          Held,         \* letters whose sender is outside PUNK_MESSAGING_FROM
          FetchLimit,   \* inboxFetchLimit
          ScanLimit,    \* inboxScanLimit()
          AckMemory,    \* inboxAckMemory
          MaxContinue,  \* continuations inside one window
          Window,       \* length of the window
          LockWait,     \* bound: inboxLockTimeout, how old a clock may be under the lock
          HookClock,    \* bound: last tick of the clock
          SlotNumbers,  \* bound: continuation slots in use or shown
          HookFaults    \* bound: lost answers, lock timeouts, kills, slow hooks

ASSUME HookConstants ==
    /\ NoHook \notin Hooks
    /\ {Letters, ScanLimit, MaxContinue, LockWait, HookClock, SlotNumbers, HookFaults} \subseteq Nat
    /\ {FetchLimit, AckMemory, Window} \subseteq Nat \ {0}
    /\ Held \subseteq 1..Letters

VARIABLES box,       \* the recipient's rows of agent_messages
          file,      \* the session's state file
          hook,      \* the subprocesses
          hookTime,  \* the clock of the continuation window
          shown,     \* history: how often each letter reached the client
          blocks,    \* history: slots of the continuations that reached it
          faulty     \* faults so far

hookVars == <<box, file, hook, hookTime, shown, blocks, faulty>>

Letter == 1..Letters
Row == [st : {"unsent", "unread", "acked"}, by : Hooks \cup {NoHook}, live : BOOLEAN]
Outcome == {"waiting_for_next_prompt", "sender_filtered", "delivery_failed",
            "wake_budget_exhausted", "handoff_unconfirmed"}
HookPc == {"idle", "peek", "register", "fetch", "reack", "unhold", "wait", "render",
           "reserve", "write", "giveback", "refund", "remember", "ack", "leftover", "flush"}

\* An entry of the continuation window.  Entries with one stamp are alike in the
\* file; here a number tells whose they are.
Slot == [at : 0..HookClock, no : 1..SlotNumbers]
NoSlot == [at |-> -1, no |-> 0]

\* cont: a continuation is wanted; st: ids remembered when the hook began;
\* used and left: leased letters in and out of the reply, which come in the order
\* of their numbers; now: the clock it read before it asked for the lock; slot: what
\* it reserved.
Hook == [pc : HookPc, event : {"prompt", "stop"}, mode : {"context", "wait"}, cont : BOOLEAN,
         st : SUBSET Letter, seen : SUBSET Letter, reack : SUBSET Letter, heldBack : SUBSET Letter,
         used : SUBSET Letter, left : SUBSET Letter, more : BOOLEAN, failed : BOOLEAN,
         now : 0..HookClock, slot : Slot \cup {NoSlot}, capped : BOOLEAN, diag : Outcome]

NewHook == [pc |-> "idle", event |-> "prompt", mode |-> "context", cont |-> FALSE,
            st |-> {}, seen |-> {}, reack |-> {}, heldBack |-> {}, used |-> {},
            left |-> {}, more |-> FALSE, failed |-> FALSE, now |-> 0, slot |-> NoSlot,
            capped |-> FALSE, diag |-> "waiting_for_next_prompt"]

HookInit == /\ box = [m \in Letter |-> [st |-> "unsent", by |-> NoHook, live |-> FALSE]]
            /\ file = [conts |-> {}, acked |-> <<>>]
            /\ hook = [p \in Hooks |-> NewHook]
            /\ hookTime = 0
            /\ shown = [m \in Letter |-> 0]
            /\ blocks = {}
            /\ faulty = 0

\* Everything is settled but the report.
Reporting(diag) == [NewHook EXCEPT !.pc = "flush", !.diag = diag]

At(p, pc) == hook[p].pc = pc
Become(p, rec) == hook' = [hook EXCEPT ![p] = rec]
Fault == faulty < HookFaults /\ faulty' = faulty + 1
NoFault == UNCHANGED faulty

-----------------------------------------------------------------------------
(* The server's side of one call *)

\* ReadMessagesWithOptions: unread and without a live lease, the caller's own
\* included.
AvailableTo == {m \in Letter : box[m].st = "unread" /\ ~box[m].live}

Oldest(S, n) == {m \in S : Cardinality({k \in S : k < m}) < n}

LeaseTo(p, S) == [m \in Letter |-> IF m \in S THEN [st |-> "unread", by |-> p, live |-> TRUE] ELSE box[m]]

\* The rows of S with this owner's live lease.
OwnedBy(p, S) == {m \in S : box[m].by = p /\ box[m].live /\ box[m].st = "unread"}

AckOf(p, S) == [m \in Letter |-> IF m \in OwnedBy(p, S)
                                  THEN [st |-> "acked", by |-> NoHook, live |-> FALSE] ELSE box[m]]

ReleaseOf(p, S) == [m \in Letter |-> IF m \in OwnedBy(p, S)
                                      THEN [st |-> "unread", by |-> NoHook, live |-> FALSE] ELSE box[m]]

\* An acknowledgement whose request or whose answer is lost.
AckLost(p, S) == Fault /\ (box' = AckOf(p, S) \/ UNCHANGED box)

\* Best effort: a release that fails leaves the lease to run out.
Released(p, S) == \/ NoFault /\ box' = ReleaseOf(p, S)
                  \/ S # {} /\ Fault /\ UNCHANGED box

-----------------------------------------------------------------------------
(* The state file.  updateInboxState reads and replaces it under the lock: one
   step, or none when the lock is not to be had in time.                      *)

\* Only the entries of the window that ends now.
Prune(conts, now) == {c \in conts : c.at > now - Window}
LastOf(s, n) == IF Len(s) > n THEN SubSeq(s, Len(s) - n + 1, Len(s)) ELSE s
Remembered == {file.acked[i] : i \in DOMAIN file.acked}

\* The letters of S, oldest first.
InOrder(S) == {q \in [1..Cardinality(S) -> S] : \A i, j \in DOMAIN q : i < j => q[i] < q[j]}

\* An entry, told from all that are kept, shown or in hand.
NewSlot(now, no) == [at |-> now, no |-> no]
Taken(no) == \E c \in file.conts \cup blocks \cup {hook[p].slot : p \in Hooks} : c.no = no
NextNumber(no) == ~Taken(no) /\ \A n \in 1..(no - 1) : Taken(n)

-----------------------------------------------------------------------------
(* One invocation *)

\* deliver: the mode is settled first.  Only a stop event can be continued, and
\* not while stop_hook_active says it already is.
StartHook(p, event, mode, active) ==
    /\ At(p, "idle")
    /\ LET cont == mode # "context" /\ event = "stop" /\ ~active IN
       Become(p, [NewHook EXCEPT !.pc = "peek", !.event = event, !.cont = cont,
                                 !.mode = IF cont /\ mode = "wait" THEN "wait" ELSE "context"])
    /\ UNCHANGED <<box, file, hookTime, shown, blocks, faulty>>

\* End of the process: the leases it still has keep running.
EndHook(p) == /\ hook' = [hook EXCEPT ![p] = NewHook]
              /\ box' = [m \in Letter |-> IF box[m].by = p THEN [box[m] EXCEPT !.by = NoHook] ELSE box[m]]

\* peekContinuation, CanCarry (a stop event carries nothing but a continuation)
\* and readInboxState.
Peek(p) ==
    /\ At(p, "peek")
    /\ LET room == Cardinality(Prune(file.conts, hookTime)) < MaxContinue
           cont == hook[p].cont /\ room IN
       IF hook[p].event = "stop" /\ ~cont
         THEN EndHook(p)
         ELSE /\ Become(p, [hook[p] EXCEPT !.pc = "register", !.cont = cont, !.st = Remembered])
              /\ UNCHANGED box
    /\ UNCHANGED <<file, hookTime, shown, blocks, faulty>>

\* Registration on every poll; without it the hook prints its minimum reply.
RegisterHook(p) ==
    /\ At(p, "register")
    /\ \/ NoFault /\ Become(p, [hook[p] EXCEPT !.pc = "fetch"]) /\ UNCHANGED box
       \/ Fault /\ EndHook(p)
    /\ UNCHANGED <<file, hookTime, shown, blocks>>

\* take sorts a page: printed before, held back, or to be delivered; and it goes
\* on to the next page only after a full page without anything to deliver.
SortPage(p, page) ==
    LET h == hook[p]
        fresh == page \ h.seen
        deliver == fresh \ (h.st \cup Held)
        seen == h.seen \cup page
    IN  [h EXCEPT !.pc = "reack", !.seen = seen, !.reack = fresh \cap h.st,
                  !.heldBack = @ \cup ((fresh \cap Held) \ h.st), !.used = deliver,
                  !.more = /\ deliver = {} /\ fresh # {} /\ Cardinality(page) = FetchLimit
                           /\ Cardinality(seen) < ScanLimit]

FetchPage(p) ==
    /\ At(p, "fetch")
    /\ LET page == Oldest(AvailableTo, FetchLimit) IN
       /\ box' = LeaseTo(p, page)
       /\ Become(p, SortPage(p, page))
    /\ UNCHANGED <<file, hookTime, shown, blocks, faulty>>

\* The request or the answer is lost; in the second case letters stay leased to
\* a hook that does not know it.
FetchFails(p) ==
    /\ At(p, "fetch")
    /\ Fault
    /\ box' \in {box, LeaseTo(p, Oldest(AvailableTo, FetchLimit))}
    /\ Become(p, [hook[p] EXCEPT !.pc = "unhold", !.failed = TRUE])
    /\ UNCHANGED <<file, hookTime, shown, blocks>>

\* Printed before, and its acknowledgement was lost: acknowledged in silence.
Reack(p) ==
    /\ At(p, "reack")
    /\ \/ NoFault /\ box' = AckOf(p, hook[p].reack)
       \/ hook[p].reack # {} /\ AckLost(p, hook[p].reack)
    /\ Become(p, [hook[p] EXCEPT !.pc = IF hook[p].more THEN "fetch" ELSE "unhold", !.reack = {}])
    /\ UNCHANGED <<file, hookTime, shown, blocks>>

\* The scan is over: what was held back is released.  A hook that waits goes on
\* waiting when there is nothing to deliver.
Unhold(p) ==
    /\ At(p, "unhold")
    /\ Released(p, hook[p].heldBack)
    /\ LET h == hook[p] IN
       Become(p, IF h.used # {} THEN [h EXCEPT !.pc = "render", !.st = {}, !.seen = {}]
                 ELSE IF h.mode = "wait" THEN [h EXCEPT !.pc = "wait", !.seen = {}, !.heldBack = {},
                                                        !.failed = FALSE]
                 ELSE Reporting(IF h.failed THEN "delivery_failed"
                                ELSE IF h.heldBack # {} THEN "sender_filtered" ELSE h.diag))
    /\ UNCHANGED <<file, hookTime, shown, blocks>>

\* wait: a hint of the stream, or the next retry, reads again; at the deadline
\* the hook goes home.  The remembered ids are still the ones of its beginning.
WaitAgain(p) ==
    /\ At(p, "wait")
    /\ Become(p, [hook[p] EXCEPT !.pc = "fetch"])
    /\ UNCHANGED <<box, file, hookTime, shown, blocks, faulty>>

WaitEnds(p) ==
    /\ At(p, "wait")
    /\ Become(p, Reporting(hook[p].diag))
    /\ UNCHANGED <<box, file, hookTime, shown, blocks, faulty>>

\* renderInbox: the letters that fit, oldest first; the first one is cut to fit.
\* None fits only when the client's cap is below the smallest envelope.  For a
\* continuation the clock is read next, before the lock is asked for.
Render(p) ==
    /\ At(p, "render")
    /\ \E n \in 0..Cardinality(hook[p].used) :
         /\ IF n = 0 THEN Fault ELSE NoFault
         /\ LET h == hook[p] IN
            Become(p, [h EXCEPT !.pc = IF n = 0 THEN "giveback" ELSE IF h.cont THEN "reserve" ELSE "write",
                                !.used = Oldest(h.used, n),
                                !.left = h.used \ Oldest(h.used, n),
                                !.now = IF n > 0 /\ h.cont THEN hookTime ELSE 0,
                                !.diag = IF n = 0 THEN "delivery_failed" ELSE @])
    /\ UNCHANGED <<box, file, hookTime, shown, blocks>>

\* reserveContinuation, the one place where the cap is enforced: under the lock, by
\* the clock read before.  Without the lock in time there is no slot.
Reserve(p) ==
    /\ At(p, "reserve")
    /\ LET h == hook[p]
           kept == Prune(file.conts, h.now) IN
       \/ /\ Cardinality(kept) < MaxContinue
          /\ NoFault
          /\ \E no \in 1..SlotNumbers :
                /\ NextNumber(no)
                /\ file' = [file EXCEPT !.conts = kept \cup {NewSlot(h.now, no)}]
                /\ Become(p, [h EXCEPT !.pc = "write", !.now = 0, !.slot = NewSlot(h.now, no)])
       \/ /\ Cardinality(kept) >= MaxContinue
          /\ NoFault
          /\ file' = [file EXCEPT !.conts = kept]
          /\ Become(p, [h EXCEPT !.pc = "write", !.now = 0, !.capped = TRUE])
       \/ Fault /\ UNCHANGED file /\ Become(p, [h EXCEPT !.pc = "write", !.now = 0])
    /\ UNCHANGED <<box, hookTime, shown, blocks>>

\* The reply writer: a stop event carries the letters only with a reserved slot.
Carries(h) == h.event = "prompt" \/ h.slot # NoSlot

\* Mutant: a reply that was not written counts as delivered.
WriteHopeful(p) ==
    /\ At(p, "write")
    /\ NoFault
    /\ LET h == hook[p] IN
       /\ shown' = [m \in Letter |-> IF Carries(h) /\ m \in h.used THEN shown[m] + 1 ELSE shown[m]]
       /\ blocks' = blocks \cup ({h.slot} \ {NoSlot})
       /\ Become(p, [h EXCEPT !.pc = "remember"])
    /\ UNCHANGED <<box, file, hookTime>>

WriteReply(p) ==
    /\ At(p, "write")
    /\ LET h == hook[p] IN
       \/ /\ Carries(h)
          /\ NoFault
          /\ shown' = [m \in Letter |-> IF m \in h.used THEN shown[m] + 1 ELSE shown[m]]
          /\ blocks' = blocks \cup ({h.slot} \ {NoSlot})
          /\ Become(p, [h EXCEPT !.pc = "remember"])
       \/ /\ IF Carries(h) THEN Fault ELSE NoFault
          /\ Become(p, [h EXCEPT !.pc = "giveback", !.left = h.used \cup h.left, !.used = {},
                                 !.diag = IF h.capped THEN "wake_budget_exhausted" ELSE "delivery_failed"])
          /\ UNCHANGED <<shown, blocks>>
    /\ UNCHANGED <<box, file, hookTime>>

\* Nothing reached the client: leases go back, then the reserved slot.
Giveback(p) ==
    /\ At(p, "giveback")
    /\ Released(p, hook[p].left)
    /\ Become(p, IF hook[p].slot # NoSlot THEN [hook[p] EXCEPT !.pc = "refund", !.left = {}]
                                      ELSE Reporting(hook[p].diag))
    /\ UNCHANGED <<file, hookTime, shown, blocks>>

Refund(p) ==
    /\ At(p, "refund")
    /\ \/ NoFault /\ file' = [file EXCEPT !.conts = @ \ {hook[p].slot}]
       \/ Fault /\ UNCHANGED file
    /\ Become(p, Reporting(hook[p].diag))
    /\ UNCHANGED <<box, hookTime, shown, blocks>>

\* rememberAcked: before the acknowledgement, so that a lost one is repeated in
\* silence.
Remember(p) ==
    /\ At(p, "remember")
    /\ \/ NoFault /\ \E q \in InOrder(hook[p].used) : file' = [file EXCEPT !.acked = LastOf(@ \o q, AckMemory)]
       \/ Fault /\ UNCHANGED file
    /\ Become(p, [hook[p] EXCEPT !.pc = "ack"])
    /\ UNCHANGED <<box, hookTime, shown, blocks>>

AckShown(p) ==
    /\ At(p, "ack")
    /\ LET h == hook[p] IN
       \/ /\ NoFault
          /\ box' = AckOf(p, h.used)
          /\ Become(p, [h EXCEPT !.pc = "leftover",
                                 !.diag = IF h.heldBack # {} THEN "sender_filtered" ELSE @])
       \/ /\ AckLost(p, h.used)
          /\ Become(p, [h EXCEPT !.pc = "leftover", !.diag = "handoff_unconfirmed"])
    /\ UNCHANGED <<file, hookTime, shown, blocks>>

Leftover(p) ==
    /\ At(p, "leftover")
    /\ Released(p, hook[p].left)
    /\ Become(p, Reporting(hook[p].diag))
    /\ UNCHANGED <<file, hookTime, shown, blocks>>

\* flushDiagnostic, after everything else and best effort; nothing here reads the
\* server's snapshot.
Flush(p) ==
    /\ At(p, "flush")
    /\ EndHook(p)
    /\ UNCHANGED <<file, hookTime, shown, blocks, faulty>>

HookStep(p) == \/ Peek(p) \/ RegisterHook(p) \/ FetchPage(p) \/ FetchFails(p) \/ Reack(p)
               \/ Unhold(p) \/ WaitAgain(p) \/ WaitEnds(p) \/ Render(p) \/ Reserve(p)
               \/ WriteReply(p) \/ Giveback(p) \/ Refund(p) \/ Remember(p) \/ AckShown(p)
               \/ Leftover(p) \/ Flush(p)

-----------------------------------------------------------------------------
(* Around it *)

\* Another agent sends.
Arrive(m) ==
    /\ box[m].st = "unsent"
    /\ m > 1 => box[m - 1].st # "unsent"
    /\ box' = [box EXCEPT ![m].st = "unread"]
    /\ UNCHANGED <<file, hook, hookTime, shown, blocks, faulty>>

\* A lease of 15 seconds ends: its hook is gone, or too slow.
LeaseEnds(m) ==
    /\ box[m].live
    /\ IF box[m].by = NoHook THEN NoFault ELSE Fault
    /\ box' = [box EXCEPT ![m].live = FALSE]
    /\ UNCHANGED <<file, hook, hookTime, shown, blocks>>

\* The client kills a hook that takes too long.
KillHook(p) ==
    /\ ~At(p, "idle")
    /\ Fault
    /\ EndHook(p)
    /\ UNCHANGED <<file, hookTime, shown, blocks>>

\* A hook does not wait for the lock longer than LockWait: by then it has the lock
\* or its error.
HookTick ==
    /\ hookTime < HookClock
    /\ \A p \in Hooks : At(p, "reserve") => hookTime < hook[p].now + LockWait
    /\ hookTime' = hookTime + 1
    /\ UNCHANGED <<box, file, hook, shown, blocks, faulty>>

HookNext ==
    \/ \E p \in Hooks : \/ StartHook(p, "prompt", "context", FALSE)
                        \/ \E mode \in {"continue", "wait"}, active \in BOOLEAN :
                             StartHook(p, "stop", mode, active)
                        \/ HookStep(p) \/ KillHook(p)
    \/ \E m \in Letter : Arrive(m) \/ LeaseEnds(m)
    \/ HookTick

HookSpec == HookInit /\ [][HookNext]_hookVars

\* Hooks finish (a waiting one at its deadline), leases end, and the user goes on
\* prompting.
HookFairness ==
    /\ \A p \in Hooks : /\ WF_hookVars(HookStep(p))
                        /\ SF_hookVars(WaitEnds(p))
                        /\ SF_hookVars(StartHook(p, "prompt", "context", FALSE))
    /\ \A m \in Letter : WF_hookVars(LeaseEnds(m))

HookFairSpec == HookSpec /\ HookFairness

-----------------------------------------------------------------------------
(* Properties *)

\* Type correctness of the inbox, the state file, the hooks and the history.
HookTypeOK ==
    /\ box \in [Letter -> Row]
    /\ file \in [conts : SUBSET Slot, acked : Seq(Letter)]
    /\ hook \in [Hooks -> Hook]
    /\ hookTime \in 0..HookClock
    /\ shown \in [Letter -> Nat]
    /\ blocks \subseteq Slot
    /\ faulty \in 0..HookFaults

\* deliver "acknowledges only what the writer says reached a client-consumed
\* field": whatever fails in between, and whoever acknowledges in the end, an
\* acknowledged letter was shown.
AckedWasShown == \A m \in Letter : box[m].st = "acked" => shown[m] > 0

\* A letter is shown once, and once more at most for every fault: leases keep
\* overlapping hooks apart, the state file makes up for lost acknowledgements.
DuplicatesNeedFaults == \A m \in Letter : shown[m] <= 1 + faulty

\* reserveContinuation is "the single admission point for the cap, so concurrent
\* hooks cannot overshoot it".  Judged by a clock that may be LockWait old, and on
\* entries that a later clock has pruned, that holds of windows shorter by the wait:
\* no MaxContinue + 1 continuations reach the client within one of them.
ContinuationCap ==
    \A t \in 0..HookClock :
        Cardinality({c \in blocks : t - (Window - LockWait) < c.at /\ c.at <= t}) <= MaxContinue

\* Every way out of an invocation hands back what it leased and did not show:
\* a lease without a running owner is the trace of a fault.
LeasesComeBack == faulty = 0 => \A m \in Letter : box[m].live => box[m].by # NoHook

\* A hook about to send its report calls the delivery failed or unconfirmed only
\* after a fault; that the cap runs out between peek and reservation is none.
NoFalseAlarm ==
    \A p \in Hooks : At(p, "flush") /\ hook[p].diag \in {"delivery_failed", "handoff_unconfirmed"}
                     => faulty > 0

\* With faults that end and a user who goes on prompting, every letter of an
\* allowed sender is acknowledged, hence shown, although the letters held back
\* stay in front of it for ever.
LettersArrive == \A m \in Letter \ Held : box[m].st = "unread" ~> box[m].st = "acked"

\* What the state file remembers as printed is not printed again.
RememberedStaysSilent ==
    [][\A m \in Letter : m \in Remembered => shown'[m] = shown[m]]_hookVars

\* What an invocation and its successors never get wrong, whatever overlaps or fails.
HookSafety == AckedWasShown /\ DuplicatesNeedFaults /\ ContinuationCap /\ LeasesComeBack /\ NoFalseAlarm
=============================================================================
