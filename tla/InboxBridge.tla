----------------------------- MODULE InboxBridge ----------------------------
(* The messaging bridge inside a long-lived client extension: the shared client
   of internal/hookcli/inbox_renderjs.go and the Pi bridge on top of it
   (pi_extension.go).  It is one JavaScript event loop, so what runs between two
   awaits is one step here; drains, injections, re-acknowledgement passes and
   namespace lookups interleave at the awaits.

   The session's namespace is bound at the server and may move.  A move gives
   the session a new state object; work of the old one goes on until it notices.
   Time passes in lease windows.  Requests that nobody awaits take effect, or
   are lost, in the step that sends them.                                      *)
EXTENDS Integers, FiniteSets, Sequences, SequencesExt

CONSTANTS Parcels,     \* bound: messages are 1..Parcels, in order of arrival
          SideParcels, \* the ones of the namespace "side"; the others' is "main"
          Banned,      \* parcels whose sender is outside PUNK_MESSAGING_FROM
          RowLimit,    \* PUNK_INBOX_FETCH_LIMIT
          Rounds,      \* PUNK_INBOX_MAX_ROUNDS
          WakeCap,     \* wakes inside one window
          Objs,        \* bound: state objects, one more than binding moves
          BridgeEvents \* bound: lost requests, answers and streams, slow passes,
                       \* and turns the user starts

ASSUME BridgeConstants ==
    /\ {Parcels, WakeCap, BridgeEvents} \subseteq Nat
    /\ {RowLimit, Rounds, Objs} \subseteq Nat \ {0}
    /\ SideParcels \cup Banned \subseteq 1..Parcels

VARIABLES post,    \* the rows of the session's address, in both namespaces
          bind,    \* the server's inbox binding, and how often it moved
          cur,     \* the session's current state object, 0 after shutdown
          sess,    \* the state objects
          thr,     \* passes under way, by kind and object
          busy,    \* a turn runs, or nothing is known about it
          handed,  \* history: how often each parcel reached the host, see HandOver
          lost,    \* faults so far
          prompts  \* turns the user started so far

bridgeVars == <<post, bind, cur, sess, thr, busy, handed, lost, prompts>>

Parcel == 1..Parcels
Obj == 1..Objs
PassKinds == {"drain", "inject", "reack"}
Home(m) == IF m \in SideParcels THEN "side" ELSE "main"

NewSess(ns, ref) ==
    [ns |-> ns, registered |-> FALSE, pending |-> FALSE, ref |-> ref, ans |-> ns,
     delivered |-> {}, recent |-> {}, absent |-> {}, wakes |-> 0,
     delivering |-> FALSE, queued |-> FALSE, timers |-> {}, reack |-> -1]

\* rows: the round just read; got: all rows leased by the pass.
NoPass == [pc |-> "none", round |-> 0, rows |-> <<>>, got |-> {},
           deliver |-> <<>>, reack |-> {}, denied |-> {}, used |-> {}]

BridgeInit ==
    /\ post = [m \in Parcel |-> [st |-> "unsent", by |-> 0, live |-> FALSE]]
    /\ bind = [ns |-> "main", moves |-> 0]
    /\ cur = 1
    /\ sess = [o \in Obj |-> [NewSess("main", "ask") EXCEPT !.pending = TRUE]]
    /\ thr = [k \in PassKinds, o \in Obj |-> NoPass]
    /\ busy = TRUE
    /\ handed = [m \in Parcel |-> [times |-> 0, excuse |-> FALSE]]
    /\ lost = 0
    /\ prompts = 0

Lost == lost + prompts < BridgeEvents /\ lost' = lost + 1
Kept == UNCHANGED lost
Alive(o) == cur = o
Pass(k, o) == thr[<<k, o>>]
PassAt(k, o, pc) == Pass(k, o).pc = pc
SetPass(k, o, rec) == thr' = [thr EXCEPT ![<<k, o>>] = rec]
SetSess(o, rec) == sess' = [sess EXCEPT ![o] = rec]

\* History.  A slow pass, a move of the namespace, or giving up a pending parcel
\* excuses that a parcel is handed over more than once.
HandOver(S) == handed' = [m \in Parcel |->
                   IF m \in S THEN [handed[m] EXCEPT !.times = IF @ = 2 THEN 2 ELSE @ + 1] ELSE handed[m]]
Excuse(S) == handed' = [m \in Parcel |-> IF m \in S THEN [handed[m] EXCEPT !.excuse = TRUE] ELSE handed[m]]

-----------------------------------------------------------------------------
(* The server's side *)

\* Unread rows of the namespace without a live lease, the oldest first.
Rows(ns) == LET S == {m \in Parcel : post[m].st = "unread" /\ ~post[m].live /\ Home(m) = ns}
                n == IF Cardinality(S) < RowLimit THEN Cardinality(S) ELSE RowLimit
            IN SubSeq(SetToSortSeq(S, <), 1, n)

Leased(o, S) == [m \in Parcel |-> IF m \in S THEN [post[m] EXCEPT !.by = o, !.live = TRUE] ELSE post[m]]
OwnedRows(o, S) == {m \in S : post[m].by = o /\ post[m].live /\ post[m].st = "unread"}
AckedRows(o, S) == [m \in Parcel |-> IF m \in OwnedRows(o, S)
                                      THEN [st |-> "acked", by |-> 0, live |-> FALSE] ELSE post[m]]
FreedRows(o, S) == [m \in Parcel |-> IF m \in OwnedRows(o, S)
                                      THEN [post[m] EXCEPT !.by = 0, !.live = FALSE] ELSE post[m]]

\* punkInboxReleaseIds is best effort.
Frees(o, S) == \/ Kept /\ post' = FreedRows(o, S)
               \/ S # {} /\ Lost /\ UNCHANGED post

\* punkInboxAckIds succeeds only when the server acknowledged every id; then the
\* ids are remembered and no longer pending.
AckWorks(o, S) == OwnedRows(o, S) = S
AckKnown(o, S) == [sess[o] EXCEPT !.delivered = @ \ S, !.recent = @ \cup S]

-----------------------------------------------------------------------------
(* Drains are requested by hints, timers, idle hosts and lookups *)

\* punkRequestDrain: none while the namespace is unsettled or the host is busy; a
\* request during a drain is kept for its end.  `rec` is the object's next state.
WantsDrain(rec, isBusy) == rec.registered /\ ~rec.pending /\ ~rec.delivering /\ ~isBusy
AfterRequest(rec, isBusy) ==
    IF ~rec.registered \/ rec.pending THEN rec
    ELSE IF rec.delivering THEN [rec EXCEPT !.queued = TRUE]
    ELSE IF isBusy THEN rec ELSE [rec EXCEPT !.delivering = TRUE]

RequestDrain(o, rec, isBusy) ==
    /\ SetSess(o, AfterRequest(rec, isBusy))
    /\ IF WantsDrain(rec, isBusy) THEN SetPass("drain", o, [NoPass EXCEPT !.pc = "fetch"])
                                  ELSE UNCHANGED thr

\* A hint of the event stream: on connecting, for a new row, and from time to time
\* while rows can be read.
BridgeHint(o) ==
    /\ Alive(o) /\ sess[o].registered /\ Rows(sess[o].ns) # <<>>
    /\ RequestDrain(o, sess[o], busy)
    /\ UNCHANGED <<post, bind, cur, busy, handed, lost, prompts>>

\* punkInboxScheduleDrainRetry and punkInboxScheduleWakeRetry run out.
RetryTimer(o, which) ==
    /\ Alive(o) /\ which \in sess[o].timers
    /\ which = "wake" => sess[o].wakes < WakeCap
    /\ RequestDrain(o, [sess[o] EXCEPT !.timers = @ \ {which}], busy)
    /\ UNCHANGED <<post, bind, cur, busy, handed, lost, prompts>>

-----------------------------------------------------------------------------
(* punkInboxRefreshBinding: namespace lookup, rebinding, registration *)

Refreshing(rec) == [rec EXCEPT !.pending = TRUE, !.ref = "ask"]

\* The event stream reconnects.  An injection that awaits an older lookup is off.
Reconnect(o) ==
    /\ Alive(o) /\ sess[o].registered /\ sess[o].ref = "none"
    /\ Lost
    /\ SetSess(o, Refreshing(sess[o]))
    /\ IF PassAt("inject", o, "wait") THEN SetPass("inject", o, NoPass) ELSE UNCHANGED thr
    /\ UNCHANGED <<post, bind, cur, busy, handed, prompts>>

LookupAnswers(o) ==
    /\ Alive(o) /\ sess[o].ref = "ask"
    /\ \/ Kept /\ SetSess(o, [sess[o] EXCEPT !.ref = "got", !.ans = bind.ns])
       \/ Lost /\ SetSess(o, [sess[o] EXCEPT !.ref = "retry"])
    /\ UNCHANGED <<post, bind, cur, thr, busy, handed, prompts>>

\* The same namespace: it is settled, and deferred work resumes.
LookupConfirms(o) ==
    /\ Alive(o) /\ sess[o].ref = "got" /\ sess[o].ans = sess[o].ns
    /\ RequestDrain(o, [sess[o] EXCEPT !.pending = FALSE,
                                       !.ref = IF sess[o].registered THEN "none" ELSE "register"], busy)
    /\ UNCHANGED <<post, bind, cur, busy, handed, lost, prompts>>

\* Another one: a new object, cold; punkInboxRetire aborts the old one and hands
\* back its leases.
LookupMoves(o) ==
    /\ Alive(o) /\ sess[o].ref = "got" /\ sess[o].ans # sess[o].ns
    /\ o < Objs
    /\ cur' = o + 1
    /\ SetSess(o + 1, NewSess(sess[o].ans, "register"))
    /\ Frees(o, {m \in Parcel : post[m].by = o})
    /\ Excuse(Parcel)
    /\ UNCHANGED <<bind, thr, busy, prompts>>

BindAddress(o) ==
    /\ Alive(o) /\ sess[o].ref = "register"
    /\ \/ /\ Kept
          /\ RequestDrain(o, [sess[o] EXCEPT !.registered = TRUE, !.ref = "none"], busy)
       \/ /\ Lost
          /\ SetSess(o, [sess[o] EXCEPT !.ref = "retry"]) /\ UNCHANGED thr
    /\ UNCHANGED <<post, bind, cur, busy, handed, prompts>>

RetryLookup(o) ==
    /\ Alive(o) /\ sess[o].ref = "retry"
    /\ SetSess(o, Refreshing(sess[o]))
    /\ UNCHANGED <<post, bind, cur, thr, busy, handed, lost, prompts>>

LookupStep(o) == \/ LookupAnswers(o) \/ LookupConfirms(o) \/ LookupMoves(o) \/ BindAddress(o) \/ RetryLookup(o)

-----------------------------------------------------------------------------
(* Passes *)

Usable(o) == Alive(o) /\ ~sess[o].pending

\* punkInboxFetchPass, one round: the rows are leased at the server, and looked at
\* when the answer is here.
FetchRound(k, o) ==
    /\ PassAt(k, o, "fetch")
    /\ Usable(o)
    /\ LET rows == Rows(sess[o].ns) IN
       /\ post' = Leased(o, ToSet(rows))
       /\ SetPass(k, o, [Pass(k, o) EXCEPT !.pc = "sort", !.rows = rows, !.got = @ \cup ToSet(rows)])
    /\ UNCHANGED <<bind, cur, sess, busy, handed, lost, prompts>>

FetchLost(k, o) ==
    /\ PassAt(k, o, "fetch")
    /\ Usable(o)
    /\ Lost
    /\ post' \in {post, Leased(o, ToSet(Rows(sess[o].ns)))}
    /\ SetPass(k, o, [Pass(k, o) EXCEPT !.pc = "drop"])
    /\ UNCHANGED <<bind, cur, sess, busy, handed, prompts>>

\* The session was retired, or its namespace is being looked up again.
Abandon(k, o) ==
    /\ Pass(k, o).pc \in {"fetch", "sort"}
    /\ ~Usable(o)
    /\ SetPass(k, o, [Pass(k, o) EXCEPT !.pc = "drop"])
    /\ UNCHANGED <<post, bind, cur, sess, busy, handed, lost, prompts>>

\* `known` rows are acknowledged once more, `denied` ones set aside, the others
\* delivered.  A full round without any of those is followed by another one: its
\* rows stay leased and so out of the way.
SortInto(k, o, known, denied, rounds) ==
    /\ PassAt(k, o, "sort")
    /\ Usable(o)
    /\ LET p == Pass(k, o)
           deliver == SelectSeq(p.rows, LAMBDA m : m \notin known \cup denied)
           last == deliver # <<>> \/ Len(p.rows) < RowLimit \/ p.round + 1 = rounds
       IN SetPass(k, o, [p EXCEPT !.pc = IF last THEN "settle" ELSE "fetch", !.round = @ + 1, !.rows = <<>>,
                                  !.reack = @ \cup (ToSet(p.rows) \cap known),
                                  !.denied = @ \cup ((ToSet(p.rows) \cap denied) \ known),
                                  !.deliver = deliver])
    /\ UNCHANGED <<post, bind, cur, sess, busy, handed, lost, prompts>>

Known(o) == sess[o].recent \cup sess[o].delivered

\* Mutants: pending parcels are delivered like any other; one round is all there is.
SortForgetful(k, o) == SortInto(k, o, {}, Banned, Rounds)
SortOneRound(k, o) == SortInto(k, o, Known(o), Banned, 1)

\* punkInboxFetchPass, the rows of one round.
SortRows(k, o) == SortInto(k, o, Known(o), Banned, Rounds)

\* punkInboxScheduleReackRetry: one pass, a lease window from now.
ScheduleReack(rec) == IF rec.reack = -1 THEN [rec EXCEPT !.reack = 1] ELSE rec
ReackIfPending(rec) == IF rec.delivered = {} THEN rec ELSE ScheduleReack(rec)

\* The end of a drain; a request kept during it starts the next one.
FinishDrain(o, rec) ==
    LET r == [rec EXCEPT !.delivering = FALSE, !.queued = FALSE]
        again == rec.queued /\ Alive(o) /\ WantsDrain(r, busy)
    IN /\ SetSess(o, [r EXCEPT !.delivering = again])
       /\ SetPass("drain", o, IF again THEN [NoPass EXCEPT !.pc = "fetch"] ELSE NoPass)

\* A pass without a result hands back what it leased; a drain or a
\* re-acknowledgement is tried again later.
DropPass(k, o) ==
    /\ PassAt(k, o, "drop")
    /\ Frees(o, Pass(k, o).got)
    /\ CASE k = "drain"  -> FinishDrain(o, IF Usable(o) THEN [sess[o] EXCEPT !.timers = @ \cup {"drain"}]
                                                       ELSE sess[o])
         [] k = "inject" -> SetPass(k, o, NoPass) /\ UNCHANGED sess
         [] k = "reack"  -> SetPass(k, o, NoPass) /\ SetSess(o, IF Alive(o) THEN ReackIfPending(sess[o])
                                                                            ELSE sess[o])
    /\ UNCHANGED <<bind, cur, busy, handed, prompts>>

\* An awaited acknowledgement of S: done, or not fully done, or lost.
Acknowledge(o, S, done, failed) ==
    \/ /\ Alive(o) /\ Kept
       /\ post' = AckedRows(o, S)
       /\ IF AckWorks(o, S) THEN done ELSE failed
    \/ /\ Alive(o) /\ S # {} /\ Lost
       /\ post' \in {post, AckedRows(o, S)}
       /\ failed
    \/ ~Alive(o) /\ Kept /\ UNCHANGED post /\ failed

Reacknowledge(k, o) ==
    /\ k # "inject" /\ PassAt(k, o, "settle")
    /\ LET p == Pass(k, o)
           next == IF k = "drain" THEN "enqueue" ELSE "release" IN
       Acknowledge(o, p.reack,
           /\ SetSess(o, AckKnown(o, p.reack))
           /\ SetPass(k, o, [p EXCEPT !.pc = next, !.used = IF k = "reack" THEN p.reack ELSE {}]),
           /\ SetSess(o, IF Alive(o) THEN ScheduleReack(sess[o]) ELSE sess[o])
           /\ SetPass(k, o, [p EXCEPT !.pc = next]))
    /\ UNCHANGED <<bind, cur, busy, handed, prompts>>

\* punkDeliverSession: at most one parcel becomes a turn of the idle host.
Enqueue(o) ==
    /\ PassAt("drain", o, "enqueue")
    /\ LET p == Pass("drain", o)
           may == Usable(o) /\ ~busy /\ sess[o].wakes < WakeCap /\ p.deliver # <<>> IN
       \/ /\ may /\ Kept
          /\ LET m == Head(p.deliver) IN
             /\ HandOver({m})
             /\ SetSess(o, [sess[o] EXCEPT !.delivered = @ \cup {m}, !.wakes = @ + 1])
             /\ SetPass("drain", o, [p EXCEPT !.pc = "ack", !.used = {m}])
          /\ busy' = TRUE
       \/ /\ IF may THEN Lost ELSE Kept
          /\ SetPass("drain", o, [p EXCEPT !.pc = IF Alive(o) THEN "release" ELSE "leave"])
          /\ UNCHANGED <<sess, busy, handed>>
    /\ UNCHANGED <<post, bind, cur, prompts>>

\* A failed acknowledgement leaves the parcel pending, for a pass after the lease.
AckHanded(o) ==
    /\ PassAt("drain", o, "ack")
    /\ LET p == Pass("drain", o) IN
       Acknowledge(o, p.used,
           SetSess(o, AckKnown(o, p.used)) /\ SetPass("drain", o, [p EXCEPT !.pc = "release"]),
           /\ SetSess(o, IF Alive(o) THEN ScheduleReack(sess[o]) ELSE sess[o])
           /\ SetPass("drain", o, [p EXCEPT !.pc = IF Alive(o) THEN "release" ELSE "leave"]))
    /\ UNCHANGED <<bind, cur, busy, handed, prompts>>

\* What was not handed over is handed back; a backlog behind the cap gets a timer
\* at the end of the window.
ReleaseRest(o) ==
    /\ PassAt("drain", o, "release")
    /\ LET p == Pass("drain", o)
           rest == ToSet(p.deliver) \ p.used
           capped == rest # {} /\ sess[o].wakes >= WakeCap /\ WakeCap > 0 /\ Alive(o) IN
       /\ Frees(o, rest \cup p.denied)
       /\ FinishDrain(o, IF capped THEN [sess[o] EXCEPT !.timers = @ \cup {"wake"}] ELSE sess[o])
    /\ UNCHANGED <<bind, cur, busy, handed, prompts>>

LeaveDrain(o) ==
    /\ PassAt("drain", o, "leave")
    /\ FinishDrain(o, sess[o])
    /\ UNCHANGED <<post, bind, cur, busy, handed, lost, prompts>>

\* punkInboxReackPass: rows it did not acknowledge go back, fresh ones too; a
\* pending parcel that two passes in a row did not see is given up.
ReackSettles(o) ==
    /\ PassAt("reack", o, "release")
    /\ LET p == Pass("reack", o)
           unseen == sess[o].delivered \ p.got
           gone == unseen \cap sess[o].absent
           rec == [sess[o] EXCEPT !.delivered = @ \ gone, !.absent = unseen \ gone] IN
       /\ Frees(o, p.got \ p.used)
       /\ SetSess(o, IF Alive(o) THEN ReackIfPending(rec) ELSE rec)
       /\ Excuse(gone)
       /\ SetPass("reack", o, NoPass)
    /\ UNCHANGED <<bind, cur, busy, prompts>>

ReackTimer(o) ==
    /\ Alive(o) /\ sess[o].reack = 0 /\ PassAt("reack", o, "none")
    /\ SetSess(o, [sess[o] EXCEPT !.reack = -1])
    /\ SetPass("reack", o, [NoPass EXCEPT !.pc = "fetch"])
    /\ UNCHANGED <<post, bind, cur, busy, handed, lost, prompts>>

\* punkInboxInjection: the parcels that fit ride the turn that begins; they stay
\* pending until the re-acknowledgement after their lease.
Inject(o) ==
    /\ PassAt("inject", o, "settle")
    /\ IF ~Usable(o)
         THEN SetPass("inject", o, [Pass("inject", o) EXCEPT !.pc = "drop"]) /\ Kept /\ UNCHANGED <<post, sess, handed>>
         ELSE \E n \in (IF Pass("inject", o).deliver = <<>> THEN {0} ELSE 1..Len(Pass("inject", o).deliver)) :
              LET p == Pass("inject", o)
                  used == ToSet(SubSeq(p.deliver, 1, n))
                  back == p.denied \cup (ToSet(p.deliver) \ used)
                  marked(rec) == IF used = {} THEN rec
                                 ELSE ScheduleReack([rec EXCEPT !.delivered = @ \cup used])
              IN /\ HandOver(used)
                 /\ SetPass("inject", o, NoPass)
                 /\ \/ /\ Kept
                       /\ post' = [m \in Parcel |-> IF m \in p.reack THEN AckedRows(o, p.reack)[m] ELSE FreedRows(o, back)[m]]
                       /\ SetSess(o, IF AckWorks(o, p.reack) THEN marked(AckKnown(o, p.reack))
                                                             ELSE ScheduleReack(marked(sess[o])))
                    \/ /\ p.reack \cup back # {} /\ Lost
                       /\ UNCHANGED post
                       /\ SetSess(o, IF p.reack = {} THEN marked(sess[o]) ELSE ScheduleReack(marked(sess[o])))
    /\ UNCHANGED <<bind, cur, busy, prompts>>

\* The injection awaits the lookup it started; it goes on in the object that the
\* lookup settled on, or not at all.
InjectGoesOn(o) ==
    /\ PassAt("inject", o, "wait")
    /\ \/ /\ cur # 0 /\ sess[cur].ref = "none"
          /\ thr' = [thr EXCEPT ![<<"inject", o>>] = NoPass,
                                ![<<"inject", cur>>] = [NoPass EXCEPT !.pc = "fetch"]]
       \/ /\ IF cur = 0 THEN TRUE ELSE sess[cur].ref = "retry"
          /\ SetPass("inject", o, NoPass)
    /\ UNCHANGED <<post, bind, cur, sess, busy, handed, lost, prompts>>

CommonStep(k, o) == \/ FetchRound(k, o) \/ FetchLost(k, o) \/ Abandon(k, o) \/ SortRows(k, o)
                    \/ DropPass(k, o) \/ Reacknowledge(k, o)
DrainStep(o) == CommonStep("drain", o) \/ Enqueue(o) \/ AckHanded(o) \/ ReleaseRest(o) \/ LeaveDrain(o)
InjectStep(o) == CommonStep("inject", o) \/ InjectGoesOn(o) \/ Inject(o)
ReackStep(o) == CommonStep("reack", o) \/ ReackSettles(o)

-----------------------------------------------------------------------------
(* The host, the server, the clock *)

Injecting == \E o \in Obj : ~PassAt("inject", o, "none")

\* before_agent_start: busy first, then the injection, which the host awaits.
UserPrompt ==
    /\ ~busy /\ ~Injecting
    /\ lost + prompts < BridgeEvents
    /\ prompts' = prompts + 1
    /\ busy' = TRUE
    /\ IF cur # 0 /\ sess[cur].registered
         THEN /\ SetSess(cur, Refreshing(sess[cur]))
              /\ SetPass("inject", cur, [NoPass EXCEPT !.pc = "wait"])
         ELSE UNCHANGED <<sess, thr>>
    /\ UNCHANGED <<post, bind, cur, handed, lost>>

\* agent_settled: idle, and the namespace is looked up.
AgentSettled ==
    /\ busy /\ ~Injecting
    /\ busy' = FALSE
    /\ IF cur # 0 THEN SetSess(cur, Refreshing(sess[cur])) ELSE UNCHANGED sess
    /\ UNCHANGED <<post, bind, cur, thr, handed, lost, prompts>>

\* session_shutdown: punkUnbindSession.
Shutdown ==
    /\ cur # 0
    /\ cur' = 0
    /\ Frees(cur, {m \in Parcel : post[m].by = cur})
    /\ UNCHANGED <<bind, sess, thr, busy, handed, prompts>>

MoveBinding ==
    /\ bind.moves < Objs - 1
    /\ bind' = [ns |-> IF bind.ns = "main" THEN "side" ELSE "main", moves |-> bind.moves + 1]
    /\ UNCHANGED <<post, cur, sess, thr, busy, handed, lost, prompts>>

SendParcel(m) ==
    /\ post[m].st = "unsent"
    /\ m > 1 => post[m - 1].st # "unsent"
    /\ post' = [post EXCEPT ![m].st = "unread"]
    /\ UNCHANGED <<bind, cur, sess, thr, busy, handed, lost, prompts>>

\* The oldest wake leaves the window of the cap.
WakeExpires(o) ==
    /\ sess[o].wakes > 0
    /\ SetSess(o, [sess[o] EXCEPT !.wakes = @ - 1])
    /\ UNCHANGED <<post, bind, cur, thr, busy, handed, lost, prompts>>

\* A lease window passes; a pass that is still under way then is too slow.
LeaseWindow ==
    /\ \/ \E m \in Parcel : post[m].live
       \/ \E o \in Obj : sess[o].reack = 1
    /\ LET slow == UNION {Pass(k, o).got : k \in PassKinds, o \in Obj}
       IN Excuse(slow) /\ IF slow # {} THEN Lost ELSE Kept
    /\ post' = [m \in Parcel |-> [post[m] EXCEPT !.live = FALSE, !.by = 0]]
    /\ sess' = [o \in Obj |-> [sess[o] EXCEPT !.reack = IF @ = 1 THEN 0 ELSE @]]
    /\ UNCHANGED <<bind, cur, thr, busy, prompts>>

BridgeNext ==
    \/ \E o \in Obj : \/ BridgeHint(o) \/ RetryTimer(o, "drain") \/ RetryTimer(o, "wake") \/ Reconnect(o)
                      \/ LookupStep(o) \/ DrainStep(o) \/ InjectStep(o) \/ ReackStep(o)
                      \/ ReackTimer(o) \/ WakeExpires(o)
    \/ \E m \in Parcel : SendParcel(m)
    \/ UserPrompt \/ AgentSettled \/ Shutdown \/ MoveBinding \/ LeaseWindow

BridgeSpec == BridgeInit /\ [][BridgeNext]_bridgeVars

\* The event loop and its timers go on, the server answers and hints, a turn ends,
\* time passes.
BridgeRecurs(i, o) == \/ i = 1 /\ LookupConfirms(o)
                      \/ i = 2 /\ BindAddress(o)
                      \/ i = 3 /\ BridgeHint(o)
                      \/ i = 4 /\ AgentSettled
                      \/ i = 5 /\ LeaseWindow

BridgeProceeds(i, o) == \/ i = 1 /\ LookupStep(o)
                        \/ i = 2 /\ DrainStep(o)
                        \/ i = 3 /\ InjectStep(o)
                        \/ i = 4 /\ ReackStep(o)
                        \/ i = 5 /\ ReackTimer(o)
                        \/ i = 6 /\ WakeExpires(o)
                        \/ i = 7 /\ RetryTimer(o, "wake")

BridgeFairness == \A o \in Obj : /\ \A i \in 1..7 : WF_bridgeVars(BridgeProceeds(i, o))
                                /\ \A i \in 1..5 : SF_bridgeVars(BridgeRecurs(i, o))

BridgeFairSpec == BridgeSpec /\ BridgeFairness

-----------------------------------------------------------------------------
(* Properties *)

\* Type correctness of the rows, the state objects, the passes and the history.
BridgeTypeOK ==
    /\ post \in [Parcel -> [st : {"unsent", "unread", "acked"}, by : 0..Objs, live : BOOLEAN]]
    /\ cur \in 0..Objs /\ busy \in BOOLEAN
    /\ \A o \in Obj : /\ sess[o].ns \in {"main", "side"} /\ sess[o].delivered \cup sess[o].recent \subseteq Parcel
                      /\ sess[o].ref \in {"none", "ask", "got", "register", "retry"}
                      /\ sess[o].timers \subseteq {"drain", "wake"} /\ sess[o].wakes \in 0..WakeCap
                      /\ \A k \in PassKinds : Pass(k, o).got \subseteq Parcel /\ Pass(k, o).round \in 0..Rounds
    /\ handed \in [Parcel -> [times : 0..2, excuse : BOOLEAN]] /\ lost + prompts \in 0..BridgeEvents

\* "Denied rows ... ACK ... only ... host handoff": whatever is acknowledged was
\* handed to the host before, by whichever pass and object.
BridgeAcksHanded == \A m \in Parcel : post[m].st = "acked" => handed[m].times > 0

\* Drains, injections and re-acknowledgements overlap at their awaits, and calls
\* are lost, yet no parcel reaches the host again unless a pass outlived a lease,
\* the namespace moved or the pending parcel was given up.
BridgeHandsOnce == \A m \in Parcel : handed[m].times < 2 \/ handed[m].excuse

\* "Identity never changes beneath an awaited read": a parcel is handed over only
\* by the current object, for its namespace, and not during a lookup.
HandedInBinding ==
    [][\A m \in Parcel : handed'[m].times # handed[m].times
         => cur # 0 /\ sess[cur].ns = Home(m) /\ ~sess[cur].pending]_bridgeVars

\* A session that stays open hands over every parcel of an allowed sender in the
\* namespace it is bound to, and acknowledges it, although calls are lost, banned
\* rows stand in front and the cap suppresses wakes.
BridgeDelivers ==
    \A m \in Parcel \ Banned :
        post[m].st = "unread" ~> (post[m].st = "acked" \/ cur = 0 \/ bind.ns # Home(m))

\* The bridge acknowledges what it handed over, hands it over once, and does so only
\* within the binding it was read for.
BridgeSafety == [](BridgeAcksHanded /\ BridgeHandsOnce) /\ HandedInBinding
=============================================================================
