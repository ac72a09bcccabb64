--------------------------- MODULE MessageStreams ---------------------------
(***************************************************************************)
(* The long-lived readers of a server: inbox event streams, the operator's *)
(* namespace stream (internal/api/messaging_handlers.go,                   *)
(* messaging_stream.go) and await_messages (internal/mcpserver/            *)
(* messaging.go, region.WaitMessages), with the slots they hold            *)
(* (internal/api/limits.go), the lossy bus that wakes them                 *)
(* (internal/bus/bus.go), the presence they keep and the sweep that        *)
(* expires members (internal/region/region.go).                            *)
(*                                                                         *)
(* One namespace, one subject, one client address.  Of an inbox it is kept *)
(* whether it has an unread message that no lease hides (module Inbox has  *)
(* the rest).                                                              *)
(***************************************************************************)
EXTENDS Naturals, Sequences, FiniteSets

CONSTANTS Streams,      \* concurrent readers
          Agents,       \* addresses with an inbox
          All,          \* the namespace stream's address: none
          Kinds,        \* which readers there are: "sse", "await"
          StreamLimit,  \* slots of one inbox, for streams and for awaits
          StreamIPLimit,\* streams of one client address
          Buffer,       \* a subscriber's channel: 64 in the code
          Traffic,      \* whether messages are sent
          Churn         \* whether members age and are swept

ASSUME StreamsAssumption ==
    /\ All \notin Agents
    /\ IsFiniteSet(Streams)
    /\ Kinds \subseteq {"sse", "await"}
    /\ StreamLimit \in Nat \ {0} /\ StreamIPLimit \in Nat \ {0}
    /\ Buffer \in Nat \ {0} /\ {Traffic, Churn} \subseteq BOOLEAN

Addresses == Agents \cup {All}

VARIABLES unread,    \* per agent, an unread message that no lease hides
          unsaid,    \* events to be published: a message for an agent, or
                     \* All, an acknowledgement, which only the namespace
                     \* stream reports
          allowed,   \* the credential is active and the grant is there
          st,        \* the readers
          active,    \* slots in use, per kind and address
          ipActive,  \* streams in use by the client address
          presence,  \* attached streams per agent
          members,   \* registered agents
          stale,     \* members not seen for the expiry window
          sweep      \* ExpireMembers: candidates, the one it will remove, and
                     \* (history) who has listened ever since it began

vars == <<unread, unsaid, allowed, st, active, ipActive, presence, members, stale, sweep>>

\* buf: the subscriber's channel.  told: a hint or an answer went out since
\* the last message came in.  late: how many went out after a revocation
\* (more than one is as bad as two).
Stream == [pc : {"closed", "ip", "subscribe", "attach", "touch", "check", "hint", "loop",
                 "detach", "cancel", "releaseIP", "release",
                 "seen", "wait", "read", "unsubscribe", "auth", "answer"},
           kind : {"sse", "await"}, addr : Addresses, subscribed : BOOLEAN,
           buf : Seq(Addresses), got : BOOLEAN, told : BOOLEAN, late : 0..2]

Init == /\ unread = [a \in Agents |-> FALSE]
        /\ unsaid = {}
        /\ allowed = TRUE
        /\ st = [s \in Streams |-> [pc |-> "closed", kind |-> "sse", addr |-> All,
                                    subscribed |-> FALSE, buf |-> <<>>, got |-> FALSE,
                                    told |-> FALSE, late |-> 0]]
        /\ active = [k \in {"sse", "await"} |-> [a \in Addresses |-> 0]]
        /\ ipActive = 0
        /\ presence = [a \in Agents |-> 0]
        /\ members = Agents
        /\ stale = {}
        /\ sweep = [todo |-> {}, chosen |-> {}, on |-> {}]

Set(s, rec) == st' = [st EXCEPT ![s] = rec]

Goto(s, pc) == Set(s, [st[s] EXCEPT !.pc = pc])

Listening(a) == presence[a] > 0

\* A counter gives one back, and never falls below zero.
OneLess(n) == IF n > 1 THEN n - 1 ELSE 0

-----------------------------------------------------------------------------
(* Messages and the bus *)

\* SendMessage is durable; its caller publishes the hint afterwards, or
\* never, when it dies first or is another process.
Send(a) ==
    /\ Traffic
    /\ a \in members
    /\ unread' = [unread EXCEPT ![a] = TRUE]
    /\ st' = [s \in Streams |-> IF st[s].addr = a THEN [st[s] EXCEPT !.told = FALSE]
                                                  ELSE st[s]]
    /\ unsaid' = unsaid \cup {a}
    /\ UNCHANGED <<allowed, active, ipActive, presence, members, stale, sweep>>

\* Publish: a subscriber whose channel is full misses the event.
Publish(a) ==
    /\ a \in unsaid
    /\ unsaid' = unsaid \ {a}
    /\ st' = [s \in Streams |->
                IF st[s].subscribed /\ Len(st[s].buf) < Buffer
                THEN [st[s] EXCEPT !.buf = Append(@, a)] ELSE st[s]]
    /\ UNCHANGED <<unread, allowed, active, ipActive, presence, members, stale, sweep>>

\* The caller is gone, or lives in another process.
PublishLost(a) ==
    /\ a \in unsaid
    /\ unsaid' = unsaid \ {a}
    /\ UNCHANGED <<unread, allowed, st, active, ipActive, presence, members, stale, sweep>>

\* The agent acknowledges everything, and the handler publishes that; or it
\* leases everything.
Received(a) ==
    /\ unread[a]
    /\ unread' = [unread EXCEPT ![a] = FALSE]
    /\ unsaid' \in {unsaid, unsaid \cup {All}}
    /\ UNCHANGED <<allowed, st, active, ipActive, presence, members, stale, sweep>>

Revoke ==
    /\ allowed
    /\ allowed' = FALSE
    /\ UNCHANGED <<unread, unsaid, st, active, ipActive, presence, members, stale, sweep>>

-----------------------------------------------------------------------------
(* Opening: handleMessageEvents, handleMessageStream, await_messages *)

\* Mutant: the inbox slot is kept when the backstop refuses.
AcquireIPKeeps(s) ==
    /\ st[s].pc = "ip"
    /\ IF ipActive < StreamIPLimit
         THEN Goto(s, "subscribe") /\ ipActive' = ipActive + 1
         ELSE Goto(s, "closed") /\ UNCHANGED ipActive
    /\ UNCHANGED <<unread, unsaid, allowed, active, presence, members, stale, sweep>>

\* await_messages passes authorization and registers its caller, also when
\* it will refuse it for want of a slot.
AwaitMessages(s, a) ==
    /\ st[s].pc = "closed"
    /\ allowed
    /\ members' = members \cup {a}
    /\ IF active["await"][a] < StreamLimit
         THEN /\ active' = [active EXCEPT !["await"][a] = @ + 1]
              /\ Set(s, [st[s] EXCEPT !.pc = "seen", !.kind = "await", !.addr = a])
         ELSE UNCHANGED <<active, st>>
    /\ UNCHANGED <<unread, unsaid, allowed, ipActive, presence, stale, sweep>>

\* A stream passes authorization; acquireStream takes the inbox slot, when
\* there is one, ...
Acquire(s, a) ==
    /\ st[s].pc = "closed"
    /\ allowed
    /\ active["sse"][a] < StreamLimit
    /\ active' = [active EXCEPT !["sse"][a] = @ + 1]
    /\ Set(s, [st[s] EXCEPT !.pc = "ip", !.addr = a])
    /\ UNCHANGED <<unread, unsaid, allowed, ipActive, presence, members, stale, sweep>>

\* ... and the address slot, giving the first back when there is none.
AcquireIP(s) ==
    /\ st[s].pc = "ip"
    /\ IF ipActive < StreamIPLimit
         THEN Goto(s, "subscribe") /\ ipActive' = ipActive + 1 /\ UNCHANGED active
         ELSE /\ Goto(s, "closed")
              /\ active' = [active EXCEPT !["sse"][st[s].addr] = OneLess(@)]
              /\ UNCHANGED ipActive
    /\ UNCHANGED <<unread, unsaid, allowed, presence, members, stale, sweep>>

\* Only an inbox stream is presence.
Subscribed(s) == IF st[s].addr = All THEN "check" ELSE "attach"

Subscribe(s) ==
    /\ st[s].pc \in {"subscribe", "wait"}
    /\ Set(s, [st[s] EXCEPT !.subscribed = TRUE, !.buf = <<>>,
                            !.pc = IF st[s].pc = "wait" THEN "read" ELSE Subscribed(s)])
    /\ UNCHANGED <<unread, unsaid, allowed, active, ipActive, presence, members, stale, sweep>>

Attach(s) ==
    /\ st[s].pc = "attach"
    /\ presence' = [presence EXCEPT ![st[s].addr] = @ + 1]
    /\ Goto(s, "touch")
    /\ UNCHANGED <<unread, unsaid, allowed, active, ipActive, members, stale, sweep>>

\* Touch never creates membership.
Touch(s) ==
    /\ st[s].pc \in {"touch", "seen"}
    /\ stale' = stale \ {st[s].addr}
    /\ Goto(s, IF st[s].pc = "seen" THEN "wait" ELSE "check")
    /\ UNCHANGED <<unread, unsaid, allowed, active, ipActive, presence, members, sweep>>

-----------------------------------------------------------------------------
(* The loop of a stream *)

\* Where the deferred calls begin.
Unwind(s) == IF st[s].addr = All THEN "cancel" ELSE "detach"

\* streamAllowed, before every hint.
Check(s) ==
    /\ st[s].pc = "check"
    /\ Goto(s, IF allowed THEN "hint" ELSE Unwind(s))
    /\ UNCHANGED <<unread, unsaid, allowed, active, ipActive, presence, members, stale, sweep>>

\* What a frame or an answer to the client does to the record.
Out(rec) == [rec EXCEPT !.told = TRUE,
                        !.late = IF allowed \/ @ = 2 THEN @ ELSE @ + 1]

Hint(s) ==
    /\ st[s].pc = "hint"
    /\ Set(s, [Out(st[s]) EXCEPT !.pc = "loop"])
    /\ UNCHANGED <<unread, unsaid, allowed, active, ipActive, presence, members, stale, sweep>>

\* The client is gone: a failed write, or the request's context is done.
Disconnect(s) ==
    /\ st[s].pc \in {"hint", "loop"}
    /\ Goto(s, Unwind(s))
    /\ UNCHANGED <<unread, unsaid, allowed, active, ipActive, presence, members, stale, sweep>>

\* Mutant: an idle stream is not checked.
KeepaliveUnchecked(s) ==
    /\ st[s].pc = "loop"
    /\ UNCHANGED vars

Keepalive(s) ==
    /\ st[s].pc = "loop"
    /\ ~allowed
    /\ Goto(s, Unwind(s))
    /\ UNCHANGED <<unread, unsaid, allowed, active, ipActive, presence, members, stale, sweep>>

\* The reconciliation timer: storage decides.
Reconcile(s) ==
    /\ st[s].pc = "loop"
    /\ st[s].addr # All
    /\ unread[st[s].addr]
    /\ Goto(s, "check")
    /\ UNCHANGED <<unread, unsaid, allowed, active, ipActive, presence, members, stale, sweep>>

\* An event of the bus; others' events are skipped.
Event(s) ==
    /\ st[s].pc = "loop"
    /\ st[s].addr # All
    /\ st[s].buf # <<>>
    /\ Set(s, [st[s] EXCEPT !.buf = Tail(@),
                            !.pc = IF Head(st[s].buf) = st[s].addr THEN "check" ELSE "loop"])
    /\ UNCHANGED <<unread, unsaid, allowed, active, ipActive, presence, members, stale, sweep>>

\* The namespace stream reports every event, after the same check.
NamespaceEvent(s) ==
    /\ st[s].pc = "loop"
    /\ st[s].addr = All
    /\ st[s].buf # <<>>
    /\ Set(s, [st[s] EXCEPT !.buf = Tail(@), !.pc = "check"])
    /\ UNCHANGED <<unread, unsaid, allowed, active, ipActive, presence, members, stale, sweep>>

-----------------------------------------------------------------------------
(* WaitMessages *)

\* The first read, and the one after every poll and every matching event.
Read(s) ==
    /\ st[s].pc = "read"
    /\ Set(s, [st[s] EXCEPT !.got = unread[st[s].addr],
                            !.pc = IF unread[st[s].addr] THEN "unsubscribe" ELSE "loop"])
    /\ UNCHANGED <<unread, unsaid, allowed, active, ipActive, presence, members, stale, sweep>>

\* The poll ticker.
Poll(s) ==
    /\ st[s].pc = "loop"
    /\ Goto(s, "read")
    /\ UNCHANGED <<unread, unsaid, allowed, active, ipActive, presence, members, stale, sweep>>

WaitEvent(s) ==
    /\ st[s].pc = "loop"
    /\ st[s].buf # <<>>
    /\ Set(s, [st[s] EXCEPT !.buf = Tail(@),
                            !.pc = IF Head(st[s].buf) = st[s].addr THEN "read" ELSE "loop"])
    /\ UNCHANGED <<unread, unsaid, allowed, active, ipActive, presence, members, stale, sweep>>

\* The deadline, or a cancelled call.
Deadline(s) ==
    /\ st[s].pc = "loop"
    /\ Goto(s, "unsubscribe")
    /\ UNCHANGED <<unread, unsaid, allowed, active, ipActive, presence, members, stale, sweep>>

\* "Denial wins over wait results".
Authorize(s) ==
    /\ st[s].pc = "auth"
    /\ Goto(s, IF allowed /\ st[s].got THEN "answer" ELSE "release")
    /\ UNCHANGED <<unread, unsaid, allowed, active, ipActive, presence, members, stale, sweep>>

Answer(s) ==
    /\ st[s].pc = "answer"
    /\ Set(s, [Out(st[s]) EXCEPT !.pc = "release"])
    /\ UNCHANGED <<unread, unsaid, allowed, active, ipActive, presence, members, stale, sweep>>

-----------------------------------------------------------------------------
(* The deferred calls *)

\* Mutant: detach runs twice, and below zero.
DetachTwice(s) ==
    /\ st[s].pc = "detach"
    /\ presence' = [presence EXCEPT ![st[s].addr] = @ - 2]
    /\ Goto(s, "cancel")
    /\ UNCHANGED <<unread, unsaid, allowed, active, ipActive, members, stale, sweep>>

Detach(s) ==
    /\ st[s].pc = "detach"
    /\ LET a == st[s].addr
       IN  /\ presence' = [presence EXCEPT ![a] = OneLess(@)]
           /\ sweep' = IF presence[a] = 1 THEN [sweep EXCEPT !.on = @ \ {a}] ELSE sweep
    /\ Goto(s, "cancel")
    /\ UNCHANGED <<unread, unsaid, allowed, active, ipActive, members, stale>>

Cancel(s) ==
    /\ st[s].pc \in {"cancel", "unsubscribe"}
    /\ Set(s, [st[s] EXCEPT !.subscribed = FALSE, !.buf = <<>>,
                            !.pc = IF st[s].pc = "cancel" THEN "releaseIP" ELSE "auth"])
    /\ UNCHANGED <<unread, unsaid, allowed, active, ipActive, presence, members, stale, sweep>>

ReleaseIP(s) ==
    /\ st[s].pc = "releaseIP"
    /\ ipActive' = OneLess(ipActive)
    /\ Goto(s, "release")
    /\ UNCHANGED <<unread, unsaid, allowed, active, presence, members, stale, sweep>>

Release(s) ==
    /\ st[s].pc = "release"
    /\ active' = [active EXCEPT ![st[s].kind][st[s].addr] = OneLess(@)]
    /\ Set(s, [st[s] EXCEPT !.pc = "closed", !.addr = All, !.kind = "sse", !.told = FALSE,
                            !.got = FALSE, !.late = 0])
    /\ UNCHANGED <<unread, unsaid, allowed, ipActive, presence, members, stale, sweep>>

-----------------------------------------------------------------------------
(* Members *)

Ages(a) ==
    /\ Churn
    /\ a \in members \ stale
    /\ stale' = stale \cup {a}
    /\ UNCHANGED <<unread, unsaid, allowed, st, active, ipActive, presence, members, sweep>>

Register(a) ==
    /\ Churn
    /\ members' = members \cup {a}
    /\ stale' = stale \ {a}
    /\ <<members', stale'>> # <<members, stale>>
    /\ UNCHANGED <<unread, unsaid, allowed, st, active, ipActive, presence, sweep>>

\* ExpireMembers selects the stale members,
ExpireSelect ==
    /\ sweep.todo = {} /\ sweep.chosen = {}
    /\ stale \cap members # {}
    /\ sweep' = [sweep EXCEPT !.todo = stale \cap members,
                              !.on = {a \in Agents : Listening(a)}]
    /\ UNCHANGED <<unread, unsaid, allowed, st, active, ipActive, presence, members, stale>>

\* Mutant: the presence is not consulted.
ExpireCheckAge(a) ==
    /\ sweep.chosen = {}
    /\ a \in sweep.todo
    /\ sweep' = [sweep EXCEPT !.todo = @ \ {a}, !.chosen = {a}]
    /\ UNCHANGED <<unread, unsaid, allowed, st, active, ipActive, presence, members, stale>>

\* asks of each whether it is listening,
ExpireCheck(a) ==
    /\ sweep.chosen = {}
    /\ a \in sweep.todo
    /\ sweep' = [sweep EXCEPT !.todo = @ \ {a},
                              !.chosen = IF Listening(a) THEN {} ELSE {a}]
    /\ UNCHANGED <<unread, unsaid, allowed, st, active, ipActive, presence, members, stale>>

\* and removes it.
ExpireRemove(a) ==
    /\ a \in sweep.chosen
    /\ members' = members \ {a}
    /\ stale' = stale \ {a}
    /\ sweep' = [sweep EXCEPT !.chosen = {}]
    /\ UNCHANGED <<unread, unsaid, allowed, st, active, ipActive, presence>>

\* A failed removal ends the sweep.
ExpireFails ==
    /\ sweep.chosen # {}
    /\ sweep' = [sweep EXCEPT !.todo = {}, !.chosen = {}]
    /\ UNCHANGED <<unread, unsaid, allowed, st, active, ipActive, presence, members, stale>>

-----------------------------------------------------------------------------

IsSSE(s) == st[s].kind = "sse"

\* What a reader does by itself, without a client, a message or a clock.
Proceed(s) == \/ AcquireIP(s) \/ Subscribe(s) \/ Attach(s) \/ Touch(s) \/ Check(s) \/ Hint(s)
              \/ Read(s) \/ Authorize(s) \/ Answer(s)
              \/ Detach(s) \/ Cancel(s) \/ ReleaseIP(s) \/ Release(s)

Next == \/ \E a \in Agents : Send(a) \/ Received(a)
        \/ \E a \in Addresses : Publish(a) \/ PublishLost(a)
        \/ Revoke
        \/ \E s \in Streams :
             \/ "sse" \in Kinds /\ \E a \in Addresses : Acquire(s, a)
             \/ "await" \in Kinds /\ \E a \in Agents : AwaitMessages(s, a)
             \/ Proceed(s)
             \/ Disconnect(s) /\ IsSSE(s)
             \/ Keepalive(s) /\ IsSSE(s)
             \/ Reconcile(s) /\ IsSSE(s)
             \/ (Event(s) \/ NamespaceEvent(s)) /\ IsSSE(s)
             \/ Poll(s) /\ ~IsSSE(s)
             \/ WaitEvent(s) /\ ~IsSSE(s)
             \/ Deadline(s) /\ ~IsSSE(s)
        \/ \E a \in Agents : Ages(a) \/ Register(a) \/ ExpireCheck(a) \/ ExpireRemove(a)
        \/ ExpireSelect \/ ExpireFails

Spec == Init /\ [][Next]_vars

\* Handlers proceed and their timers fire.  A select takes a ready case at
\* random, so a timer that keeps firing is taken in the end although events
\* keep coming.
TimerFires(i, s) == \/ i = 1 /\ Keepalive(s) /\ IsSSE(s)
                    \/ i = 2 /\ Reconcile(s) /\ IsSSE(s)
                    \/ i = 3 /\ Poll(s) /\ ~IsSSE(s)
                    \/ i = 4 /\ Deadline(s) /\ ~IsSSE(s)

Fairness == \A s \in Streams : WF_vars(Proceed(s)) /\ \A i \in 1..4 : SF_vars(TimerFires(i, s))

FairSpec == Spec /\ Fairness

-----------------------------------------------------------------------------
(* Properties *)

\* Type correctness of the readers, counters and members.
TypeOK == /\ unread \in [Agents -> BOOLEAN]
          /\ unsaid \subseteq Addresses
          /\ allowed \in BOOLEAN
          /\ st \in [Streams -> Stream]
          /\ active \in [{"sse", "await"} -> [Addresses -> Nat]]
          /\ ipActive \in Nat
          /\ presence \in [Agents -> Nat]
          /\ members \subseteq Agents
          /\ stale \subseteq Agents
          /\ sweep \in [todo : SUBSET Agents, chosen : SUBSET Agents, on : SUBSET Agents]

\* "No slot can leak": the counters are exactly the readers that are under
\* way, however they ended, and stay below their limits.
SlotsAreExact ==
    /\ \A k \in {"sse", "await"}, a \in Addresses :
         /\ active[k][a] = Cardinality({s \in Streams : /\ st[s].pc # "closed"
                                                        /\ st[s].kind = k
                                                        /\ st[s].addr = a})
         /\ active[k][a] <= StreamLimit
    /\ ipActive = Cardinality({s \in Streams : IsSSE(s)
                                               /\ st[s].pc \notin {"closed", "ip", "release"}})
    /\ ipActive <= StreamIPLimit

\* "Streams are counted, so two concurrent streams for one address stay
\* listening until both close": an agent with a stream in its loop listens.
OpenStreamsListen ==
    \A s \in Streams : IsSSE(s) /\ st[s].addr \in Agents
                       /\ st[s].pc \in {"check", "hint", "loop"} => Listening(st[s].addr)

\* Revocation: after it a reader lets at most one frame or answer through,
\* the one it had checked before.
AtMostOneLateFrame == \A s \in Streams : st[s].late <= 1

\* What the handlers of the readers promise at every moment: exact slots,
\* open streams that are listed as listening, and no frame after the check
\* that a revocation fails.
StreamSafety == SlotsAreExact /\ OpenStreamsListen /\ AtMostOneLateFrame

\* "mid-stream revocation closes the stream", and ends a wait, even on an
\* inbox where nothing happens.
RevokedReadersEnd == \A s \in Streams : ~allowed ~> st[s].pc = "closed"

\* "a lost or never-published hint delays delivery by at most one poll
\* interval and never loses a message": an open stream is told of a message
\* that stays unread, though the bus dropped the event.
HintsArrive ==
    \A s \in Streams, a \in Agents :
        (IsSSE(s) /\ st[s].addr = a /\ st[s].pc = "loop" /\ unread[a] /\ ~st[s].told)
          ~> (st[s].told \/ ~unread[a] \/ st[s].addr # a)

\* await_messages returns.
AwaitsEnd == \A s \in Streams : st[s].kind = "await" ~> st[s].pc = "closed"

\* What ExpireMembers does keep: an agent that has had a stream open ever
\* since the sweep began is not removed, though streams come and go.
SteadyListenersSurvive ==
    [][\A a \in members \ members' : a \notin sweep.on]_vars

\* "A listening member is never removed regardless of age".
ListeningNeverExpired ==
    [][\A a \in members \ members' : ~Listening(a)]_vars

\* Readers end after a revocation and hear of what stays unread.
ReadersAreServed == RevokedReadersEnd /\ HintsArrive
=============================================================================
