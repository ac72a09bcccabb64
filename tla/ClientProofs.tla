---------------------------- MODULE ClientProofs ----------------------------
(***************************************************************************)
(* The client side of punk: the streams that clients hold open, the        *)
(* verdicts on the scopes of Codex, and what the hooks of a session are    *)
(* given.  Proved for any number of readers, agents, slots, edits, copies  *)
(* of a hook, events, facts and prompts.                                   *)
(***************************************************************************)
EXTENDS MessageStreams, CodexScopes, SessionCapture, FiniteSetTheorems, SequenceTheorems, TLAPS

(* Streams: the slots of the readers are exact, a steady listener is not
   expired and a revoked reader lets at most one frame through.               *)

\* Where only the handler of an event stream can be, and only await_messages.
SSEOnly == {"ip", "subscribe", "attach", "touch", "check", "hint", "detach", "cancel", "releaseIP"}
AwaitOnly == {"seen", "wait", "read", "unsubscribe", "auth", "answer"}
Places == SSEOnly \cup AwaitOnly \cup {"closed", "loop", "release"}

\* A reader is where its kind can be, and a handler that reads, announces or
\* withdraws an inbox has one.
KindFits ==
    \A s \in Streams :
        /\ st[s].pc \in SSEOnly \cup {"closed"} => st[s].kind = "sse"
        /\ st[s].pc \in AwaitOnly => st[s].kind = "await"
        /\ st[s].kind = "await" \/ st[s].pc \in {"attach", "touch", "detach"} => st[s].addr \in Agents

\* Type correctness and KindFits, which the other proofs start from.
StreamsInv == TypeOK /\ KindFits

-----------------------------------------------------------------------------
(* What a step does to a reader *)

\* The readers stay where they are.
Still == /\ st' \in [Streams -> Stream]
         /\ \A x \in Streams : /\ st'[x].pc = st[x].pc /\ st'[x].kind = st[x].kind
                               /\ st'[x].addr = st[x].addr /\ st'[x].late = st[x].late

\* The others do, and one reader goes on for the same client and inbox.
Keeps(s) == /\ st' \in [Streams -> Stream]
            /\ \A x \in Streams \ {s} : st'[x] = st[x]
            /\ st'[s].kind = st[s].kind /\ st'[s].addr = st[s].addr

Moves(s, from, to) == Keeps(s) /\ st[s].pc \in from /\ st'[s].pc \in to

\* ... without a frame, or with one.
Silently(s) == st'[s].late = st[s].late
Audibly(s) == st'[s].late = IF allowed \/ st[s].late = 2 THEN st[s].late ELSE st[s].late + 1

LEMMA StreamSet ==
  ASSUME TypeOK, NEW s \in Streams, NEW q \in Stream, Set(s, q),
         q.kind = st[s].kind, q.addr = st[s].addr,
         NEW from, NEW to, st[s].pc \in from, q.pc \in to
  PROVE  Moves(s, from, to) /\ st'[s] = q
BY DEF TypeOK, Moves, Keeps, Set

LEMMA GotoMoves ==
  ASSUME TypeOK, NEW s \in Streams, NEW p \in Places, Goto(s, p),
         NEW from, NEW to, st[s].pc \in from, p \in to
  PROVE  Moves(s, from, to) /\ Silently(s)
<1>1. st[s] \in Stream
  BY DEF TypeOK
<1>2. LET q == [st[s] EXCEPT !.pc = p]
      IN  q \in Stream /\ q.pc = p /\ q.kind = st[s].kind /\ q.addr = st[s].addr /\ q.late = st[s].late
  BY <1>1 DEF Stream, Places, SSEOnly, AwaitOnly
<1> QED
  BY <1>2, StreamSet DEF Goto, Silently

LEMMA OutMoves ==
  ASSUME TypeOK, NEW s \in Streams, NEW p \in Places, Set(s, [Out(st[s]) EXCEPT !.pc = p]),
         NEW from, NEW to, st[s].pc \in from, p \in to
  PROVE  Moves(s, from, to) /\ Audibly(s)
<1> DEFINE r == st[s]
           n == IF allowed \/ r.late = 2 THEN r.late ELSE r.late + 1
           q == [[r EXCEPT !.told = TRUE, !.late = n] EXCEPT !.pc = p]
<1>1. r \in Stream
  BY DEF TypeOK
<1>2. r.late \in 0..2
  BY <1>1 DEF Stream
<1>3. n \in 0..2
  BY <1>2
<1>4. [Out(r) EXCEPT !.pc = p] = q
  BY DEF Out
<1> HIDE DEF n
<1>5. q \in Stream /\ q.pc = p /\ q.kind = r.kind /\ q.addr = r.addr /\ q.late = n
  BY <1>1, <1>3 DEF Stream, Places, SSEOnly, AwaitOnly
<1> HIDE DEF q
<1>6. Moves(s, from, to) /\ st'[s] = q
  BY <1>4, <1>5, StreamSet
<1> QED
  BY <1>5, <1>6 DEF n, Audibly

\* The steps that keep the reader's client and its inbox.
LEMMA ReaderSteps ==
  ASSUME StreamsInv, NEW s \in Streams
  PROVE  /\ AcquireIP(s) => Silently(s) /\ Moves(s, {"ip"}, {IF ipActive < StreamIPLimit THEN "subscribe" ELSE "closed"})
         /\ Subscribe(s) => Silently(s) /\ (Moves(s, {"subscribe"}, {Subscribed(s)}) \/ Moves(s, {"wait"}, {"read"}))
         /\ Attach(s) => Silently(s) /\ Moves(s, {"attach"}, {"touch"})
         /\ Touch(s) => Silently(s) /\ (Moves(s, {"touch"}, {"check"}) \/ Moves(s, {"seen"}, {"wait"}))
         /\ Check(s) => Silently(s) /\ Moves(s, {"check"}, {IF allowed THEN "hint" ELSE Unwind(s)})
         /\ Hint(s) => Audibly(s) /\ Moves(s, {"hint"}, {"loop"})
         /\ Read(s) => Silently(s) /\ Moves(s, {"read"}, {"unsubscribe", "loop"})
         /\ Authorize(s) => Silently(s) /\ Moves(s, {"auth"}, {IF allowed /\ st[s].got THEN "answer" ELSE "release"})
         /\ Answer(s) => Audibly(s) /\ Moves(s, {"answer"}, {"release"})
         /\ Detach(s) => Silently(s) /\ Moves(s, {"detach"}, {"cancel"})
         /\ Cancel(s) => Silently(s) /\ (Moves(s, {"cancel"}, {"releaseIP"}) \/ Moves(s, {"unsubscribe"}, {"auth"}))
         /\ ReleaseIP(s) => Silently(s) /\ Moves(s, {"releaseIP"}, {"release"})
         /\ Disconnect(s) => Silently(s) /\ Moves(s, {"hint", "loop"}, {Unwind(s)})
         /\ Keepalive(s) => Silently(s) /\ Moves(s, {"loop"}, {Unwind(s)})
         /\ Reconcile(s) => Silently(s) /\ Moves(s, {"loop"}, {"check"})
         /\ Event(s) \/ NamespaceEvent(s) => Silently(s) /\ Moves(s, {"loop"}, {"check", "loop"})
         /\ Poll(s) => Silently(s) /\ Moves(s, {"loop"}, {"read"})
         /\ WaitEvent(s) => Silently(s) /\ Moves(s, {"loop"}, {"read", "loop"})
         /\ Deadline(s) => Silently(s) /\ Moves(s, {"loop"}, {"unsubscribe"})
<1>0. st[s] \in Stream /\ TypeOK
  BY DEF StreamsInv, TypeOK
<1>1. AcquireIP(s) => Silently(s) /\ Moves(s, {"ip"}, {IF ipActive < StreamIPLimit THEN "subscribe" ELSE "closed"})
  BY <1>0, GotoMoves DEF AcquireIP, Places, SSEOnly
<1>2. Subscribe(s) => Silently(s) /\ (Moves(s, {"subscribe"}, {Subscribed(s)}) \/ Moves(s, {"wait"}, {"read"}))
  <2> SUFFICES ASSUME Subscribe(s) PROVE Silently(s) /\ (Moves(s, {"subscribe"}, {Subscribed(s)}) \/ Moves(s, {"wait"}, {"read"}))
    OBVIOUS
  <2> DEFINE e == <<>>
  <2>1. e \in Seq(Addresses)
    OBVIOUS
  <2> HIDE DEF e
  <2> DEFINE p == IF st[s].pc = "wait" THEN "read" ELSE Subscribed(s)
             q == [st[s] EXCEPT !.subscribed = TRUE, !.buf = e, !.pc = p]
  <2>2. p \in Places
    BY DEF Subscribed, Places, SSEOnly, AwaitOnly
  <2> HIDE DEF p
  <2>3. q \in Stream /\ q.pc = p /\ q.kind = st[s].kind /\ q.addr = st[s].addr /\ q.late = st[s].late
    BY <1>0, <2>1, <2>2 DEF Stream, Places, SSEOnly, AwaitOnly
  <2> HIDE DEF q
  <2>4. Set(s, q)
    BY DEF Subscribe, q, p, e
  <2> QED
    BY <1>0, <2>3, <2>4, StreamSet DEF Subscribe, p, Silently
<1>3. Attach(s) => Silently(s) /\ Moves(s, {"attach"}, {"touch"})
  BY <1>0, GotoMoves DEF Attach, Places, SSEOnly
<1>4. Touch(s) => Silently(s) /\ (Moves(s, {"touch"}, {"check"}) \/ Moves(s, {"seen"}, {"wait"}))
  BY <1>0, GotoMoves DEF Touch, Places, SSEOnly, AwaitOnly
<1>5. Check(s) => Silently(s) /\ Moves(s, {"check"}, {IF allowed THEN "hint" ELSE Unwind(s)})
  BY <1>0, GotoMoves DEF Check, Unwind, Places, SSEOnly
<1>6. Hint(s) => Audibly(s) /\ Moves(s, {"hint"}, {"loop"})
  BY <1>0, OutMoves DEF Hint, Places
<1>7. Read(s) => Silently(s) /\ Moves(s, {"read"}, {"unsubscribe", "loop"})
  <2> SUFFICES ASSUME Read(s) PROVE Silently(s) /\ Moves(s, {"read"}, {"unsubscribe", "loop"})
    OBVIOUS
  <2>1. unread[st[s].addr] \in BOOLEAN
    BY DEF Read, StreamsInv, TypeOK, KindFits, AwaitOnly
  <2> DEFINE p == IF unread[st[s].addr] THEN "unsubscribe" ELSE "loop"
             q == [st[s] EXCEPT !.got = unread[st[s].addr], !.pc = p]
  <2>2. p \in Places
    BY DEF Places, AwaitOnly
  <2> HIDE DEF p
  <2>3. q \in Stream /\ q.pc = p /\ q.kind = st[s].kind /\ q.addr = st[s].addr /\ q.late = st[s].late
    BY <1>0, <2>1, <2>2 DEF Stream, Places, SSEOnly, AwaitOnly
  <2> HIDE DEF q
  <2>4. Set(s, q)
    BY <2>1 DEF Read, q, p
  <2> QED
    BY <1>0, <2>3, <2>4, StreamSet DEF Read, p, Silently
<1>8. Authorize(s) => Silently(s) /\ Moves(s, {"auth"}, {IF allowed /\ st[s].got THEN "answer" ELSE "release"})
  BY <1>0, GotoMoves DEF Authorize, Places, AwaitOnly
<1>9. Answer(s) => Audibly(s) /\ Moves(s, {"answer"}, {"release"})
  BY <1>0, OutMoves DEF Answer, Places
<1>10. Detach(s) => Silently(s) /\ Moves(s, {"detach"}, {"cancel"})
  BY <1>0, GotoMoves DEF Detach, Places, SSEOnly
<1>11. Cancel(s) => Silently(s) /\ (Moves(s, {"cancel"}, {"releaseIP"}) \/ Moves(s, {"unsubscribe"}, {"auth"}))
  <2> SUFFICES ASSUME Cancel(s) PROVE Silently(s) /\ (Moves(s, {"cancel"}, {"releaseIP"}) \/ Moves(s, {"unsubscribe"}, {"auth"}))
    OBVIOUS
  <2> DEFINE e == <<>>
  <2>1. e \in Seq(Addresses)
    OBVIOUS
  <2> HIDE DEF e
  <2> DEFINE p == IF st[s].pc = "cancel" THEN "releaseIP" ELSE "auth"
             q == [st[s] EXCEPT !.subscribed = FALSE, !.buf = e, !.pc = p]
  <2>2. p \in Places
    BY DEF Places, SSEOnly, AwaitOnly
  <2> HIDE DEF p
  <2>3. q \in Stream /\ q.pc = p /\ q.kind = st[s].kind /\ q.addr = st[s].addr /\ q.late = st[s].late
    BY <1>0, <2>1, <2>2 DEF Stream, Places, SSEOnly, AwaitOnly
  <2> HIDE DEF q
  <2>4. Set(s, q)
    BY DEF Cancel, q, p, e
  <2> QED
    BY <1>0, <2>3, <2>4, StreamSet DEF Cancel, p, Silently
<1>12. ReleaseIP(s) => Silently(s) /\ Moves(s, {"releaseIP"}, {"release"})
  BY <1>0, GotoMoves DEF ReleaseIP, Places
<1>13. Disconnect(s) => Silently(s) /\ Moves(s, {"hint", "loop"}, {Unwind(s)})
  BY <1>0, GotoMoves DEF Disconnect, Unwind, Places, SSEOnly
<1>14. Keepalive(s) => Silently(s) /\ Moves(s, {"loop"}, {Unwind(s)})
  BY <1>0, GotoMoves DEF Keepalive, Unwind, Places, SSEOnly
<1>15. Reconcile(s) => Silently(s) /\ Moves(s, {"loop"}, {"check"})
  BY <1>0, GotoMoves DEF Reconcile, Places, SSEOnly
<1>17. Event(s) => Silently(s) /\ Moves(s, {"loop"}, {"check", "loop"})
  <2> SUFFICES ASSUME Event(s) PROVE Silently(s) /\ Moves(s, {"loop"}, {"check", "loop"})
    OBVIOUS
  <2> DEFINE e == Tail(st[s].buf)
  <2>0. st[s].buf \in Seq(Addresses) /\ st[s].buf # <<>>
    BY <1>0 DEF Stream, Event
  <2>1. e \in Seq(Addresses)
    BY <2>0
  <2> HIDE DEF e
  <2> DEFINE p == IF Head(st[s].buf) = st[s].addr THEN "check" ELSE "loop"
             q == [st[s] EXCEPT !.buf = e, !.pc = p]
  <2>2. p \in Places
    BY DEF Places, SSEOnly
  <2> HIDE DEF p
  <2>3. q \in Stream /\ q.pc = p /\ q.kind = st[s].kind /\ q.addr = st[s].addr /\ q.late = st[s].late
    BY <1>0, <2>1, <2>2 DEF Stream, Places, SSEOnly, AwaitOnly
  <2> HIDE DEF q
  <2>4. Set(s, q)
    BY DEF Event, q, p, e
  <2>5. st[s].pc \in {"loop"} /\ q.pc \in {"check", "loop"}
    BY <2>3 DEF Event, p
  <2> QED
    BY <1>0, <2>3, <2>4, <2>5, StreamSet DEF Silently
<1>16. NamespaceEvent(s) => Silently(s) /\ Moves(s, {"loop"}, {"check", "loop"})
  <2> SUFFICES ASSUME NamespaceEvent(s) PROVE Silently(s) /\ Moves(s, {"loop"}, {"check", "loop"})
    OBVIOUS
  <2> DEFINE e == Tail(st[s].buf)
  <2>0. st[s].buf \in Seq(Addresses) /\ st[s].buf # <<>>
    BY <1>0 DEF Stream, NamespaceEvent
  <2>1. e \in Seq(Addresses)
    BY <2>0
  <2> HIDE DEF e
  <2> DEFINE p == "check"
             q == [st[s] EXCEPT !.buf = e, !.pc = p]
  <2>2. p \in Places
    BY DEF Places, SSEOnly
  <2> HIDE DEF p
  <2>3. q \in Stream /\ q.pc = p /\ q.kind = st[s].kind /\ q.addr = st[s].addr /\ q.late = st[s].late
    BY <1>0, <2>1, <2>2 DEF Stream, Places, SSEOnly, AwaitOnly
  <2> HIDE DEF q
  <2>4. Set(s, q)
    BY DEF NamespaceEvent, q, p, e
  <2>5. st[s].pc \in {"loop"} /\ q.pc \in {"check", "loop"}
    BY <2>3 DEF NamespaceEvent, p
  <2> QED
    BY <1>0, <2>3, <2>4, <2>5, StreamSet DEF Silently
<1>18. Poll(s) => Silently(s) /\ Moves(s, {"loop"}, {"read"})
  BY <1>0, GotoMoves DEF Poll, Places, AwaitOnly
<1>19. WaitEvent(s) => Silently(s) /\ Moves(s, {"loop"}, {"read", "loop"})
  <2> SUFFICES ASSUME WaitEvent(s) PROVE Silently(s) /\ Moves(s, {"loop"}, {"read", "loop"})
    OBVIOUS
  <2> DEFINE e == Tail(st[s].buf)
  <2>0. st[s].buf \in Seq(Addresses) /\ st[s].buf # <<>>
    BY <1>0 DEF Stream, WaitEvent
  <2>1. e \in Seq(Addresses)
    BY <2>0
  <2> HIDE DEF e
  <2> DEFINE p == IF Head(st[s].buf) = st[s].addr THEN "read" ELSE "loop"
             q == [st[s] EXCEPT !.buf = e, !.pc = p]
  <2>2. p \in Places
    BY DEF Places, AwaitOnly
  <2> HIDE DEF p
  <2>3. q \in Stream /\ q.pc = p /\ q.kind = st[s].kind /\ q.addr = st[s].addr /\ q.late = st[s].late
    BY <1>0, <2>1, <2>2 DEF Stream, Places, SSEOnly, AwaitOnly
  <2> HIDE DEF q
  <2>4. Set(s, q)
    BY DEF WaitEvent, q, p, e
  <2>5. st[s].pc \in {"loop"} /\ q.pc \in {"read", "loop"}
    BY <2>3 DEF WaitEvent, p
  <2> QED
    BY <1>0, <2>3, <2>4, <2>5, StreamSet DEF Silently
<1>20. Deadline(s) => Silently(s) /\ Moves(s, {"loop"}, {"unsubscribe"})
  BY <1>0, GotoMoves DEF Deadline, Places, AwaitOnly
<1> QED
  BY <1>1, <1>2, <1>3, <1>4, <1>5, <1>6, <1>7, <1>8, <1>9, <1>10, <1>11, <1>12, <1>13, <1>14, <1>15, <1>16, <1>17, <1>18, <1>19, <1>20

-----------------------------------------------------------------------------
(* Type correctness *)

\* A reader that goes on to a place of its kind fits.
LEMMA MoveFits ==
  ASSUME StreamsInv, NEW s \in Streams, NEW from, NEW to, Moves(s, from, to),
         \/ /\ st[s].kind = "sse"
            /\ to \subseteq SSEOnly \cup {"closed", "loop", "release"}
            /\ to \cap {"attach", "touch", "detach"} = {} \/ st[s].addr \in Agents
         \/ st[s].kind = "await" /\ to \subseteq AwaitOnly \cup {"loop", "release"}
  PROVE  KindFits'
<1>1. ASSUME NEW x \in Streams, x # s
      PROVE  st'[x] = st[x]
  BY <1>1 DEF Moves, Keeps
<1>2. ASSUME NEW x \in Streams, x # s
      PROVE  /\ st'[x].pc \in SSEOnly \cup {"closed"} => st'[x].kind = "sse"
             /\ st'[x].pc \in AwaitOnly => st'[x].kind = "await"
             /\ st'[x].kind = "await" \/ st'[x].pc \in {"attach", "touch", "detach"} => st'[x].addr \in Agents
  BY <1>1, <1>2 DEF StreamsInv, KindFits
<1>3. /\ st'[s].pc \in SSEOnly \cup {"closed"} => st'[s].kind = "sse"
      /\ st'[s].pc \in AwaitOnly => st'[s].kind = "await"
      /\ st'[s].kind = "await" \/ st'[s].pc \in {"attach", "touch", "detach"} => st'[s].addr \in Agents
  <2>1. st'[s].kind = st[s].kind /\ st'[s].addr = st[s].addr /\ st'[s].pc \in to
    BY DEF Moves, Keeps
  <2>2. st[s].kind = "await" => st[s].addr \in Agents
    BY DEF StreamsInv, KindFits
  <2> QED
    BY <2>1, <2>2 DEF SSEOnly, AwaitOnly
<1> QED
  BY <1>2, <1>3 DEF KindFits

\* The steps of ReaderSteps keep KindFits.
LEMMA ReaderFits ==
  ASSUME StreamsInv, NEW s \in Streams,
         \/ AcquireIP(s) \/ Subscribe(s) \/ Attach(s) \/ Touch(s) \/ Check(s) \/ Hint(s)
         \/ Read(s) \/ Authorize(s) \/ Answer(s) \/ Detach(s) \/ Cancel(s) \/ ReleaseIP(s)
         \/ (Disconnect(s) \/ Keepalive(s) \/ Reconcile(s) \/ Event(s) \/ NamespaceEvent(s)) /\ IsSSE(s)
         \/ (Poll(s) \/ WaitEvent(s) \/ Deadline(s)) /\ ~IsSSE(s)
  PROVE  KindFits' /\ st' \in [Streams -> Stream]
<1>0. st[s] \in Stream
  BY DEF StreamsInv, TypeOK
<1>k. /\ st[s].pc \in SSEOnly => st[s].kind = "sse"
      /\ st[s].pc \in AwaitOnly => st[s].kind = "await"
      /\ st[s].pc \in {"attach", "touch", "detach"} => st[s].addr \in Agents
      /\ st[s].kind \in {"sse", "await"} /\ st[s].addr \in Addresses
      /\ st[s].addr # All => st[s].addr \in Agents
  BY <1>0 DEF StreamsInv, KindFits, Stream, Addresses
<1>1. CASE AcquireIP(s)
  <2>1. PICK to \in SUBSET {"subscribe", "closed"} : Moves(s, {"ip"}, to)
    BY <1>1, ReaderSteps
  <2> QED
    BY <2>1, <1>k, MoveFits DEF Moves, Keeps, SSEOnly
<1>2. CASE Subscribe(s)
  <2>1. CASE Moves(s, {"subscribe"}, {Subscribed(s)})
    BY <2>1, <1>k, MoveFits DEF Subscribed, Moves, Keeps, SSEOnly
  <2>2. CASE Moves(s, {"wait"}, {"read"})
    BY <2>2, <1>k, MoveFits DEF Moves, Keeps, AwaitOnly
  <2> QED
    BY <1>2, <2>1, <2>2, ReaderSteps
<1>3. CASE Attach(s)
  BY <1>3, <1>k, ReaderSteps, MoveFits DEF Attach, Moves, Keeps, SSEOnly
<1>4. CASE Touch(s)
  <2>1. CASE Moves(s, {"touch"}, {"check"})
    BY <2>1, <1>k, MoveFits DEF Moves, Keeps, SSEOnly
  <2>2. CASE Moves(s, {"seen"}, {"wait"})
    BY <2>2, <1>k, MoveFits DEF Moves, Keeps, AwaitOnly
  <2> QED
    BY <1>4, <2>1, <2>2, ReaderSteps
<1>5. CASE Check(s)
  <2>1. PICK p \in {"hint", Unwind(s)} : Moves(s, {"check"}, {p})
    BY <1>5, ReaderSteps
  <2> QED
    BY <2>1, <1>k, MoveFits DEF Unwind, Moves, Keeps, SSEOnly
<1>6. CASE Hint(s)
  <2>1. Moves(s, {"hint"}, {"loop"})
    BY <1>6, ReaderSteps
  <2> QED
    BY <2>1, <1>k, MoveFits DEF Moves, Keeps, SSEOnly
<1>7. CASE Read(s)
  BY <1>7, <1>k, ReaderSteps, MoveFits DEF Read, Moves, Keeps, AwaitOnly
<1>8. CASE Authorize(s)
  BY <1>8, <1>k, ReaderSteps, MoveFits DEF Authorize, Moves, Keeps, AwaitOnly
<1>9. CASE Answer(s)
  BY <1>9, <1>k, ReaderSteps, MoveFits DEF Answer, Moves, Keeps, AwaitOnly
<1>10. CASE Detach(s)
  BY <1>10, <1>k, ReaderSteps, MoveFits DEF Detach, Moves, Keeps, SSEOnly
<1>11. CASE Cancel(s)
  <2>1. CASE Moves(s, {"cancel"}, {"releaseIP"})
    BY <2>1, <1>k, MoveFits DEF Moves, Keeps, SSEOnly
  <2>2. CASE Moves(s, {"unsubscribe"}, {"auth"})
    BY <2>2, <1>k, MoveFits DEF Moves, Keeps, AwaitOnly
  <2> QED
    BY <1>11, <2>1, <2>2, ReaderSteps
<1>12. CASE ReleaseIP(s)
  <2>1. Moves(s, {"releaseIP"}, {"release"})
    BY <1>12, ReaderSteps
  <2> QED
    BY <2>1, <1>k, MoveFits DEF Moves, Keeps, SSEOnly
<1>13. CASE (Disconnect(s) \/ Keepalive(s)) /\ IsSSE(s)
  <2>1. PICK from : Moves(s, from, {Unwind(s)})
    BY <1>13, ReaderSteps
  <2> QED
    BY <2>1, <1>13, <1>k, MoveFits DEF IsSSE, Unwind, Moves, Keeps, SSEOnly
<1>14. CASE (Reconcile(s) \/ Event(s) \/ NamespaceEvent(s)) /\ IsSSE(s)
  <2>1. PICK to \in SUBSET {"check", "loop"} : Moves(s, {"loop"}, to)
    BY <1>14, ReaderSteps
  <2> QED
    BY <2>1, <1>14, <1>k, MoveFits DEF IsSSE, Moves, Keeps, SSEOnly
<1>15. CASE (Poll(s) \/ WaitEvent(s) \/ Deadline(s)) /\ ~IsSSE(s)
  <2>1. PICK to \in SUBSET {"read", "unsubscribe", "loop"} : Moves(s, {"loop"}, to)
    BY <1>15, ReaderSteps
  <2> QED
    BY <2>1, <1>15, <1>k, MoveFits DEF IsSSE, Moves, Keeps, AwaitOnly
<1> QED
  BY <1>1, <1>2, <1>3, <1>4, <1>5, <1>6, <1>7, <1>8, <1>9, <1>10, <1>11, <1>12, <1>13, <1>14, <1>15

\* A message or an event leaves every reader where it is.
LEMMA MessagesLeaveReaders ==
  ASSUME StreamsInv, NEW a \in Addresses, Send(a) \/ Publish(a)
  PROVE  Still
<1>0. ASSUME NEW x \in Streams
      PROVE  st[x] \in Stream
  BY <1>0 DEF StreamsInv, TypeOK
<1>1. CASE Send(a)
  <2>1. ASSUME NEW x \in Streams
        PROVE  /\ st'[x] \in Stream
               /\ st'[x].pc = st[x].pc /\ st'[x].kind = st[x].kind
               /\ st'[x].addr = st[x].addr /\ st'[x].late = st[x].late
    <3>1. st'[x] = st[x] \/ st'[x] = [st[x] EXCEPT !.told = FALSE]
      BY <1>1 DEF Send
    <3> QED
      BY <3>1, <1>0 DEF Stream
  <2> QED
    BY <1>1, <2>1 DEF Send, Still
<1>2. CASE Publish(a)
  <2>1. ASSUME NEW x \in Streams
        PROVE  /\ st'[x] \in Stream
               /\ st'[x].pc = st[x].pc /\ st'[x].kind = st[x].kind
               /\ st'[x].addr = st[x].addr /\ st'[x].late = st[x].late
    <3> DEFINE e == Append(st[x].buf, a)
    <3>1. st'[x] = st[x] \/ st'[x] = [st[x] EXCEPT !.buf = e]
      BY <1>2 DEF Publish
    <3>2. st[x].buf \in Seq(Addresses)
      BY <1>0 DEF Stream
    <3>3. e \in Seq(Addresses)
      BY <3>2
    <3> HIDE DEF e
    <3> QED
      BY <3>1, <3>3, <1>0 DEF Stream
  <2> QED
    BY <1>2, <2>1 DEF Publish, Still
<1> QED
  BY <1>1, <1>2

LEMMA StillFits == ASSUME StreamsInv, Still PROVE KindFits'
BY DEF StreamsInv, KindFits, Still

LEMMA InitInv == Init => StreamsInv
<1> SUFFICES ASSUME Init PROVE StreamsInv
  OBVIOUS
<1> DEFINE e == <<>>
           r == [pc |-> "closed", kind |-> "sse", addr |-> All, subscribed |-> FALSE,
                 buf |-> e, got |-> FALSE, told |-> FALSE, late |-> 0]
<1>1. e \in Seq(Addresses)
  OBVIOUS
<1>2. st = [s \in Streams |-> r]
  BY DEF Init
<1> HIDE DEF e
<1>3. r \in Stream /\ r.pc = "closed" /\ r.kind = "sse"
  BY <1>1 DEF Stream, Addresses
<1> HIDE DEF r
<1>4. st \in [Streams -> Stream]
  BY <1>2, <1>3
<1>5. KindFits
  BY <1>2, <1>3 DEF KindFits, SSEOnly, AwaitOnly
<1>6. TypeOK
  BY <1>4 DEF Init, TypeOK
<1> QED
  BY <1>5, <1>6 DEF StreamsInv

\* What an opening and a closing reader becomes.
LEMMA Opens ==
  ASSUME StreamsInv, NEW s \in Streams, NEW a \in Addresses
  PROVE  /\ Acquire(s, a) =>
              /\ st' \in [Streams -> Stream] /\ \A x \in Streams \ {s} : st'[x] = st[x]
              /\ st[s].pc = "closed" /\ st[s].kind = "sse"
              /\ st'[s].pc = "ip" /\ st'[s].kind = "sse" /\ st'[s].addr = a /\ st'[s].late = st[s].late
         /\ AwaitMessages(s, a) /\ active["await"][a] < StreamLimit =>
              /\ st' \in [Streams -> Stream] /\ \A x \in Streams \ {s} : st'[x] = st[x]
              /\ st[s].pc = "closed"
              /\ st'[s].pc = "seen" /\ st'[s].kind = "await" /\ st'[s].addr = a /\ st'[s].late = st[s].late
         /\ Release(s) =>
              /\ st' \in [Streams -> Stream] /\ \A x \in Streams \ {s} : st'[x] = st[x]
              /\ st[s].pc = "release"
              /\ st'[s].pc = "closed" /\ st'[s].kind = "sse" /\ st'[s].addr = All /\ st'[s].late = 0
<1>0. st[s] \in Stream /\ st \in [Streams -> Stream]
  BY DEF StreamsInv, TypeOK
<1>1. Acquire(s, a) =>
              /\ st' \in [Streams -> Stream] /\ \A x \in Streams \ {s} : st'[x] = st[x]
              /\ st[s].pc = "closed" /\ st[s].kind = "sse"
              /\ st'[s].pc = "ip" /\ st'[s].kind = "sse" /\ st'[s].addr = a /\ st'[s].late = st[s].late
  <2> DEFINE q == [st[s] EXCEPT !.pc = "ip", !.addr = a]
  <2>1. q \in Stream /\ q.pc = "ip" /\ q.kind = st[s].kind /\ q.addr = a /\ q.late = st[s].late
    BY <1>0 DEF Stream
  <2> HIDE DEF q
  <2>2. Acquire(s, a) => st[s].pc = "closed" /\ st[s].kind = "sse" /\ st' = [st EXCEPT ![s] = q]
    BY DEF Acquire, Set, q, StreamsInv, KindFits
  <2> QED
    BY <2>1, <2>2, <1>0
<1>2. AwaitMessages(s, a) /\ active["await"][a] < StreamLimit =>
              /\ st' \in [Streams -> Stream] /\ \A x \in Streams \ {s} : st'[x] = st[x]
              /\ st[s].pc = "closed"
              /\ st'[s].pc = "seen" /\ st'[s].kind = "await" /\ st'[s].addr = a /\ st'[s].late = st[s].late
  <2> DEFINE q == [st[s] EXCEPT !.pc = "seen", !.kind = "await", !.addr = a]
  <2>1. q \in Stream /\ q.pc = "seen" /\ q.kind = "await" /\ q.addr = a /\ q.late = st[s].late
    BY <1>0 DEF Stream
  <2> HIDE DEF q
  <2>2. AwaitMessages(s, a) /\ active["await"][a] < StreamLimit => st[s].pc = "closed" /\ st' = [st EXCEPT ![s] = q]
    BY DEF AwaitMessages, Set, q
  <2> QED
    BY <2>1, <2>2, <1>0
<1>3. Release(s) =>
              /\ st' \in [Streams -> Stream] /\ \A x \in Streams \ {s} : st'[x] = st[x]
              /\ st[s].pc = "release"
              /\ st'[s].pc = "closed" /\ st'[s].kind = "sse" /\ st'[s].addr = All /\ st'[s].late = 0
  <2> DEFINE z == 0
             q == [st[s] EXCEPT !.pc = "closed", !.addr = All, !.kind = "sse", !.told = FALSE,
                                !.got = FALSE, !.late = z]
  <2>0. z \in 0..2 /\ All \in Addresses
    BY DEF Addresses
  <2> HIDE DEF z
  <2>1. q \in Stream /\ q.pc = "closed" /\ q.kind = "sse" /\ q.addr = All /\ q.late = z
    BY <1>0, <2>0 DEF Stream
  <2> HIDE DEF q
  <2>2. Release(s) => st[s].pc = "release" /\ st' = [st EXCEPT ![s] = q]
    BY DEF Release, Set, q, z
  <2> QED
    BY <2>1, <2>2, <1>0 DEF z
<1> QED
  BY <1>1, <1>2, <1>3

LEMMA OneLessNat == \A n \in Nat : OneLess(n) \in Nat /\ (n > 0 => OneLess(n) = n - 1)
BY DEF OneLess

\* One entry of the slots or of the presence changes.
LEMMA ActiveTyped ==
  ASSUME active \in [{"sse", "await"} -> [Addresses -> Nat]],
         NEW k \in {"sse", "await"}, NEW a \in Addresses, NEW n \in Nat,
         active' = [active EXCEPT ![k][a] = n]
  PROVE  /\ active' \in [{"sse", "await"} -> [Addresses -> Nat]]
         /\ active'[k][a] = n
         /\ \A j \in {"sse", "await"}, b \in Addresses : j # k \/ b # a => active'[j][b] = active[j][b]
OBVIOUS

LEMMA NextInv == ASSUME StreamsInv, [Next]_vars PROVE StreamsInv'
<1> USE DEF StreamsInv
<1>0. TypeOK /\ KindFits
  OBVIOUS
<1>1. ASSUME NEW a \in Agents, Send(a)
      PROVE  StreamsInv'
  <2>1. Still
    BY <1>1, MessagesLeaveReaders DEF Addresses
  <2> QED
    BY <1>1, <2>1, StillFits DEF Send, TypeOK, Still, Addresses
<1>2. ASSUME NEW a \in Agents, Received(a)
      PROVE  StreamsInv'
  BY <1>2 DEF Received, TypeOK, KindFits, Addresses
<1>3. ASSUME NEW a \in Addresses, Publish(a)
      PROVE  StreamsInv'
  <2>1. Still
    BY <1>3, MessagesLeaveReaders
  <2> QED
    BY <1>3, <2>1, StillFits DEF Publish, TypeOK, Still
<1>4. ASSUME NEW a \in Addresses, PublishLost(a)
      PROVE  StreamsInv'
  BY <1>4 DEF PublishLost, TypeOK, KindFits
<1>5. CASE Revoke
  BY <1>5 DEF Revoke, TypeOK, KindFits
<1>6. ASSUME NEW s \in Streams, NEW a \in Addresses, Acquire(s, a)
      PROVE  StreamsInv'
  <2>1. active' \in [{"sse", "await"} -> [Addresses -> Nat]]
    BY <1>6 DEF Acquire, TypeOK
  <2>2. KindFits'
    BY <1>6, Opens DEF KindFits, SSEOnly, AwaitOnly
  <2> QED
    BY <1>6, <2>1, <2>2, Opens DEF Acquire, TypeOK
<1>7. ASSUME NEW s \in Streams, NEW a \in Agents, AwaitMessages(s, a)
      PROVE  StreamsInv'
  <2>0. a \in Addresses
    BY DEF Addresses
  <2>1. CASE active["await"][a] < StreamLimit
    <3>1. active' \in [{"sse", "await"} -> [Addresses -> Nat]]
      BY <1>7, <2>0, <2>1 DEF AwaitMessages, TypeOK
    <3>2. KindFits'
      BY <1>7, <2>0, <2>1, Opens DEF KindFits, SSEOnly, AwaitOnly
    <3> QED
      BY <1>7, <2>0, <2>1, <3>1, <3>2, Opens DEF AwaitMessages, TypeOK
  <2>2. CASE ~(active["await"][a] < StreamLimit)
    BY <1>7, <2>2 DEF AwaitMessages, TypeOK, KindFits
  <2> QED
    BY <2>1, <2>2
<1>8. ASSUME NEW s \in Streams,
             \/ AcquireIP(s) \/ Subscribe(s) \/ Attach(s) \/ Touch(s) \/ Check(s) \/ Hint(s)
             \/ Read(s) \/ Authorize(s) \/ Answer(s) \/ Detach(s) \/ Cancel(s) \/ ReleaseIP(s)
             \/ (Disconnect(s) \/ Keepalive(s) \/ Reconcile(s) \/ Event(s) \/ NamespaceEvent(s)) /\ IsSSE(s)
             \/ (Poll(s) \/ WaitEvent(s) \/ Deadline(s)) /\ ~IsSSE(s)
      PROVE  StreamsInv'
  <2>1. KindFits' /\ st' \in [Streams -> Stream]
    BY <1>8, ReaderFits
  <2>2. CASE UNCHANGED <<unread, unsaid, allowed, active, ipActive, presence, members, stale, sweep>>
    BY <2>1, <2>2 DEF TypeOK
  <2>3. CASE AcquireIP(s)
    <3>1. st[s] \in Stream
      BY DEF TypeOK
    <3>2. st[s].addr \in Addresses
      BY <3>1 DEF Stream
    <3>3. active["sse"][st[s].addr] \in Nat
      BY <3>2 DEF TypeOK
    <3>4. active' \in [{"sse", "await"} -> [Addresses -> Nat]] /\ ipActive' \in Nat
      BY <2>3, <3>2, <3>3, OneLessNat DEF AcquireIP, TypeOK
    <3> QED
      BY <2>1, <2>3, <3>4 DEF AcquireIP, TypeOK
  <2>4. CASE Attach(s)
    <3>1. st[s].addr \in Agents
      BY <2>4 DEF Attach, KindFits
    <3>2. presence' \in [Agents -> Nat]
      BY <2>4, <3>1 DEF Attach, TypeOK
    <3> QED
      BY <2>1, <2>4, <3>2 DEF Attach, TypeOK
  <2>5. CASE Touch(s)
    BY <2>1, <2>5 DEF Touch, TypeOK
  <2>6. CASE Detach(s)
    <3>1. st[s].addr \in Agents
      BY <2>6 DEF Detach, KindFits
    <3>2. presence' \in [Agents -> Nat]
      BY <2>6, <3>1, OneLessNat DEF Detach, TypeOK
    <3>3. sweep' \in [todo : SUBSET Agents, chosen : SUBSET Agents, on : SUBSET Agents]
      BY <2>6 DEF Detach, TypeOK
    <3> QED
      BY <2>1, <2>6, <3>2, <3>3 DEF Detach, TypeOK
  <2>7. CASE ReleaseIP(s)
    BY <2>1, <2>7, OneLessNat DEF ReleaseIP, TypeOK
  <2> QED
    BY <1>8, <2>2, <2>3, <2>4, <2>5, <2>6, <2>7
       DEF Subscribe, Check, Hint, Read, Authorize, Answer, Cancel, Disconnect, Keepalive, Reconcile,
           Event, NamespaceEvent, Poll, WaitEvent, Deadline
<1>9. ASSUME NEW s \in Streams, Release(s)
      PROVE  StreamsInv'
  <2>1. st[s] \in Stream
    BY DEF TypeOK
  <2>2. st[s].kind \in {"sse", "await"} /\ st[s].addr \in Addresses /\ All \in Addresses
    BY <2>1 DEF Stream, Addresses
  <2>3. active[st[s].kind][st[s].addr] \in Nat
    BY <2>2 DEF TypeOK
  <2>4. active' \in [{"sse", "await"} -> [Addresses -> Nat]]
    BY <1>9, <2>2, <2>3, OneLessNat, ActiveTyped DEF Release, TypeOK
  <2>5. KindFits'
    BY <1>9, <2>2, Opens DEF KindFits, SSEOnly, AwaitOnly
  <2> QED
    BY <1>9, <2>2, <2>4, <2>5, Opens DEF Release, TypeOK
<1>10. ASSUME NEW a \in Agents, Ages(a) \/ Register(a)
       PROVE  StreamsInv'
  BY <1>10 DEF Ages, Register, TypeOK, KindFits
<1>11. ASSUME NEW a \in Agents, ExpireCheck(a)
       PROVE  StreamsInv'
  BY <1>11 DEF ExpireCheck, TypeOK, KindFits
<1>12. ASSUME NEW a \in Agents, ExpireRemove(a)
       PROVE  StreamsInv'
  BY <1>12 DEF ExpireRemove, TypeOK, KindFits
<1>13. CASE ExpireSelect
  BY <1>13 DEF ExpireSelect, TypeOK, KindFits
<1>14. CASE ExpireFails
  BY <1>14 DEF ExpireFails, TypeOK, KindFits
<1>15. CASE UNCHANGED vars
  BY <1>15 DEF vars, TypeOK, KindFits
<1> QED
  BY <1>1, <1>2, <1>3, <1>4, <1>5, <1>6, <1>7, <1>8, <1>9, <1>10, <1>11, <1>12, <1>13, <1>14, <1>15
     DEF Next, Proceed

\* The readers, counters and members always have their types.
THEOREM StreamsTypeCorrect == Spec => []TypeOK
<1>1. StreamsInv => TypeOK
  BY DEF StreamsInv
<1> QED
  BY <1>1, InitInv, NextInv, PTL DEF Spec

-----------------------------------------------------------------------------
(* Slots *)

\* Who holds a slot of an inbox, and who one of the client address.
Holders(k, a) == {s \in Streams : st[s].pc # "closed" /\ st[s].kind = k /\ st[s].addr = a}
Streaming == {s \in Streams : IsSSE(s) /\ st[s].pc \notin {"closed", "ip", "release"}}

\* The two halves of SlotsAreExact.
InboxSlots ==
    \A k \in {"sse", "await"}, a \in Addresses :
        active[k][a] = Cardinality(Holders(k, a)) /\ active[k][a] <= StreamLimit
AddressSlots == ipActive = Cardinality(Streaming) /\ ipActive <= StreamIPLimit

LEMMA SlotsHalves == SlotsAreExact <=> InboxSlots /\ AddressSlots
BY DEF SlotsAreExact, InboxSlots, AddressSlots, Holders, Streaming

LEMMA HoldersFinite ==
  /\ IsFiniteSet(Streaming)
  /\ \A k, a : IsFiniteSet(Holders(k, a))
<1>1. Streaming \subseteq Streams
  BY DEF Streaming
<1>2. \A k, a : Holders(k, a) \subseteq Streams
  BY DEF Holders
<1> QED
  BY <1>1, <1>2, StreamsAssumption, FS_Subset

\* Nobody takes or gives back a slot.
LEMMA SameHolders ==
  ASSUME StreamsInv,
         \/ Still
         \/ \E s \in Streams : Keeps(s) /\ st[s].pc # "closed" /\ st'[s].pc # "closed"
  PROVE  \A k, a : Holders(k, a)' = Holders(k, a)
<1>1. CASE Still
  BY <1>1 DEF Still, Holders
<1>2. ASSUME NEW s \in Streams, Keeps(s), st[s].pc # "closed", st'[s].pc # "closed"
      PROVE  \A k, a : Holders(k, a)' = Holders(k, a)
  <2>1. ASSUME NEW x \in Streams
        PROVE  /\ st'[x].kind = st[x].kind /\ st'[x].addr = st[x].addr
               /\ st'[x].pc = "closed" <=> st[x].pc = "closed"
    BY <1>2 DEF Keeps
  <2> QED
    BY <2>1 DEF Holders
<1> QED
  BY <1>1, <1>2

LEMMA SameStreaming ==
  ASSUME StreamsInv,
         \/ Still
         \/ \E s \in Streams : /\ Keeps(s)
                               /\ \/ st[s].kind = "await"
                                  \/ /\ st[s].pc \notin {"closed", "ip", "release"}
                                     /\ st'[s].pc \notin {"closed", "ip", "release"}
  PROVE  Streaming' = Streaming
<1>1. CASE Still
  BY <1>1 DEF Still, Streaming, IsSSE
<1>2. ASSUME NEW s \in Streams, Keeps(s),
             \/ st[s].kind = "await"
             \/ /\ st[s].pc \notin {"closed", "ip", "release"}
                /\ st'[s].pc \notin {"closed", "ip", "release"}
      PROVE  Streaming' = Streaming
  <2>1. ASSUME NEW x \in Streams
        PROVE  (st'[x].kind = "sse" /\ st'[x].pc \notin {"closed", "ip", "release"})
                 <=> (st[x].kind = "sse" /\ st[x].pc \notin {"closed", "ip", "release"})
    BY <1>2 DEF Keeps
  <2> QED
    BY <2>1 DEF Streaming, IsSSE
<1> QED
  BY <1>1, <1>2

LEMMA InboxSlotsStay ==
  ASSUME InboxSlots, UNCHANGED active, \A k, a : Holders(k, a)' = Holders(k, a)
  PROVE  InboxSlots'
BY DEF InboxSlots

\* A slot is taken only below the limit, by a reader that has none, ...
LEMMA InboxSlotTaken ==
  ASSUME StreamsInv, InboxSlots, NEW s \in Streams, NEW k \in {"sse", "await"}, NEW a \in Addresses,
         active' = [active EXCEPT ![k][a] = @ + 1], active[k][a] < StreamLimit,
         s \notin Holders(k, a), Holders(k, a)' = Holders(k, a) \cup {s},
         \A j \in {"sse", "await"}, b \in Addresses : j # k \/ b # a => Holders(j, b)' = Holders(j, b)
  PROVE  InboxSlots'
<1>1. active[k][a] \in Nat /\ active \in [{"sse", "await"} -> [Addresses -> Nat]]
  BY DEF StreamsInv, TypeOK
<1>2. /\ active'[k][a] = active[k][a] + 1
      /\ \A j \in {"sse", "await"}, b \in Addresses : j # k \/ b # a => active'[j][b] = active[j][b]
  BY <1>1
<1>3. Cardinality(Holders(k, a) \cup {s}) = Cardinality(Holders(k, a)) + 1
  BY HoldersFinite, FS_AddElement
<1>4. active'[k][a] = Cardinality(Holders(k, a)') /\ active'[k][a] <= StreamLimit
  BY <1>1, <1>2, <1>3, StreamsAssumption DEF InboxSlots
<1> QED
  BY <1>2, <1>4 DEF InboxSlots

\* ... and given back by one that has it.
LEMMA InboxSlotGiven ==
  ASSUME StreamsInv, InboxSlots, NEW s \in Streams, NEW k \in {"sse", "await"}, NEW a \in Addresses,
         active' = [active EXCEPT ![k][a] = OneLess(@)],
         s \in Holders(k, a), Holders(k, a)' = Holders(k, a) \ {s},
         \A j \in {"sse", "await"}, b \in Addresses : j # k \/ b # a => Holders(j, b)' = Holders(j, b)
  PROVE  InboxSlots'
<1>1. active[k][a] \in Nat /\ active \in [{"sse", "await"} -> [Addresses -> Nat]]
  BY DEF StreamsInv, TypeOK
<1>2. /\ active'[k][a] = OneLess(active[k][a])
      /\ \A j \in {"sse", "await"}, b \in Addresses : j # k \/ b # a => active'[j][b] = active[j][b]
  BY <1>1, OneLessNat
<1>3. Cardinality(Holders(k, a) \ {s}) = Cardinality(Holders(k, a)) - 1
  BY HoldersFinite, FS_RemoveElement
<1>4. Cardinality(Holders(k, a)) # 0
  BY HoldersFinite, FS_EmptySet
<1>5. active'[k][a] = Cardinality(Holders(k, a)') /\ active'[k][a] <= StreamLimit
  <2>1. active[k][a] > 0 /\ active[k][a] <= StreamLimit
    BY <1>1, <1>4 DEF InboxSlots
  <2>2. active'[k][a] = active[k][a] - 1
    BY <1>1, <1>2, <2>1, OneLessNat
  <2> QED
    BY <1>1, <1>3, <2>1, <2>2, StreamsAssumption DEF InboxSlots
<1> QED
  BY <1>2, <1>5 DEF InboxSlots

LEMMA AddressSlotTaken ==
  ASSUME StreamsInv, AddressSlots, NEW s \in Streams, ipActive' = ipActive + 1, ipActive < StreamIPLimit,
         s \notin Streaming, Streaming' = Streaming \cup {s}
  PROVE  AddressSlots'
<1>1. Cardinality(Streaming \cup {s}) = Cardinality(Streaming) + 1
  BY HoldersFinite, FS_AddElement
<1> QED
  BY <1>1, StreamsAssumption DEF AddressSlots, StreamsInv, TypeOK

LEMMA AddressSlotGiven ==
  ASSUME StreamsInv, AddressSlots, NEW s \in Streaming, ipActive' = OneLess(ipActive),
         Streaming' = Streaming \ {s}
  PROVE  AddressSlots'
<1>1. Cardinality(Streaming \ {s}) = Cardinality(Streaming) - 1
  BY HoldersFinite, FS_RemoveElement
<1>2. Cardinality(Streaming) # 0
  BY HoldersFinite, FS_EmptySet
<1>3. ipActive \in Nat /\ ipActive > 0
  BY <1>2 DEF AddressSlots, StreamsInv, TypeOK
<1>4. ipActive' = ipActive - 1
  BY <1>3, OneLessNat
<1> QED
  BY <1>1, <1>3, <1>4, StreamsAssumption DEF AddressSlots

\* The steps of a reader on which no slot depends.
LEMMA QuietReaders ==
  ASSUME StreamsInv, NEW s \in Streams,
         \/ Subscribe(s) \/ Attach(s) \/ Touch(s) \/ Check(s) \/ Hint(s)
         \/ Read(s) \/ Authorize(s) \/ Answer(s) \/ Detach(s) \/ Cancel(s)
         \/ (Disconnect(s) \/ Keepalive(s) \/ Reconcile(s) \/ Event(s) \/ NamespaceEvent(s)) /\ IsSSE(s)
         \/ (Poll(s) \/ WaitEvent(s) \/ Deadline(s)) /\ ~IsSSE(s)
  PROVE  /\ \A k, a : Holders(k, a)' = Holders(k, a)
         /\ Streaming' = Streaming
         /\ UNCHANGED <<active, ipActive>>
<1>0. st[s] \in Stream
  BY DEF StreamsInv, TypeOK
<1>k. (st[s].pc \in AwaitOnly => st[s].kind = "await") /\ (st[s].kind = "sse" \/ st[s].kind = "await")
  BY <1>0 DEF StreamsInv, KindFits, Stream
<1>1. ASSUME Keeps(s), st[s].pc \notin {"closed", "ip", "release"}, st'[s].pc \notin {"closed", "ip", "release"}
      PROVE  (\A k, a : Holders(k, a)' = Holders(k, a)) /\ Streaming' = Streaming
  BY <1>1, SameHolders, SameStreaming
<1>2. ASSUME Keeps(s), st[s].pc # "closed", st'[s].pc # "closed", st[s].kind = "await"
      PROVE  (\A k, a : Holders(k, a)' = Holders(k, a)) /\ Streaming' = Streaming
  BY <1>2, SameHolders, SameStreaming
<1>3. CASE Subscribe(s)
  <2>1. Keeps(s) /\ st[s].pc \in {"subscribe", "wait"} /\ st'[s].pc \in {"check", "attach", "read"}
    BY <1>3, ReaderSteps DEF Subscribed, Moves, Keeps
  <2> QED
    BY <1>3, <2>1, <1>1 DEF Subscribe
<1>4. CASE Attach(s)
  <2>1. Keeps(s) /\ st[s].pc \in {"attach"} /\ st'[s].pc \in {"touch"}
    BY <1>4, ReaderSteps DEF Moves, Keeps
  <2> QED
    BY <1>4, <2>1, <1>1 DEF Attach
<1>5. CASE Touch(s)
  <2>1. Keeps(s) /\ st[s].pc \in {"touch", "seen"} /\ st'[s].pc \in {"check", "wait"}
    BY <1>5, ReaderSteps DEF Moves, Keeps
  <2> QED
    BY <1>5, <2>1, <1>1 DEF Touch
<1>6. CASE Check(s)
  <2>1. Keeps(s) /\ st[s].pc \in {"check"} /\ st'[s].pc \in {"hint", "cancel", "detach"}
    BY <1>6, ReaderSteps DEF Unwind, Moves, Keeps
  <2> QED
    BY <1>6, <2>1, <1>1 DEF Check
<1>7. CASE Hint(s)
  <2>1. Keeps(s) /\ st[s].pc \in {"hint"} /\ st'[s].pc \in {"loop"}
    BY <1>7, ReaderSteps DEF Moves, Keeps
  <2> QED
    BY <1>7, <2>1, <1>1 DEF Hint
<1>8. CASE Read(s)
  <2>1. Keeps(s) /\ st[s].pc \in {"read"} /\ st'[s].pc \in {"unsubscribe", "loop"}
    BY <1>8, ReaderSteps DEF Moves, Keeps
  <2> QED
    BY <1>8, <2>1, <1>1 DEF Read
<1>9. CASE Authorize(s)
  <2>1. Keeps(s) /\ st[s].pc \in {"auth"} /\ st'[s].pc \in {"answer", "release"}
    BY <1>9, ReaderSteps DEF Moves, Keeps
  <2>2. st[s].kind = "await"
    BY <2>1, <1>k DEF AwaitOnly
  <2> QED
    BY <1>9, <2>1, <2>2, <1>2 DEF Authorize
<1>10. CASE Answer(s)
  <2>1. Keeps(s) /\ st[s].pc \in {"answer"} /\ st'[s].pc \in {"release"}
    BY <1>10, ReaderSteps DEF Moves, Keeps
  <2>2. st[s].kind = "await"
    BY <2>1, <1>k DEF AwaitOnly
  <2> QED
    BY <1>10, <2>1, <2>2, <1>2 DEF Answer
<1>11. CASE Detach(s)
  <2>1. Keeps(s) /\ st[s].pc \in {"detach"} /\ st'[s].pc \in {"cancel"}
    BY <1>11, ReaderSteps DEF Moves, Keeps
  <2> QED
    BY <1>11, <2>1, <1>1 DEF Detach
<1>12. CASE Cancel(s)
  <2>1. Keeps(s) /\ st[s].pc \in {"cancel", "unsubscribe"} /\ st'[s].pc \in {"releaseIP", "auth"}
    BY <1>12, ReaderSteps DEF Moves, Keeps
  <2> QED
    BY <1>12, <2>1, <1>1 DEF Cancel
<1>13. CASE Disconnect(s)
  <2>1. Keeps(s) /\ st[s].pc \in {"hint", "loop"} /\ st'[s].pc \in {"cancel", "detach"}
    BY <1>13, ReaderSteps DEF Unwind, Moves, Keeps
  <2> QED
    BY <1>13, <2>1, <1>1 DEF Disconnect
<1>14. CASE Keepalive(s)
  <2>1. Keeps(s) /\ st[s].pc \in {"loop"} /\ st'[s].pc \in {"cancel", "detach"}
    BY <1>14, ReaderSteps DEF Unwind, Moves, Keeps
  <2> QED
    BY <1>14, <2>1, <1>1 DEF Keepalive
<1>15. CASE Reconcile(s)
  <2>1. Keeps(s) /\ st[s].pc \in {"loop"} /\ st'[s].pc \in {"check"}
    BY <1>15, ReaderSteps DEF Moves, Keeps
  <2> QED
    BY <1>15, <2>1, <1>1 DEF Reconcile
<1>16. CASE Event(s)
  <2>1. Keeps(s) /\ st[s].pc \in {"loop"} /\ st'[s].pc \in {"check", "loop"}
    BY <1>16, ReaderSteps DEF Moves, Keeps
  <2> QED
    BY <1>16, <2>1, <1>1 DEF Event
<1>17. CASE NamespaceEvent(s)
  <2>1. Keeps(s) /\ st[s].pc \in {"loop"} /\ st'[s].pc \in {"check", "loop"}
    BY <1>17, ReaderSteps DEF Moves, Keeps
  <2> QED
    BY <1>17, <2>1, <1>1 DEF NamespaceEvent
<1>18. CASE Poll(s)
  <2>1. Keeps(s) /\ st[s].pc \in {"loop"} /\ st'[s].pc \in {"read"}
    BY <1>18, ReaderSteps DEF Moves, Keeps
  <2> QED
    BY <1>18, <2>1, <1>1 DEF Poll
<1>19. CASE WaitEvent(s)
  <2>1. Keeps(s) /\ st[s].pc \in {"loop"} /\ st'[s].pc \in {"read", "loop"}
    BY <1>19, ReaderSteps DEF Moves, Keeps
  <2> QED
    BY <1>19, <2>1, <1>1 DEF WaitEvent
<1>20. CASE Deadline(s)
  <2>1. Keeps(s) /\ st[s].pc \in {"loop"} /\ st'[s].pc \in {"unsubscribe"}
    BY <1>20, ReaderSteps DEF Moves, Keeps
  <2> QED
    BY <1>20, <2>1, <1>1 DEF Deadline
<1> QED
  BY <1>3, <1>4, <1>5, <1>6, <1>7, <1>8, <1>9, <1>10, <1>11, <1>12, <1>13, <1>14, <1>15, <1>16, <1>17, <1>18, <1>19, <1>20

LEMMA SlotsNext == ASSUME StreamsInv, SlotsAreExact, [Next]_vars PROVE SlotsAreExact'
<1>0. InboxSlots /\ AddressSlots
  BY SlotsHalves
<1>1. SUFFICES InboxSlots' /\ AddressSlots'
  BY DEF SlotsAreExact, InboxSlots, AddressSlots, Holders, Streaming
<1>2. ASSUME \A k, a : Holders(k, a)' = Holders(k, a), Streaming' = Streaming, UNCHANGED <<active, ipActive>>
      PROVE  InboxSlots' /\ AddressSlots'
  BY <1>0, <1>2, InboxSlotsStay DEF AddressSlots
<1>3. ASSUME Still, UNCHANGED <<active, ipActive>>
      PROVE  InboxSlots' /\ AddressSlots'
  BY <1>2, <1>3, SameHolders, SameStreaming
<1>4. ASSUME UNCHANGED <<st, active, ipActive>>
      PROVE  InboxSlots' /\ AddressSlots'
  BY <1>3, <1>4 DEF Still, StreamsInv, TypeOK
<1>5. ASSUME NEW a \in Agents, Send(a)
      PROVE  InboxSlots' /\ AddressSlots'
  BY <1>3, <1>5, MessagesLeaveReaders DEF Send, Addresses
<1>6. ASSUME NEW a \in Addresses, Publish(a)
      PROVE  InboxSlots' /\ AddressSlots'
  BY <1>3, <1>6, MessagesLeaveReaders DEF Publish
<1>7. ASSUME NEW s \in Streams, NEW a \in Addresses, Acquire(s, a)
      PROVE  InboxSlots' /\ AddressSlots'
  <2>1. /\ \A x \in Streams \ {s} : st'[x] = st[x]
        /\ st[s].pc = "closed" /\ st'[s].pc = "ip" /\ st'[s].kind = "sse" /\ st'[s].addr = a
    BY <1>7, Opens
  <2>2. s \notin Holders("sse", a) /\ Holders("sse", a)' = Holders("sse", a) \cup {s}
    BY <2>1 DEF Holders
  <2>3. \A j \in {"sse", "await"}, b \in Addresses : j # "sse" \/ b # a => Holders(j, b)' = Holders(j, b)
    BY <2>1 DEF Holders
  <2>4. Streaming' = Streaming
    BY <2>1 DEF Streaming, IsSSE
  <2>5. InboxSlots'
    BY <1>0, <1>7, <2>2, <2>3, InboxSlotTaken DEF Acquire
  <2> QED
    BY <1>0, <1>7, <2>4, <2>5 DEF Acquire, AddressSlots
<1>8. ASSUME NEW s \in Streams, NEW a \in Agents, AwaitMessages(s, a)
      PROVE  InboxSlots' /\ AddressSlots'
  <2>0. a \in Addresses
    BY DEF Addresses
  <2>1. CASE active["await"][a] < StreamLimit
    <3>1. /\ \A x \in Streams \ {s} : st'[x] = st[x]
          /\ st[s].pc = "closed" /\ st'[s].pc = "seen" /\ st'[s].kind = "await" /\ st'[s].addr = a
      BY <1>8, <2>0, <2>1, Opens
    <3>2. s \notin Holders("await", a) /\ Holders("await", a)' = Holders("await", a) \cup {s}
      BY <3>1 DEF Holders
    <3>3. \A j \in {"sse", "await"}, b \in Addresses : j # "await" \/ b # a => Holders(j, b)' = Holders(j, b)
      BY <3>1 DEF Holders
    <3>4. Streaming' = Streaming
      BY <3>1 DEF Streaming, IsSSE
    <3>5. InboxSlots'
      BY <1>0, <1>8, <2>0, <2>1, <3>2, <3>3, InboxSlotTaken DEF AwaitMessages
    <3> QED
      BY <1>0, <1>8, <3>4, <3>5 DEF AwaitMessages, AddressSlots
  <2>2. CASE ~(active["await"][a] < StreamLimit)
    BY <1>4, <1>8, <2>2 DEF AwaitMessages
  <2> QED
    BY <2>1, <2>2
<1>9. ASSUME NEW s \in Streams, AcquireIP(s)
      PROVE  InboxSlots' /\ AddressSlots'
  <2>0. st[s] \in Stream /\ st[s].kind = "sse" /\ st[s].pc = "ip"
    BY <1>9 DEF AcquireIP, StreamsInv, TypeOK, KindFits, SSEOnly
  <2>a. PICK a \in Addresses : a = st[s].addr
    BY <2>0 DEF Stream
  <2>1. CASE ipActive < StreamIPLimit
    <3>1. Moves(s, {"ip"}, {"subscribe"})
      BY <1>9, <2>1, ReaderSteps
    <3>2. \A k, b : Holders(k, b)' = Holders(k, b)
      BY <3>1, SameHolders DEF Moves
    <3>3. s \notin Streaming /\ Streaming' = Streaming \cup {s}
      BY <2>0, <3>1 DEF Streaming, IsSSE, Moves, Keeps
    <3>4. ipActive' = ipActive + 1 /\ UNCHANGED active
      BY <1>9, <2>1 DEF AcquireIP
    <3> QED
      BY <1>0, <2>1, <3>2, <3>3, <3>4, InboxSlotsStay, AddressSlotTaken
  <2>2. CASE ~(ipActive < StreamIPLimit)
    <3>1. Moves(s, {"ip"}, {"closed"})
      BY <1>9, <2>2, ReaderSteps
    <3>2. s \in Holders("sse", a) /\ Holders("sse", a)' = Holders("sse", a) \ {s}
      BY <2>0, <2>a, <3>1 DEF Holders, Moves, Keeps
    <3>3. \A j \in {"sse", "await"}, b \in Addresses : j # "sse" \/ b # a => Holders(j, b)' = Holders(j, b)
      BY <2>0, <2>a, <3>1 DEF Holders, Moves, Keeps
    <3>4. Streaming' = Streaming
      BY <2>0, <3>1 DEF Streaming, IsSSE, Moves, Keeps
    <3>5. active' = [active EXCEPT !["sse"][a] = OneLess(@)] /\ UNCHANGED ipActive
      BY <1>9, <2>2, <2>a DEF AcquireIP
    <3> QED
      BY <1>0, <3>2, <3>3, <3>4, <3>5, InboxSlotGiven DEF AddressSlots
  <2> QED
    BY <2>1, <2>2
<1>10. ASSUME NEW s \in Streams, ReleaseIP(s)
       PROVE  InboxSlots' /\ AddressSlots'
  <2>0. st[s].kind = "sse" /\ st[s].pc = "releaseIP"
    BY <1>10 DEF ReleaseIP, StreamsInv, KindFits, SSEOnly
  <2>1. Moves(s, {"releaseIP"}, {"release"})
    BY <1>10, ReaderSteps
  <2>2. \A k, a : Holders(k, a)' = Holders(k, a)
    BY <2>1, SameHolders DEF Moves
  <2>3. s \in Streaming /\ Streaming' = Streaming \ {s}
    BY <2>0, <2>1 DEF Streaming, IsSSE, Moves, Keeps
  <2> QED
    BY <1>0, <1>10, <2>2, <2>3, InboxSlotsStay, AddressSlotGiven DEF ReleaseIP
<1>11. ASSUME NEW s \in Streams, Release(s)
       PROVE  InboxSlots' /\ AddressSlots'
  <2>0. st[s] \in Stream /\ st[s].pc = "release"
    BY <1>11 DEF Release, StreamsInv, TypeOK
  <2>a. PICK a \in Addresses, k \in {"sse", "await"} : a = st[s].addr /\ k = st[s].kind
    BY <2>0 DEF Stream
  <2>1. /\ \A x \in Streams \ {s} : st'[x] = st[x]
        /\ st'[s].pc = "closed"
    BY <1>11, Opens
  <2>2. s \in Holders(k, a) /\ Holders(k, a)' = Holders(k, a) \ {s}
    BY <2>0, <2>a, <2>1 DEF Holders
  <2>3. \A j \in {"sse", "await"}, b \in Addresses : j # k \/ b # a => Holders(j, b)' = Holders(j, b)
    BY <2>0, <2>a, <2>1 DEF Holders
  <2>4. Streaming' = Streaming
    BY <2>0, <2>1 DEF Streaming, IsSSE
  <2>5. active' = [active EXCEPT ![k][a] = OneLess(@)]
    BY <1>11, <2>a DEF Release
  <2>6. InboxSlots'
    BY <1>0, <2>2, <2>3, <2>5, InboxSlotGiven
  <2> QED
    BY <1>0, <1>11, <2>4, <2>6 DEF Release, AddressSlots
<1>12. ASSUME NEW s \in Streams,
              \/ Subscribe(s) \/ Attach(s) \/ Touch(s) \/ Check(s) \/ Hint(s)
              \/ Read(s) \/ Authorize(s) \/ Answer(s) \/ Detach(s) \/ Cancel(s)
              \/ (Disconnect(s) \/ Keepalive(s) \/ Reconcile(s) \/ Event(s) \/ NamespaceEvent(s)) /\ IsSSE(s)
              \/ (Poll(s) \/ WaitEvent(s) \/ Deadline(s)) /\ ~IsSSE(s)
       PROVE  InboxSlots' /\ AddressSlots'
  BY <1>2, <1>12, QuietReaders
<1>13. ASSUME NEW a, Received(a) \/ PublishLost(a) \/ Ages(a) \/ Register(a) \/ ExpireCheck(a) \/ ExpireRemove(a)
       PROVE  InboxSlots' /\ AddressSlots'
  BY <1>4, <1>13 DEF Received, PublishLost, Ages, Register, ExpireCheck, ExpireRemove
<1>14. CASE Revoke \/ ExpireSelect \/ ExpireFails \/ UNCHANGED vars
  BY <1>4, <1>14 DEF Revoke, ExpireSelect, ExpireFails, vars
<1> QED
  BY <1>5, <1>6, <1>7, <1>8, <1>9, <1>10, <1>11, <1>12, <1>13, <1>14 DEF Next, Proceed

LEMMA SlotsInit == Init => SlotsAreExact
<1> SUFFICES ASSUME Init PROVE SlotsAreExact
  OBVIOUS
<1>1. \A s \in Streams : st[s].pc = "closed"
  BY DEF Init
<1>2. \A k, a : Holders(k, a) = {}
  BY <1>1 DEF Holders
<1>3. Streaming = {}
  BY <1>1 DEF Streaming
<1>4. InboxSlots
  <2>1. \A k \in {"sse", "await"}, a \in Addresses : active[k][a] = 0
    BY DEF Init
  <2>2. \A k, a : Cardinality(Holders(k, a)) = 0
    BY <1>2, FS_EmptySet
  <2> QED
    BY <2>1, <2>2, StreamsAssumption DEF InboxSlots
<1>5. AddressSlots
  BY <1>3, FS_EmptySet, StreamsAssumption DEF Init, AddressSlots
<1> QED
  BY <1>4, <1>5, SlotsHalves

\* "No slot can leak": in every state the counters of acquireStream and of
\* await_messages are exactly the readers that are under way and at most the
\* limits, for any number of readers, addresses and slots.
THEOREM NoSlotLeaks == Spec => []SlotsAreExact
<1>1. Init => StreamsInv /\ SlotsAreExact
  BY InitInv, SlotsInit
<1>2. (StreamsInv /\ SlotsAreExact) /\ [Next]_vars => (StreamsInv /\ SlotsAreExact)'
  BY NextInv, SlotsNext
<1> QED
  BY <1>1, <1>2, PTL DEF Spec

-----------------------------------------------------------------------------
(* Presence *)

\* The streams between Attach and Detach.
Attached(a) == {s \in Streams : /\ st[s].kind = "sse" /\ st[s].addr = a
                                /\ st[s].pc \in {"touch", "check", "hint", "loop", "detach"}}

\* presence counts them.
PresenceIsExact == \A a \in Agents : presence[a] = Cardinality(Attached(a))

LEMMA AttachedFinite == \A a : IsFiniteSet(Attached(a))
<1>1. \A a : Attached(a) \subseteq Streams
  BY DEF Attached
<1> QED
  BY <1>1, StreamsAssumption, FS_Subset

LEMMA SameAttached ==
  ASSUME StreamsInv, NEW s \in Streams, Keeps(s),
         st[s].kind = "sse" /\ st[s].addr \in Agents =>
            (st[s].pc \in {"touch", "check", "hint", "loop", "detach"}
               <=> st'[s].pc \in {"touch", "check", "hint", "loop", "detach"})
  PROVE  \A a \in Agents : Attached(a)' = Attached(a)
<1>1. ASSUME NEW a \in Agents, NEW x \in Streams
      PROVE  (/\ st'[x].kind = "sse" /\ st'[x].addr = a
              /\ st'[x].pc \in {"touch", "check", "hint", "loop", "detach"})
             <=> (/\ st[x].kind = "sse" /\ st[x].addr = a
                  /\ st[x].pc \in {"touch", "check", "hint", "loop", "detach"})
  BY <1>1 DEF Keeps
<1> QED
  BY <1>1 DEF Attached

\* The steps of a reader that leave its presence as it is.
LEMMA ReadersStayAttached ==
  ASSUME StreamsInv, NEW s \in Streams,
         \/ AcquireIP(s) \/ Subscribe(s) \/ Touch(s) \/ Check(s) \/ Hint(s)
         \/ Read(s) \/ Authorize(s) \/ Answer(s) \/ Cancel(s) \/ ReleaseIP(s)
         \/ (Disconnect(s) \/ Keepalive(s) \/ Reconcile(s) \/ Event(s) \/ NamespaceEvent(s)) /\ IsSSE(s)
         \/ (Poll(s) \/ WaitEvent(s) \/ Deadline(s)) /\ ~IsSSE(s)
  PROVE  (\A a \in Agents : Attached(a)' = Attached(a)) /\ UNCHANGED presence
<1>0. st[s] \in Stream
  BY DEF StreamsInv, TypeOK
<1>k. /\ st[s].pc \in AwaitOnly => st[s].kind = "await"
      /\ st[s].addr \in Agents => st[s].addr # All
  BY StreamsAssumption DEF StreamsInv, KindFits
<1>1. CASE AcquireIP(s)
  <2>1. Keeps(s) /\ st[s].pc \in {"ip"} /\ st'[s].pc \in {"subscribe", "closed"}
    BY <1>1, ReaderSteps DEF Moves
  <2> QED
    BY <1>1, <2>1, SameAttached DEF AcquireIP
<1>2. CASE Subscribe(s)
  <2>1. Keeps(s) /\ \/ st[s].pc = "subscribe" /\ (st[s].addr \in Agents => st'[s].pc = "attach")
                    \/ st[s].pc = "wait"
    BY <1>2, <1>k, ReaderSteps DEF Moves, Subscribed
  <2> QED
    BY <1>2, <1>k, <2>1, SameAttached DEF Subscribe, AwaitOnly
<1>3. CASE Touch(s)
  <2>1. Keeps(s) /\ ((st[s].pc = "touch" /\ st'[s].pc = "check") \/ st[s].pc = "seen")
    BY <1>3, ReaderSteps DEF Moves
  <2> QED
    BY <1>3, <1>k, <2>1, SameAttached DEF Touch, AwaitOnly
<1>4. CASE Check(s)
  <2>1. Keeps(s) /\ st[s].pc \in {"check"} /\ (st[s].addr \in Agents => st'[s].pc \in {"hint", "detach"})
    BY <1>4, <1>k, ReaderSteps DEF Moves, Unwind
  <2> QED
    BY <1>4, <2>1, SameAttached DEF Check
<1>5. CASE Hint(s)
  <2>1. Keeps(s) /\ st[s].pc \in {"hint"} /\ st'[s].pc \in {"loop"}
    BY <1>5, ReaderSteps DEF Moves
  <2> QED
    BY <1>5, <2>1, SameAttached DEF Hint
<1>6. CASE Read(s)
  <2>1. Keeps(s) /\ st[s].pc \in {"read"}
    BY <1>6, ReaderSteps DEF Moves
  <2> QED
    BY <1>6, <1>k, <2>1, SameAttached DEF Read, AwaitOnly
<1>7. CASE Authorize(s)
  <2>1. Keeps(s) /\ st[s].pc \in {"auth"}
    BY <1>7, ReaderSteps DEF Moves
  <2> QED
    BY <1>7, <1>k, <2>1, SameAttached DEF Authorize, AwaitOnly
<1>8. CASE Answer(s)
  <2>1. Keeps(s) /\ st[s].pc \in {"answer"}
    BY <1>8, ReaderSteps DEF Moves
  <2> QED
    BY <1>8, <1>k, <2>1, SameAttached DEF Answer, AwaitOnly
<1>9. CASE Cancel(s)
  <2>1. Keeps(s) /\ st[s].pc \in {"cancel", "unsubscribe"} /\ st'[s].pc \in {"releaseIP", "auth"}
    BY <1>9, ReaderSteps DEF Moves
  <2> QED
    BY <1>9, <2>1, SameAttached DEF Cancel
<1>10. CASE ReleaseIP(s)
  <2>1. Keeps(s) /\ st[s].pc \in {"releaseIP"} /\ st'[s].pc \in {"release"}
    BY <1>10, ReaderSteps DEF Moves
  <2> QED
    BY <1>10, <2>1, SameAttached DEF ReleaseIP
<1>11. CASE Disconnect(s)
  <2>1. Keeps(s) /\ st[s].pc \in {"hint", "loop"} /\ (st[s].addr \in Agents => st'[s].pc \in {"detach"})
    BY <1>11, <1>k, ReaderSteps DEF Moves, Unwind
  <2> QED
    BY <1>11, <2>1, SameAttached DEF Disconnect
<1>12. CASE Keepalive(s)
  <2>1. Keeps(s) /\ st[s].pc \in {"loop"} /\ (st[s].addr \in Agents => st'[s].pc \in {"detach"})
    BY <1>12, <1>k, ReaderSteps DEF Moves, Unwind
  <2> QED
    BY <1>12, <2>1, SameAttached DEF Keepalive
<1>13. CASE Reconcile(s)
  <2>1. Keeps(s) /\ st[s].pc \in {"loop"} /\ st'[s].pc \in {"check"}
    BY <1>13, ReaderSteps DEF Moves
  <2> QED
    BY <1>13, <2>1, SameAttached DEF Reconcile
<1>14. CASE Event(s)
  <2>1. Keeps(s) /\ st[s].pc \in {"loop"} /\ st'[s].pc \in {"check", "loop"}
    BY <1>14, ReaderSteps DEF Moves
  <2> QED
    BY <1>14, <2>1, SameAttached DEF Event
<1>15. CASE NamespaceEvent(s)
  <2>1. Keeps(s) /\ st[s].pc \in {"loop"} /\ st'[s].pc \in {"check", "loop"}
    BY <1>15, ReaderSteps DEF Moves
  <2> QED
    BY <1>15, <2>1, SameAttached DEF NamespaceEvent
<1>16. CASE Poll(s) /\ ~IsSSE(s)
  <2>1. Keeps(s)
    BY <1>16, ReaderSteps DEF Moves
  <2> QED
    BY <1>16, <2>1, SameAttached DEF Poll, IsSSE
<1>17. CASE WaitEvent(s) /\ ~IsSSE(s)
  <2>1. Keeps(s)
    BY <1>17, ReaderSteps DEF Moves
  <2> QED
    BY <1>17, <2>1, SameAttached DEF WaitEvent, IsSSE
<1>18. CASE Deadline(s) /\ ~IsSSE(s)
  <2>1. Keeps(s)
    BY <1>18, ReaderSteps DEF Moves
  <2> QED
    BY <1>18, <2>1, SameAttached DEF Deadline, IsSSE
<1> QED
  BY <1>1, <1>2, <1>3, <1>4, <1>5, <1>6, <1>7, <1>8, <1>9, <1>10, <1>11, <1>12, <1>13, <1>14, <1>15, <1>16, <1>17, <1>18

LEMMA PresenceNext == ASSUME StreamsInv, PresenceIsExact, [Next]_vars PROVE PresenceIsExact'
<1>1. ASSUME \A a \in Agents : Attached(a)' = Attached(a), UNCHANGED presence
      PROVE  PresenceIsExact'
  BY <1>1 DEF PresenceIsExact
<1>2. ASSUME Still, UNCHANGED presence
      PROVE  PresenceIsExact'
  <2>1. \A a \in Agents : Attached(a)' = Attached(a)
    BY <1>2 DEF Still, Attached
  <2> QED
    BY <1>1, <1>2, <2>1
<1>3. ASSUME UNCHANGED <<st, presence>>
      PROVE  PresenceIsExact'
  BY <1>3, <1>1 DEF Attached
<1>4. ASSUME NEW a \in Agents, Send(a)
      PROVE  PresenceIsExact'
  BY <1>2, <1>4, MessagesLeaveReaders DEF Send, Addresses
<1>5. ASSUME NEW a \in Addresses, Publish(a)
      PROVE  PresenceIsExact'
  BY <1>2, <1>5, MessagesLeaveReaders DEF Publish
<1>6. ASSUME NEW s \in Streams, NEW a \in Addresses, Acquire(s, a)
      PROVE  PresenceIsExact'
  <2>1. /\ \A x \in Streams \ {s} : st'[x] = st[x]
        /\ st[s].pc = "closed" /\ st'[s].pc = "ip"
    BY <1>6, Opens
  <2>2. \A b \in Agents : Attached(b)' = Attached(b)
    BY <2>1 DEF Attached
  <2> QED
    BY <1>1, <1>6, <2>2 DEF Acquire
<1>7. ASSUME NEW s \in Streams, NEW a \in Agents, AwaitMessages(s, a)
      PROVE  PresenceIsExact'
  <2>1. CASE active["await"][a] < StreamLimit
    <3>1. /\ \A x \in Streams \ {s} : st'[x] = st[x]
          /\ st[s].pc = "closed" /\ st'[s].pc = "seen"
      BY <1>7, <2>1, Opens DEF Addresses
    <3>2. \A b \in Agents : Attached(b)' = Attached(b)
      BY <3>1 DEF Attached
    <3> QED
      BY <1>1, <1>7, <3>2 DEF AwaitMessages
  <2>2. CASE ~(active["await"][a] < StreamLimit)
    BY <1>3, <1>7, <2>2 DEF AwaitMessages
  <2> QED
    BY <2>1, <2>2
<1>8. ASSUME NEW s \in Streams, Release(s)
      PROVE  PresenceIsExact'
  <2>1. /\ \A x \in Streams \ {s} : st'[x] = st[x]
        /\ st[s].pc = "release" /\ st'[s].pc = "closed"
    BY <1>8, Opens DEF Addresses
  <2>2. \A b \in Agents : Attached(b)' = Attached(b)
    BY <2>1 DEF Attached
  <2> QED
    BY <1>1, <1>8, <2>2 DEF Release
<1>9. ASSUME NEW s \in Streams, Attach(s)
      PROVE  PresenceIsExact'
  <2>0. st[s].pc = "attach" /\ st[s].kind = "sse" /\ st[s].addr \in Agents
    BY <1>9 DEF Attach, StreamsInv, KindFits, SSEOnly
  <2>a. PICK a \in Agents : a = st[s].addr
    BY <2>0
  <2>1. Keeps(s) /\ st'[s].pc = "touch"
    BY <1>9, ReaderSteps DEF Moves
  <2>2. s \notin Attached(a) /\ Attached(a)' = Attached(a) \cup {s}
    BY <2>0, <2>a, <2>1 DEF Attached, Keeps
  <2>3. \A b \in Agents \ {a} : Attached(b)' = Attached(b)
    BY <2>0, <2>a, <2>1 DEF Attached, Keeps
  <2>4. Cardinality(Attached(a)') = Cardinality(Attached(a)) + 1
    BY <2>2, AttachedFinite, FS_AddElement
  <2>5. presence'[a] = presence[a] + 1 /\ \A b \in Agents \ {a} : presence'[b] = presence[b]
    BY <1>9, <2>a DEF Attach, StreamsInv, TypeOK
  <2> QED
    BY <2>3, <2>4, <2>5 DEF PresenceIsExact
<1>10. ASSUME NEW s \in Streams, Detach(s)
       PROVE  PresenceIsExact'
  <2>0. st[s].pc = "detach" /\ st[s].kind = "sse" /\ st[s].addr \in Agents
    BY <1>10 DEF Detach, StreamsInv, KindFits, SSEOnly
  <2>a. PICK a \in Agents : a = st[s].addr
    BY <2>0
  <2>1. Keeps(s) /\ st'[s].pc = "cancel"
    BY <1>10, ReaderSteps DEF Moves
  <2>2. s \in Attached(a) /\ Attached(a)' = Attached(a) \ {s}
    BY <2>0, <2>a, <2>1 DEF Attached, Keeps
  <2>3. \A b \in Agents \ {a} : Attached(b)' = Attached(b)
    BY <2>0, <2>a, <2>1 DEF Attached, Keeps
  <2>4. Cardinality(Attached(a)') = Cardinality(Attached(a)) - 1 /\ Cardinality(Attached(a)) # 0
    BY <2>2, AttachedFinite, FS_RemoveElement, FS_EmptySet
  <2>5. presence'[a] = OneLess(presence[a]) /\ \A b \in Agents \ {a} : presence'[b] = presence[b]
    BY <1>10, <2>a, OneLessNat DEF Detach, StreamsInv, TypeOK
  <2>6. presence[a] \in Nat /\ presence[a] = Cardinality(Attached(a))
    BY DEF StreamsInv, TypeOK, PresenceIsExact
  <2>7. presence'[a] = presence[a] - 1
    BY <2>4, <2>5, <2>6, OneLessNat
  <2> QED
    BY <2>3, <2>4, <2>5, <2>6, <2>7 DEF PresenceIsExact
<1>11. ASSUME NEW s \in Streams,
              \/ AcquireIP(s) \/ Subscribe(s) \/ Touch(s) \/ Check(s) \/ Hint(s)
              \/ Read(s) \/ Authorize(s) \/ Answer(s) \/ Cancel(s) \/ ReleaseIP(s)
              \/ (Disconnect(s) \/ Keepalive(s) \/ Reconcile(s) \/ Event(s) \/ NamespaceEvent(s)) /\ IsSSE(s)
              \/ (Poll(s) \/ WaitEvent(s) \/ Deadline(s)) /\ ~IsSSE(s)
       PROVE  PresenceIsExact'
  BY <1>1, <1>11, ReadersStayAttached
<1>12. ASSUME NEW a, Received(a) \/ PublishLost(a) \/ Ages(a) \/ Register(a) \/ ExpireCheck(a) \/ ExpireRemove(a)
       PROVE  PresenceIsExact'
  BY <1>3, <1>12 DEF Received, PublishLost, Ages, Register, ExpireCheck, ExpireRemove
<1>13. CASE Revoke \/ ExpireSelect \/ ExpireFails \/ UNCHANGED vars
  BY <1>3, <1>13 DEF Revoke, ExpireSelect, ExpireFails, vars
<1> QED
  BY <1>4, <1>5, <1>6, <1>7, <1>8, <1>9, <1>10, <1>11, <1>12, <1>13 DEF Next, Proceed

LEMMA PresenceInit == Init => PresenceIsExact
<1> SUFFICES ASSUME Init PROVE PresenceIsExact
  OBVIOUS
<1>1. \A a : Attached(a) = {}
  BY DEF Init, Attached
<1>2. \A a \in Agents : presence[a] = 0
  BY DEF Init
<1> QED
  BY <1>1, <1>2, FS_EmptySet DEF PresenceIsExact

LEMMA ExactPresenceListens == ASSUME StreamsInv, PresenceIsExact PROVE OpenStreamsListen
<1> SUFFICES ASSUME NEW s \in Streams, st[s].kind = "sse", st[s].addr \in Agents,
                    st[s].pc \in {"check", "hint", "loop"}
             PROVE  presence[st[s].addr] > 0
  BY DEF OpenStreamsListen, Listening, IsSSE
<1>1. s \in Attached(st[s].addr)
  BY DEF Attached
<1>2. Cardinality(Attached(st[s].addr)) # 0
  BY <1>1, AttachedFinite, FS_EmptySet
<1>3. presence[st[s].addr] = Cardinality(Attached(st[s].addr)) /\ presence[st[s].addr] \in Nat
  BY DEF PresenceIsExact, StreamsInv, TypeOK
<1> QED
  BY <1>2, <1>3

-----------------------------------------------------------------------------
(* Revocation *)

\* Nothing is late before a revocation, and a reader about to write a frame
\* passed its check before one.
LateInv == \A s \in Streams :
              /\ st[s].late <= 1
              /\ allowed \/ st[s].pc \in {"hint", "answer"} => st[s].late = 0

LEMMA LateNext == ASSUME StreamsInv, LateInv, [Next]_vars PROVE LateInv'
<1>0. \A x \in Streams : st[x].late <= 1 /\ (allowed \/ st[x].pc \in {"hint", "answer"} => st[x].late = 0)
  BY DEF LateInv
<1>1. ASSUME Still, UNCHANGED allowed
      PROVE  LateInv'
  BY <1>0, <1>1 DEF Still, LateInv
<1>2. ASSUME UNCHANGED st, allowed' => allowed
      PROVE  LateInv'
  BY <1>0, <1>2 DEF LateInv
<1>3. ASSUME NEW s \in Streams, \A x \in Streams \ {s} : st'[x] = st[x], UNCHANGED allowed,
             st'[s].late <= 1, allowed \/ st'[s].pc \in {"hint", "answer"} => st'[s].late = 0
      PROVE  LateInv'
  BY <1>0, <1>3 DEF LateInv
<1>4. ASSUME NEW a \in Agents, Send(a)
      PROVE  LateInv'
  BY <1>1, <1>4, MessagesLeaveReaders DEF Send, Addresses
<1>5. ASSUME NEW a \in Addresses, Publish(a)
      PROVE  LateInv'
  BY <1>1, <1>5, MessagesLeaveReaders DEF Publish
<1>6. ASSUME NEW s \in Streams, NEW a \in Addresses, Acquire(s, a)
      PROVE  LateInv'
  <2>1. UNCHANGED allowed
    BY <1>6 DEF Acquire
  <2> QED
    BY <1>0, <1>3, <1>6, <2>1, Opens
<1>7. ASSUME NEW s \in Streams, NEW a \in Agents, AwaitMessages(s, a)
      PROVE  LateInv'
  <2>0. UNCHANGED allowed
    BY <1>7 DEF AwaitMessages
  <2>1. CASE active["await"][a] < StreamLimit
    BY <1>0, <1>3, <1>7, <2>0, <2>1, Opens DEF Addresses
  <2>2. CASE ~(active["await"][a] < StreamLimit)
    BY <1>2, <1>7, <2>0, <2>2 DEF AwaitMessages
  <2> QED
    BY <2>1, <2>2
<1>8. ASSUME NEW s \in Streams, Release(s)
      PROVE  LateInv'
  <2>1. UNCHANGED allowed
    BY <1>8 DEF Release
  <2>2. (\A x \in Streams \ {s} : st'[x] = st[x]) /\ st'[s].late = 0
    BY <1>8, Opens DEF Addresses
  <2> QED
    BY <1>3, <2>1, <2>2
<1>9. ASSUME NEW s \in Streams, Keeps(s), Silently(s), UNCHANGED allowed,
             st'[s].pc \in {"hint", "answer"} => allowed
      PROVE  LateInv'
  BY <1>0, <1>3, <1>9 DEF Keeps, Silently
<1>10. ASSUME NEW s \in Streams, Hint(s) \/ Answer(s)
       PROVE  LateInv'
  <2>1. /\ Keeps(s) /\ Audibly(s) /\ UNCHANGED allowed
        /\ st[s].pc \in {"hint", "answer"} /\ st'[s].pc \notin {"hint", "answer"}
    BY <1>10, ReaderSteps DEF Moves, Hint, Answer
  <2>2. st[s].late = 0
    BY <1>0, <2>1
  <2>3. st'[s].late = IF allowed THEN 0 ELSE 1
    BY <2>1, <2>2 DEF Audibly
  <2>4. st'[s].late <= 1 /\ (allowed => st'[s].late = 0)
    BY <2>3
  <2> QED
    BY <1>3, <2>1, <2>4 DEF Keeps
<1>11. ASSUME NEW s \in Streams, Check(s) \/ Authorize(s)
       PROVE  LateInv'
  <2>1. Keeps(s) /\ Silently(s) /\ (st'[s].pc \in {"hint", "answer"} => allowed)
    <3>1. Unwind(s) \notin {"hint", "answer"}
      BY DEF Unwind
    <3> QED
      BY <1>11, <3>1, ReaderSteps DEF Moves
  <2> QED
    BY <1>9, <1>11, <2>1 DEF Check, Authorize
<1>12. ASSUME NEW s \in Streams, AcquireIP(s)
       PROVE  LateInv'
  <2>1. Keeps(s) /\ Silently(s) /\ st'[s].pc \in {"subscribe", "closed"}
    BY <1>12, ReaderSteps DEF Moves
  <2> QED
    BY <1>9, <1>12, <2>1 DEF AcquireIP
<1>13. ASSUME NEW s \in Streams, Subscribe(s)
       PROVE  LateInv'
  <2>1. Keeps(s) /\ Silently(s) /\ st'[s].pc \in {"check", "attach", "read"}
    BY <1>13, ReaderSteps DEF Subscribed, Moves
  <2> QED
    BY <1>9, <1>13, <2>1 DEF Subscribe
<1>14. ASSUME NEW s \in Streams, Attach(s)
       PROVE  LateInv'
  <2>1. Keeps(s) /\ Silently(s) /\ st'[s].pc \in {"touch"}
    BY <1>14, ReaderSteps DEF Moves
  <2> QED
    BY <1>9, <1>14, <2>1 DEF Attach
<1>15. ASSUME NEW s \in Streams, Touch(s)
       PROVE  LateInv'
  <2>1. Keeps(s) /\ Silently(s) /\ st'[s].pc \in {"check", "wait"}
    BY <1>15, ReaderSteps DEF Moves
  <2> QED
    BY <1>9, <1>15, <2>1 DEF Touch
<1>16. ASSUME NEW s \in Streams, Read(s)
       PROVE  LateInv'
  <2>1. Keeps(s) /\ Silently(s) /\ st'[s].pc \in {"unsubscribe", "loop"}
    BY <1>16, ReaderSteps DEF Moves
  <2> QED
    BY <1>9, <1>16, <2>1 DEF Read
<1>17. ASSUME NEW s \in Streams, Detach(s)
       PROVE  LateInv'
  <2>1. Keeps(s) /\ Silently(s) /\ st'[s].pc \in {"cancel"}
    BY <1>17, ReaderSteps DEF Moves
  <2> QED
    BY <1>9, <1>17, <2>1 DEF Detach
<1>18. ASSUME NEW s \in Streams, Cancel(s)
       PROVE  LateInv'
  <2>1. Keeps(s) /\ Silently(s) /\ st'[s].pc \in {"releaseIP", "auth"}
    BY <1>18, ReaderSteps DEF Moves
  <2> QED
    BY <1>9, <1>18, <2>1 DEF Cancel
<1>19. ASSUME NEW s \in Streams, ReleaseIP(s)
       PROVE  LateInv'
  <2>1. Keeps(s) /\ Silently(s) /\ st'[s].pc \in {"release"}
    BY <1>19, ReaderSteps DEF Moves
  <2> QED
    BY <1>9, <1>19, <2>1 DEF ReleaseIP
<1>20. ASSUME NEW s \in Streams, Disconnect(s)
       PROVE  LateInv'
  <2>1. Keeps(s) /\ Silently(s) /\ st'[s].pc \in {"cancel", "detach"}
    BY <1>20, ReaderSteps DEF Unwind, Moves
  <2> QED
    BY <1>9, <1>20, <2>1 DEF Disconnect
<1>21. ASSUME NEW s \in Streams, Keepalive(s)
       PROVE  LateInv'
  <2>1. Keeps(s) /\ Silently(s) /\ st'[s].pc \in {"cancel", "detach"}
    BY <1>21, ReaderSteps DEF Unwind, Moves
  <2> QED
    BY <1>9, <1>21, <2>1 DEF Keepalive
<1>22. ASSUME NEW s \in Streams, Reconcile(s)
       PROVE  LateInv'
  <2>1. Keeps(s) /\ Silently(s) /\ st'[s].pc \in {"check"}
    BY <1>22, ReaderSteps DEF Moves
  <2> QED
    BY <1>9, <1>22, <2>1 DEF Reconcile
<1>23. ASSUME NEW s \in Streams, Event(s)
       PROVE  LateInv'
  <2>1. Keeps(s) /\ Silently(s) /\ st'[s].pc \in {"check", "loop"}
    BY <1>23, ReaderSteps DEF Moves
  <2> QED
    BY <1>9, <1>23, <2>1 DEF Event
<1>24. ASSUME NEW s \in Streams, NamespaceEvent(s)
       PROVE  LateInv'
  <2>1. Keeps(s) /\ Silently(s) /\ st'[s].pc \in {"check", "loop"}
    BY <1>24, ReaderSteps DEF Moves
  <2> QED
    BY <1>9, <1>24, <2>1 DEF NamespaceEvent
<1>25. ASSUME NEW s \in Streams, Poll(s)
       PROVE  LateInv'
  <2>1. Keeps(s) /\ Silently(s) /\ st'[s].pc \in {"read"}
    BY <1>25, ReaderSteps DEF Moves
  <2> QED
    BY <1>9, <1>25, <2>1 DEF Poll
<1>26. ASSUME NEW s \in Streams, WaitEvent(s)
       PROVE  LateInv'
  <2>1. Keeps(s) /\ Silently(s) /\ st'[s].pc \in {"read", "loop"}
    BY <1>26, ReaderSteps DEF Moves
  <2> QED
    BY <1>9, <1>26, <2>1 DEF WaitEvent
<1>27. ASSUME NEW s \in Streams, Deadline(s)
       PROVE  LateInv'
  <2>1. Keeps(s) /\ Silently(s) /\ st'[s].pc \in {"unsubscribe"}
    BY <1>27, ReaderSteps DEF Moves
  <2> QED
    BY <1>9, <1>27, <2>1 DEF Deadline
<1>28. ASSUME NEW a, Received(a) \/ PublishLost(a) \/ Ages(a) \/ Register(a) \/ ExpireCheck(a) \/ ExpireRemove(a)
       PROVE  LateInv'
  BY <1>2, <1>28 DEF Received, PublishLost, Ages, Register, ExpireCheck, ExpireRemove
<1>29. CASE Revoke \/ ExpireSelect \/ ExpireFails \/ UNCHANGED vars
  BY <1>2, <1>29 DEF Revoke, ExpireSelect, ExpireFails, vars
<1> QED
  BY <1>4, <1>5, <1>6, <1>7, <1>8, <1>10, <1>11, <1>12, <1>13, <1>14, <1>15, <1>16, <1>17, <1>18, <1>19, <1>20, <1>21, <1>22, <1>23, <1>24, <1>25, <1>26, <1>27, <1>28, <1>29
     DEF Next, Proceed

LEMMA LateInit == Init => LateInv
BY DEF Init, LateInv

\* What the handlers of the readers promise holds in every state, for any
\* number of readers, addresses and slots: the slots are exact, a stream in
\* its loop is presence, and a revoked reader writes at most the frame that
\* it had checked before.
THEOREM ReadersAreSafe == Spec => []StreamSafety
<1> DEFINE Inv == StreamsInv /\ SlotsAreExact /\ PresenceIsExact /\ LateInv
<1>1. Init => Inv
  BY InitInv, SlotsInit, PresenceInit, LateInit
<1>2. Inv /\ [Next]_vars => Inv'
  BY NextInv, SlotsNext, PresenceNext, LateNext
<1>3. Inv => StreamSafety
  <2>1. LateInv => AtMostOneLateFrame
    BY DEF LateInv, AtMostOneLateFrame
  <2> QED
    BY <2>1, ExactPresenceListens DEF StreamSafety
<1> QED
  BY <1>1, <1>2, <1>3, PTL DEF Spec

-----------------------------------------------------------------------------
(* The sweep *)

\* Who has listened since the sweep began still listens, and is not the one
\* that it will remove.
SweepInv == /\ \A a \in sweep.on : Listening(a)
            /\ sweep.chosen \cap sweep.on = {}

LEMMA SweepInit == Init => SweepInv
BY DEF Init, SweepInv

LEMMA SweepNext == ASSUME StreamsInv, SweepInv, [Next]_vars PROVE SweepInv'
<1>0. TypeOK /\ sweep \in [todo : SUBSET Agents, chosen : SUBSET Agents, on : SUBSET Agents]
      /\ presence \in [Agents -> Nat]
  BY DEF StreamsInv, TypeOK
<1>1. ASSUME UNCHANGED <<presence, sweep>>
      PROVE  SweepInv'
  BY <1>1 DEF SweepInv, Listening
<1>2. ASSUME NEW a, \/ Send(a) \/ Received(a) \/ Publish(a) \/ PublishLost(a) \/ Ages(a) \/ Register(a)
      PROVE  SweepInv'
  BY <1>1, <1>2 DEF Send, Received, Publish, PublishLost, Ages, Register
<1>3. CASE Revoke \/ UNCHANGED vars
  BY <1>1, <1>3 DEF Revoke, vars
<1>4. ASSUME NEW s \in Streams, NEW a, Acquire(s, a) \/ AwaitMessages(s, a)
      PROVE  SweepInv'
  BY <1>1, <1>4 DEF Acquire, AwaitMessages
<1>5. ASSUME NEW s \in Streams,
             \/ AcquireIP(s) \/ Subscribe(s) \/ Touch(s) \/ Check(s) \/ Hint(s)
             \/ Read(s) \/ Authorize(s) \/ Answer(s) \/ Cancel(s) \/ ReleaseIP(s) \/ Release(s)
      PROVE  SweepInv'
  BY <1>1, <1>5 DEF AcquireIP, Subscribe, Touch, Check, Hint, Read, Authorize, Answer, Cancel,
                    ReleaseIP, Release
<1>6. ASSUME NEW s \in Streams,
             \/ Disconnect(s) \/ Keepalive(s) \/ Reconcile(s) \/ Event(s) \/ NamespaceEvent(s)
             \/ Poll(s) \/ WaitEvent(s) \/ Deadline(s)
      PROVE  SweepInv'
  BY <1>1, <1>6 DEF Disconnect, Keepalive, Reconcile, Event, NamespaceEvent, Poll, WaitEvent, Deadline
<1>7. ASSUME NEW s \in Streams, Attach(s)
      PROVE  SweepInv'
  <2>1. \A a \in Agents : presence'[a] >= presence[a]
    BY <1>0, <1>7 DEF Attach
  <2> QED
    BY <1>0, <1>7, <2>1, NextInv DEF Attach, SweepInv, Listening, StreamsInv, TypeOK
<1>8. ASSUME NEW s \in Streams, Detach(s)
      PROVE  SweepInv'
  <2>0. PICK a \in Agents : a = st[s].addr
    BY <1>8 DEF Detach, StreamsInv, KindFits
  <2>1. presence'[a] = OneLess(presence[a]) /\ \A b \in Agents \ {a} : presence'[b] = presence[b]
    BY <1>0, <1>8, <2>0 DEF Detach
  <2>2. sweep' = IF presence[a] = 1 THEN [sweep EXCEPT !.on = @ \ {a}] ELSE sweep
    BY <1>8, <2>0 DEF Detach
  <2>3. sweep'.on \subseteq sweep.on /\ sweep'.chosen = sweep.chosen /\ (a \in sweep'.on => presence[a] # 1)
    BY <1>0, <2>2
  <2>4. a \in sweep'.on => presence'[a] > 0
    <3>1. a \in sweep'.on => presence[a] \in Nat /\ presence[a] > 1
      BY <1>0, <2>3 DEF SweepInv, Listening
    <3> QED
      BY <2>1, <3>1 DEF OneLess
  <2> QED
    BY <1>0, <2>1, <2>3, <2>4 DEF SweepInv, Listening
<1>9. CASE ExpireSelect
  BY <1>0, <1>9 DEF ExpireSelect, SweepInv, Listening
<1>10. ASSUME NEW a \in Agents, ExpireCheck(a)
       PROVE  SweepInv'
  BY <1>0, <1>10 DEF ExpireCheck, SweepInv, Listening
<1>11. ASSUME NEW a \in Agents, ExpireRemove(a)
       PROVE  SweepInv'
  BY <1>0, <1>11 DEF ExpireRemove, SweepInv, Listening
<1>12. CASE ExpireFails
  BY <1>0, <1>12 DEF ExpireFails, SweepInv, Listening
<1> QED
  BY <1>2, <1>3, <1>4, <1>5, <1>6, <1>7, <1>8, <1>9, <1>10, <1>11, <1>12 DEF Next, Proceed

\* Only ExpireRemove removes a member, and it removes the chosen one.
LEMMA RemovedIsChosen ==
  ASSUME StreamsInv, [Next]_vars, NEW a \in members \ members'
  PROVE  a \in sweep.chosen
<1>1. ASSUME members \subseteq members'
      PROVE  FALSE
  BY <1>1
<1>2. ASSUME NEW b, \/ Send(b) \/ Received(b) \/ Publish(b) \/ PublishLost(b) \/ Ages(b) \/ Register(b)
                    \/ ExpireCheck(b)
      PROVE  FALSE
  BY <1>1, <1>2 DEF Send, Received, Publish, PublishLost, Ages, Register, ExpireCheck
<1>3. ASSUME Revoke \/ UNCHANGED vars \/ ExpireSelect \/ ExpireFails
      PROVE  FALSE
  BY <1>1, <1>3 DEF Revoke, vars, ExpireSelect, ExpireFails
<1>4. ASSUME NEW s, NEW b, Acquire(s, b) \/ AwaitMessages(s, b)
      PROVE  FALSE
  BY <1>1, <1>4 DEF Acquire, AwaitMessages
<1>5. ASSUME NEW s,
             \/ AcquireIP(s) \/ Subscribe(s) \/ Attach(s) \/ Touch(s) \/ Check(s) \/ Hint(s) \/ Read(s)
             \/ Authorize(s) \/ Answer(s) \/ Detach(s) \/ Cancel(s) \/ ReleaseIP(s) \/ Release(s)
      PROVE  FALSE
  BY <1>1, <1>5 DEF AcquireIP, Subscribe, Attach, Touch, Check, Hint, Read, Authorize, Answer, Detach, Cancel,
                    ReleaseIP, Release
<1>6. ASSUME NEW s,
             \/ Disconnect(s) \/ Keepalive(s) \/ Reconcile(s) \/ Event(s) \/ NamespaceEvent(s)
             \/ Poll(s) \/ WaitEvent(s) \/ Deadline(s)
      PROVE  FALSE
  BY <1>1, <1>6 DEF Disconnect, Keepalive, Reconcile, Event, NamespaceEvent, Poll, WaitEvent, Deadline
<1>7. ASSUME NEW b \in Agents, ExpireRemove(b)
      PROVE  a \in sweep.chosen
  BY <1>7 DEF ExpireRemove
<1> QED
  BY <1>2, <1>3, <1>4, <1>5, <1>6, <1>7 DEF Next, Proceed

\* ExpireMembers removes nobody who has had a stream open ever since it
\* began, whatever opens and closes between its query, its question and its
\* delete.
THEOREM ListenersSurvive == Spec => SteadyListenersSurvive
<1>1. Init => StreamsInv /\ SweepInv
  BY InitInv, SweepInit
<1>2. (StreamsInv /\ SweepInv) /\ [Next]_vars => (StreamsInv /\ SweepInv)'
  BY NextInv, SweepNext
<1>3. (StreamsInv /\ SweepInv) /\ [Next]_vars => [\A a \in members \ members' : a \notin sweep.on]_vars
  <2> SUFFICES ASSUME StreamsInv, SweepInv, [Next]_vars, NEW a \in members \ members'
               PROVE  a \notin sweep.on
    OBVIOUS
  <2> QED
    BY RemovedIsChosen DEF SweepInv
<1> QED
  BY <1>1, <1>2, <1>3, PTL DEF Spec, SteadyListenersSurvive

-----------------------------------------------------------------------------
(* The verdicts on the Codex scopes *)

\* The shapes of the files that connect and the user write.
HookReg == [event : HookEvents, ns : Pins, url : {"", "s", "t"}, mixed : BOOLEAN]
HookFile == [ok : BOOLEAN, regs : SUBSET HookReg]
FieldSets == {f \in [Fields -> SUBSET {"s", "t", "K", "true", "false", "h", "c", "x", "n", "m", "V", "a"}] :
                \A x \in Fields : f[x] \subseteq FieldValues(x)}
TomlFile == [shape : Shapes, table : BOOLEAN, sub : BOOLEAN, features : {"", "true", "false"}, fields : FieldSets]
ScopeEntry == [problems : BOOLEAN, captures : SUBSET {"p", "n", "m"}, pin : Pins]
Verdicts == {"", "probing", "failed", "unverified", "mismatch", "ok", "healthy", "failing"}
ScopeTypes ==
    /\ hookFiles \in [Layers -> HookFile] /\ tomlFiles \in [Layers -> TomlFile]
    /\ aliased \in BOOLEAN
    /\ environ \in [K : {"", "key"}, V : {"", "m"}] /\ probe \in [key : {"", "key"}, honours : BOOLEAN]
    /\ inspected \in ScopeEntry /\ verdict \in Verdicts /\ edits \in 0 .. ScopeEdits

\* A layer that sets a field has the table or a subtable of the entry: Contributes overlooks no layer that does.
FieldsAreHeld == \A l \in Layers : \A x \in Fields : tomlFiles[l].fields[x] # {} => Contributes(l)
\* No group of the user's own holds a command of punk.
GroupsAreClean == \A l \in Layers : \A r \in hookFiles[l].regs : ~r.mixed

\* What codexVerifyScopes records of the files, and when the doctor has nothing to report.
Reading == [problems |-> HookProblem \/ EntryProblem,
            captures |-> {Lands(r) : r \in {q \in EnumerateCodexHookScopes : q.url = "s"}},
            pin |-> IF MergeCodexMCPScopes THEN effectiveCodexHeaders ELSE ""]
WiredGlobally == hookFiles["global"].ok /\ doctorReadCodexWiring = HookEvents /\ doctorCodexFeaturesHooks
\* The files are still the ones that the verdict is about.
VerdictStands ==
    /\ verdict \in {"probing", "ok"} => inspected = Reading
    /\ verdict = "ok" => ~inspected.problems /\ ~Mismatch
    /\ verdict = "healthy" => WiredGlobally

ScopeInv == ScopeTypes /\ FieldsAreHeld /\ (~MixedGroups => GroupsAreClean) /\ VerdictStands

-----------------------------------------------------------------------------
\* The bound on edits is a number.
LEMMA EditsBounded == ScopeEdits \in Nat
BY ScopeConstants

\* Whether the user mixes groups is yes or no.
LEMMA MixedIsBoolean == MixedGroups \in BOOLEAN
BY ScopeConstants

\* The fields of a punk entry, by name.
LEMMA FieldNames ==
  /\ DOMAIN MainFields = {"url", "bearer", "enabled", "helper", "command", "args"}
  /\ DOMAIN HeaderFields = {"ns", "nsLower", "nsEnv", "auth", "authEnv"}
  /\ Fields = {"url", "bearer", "enabled", "helper", "command", "args", "ns", "nsLower", "nsEnv", "auth", "authEnv"}
BY DEF MainFields, HeaderFields, Fields

\* The values of the fields that connect writes.
LEMMA ValuesOfFields ==
  /\ FieldValues("url") = {"s", "t"} /\ FieldValues("bearer") = {"K"} /\ FieldValues("ns") = {"n", "m"}
  /\ FieldValues("nsLower") = {"n", "m"} /\ FieldValues("auth") = {"a"}
<1>1. /\ MainFields["url"] = {"s", "t"} /\ MainFields["bearer"] = {"K"}
      /\ HeaderFields["ns"] = {"n", "m"} /\ HeaderFields["nsLower"] = {"n", "m"} /\ HeaderFields["auth"] = {"a"}
  BY DEF MainFields, HeaderFields
<1> QED
  BY <1>1, FieldNames DEF FieldValues

\* The values of all fields.
LEMMA ValuesAreKnown ==
  ASSUME NEW x \in Fields
  PROVE  FieldValues(x) \subseteq {"s", "t", "K", "true", "false", "h", "c", "x", "n", "m", "V", "a"}
<1>1. \A y \in DOMAIN MainFields : MainFields[y] \subseteq {"s", "t", "K", "true", "false", "h", "c", "x", "n", "m", "V", "a"}
  BY DEF MainFields
<1>2. \A y \in DOMAIN HeaderFields : HeaderFields[y] \subseteq {"s", "t", "K", "true", "false", "h", "c", "x", "n", "m", "V", "a"}
  BY DEF HeaderFields
<1> QED
  BY <1>1, <1>2 DEF FieldValues, Fields

\* An entry without fields.
LEMMA NoFieldsTyped == NoFields \in FieldSets /\ \A x \in Fields : NoFields[x] = {}
BY DEF NoFields, FieldSets

\* distinctScopePaths and the file of a layer are layers.
LEMMA LayerNames == distinctScopePaths \subseteq Layers /\ \A l \in Layers : File(l) \in Layers
BY DEF distinctScopePaths, File, Layers

-----------------------------------------------------------------------------
\* ScopeInit satisfies the invariant: empty files hold nothing of punk's.
LEMMA ScopeInitHolds == ScopeInit => ScopeInv
<1> SUFFICES ASSUME ScopeInit PROVE ScopeInv
  OBVIOUS
<1>1. NoToml \in TomlFile /\ NoToml.fields = NoFields
  BY NoFieldsTyped DEF NoToml, TomlFile, Shapes
<1>2. NoEntry \in ScopeEntry
  BY DEF NoEntry, ScopeEntry, Pins
<1>3. ScopeTypes
  <2>1. hookFiles \in [Layers -> HookFile] /\ tomlFiles \in [Layers -> TomlFile]
    BY <1>1 DEF ScopeInit, HookFile
  <2>2. edits \in 0 .. ScopeEdits
    <3>1. edits = 0
      BY DEF ScopeInit
    <3> QED
      BY <3>1, EditsBounded
  <2> QED
    BY <2>1, <2>2, <1>2 DEF ScopeInit, ScopeTypes, Verdicts
<1>4. FieldsAreHeld
  BY <1>1, NoFieldsTyped DEF ScopeInit, FieldsAreHeld
<1>5. GroupsAreClean
  BY DEF ScopeInit, GroupsAreClean
<1>6. VerdictStands
  BY DEF ScopeInit, VerdictStands
<1> QED
  BY <1>3, <1>4, <1>5, <1>6 DEF ScopeInv

-----------------------------------------------------------------------------
(* The edits *)

\* An edit leaves well-formed files behind and no verdict.
TextEdited ==
    /\ hookFiles' \in [Layers -> HookFile] /\ tomlFiles' \in [Layers -> TomlFile]
    /\ FieldsAreHeld' /\ (~MixedGroups => GroupsAreClean')

\* While nothing was inspected an edit owes only well-formed files.
LEMMA EditKeepsInv ==
  ASSUME ScopeInv, Editing, ScopeEdited, TextEdited
  PROVE  ScopeInv'
<1>1. ScopeTypes'
  <2>1. edits' \in 0 .. ScopeEdits
    <3>1. edits \in 0 .. ScopeEdits /\ edits < ScopeEdits /\ edits' = edits + 1
      BY DEF ScopeInv, ScopeTypes, Editing, ScopeEdited
    <3> QED
      BY <3>1, EditsBounded
  <2> QED
    BY <2>1 DEF ScopeInv, ScopeTypes, ScopeEdited, TextEdited
<1>2. VerdictStands'
  BY DEF Editing, ScopeEdited, VerdictStands
<1> QED
  BY <1>1, <1>2 DEF ScopeInv, TextEdited

\* A new set of commands for one file.
LEMMA HooksChange ==
  ASSUME ScopeInv, NEW f \in Layers, NEW R \in SUBSET HookReg,
         ~MixedGroups => \A r \in R : ~r.mixed,
         hookFiles' = [hookFiles EXCEPT ![f].regs = R]
  PROVE  hookFiles' \in [Layers -> HookFile] /\ (~MixedGroups => GroupsAreClean')
<1>1. hookFiles \in [Layers -> HookFile]
  BY DEF ScopeInv, ScopeTypes
<1>2. /\ \A l \in Layers \ {f} : hookFiles'[l] = hookFiles[l]
      /\ hookFiles'[f] = [hookFiles[f] EXCEPT !.regs = R]
      /\ DOMAIN hookFiles' = Layers
  BY <1>1
<1>3. hookFiles'[f] \in HookFile /\ hookFiles'[f].regs = R
  BY <1>1, <1>2 DEF HookFile
<1>4. hookFiles' \in [Layers -> HookFile]
  BY <1>1, <1>2, <1>3
<1>5. ASSUME ~MixedGroups PROVE GroupsAreClean'
  <2>1. \A l \in Layers \ {f} : \A r \in hookFiles'[l].regs : ~r.mixed
    BY <1>2, <1>5 DEF ScopeInv, GroupsAreClean
  <2>2. \A r \in hookFiles'[f].regs : ~r.mixed
    BY <1>3, <1>5
  <2> QED
    BY <2>1, <2>2 DEF GroupsAreClean
<1> QED
  BY <1>4, <1>5

\* A new state of one configuration file.
LEMMA TomlChange ==
  ASSUME ScopeInv, NEW f \in Layers, NEW t \in TomlFile,
         \A x \in Fields : t.fields[x] # {} => t.table \/ t.sub,
         tomlFiles' = [tomlFiles EXCEPT ![f] = t]
  PROVE  tomlFiles' \in [Layers -> TomlFile] /\ FieldsAreHeld'
<1>1. tomlFiles \in [Layers -> TomlFile]
  BY DEF ScopeInv, ScopeTypes
<1>2. tomlFiles' \in [Layers -> TomlFile] /\ tomlFiles'[f] = t /\ \A l \in Layers \ {f} : tomlFiles'[l] = tomlFiles[l]
  BY <1>1
<1>3. \A l \in Layers : \A x \in Fields : tomlFiles[l].fields[x] # {} => tomlFiles[l].table \/ tomlFiles[l].sub
  BY DEF ScopeInv, FieldsAreHeld, Contributes
<1>4. \A l \in Layers : \A x \in Fields : tomlFiles'[l].fields[x] # {} => tomlFiles'[l].table \/ tomlFiles'[l].sub
  BY <1>2, <1>3
<1> QED
  BY <1>2, <1>4 DEF FieldsAreHeld, Contributes

\* The block that connect writes.
LEMMA BlockTyped ==
  ASSUME NEW l \in Layers, NEW url \in {"s", "t"}
  PROVE  codexManagedBlock(l, url) \in FieldSets
<1> DEFINE b == codexManagedBlock(l, url)
<1>1. DOMAIN b = Fields
  BY DEF codexManagedBlock, NoFields
<1>2. /\ b["url"] = {url} /\ b["ns"] \subseteq {"n"} /\ b["bearer"] \subseteq {"K"} /\ b["auth"] \subseteq {"a"}
      /\ \A x \in Fields \ {"url", "ns", "bearer", "auth"} : b[x] = {}
  BY FieldNames DEF codexManagedBlock, NoFields
<1>3. \A x \in Fields : b[x] \subseteq FieldValues(x)
  <2> SUFFICES ASSUME NEW x \in Fields PROVE b[x] \subseteq FieldValues(x)
    OBVIOUS
  <2> HIDE DEF b
  <2>1. CASE x \in {"url", "ns", "bearer", "auth"}
    BY <2>1, <1>2, ValuesOfFields
  <2>2. CASE x \notin {"url", "ns", "bearer", "auth"}
    BY <2>2, <1>2
  <2> QED
    BY <2>1, <2>2
<1>4. \A x \in Fields : b[x] \in SUBSET {"s", "t", "K", "true", "false", "h", "c", "x", "n", "m", "V", "a"}
  <2> HIDE DEF b
  <2> QED
    BY <1>3, ValuesAreKnown
<1>5. b = [x \in Fields |-> b[x]]
  BY <1>1 DEF codexManagedBlock, NoFields
<1> HIDE DEF b
<1>6. b \in FieldSets
  BY <1>1, <1>3, <1>4, <1>5 DEF FieldSets
<1> QED
  BY <1>6 DEF b

\* ConnectCodexConfig makes a configuration file with the table of the entry.
LEMMA ConfigTyped ==
  ASSUME ScopeInv, NEW l \in Layers, NEW url \in {"s", "t"}
  PROVE  ConnectCodexConfig(l, url) \in TomlFile /\ ConnectCodexConfig(l, url).table
<1> DEFINE t == tomlFiles[File(l)]
           b == codexManagedBlock(l, url)
           kept == [x \in Fields |-> IF t.sub /\ x \in DOMAIN HeaderFields THEN t.fields[x] ELSE {}]
           new == [x \in Fields |-> IF b[x] # {} THEN b[x] ELSE kept[x]]
           shape == IF t.shape = "plain" /\ t.sub /\ WritesHeaders(l) THEN "twice" ELSE t.shape
<1>1. t \in TomlFile
  BY LayerNames DEF ScopeInv, ScopeTypes
<1>2. t.fields \in FieldSets /\ t.shape \in Shapes /\ b \in FieldSets
  BY <1>1, BlockTyped DEF TomlFile
<1>3. new \in FieldSets
  BY <1>2 DEF FieldSets
<1>4. shape \in Shapes
  BY <1>2 DEF Shapes
<1>5. ConnectCodexConfig(l, url) = [t EXCEPT !.table = TRUE, !.features = "true", !.shape = shape, !.fields = new]
  BY <1>1 DEF ConnectCodexConfig, TomlFile
<1> HIDE DEF t, new, shape
<1>6. [t EXCEPT !.table = TRUE, !.features = "true", !.shape = shape, !.fields = new] \in TomlFile
  BY <1>1, <1>3, <1>4 DEF TomlFile
<1>7. [t EXCEPT !.table = TRUE, !.features = "true", !.shape = shape, !.fields = new].table
  BY <1>1 DEF TomlFile
<1> QED
  BY <1>5, <1>6, <1>7

\* punk connect codex writes both files of a layer.
LEMMA ConnectKeeps ==
  ASSUME ScopeInv, NEW l \in Layers, NEW url \in {"s", "t"}, Connect(l, url)
  PROVE  ScopeInv'
<1> DEFINE f == File(l)
           pin == IF l = "project" THEN "n" ELSE ""
           new == {Wire(pin, url, e) : e \in HookEvents}
           others == IF l = "project" /\ f = "project" THEN hookFiles["global"].regs ELSE {}
           R == {r \in hookFiles[f].regs : r.mixed} \cup (new \ others)
<1>1. f \in Layers
  BY LayerNames
<1>2. hookFiles[f].regs \subseteq HookReg
  BY <1>1 DEF ScopeInv, ScopeTypes, HookFile
<1>3. new \subseteq HookReg /\ \A r \in new : ~r.mixed
  <2>1. ASSUME NEW e \in HookEvents
        PROVE  Wire(pin, url, e) \in HookReg /\ ~Wire(pin, url, e).mixed
    BY DEF Wire, HookReg, Pins
  <2> QED
    BY <2>1
<1>4. R \in SUBSET HookReg
  BY <1>2, <1>3
<1>5. ASSUME ~MixedGroups PROVE \A r \in R : ~r.mixed
  BY <1>1, <1>3, <1>5 DEF ScopeInv, GroupsAreClean
<1>6. hookFiles' = [hookFiles EXCEPT ![f].regs = R]
  BY DEF Connect
<1>7. tomlFiles' = [tomlFiles EXCEPT ![f] = ConnectCodexConfig(l, url)] /\ Editing /\ ScopeEdited
  BY DEF Connect
<1> HIDE DEF f, R
<1>8. hookFiles' \in [Layers -> HookFile] /\ (~MixedGroups => GroupsAreClean')
  BY <1>1, <1>4, <1>5, <1>6, HooksChange
<1>9. tomlFiles' \in [Layers -> TomlFile] /\ FieldsAreHeld'
  <2> DEFINE t == ConnectCodexConfig(l, url)
  <2>1. t \in TomlFile /\ t.table
    BY ConfigTyped
  <2>2. tomlFiles' = [tomlFiles EXCEPT ![f] = t]
    BY <1>7
  <2> HIDE DEF t
  <2> QED
    BY <2>1, <2>2, <1>1, TomlChange
<1> QED
  BY <1>7, <1>8, <1>9, EditKeepsInv DEF TextEdited

\* A command is written or deleted by hand, or hooks.json is spoilt.
LEMMA EditHooksKeeps ==
  ASSUME ScopeInv, NEW l \in Layers, EditHooks(l)
  PROVE  ScopeInv'
<1>1. Editing /\ ScopeEdited /\ tomlFiles' = tomlFiles
  BY DEF EditHooks
<1>2. tomlFiles' \in [Layers -> TomlFile] /\ FieldsAreHeld'
  BY <1>1 DEF ScopeInv, ScopeTypes, FieldsAreHeld, Contributes
<1>3. hookFiles \in [Layers -> HookFile] /\ hookFiles[l].regs \subseteq HookReg
  BY DEF ScopeInv, ScopeTypes, HookFile
<1>4. ~MixedGroups => \A r \in hookFiles[l].regs : ~r.mixed
  BY DEF ScopeInv, GroupsAreClean
<1>5. hookFiles' \in [Layers -> HookFile] /\ (~MixedGroups => GroupsAreClean')
  <2>1. CASE \E e \in HookEvents, ns \in Pins, url \in {"", "s", "t"}, mix \in {FALSE, MixedGroups} :
               hookFiles' = [hookFiles EXCEPT ![l].regs = @ \cup {[Wire(ns, url, e) EXCEPT !.mixed = mix]}]
    <3>1. PICK e \in HookEvents, ns \in Pins, url \in {"", "s", "t"}, mix \in {FALSE, MixedGroups} :
               hookFiles' = [hookFiles EXCEPT ![l].regs = @ \cup {[Wire(ns, url, e) EXCEPT !.mixed = mix]}]
      BY <2>1
    <3> DEFINE w == [Wire(ns, url, e) EXCEPT !.mixed = mix]
               R == hookFiles[l].regs \cup {w}
    <3>2. w \in HookReg /\ w.mixed = mix
      BY MixedIsBoolean DEF Wire, HookReg
    <3>3. R \in SUBSET HookReg
      BY <3>2, <1>3
    <3>5. ASSUME ~MixedGroups PROVE \A r \in R : ~r.mixed
      <4>1. ~mix
        BY <3>5
      <4>2. ~w.mixed
        BY <4>1, <3>2
      <4> HIDE DEF w
      <4> QED
        BY <4>2, <1>4, <3>5
    <3>4. hookFiles' = [hookFiles EXCEPT ![l].regs = R]
      BY <3>1
    <3> HIDE DEF R
    <3> QED
      BY <3>3, <3>4, <3>5, HooksChange
  <2>2. CASE \E r \in hookFiles[l].regs : hookFiles' = [hookFiles EXCEPT ![l].regs = @ \ {r}]
    <3>1. PICK r \in hookFiles[l].regs : hookFiles' = [hookFiles EXCEPT ![l].regs = @ \ {r}]
      BY <2>2
    <3> DEFINE R == hookFiles[l].regs \ {r}
    <3>2. R \in SUBSET HookReg /\ (~MixedGroups => \A q \in R : ~q.mixed)
      BY <1>3, <1>4
    <3>3. hookFiles' = [hookFiles EXCEPT ![l].regs = R]
      BY <3>1
    <3> HIDE DEF R
    <3> QED
      BY <3>2, <3>3, HooksChange
  <2>3. CASE hookFiles' = [hookFiles EXCEPT ![l].ok = FALSE]
    <3>1. /\ \A k \in Layers \ {l} : hookFiles'[k] = hookFiles[k]
          /\ hookFiles'[l] = [hookFiles[l] EXCEPT !.ok = FALSE]
          /\ DOMAIN hookFiles' = Layers
      BY <2>3, <1>3
    <3>2. hookFiles'[l] \in HookFile /\ hookFiles'[l].regs = hookFiles[l].regs
      BY <3>1, <1>3 DEF HookFile
    <3>3. hookFiles' \in [Layers -> HookFile]
      BY <2>3, <3>1, <3>2, <1>3
    <3>4. \A k \in Layers : hookFiles'[k].regs = hookFiles[k].regs
      BY <3>1, <3>2
    <3> QED
      BY <3>3, <3>4 DEF ScopeInv, GroupsAreClean
  <2> QED
    BY <2>1, <2>2, <2>3 DEF EditHooks
<1> QED
  BY <1>1, <1>2, <1>5, EditKeepsInv DEF TextEdited

\* A field, the shape or the features of config.toml are changed by hand.
LEMMA EditTomlKeeps ==
  ASSUME ScopeInv, NEW l \in Layers, EditToml(l)
  PROVE  ScopeInv'
<1>1. Editing /\ ScopeEdited /\ hookFiles' = hookFiles
  BY DEF EditToml
<1>2. hookFiles' \in [Layers -> HookFile] /\ (~MixedGroups => GroupsAreClean')
  BY <1>1 DEF ScopeInv, ScopeTypes, GroupsAreClean
<1>3. tomlFiles \in [Layers -> TomlFile] /\ tomlFiles[l] \in TomlFile
  BY DEF ScopeInv, ScopeTypes
<1>4. tomlFiles[l].fields \in FieldSets
  BY <1>3 DEF TomlFile
<1>5. \A x \in Fields : tomlFiles[l].fields[x] # {} => tomlFiles[l].table \/ tomlFiles[l].sub
  BY DEF ScopeInv, FieldsAreHeld, Contributes
<1>6. tomlFiles' \in [Layers -> TomlFile] /\ FieldsAreHeld'
  <2>1. ASSUME NEW x \in Fields, NEW v, v \subseteq FieldValues(x),
               tomlFiles' = [tomlFiles EXCEPT ![l].fields[x] = v, ![l].table = @ \/ x \in DOMAIN MainFields,
                                              ![l].sub = @ \/ x \in DOMAIN HeaderFields]
        PROVE  tomlFiles' \in [Layers -> TomlFile] /\ FieldsAreHeld'
    <3> DEFINE F == [tomlFiles[l].fields EXCEPT ![x] = v]
               tab == tomlFiles[l].table \/ x \in DOMAIN MainFields
               su == tomlFiles[l].sub \/ x \in DOMAIN HeaderFields
               t == [tomlFiles[l] EXCEPT !.fields = F, !.table = tab, !.sub = su]
    <3>1. F \in FieldSets /\ \A y \in Fields : F[y] # {} => tomlFiles[l].fields[y] # {} \/ y = x
      <4>1. v \in SUBSET {"s", "t", "K", "true", "false", "h", "c", "x", "n", "m", "V", "a"}
        BY <2>1, ValuesAreKnown
      <4> QED
        BY <4>1, <1>4, <2>1 DEF FieldSets
    <3>2. tab \in BOOLEAN /\ su \in BOOLEAN
      BY <1>3 DEF TomlFile
    <3>3. x \in DOMAIN MainFields \/ x \in DOMAIN HeaderFields
      BY DEF Fields
    <3>4. tomlFiles' = [tomlFiles EXCEPT ![l] = t]
      BY <2>1, <1>3 DEF TomlFile
    <3>5. \A y \in Fields : F[y] # {} => tab \/ su
      BY <3>1, <3>3, <1>5
    <3> HIDE DEF F, tab, su
    <3>6. t \in TomlFile /\ t.fields = F /\ t.table = tab /\ t.sub = su
      BY <3>1, <3>2, <1>3 DEF TomlFile
    <3>7. \A y \in Fields : t.fields[y] # {} => t.table \/ t.sub
      BY <3>5, <3>6
    <3> HIDE DEF t
    <3> QED
      BY <3>4, <3>6, <3>7, TomlChange
  <2>2. ASSUME NEW s \in Shapes, tomlFiles' = [tomlFiles EXCEPT ![l].shape = s]
        PROVE  tomlFiles' \in [Layers -> TomlFile] /\ FieldsAreHeld'
    <3> DEFINE t == [tomlFiles[l] EXCEPT !.shape = s]
    <3>1. t \in TomlFile /\ t.fields = tomlFiles[l].fields /\ t.table = tomlFiles[l].table /\ t.sub = tomlFiles[l].sub
      BY <1>3 DEF TomlFile
    <3>2. tomlFiles' = [tomlFiles EXCEPT ![l] = t]
      BY <2>2, <1>3 DEF TomlFile
    <3> HIDE DEF t
    <3> QED
      BY <3>1, <3>2, <1>5, TomlChange
  <2>3. ASSUME NEW b \in {"true", "false"}, tomlFiles' = [tomlFiles EXCEPT ![l].features = b]
        PROVE  tomlFiles' \in [Layers -> TomlFile] /\ FieldsAreHeld'
    <3> DEFINE t == [tomlFiles[l] EXCEPT !.features = b]
    <3>1. t \in TomlFile /\ t.fields = tomlFiles[l].fields /\ t.table = tomlFiles[l].table /\ t.sub = tomlFiles[l].sub
      BY <1>3 DEF TomlFile
    <3>2. tomlFiles' = [tomlFiles EXCEPT ![l] = t]
      BY <2>3, <1>3 DEF TomlFile
    <3> HIDE DEF t
    <3> QED
      BY <3>1, <3>2, <1>5, TomlChange
  <2> QED
    BY <2>1, <2>2, <2>3 DEF EditToml
<1> QED
  BY <1>1, <1>2, <1>6, EditKeepsInv DEF TextEdited

-----------------------------------------------------------------------------
(* The verifier and the doctor *)

\* No set of two header values counts as one.
LEMMA OneStatic ==
  ASSUME NEW S \in SUBSET {"n", "m"}, Cardinality(S) <= 1
  PROVE  \A a, b \in S : a = b
<1>1. SUFFICES ASSUME NEW a \in S, NEW b \in S, a # b PROVE FALSE
  OBVIOUS
<1>2. S = {"n", "m"}
  BY <1>1
<1>3. Cardinality({"n", "m"}) = 2
  <2>1. IsFiniteSet({"n"}) /\ Cardinality({"n"}) = 1
    BY FS_Singleton
  <2>2. Cardinality({"n"} \cup {"m"}) = Cardinality({"n"}) + 1
    BY <2>1, FS_AddElement
  <2>3. {"n"} \cup {"m"} = {"n", "m"}
    OBVIOUS
  <2> QED
    BY <2>1, <2>2, <2>3
<1> QED
  BY <1>2, <1>3

\* What the inspector sees of a layer are values of the fields.
LEMMA SeenTyped ==
  ASSUME ScopeTypes
  PROVE  \A l \in Layers : \A x \in Fields : Seen(l)[x] \subseteq FieldValues(x)
<1> SUFFICES ASSUME NEW l \in Layers, NEW x \in Fields PROVE Seen(l)[x] \subseteq FieldValues(x)
  OBVIOUS
<1>1. tomlFiles[l] \in TomlFile
  BY DEF ScopeTypes
<1>2. tomlFiles[l].fields \in FieldSets
  BY <1>1 DEF TomlFile
<1>3. tomlFiles[l].fields[x] \subseteq FieldValues(x)
  BY <1>2 DEF FieldSets
<1>4. Seen(l)[x] = IF SeenField(l, x) \/ SeenHeader(l, x) THEN tomlFiles[l].fields[x] ELSE {}
  BY DEF Seen
<1> QED
  BY <1>3, <1>4

\* ... and so is what it merges.
LEMMA MergedTyped ==
  ASSUME ScopeTypes, NEW x \in Fields
  PROVE  Merged(x) \subseteq FieldValues(x)
<1> DEFINE f == [l \in Layers |-> Seen(l)]
           D == {l \in {k \in distinctScopePaths : Contributes(k)} : f[l][x] # {}}
<1>1. Merged(x) = IF D = {} THEN {} ELSE f[IF "project" \in D THEN "project" ELSE "global"][x]
  BY DEF Merged, Highest
<1>2. f["project"] = Seen("project") /\ f["global"] = Seen("global")
  BY DEF Layers
<1>3. Seen("project")[x] \subseteq FieldValues(x) /\ Seen("global")[x] \subseteq FieldValues(x)
  BY SeenTyped DEF Layers
<1> HIDE DEF f, D
<1> QED
  BY <1>1, <1>2, <1>3

\* effectiveCodexHeaders picks one of the namespaces that the entry names, "" if none.
LEMMA HeaderTyped ==
  ASSUME ScopeTypes
  PROVE  /\ Static \subseteq {"n", "m"} /\ FromEnv \subseteq {"m"}
         /\ effectiveCodexHeaders \in IF FromEnv # {} THEN FromEnv ELSE IF Static # {} THEN Static ELSE {""}
         /\ effectiveCodexHeaders \in Pins
<1>1. Static \subseteq {"n", "m"}
  BY MergedTyped, ValuesOfFields, FieldNames DEF Static
<1>2. FromEnv \subseteq {"m"}
  BY DEF FromEnv, ScopeTypes
<1> DEFINE T == IF FromEnv # {} THEN FromEnv ELSE IF Static # {} THEN Static ELSE {""}
<1>3. effectiveCodexHeaders = CHOOSE v \in T : TRUE
  BY DEF effectiveCodexHeaders
<1>4. T # {} /\ T \subseteq Pins
  BY <1>1, <1>2 DEF Pins
<1>5. effectiveCodexHeaders \in T
  <2> HIDE DEF T
  <2> QED
    BY <1>3, <1>4
<1> QED
  BY <1>1, <1>2, <1>4, <1>5

\* The commands that the verifier enumerates.
LEMMA RegsTyped ==
  ASSUME ScopeTypes
  PROVE  EnumerateCodexHookScopes \subseteq HookReg
<1>1. \A l \in Layers : hookFiles[l].regs \subseteq HookReg
  BY DEF ScopeTypes, HookFile
<1> QED
  BY <1>1, LayerNames DEF EnumerateCodexHookScopes, inspectCodexHookScope

\* What codexVerifyScopes records has its shape.
LEMMA ReadingTyped ==
  ASSUME ScopeTypes
  PROVE  Reading \in ScopeEntry
<1>1. (HookProblem \/ EntryProblem) \in BOOLEAN
  BY DEF HookProblem
<1>2. {Lands(r) : r \in {q \in EnumerateCodexHookScopes : q.url = "s"}} \subseteq {"p", "n", "m"}
  <2>1. \A r \in HookReg : Lands(r) \in {"p", "n", "m"}
    BY DEF HookReg, Lands, Pins
  <2> QED
    BY <2>1, RegsTyped
<1>3. (IF MergeCodexMCPScopes THEN effectiveCodexHeaders ELSE "") \in Pins
  <2>1. "" \in Pins
    BY DEF Pins
  <2> QED
    BY <2>1, HeaderTyped
<1> QED
  BY <1>1, <1>2, <1>3 DEF Reading, ScopeEntry

\* The reading depends on the files, the environment and the probe alone.
LEMMA ReadingStays ==
  ASSUME UNCHANGED <<hookFiles, tomlFiles, aliased, environ, probe>>
  PROVE  Reading' = Reading
<1>1. distinctScopePaths' = distinctScopePaths /\ EnumerateCodexHookScopes' = EnumerateCodexHookScopes
  BY DEF distinctScopePaths, EnumerateCodexHookScopes, inspectCodexHookScope
<1>2. HookProblem' = HookProblem
  BY <1>1 DEF HookProblem
<1> USE <1>1 DEF Seen, SeenField, SeenHeader, Contributes, Merged
<1>3. Static' = Static /\ FromEnv' = FromEnv
  BY DEF Static, FromEnv
<1>4. effectiveCodexHeaders' = effectiveCodexHeaders
  BY <1>3 DEF effectiveCodexHeaders
<1>5. TransportMixed' = TransportMixed /\ HeaderAuth' = HeaderAuth
  BY DEF TransportMixed, HeaderAuth
<1>6. MergeCodexMCPScopes' = MergeCodexMCPScopes
  BY <1>3, <1>5 DEF MergeCodexMCPScopes, inspectCodexMCPScope, tomlCodeLineStarts, auditCodexForeignLine,
                    parseTOMLTableHeader, parseTOMLString, DefinedOnce
<1>7. codexAuthProblem' = codexAuthProblem
  BY <1>5 DEF codexAuthProblem
<1>8. EntryProblem' = EntryProblem
  BY <1>6, <1>7 DEF EntryProblem
<1> QED
  BY <1>1, <1>2, <1>4, <1>6, <1>8 DEF Reading

\* codexVerifyScopes records the reading.
LEMMA VerifyKeeps ==
  ASSUME ScopeInv, codexVerifyScopes
  PROVE  ScopeInv'
<1>1. /\ inspected' = Reading /\ verdict' = "probing"
      /\ UNCHANGED <<hookFiles, tomlFiles, aliased, environ, probe, edits>>
  BY DEF codexVerifyScopes, Reading
<1>2. Reading \in ScopeEntry
  BY ReadingTyped DEF ScopeInv
<1>3. ScopeTypes'
  BY <1>1, <1>2 DEF ScopeInv, ScopeTypes, Verdicts
<1>4. FieldsAreHeld' /\ (~MixedGroups => GroupsAreClean')
  BY <1>1 DEF ScopeInv, FieldsAreHeld, Contributes, GroupsAreClean
<1>5. Reading' = Reading
  BY <1>1, ReadingStays
<1>6. VerdictStands'
  BY <1>1, <1>5 DEF VerdictStands
<1> QED
  BY <1>3, <1>4, <1>6 DEF ScopeInv

\* printCodexVerify answers for files that nobody edited since.
LEMMA PrintKeeps ==
  ASSUME ScopeInv, printCodexVerify
  PROVE  ScopeInv'
<1>1. /\ verdict = "probing" /\ UNCHANGED <<hookFiles, tomlFiles, aliased, environ, probe, inspected, edits>>
      /\ verdict' \in {"failed", IF inspected.problems THEN "unverified" ELSE IF Mismatch THEN "mismatch" ELSE "ok"}
  BY DEF printCodexVerify
<1>2. verdict' \in {"failed", "unverified", "mismatch", "ok"} /\ (verdict' = "ok" => ~inspected.problems /\ ~Mismatch)
  BY <1>1
<1>3. ScopeTypes'
  BY <1>1, <1>2 DEF ScopeInv, ScopeTypes, Verdicts
<1>4. FieldsAreHeld' /\ (~MixedGroups => GroupsAreClean')
  BY <1>1 DEF ScopeInv, FieldsAreHeld, Contributes, GroupsAreClean
<1>5. inspected' = Reading'
  BY <1>1, ReadingStays DEF ScopeInv, VerdictStands
<1>6. Mismatch' = Mismatch
  BY <1>1 DEF Mismatch, Whoami
<1>7. VerdictStands'
  BY <1>1, <1>2, <1>5, <1>6 DEF VerdictStands
<1> QED
  BY <1>3, <1>4, <1>7 DEF ScopeInv

\* doctorCodex says "healthy" of files that are wired.
LEMMA DoctorKeeps ==
  ASSUME ScopeInv, doctorCodex
  PROVE  ScopeInv'
<1>1. UNCHANGED <<hookFiles, tomlFiles, aliased, environ, probe, inspected, edits>>
  BY DEF doctorCodex
<1>2. verdict' \in {"healthy", "failing"} /\ (verdict' = "healthy" => WiredGlobally)
  BY DEF doctorCodex, WiredGlobally
<1>3. ScopeTypes'
  BY <1>1, <1>2 DEF ScopeInv, ScopeTypes, Verdicts
<1>4. FieldsAreHeld' /\ (~MixedGroups => GroupsAreClean')
  BY <1>1 DEF ScopeInv, FieldsAreHeld, Contributes, GroupsAreClean
<1>5. WiredGlobally' = WiredGlobally
  BY <1>1 DEF WiredGlobally, doctorReadCodexWiring, doctorCodexFeaturesHooks, inspectCodexHookScope
<1>6. VerdictStands'
  BY <1>2, <1>5 DEF VerdictStands
<1> QED
  BY <1>3, <1>4, <1>6 DEF ScopeInv

\* Every step keeps the invariant.
LEMMA ScopeStepKeeps == ScopeInv /\ [ScopeNext]_scopeVars => ScopeInv'
<1> SUFFICES ASSUME ScopeInv, [ScopeNext]_scopeVars PROVE ScopeInv'
  OBVIOUS
<1>1. ASSUME NEW l \in Layers, NEW url \in {"s", "t"}, Connect(l, url) PROVE ScopeInv'
  BY <1>1, ConnectKeeps
<1>2. ASSUME NEW l \in distinctScopePaths, EditHooks(l) PROVE ScopeInv'
  BY <1>2, EditHooksKeeps, LayerNames
<1>3. ASSUME NEW l \in distinctScopePaths, EditToml(l) PROVE ScopeInv'
  BY <1>3, EditTomlKeeps, LayerNames
<1>4. CASE codexVerifyScopes
  BY <1>4, VerifyKeeps
<1>5. CASE printCodexVerify
  BY <1>5, PrintKeeps
<1>6. CASE doctorCodex
  BY <1>6, DoctorKeeps
<1>7. CASE UNCHANGED scopeVars
  <2>1. UNCHANGED <<hookFiles, tomlFiles, aliased, environ, probe, inspected, verdict, edits>>
    BY <1>7 DEF scopeVars
  <2>2. ScopeTypes'
    BY <2>1 DEF ScopeInv, ScopeTypes
  <2>3. FieldsAreHeld' /\ (~MixedGroups => GroupsAreClean')
    BY <2>1 DEF ScopeInv, FieldsAreHeld, Contributes, GroupsAreClean
  <2>4. Reading' = Reading
    BY <2>1, ReadingStays
  <2>5. Mismatch' = Mismatch /\ WiredGlobally' = WiredGlobally
    BY <2>1 DEF Mismatch, Whoami, WiredGlobally, doctorReadCodexWiring, doctorCodexFeaturesHooks, inspectCodexHookScope
  <2>6. VerdictStands'
    BY <2>1, <2>4, <2>5 DEF ScopeInv, VerdictStands
  <2> QED
    BY <2>2, <2>3, <2>6 DEF ScopeInv
<1> QED
  BY <1>1, <1>2, <1>3, <1>4, <1>5, <1>6, <1>7 DEF ScopeNext

-----------------------------------------------------------------------------
(* What a verdict is worth *)

\* The shapes of the invariant are those of the type invariant.
LEMMA TypesGiveTypeOK == ScopeTypes => ScopeTypeOK
<1> SUFFICES ASSUME ScopeTypes PROVE ScopeTypeOK
  OBVIOUS
<1>1. \A l \in Layers : hookFiles[l].ok \in BOOLEAN /\ hookFiles[l].regs \subseteq HookReg
  BY DEF ScopeTypes, HookFile
<1>2. \A l \in Layers : tomlFiles[l].shape \in Shapes /\ tomlFiles[l].features \in {"", "true", "false"}
                        /\ tomlFiles[l].fields \in FieldSets
  BY DEF ScopeTypes, TomlFile
<1>3. \A l \in Layers : \A x \in Fields : tomlFiles[l].fields[x] \in SUBSET FieldValues(x)
  BY <1>2 DEF FieldSets
<1>4. inspected.problems \in BOOLEAN /\ inspected.captures \subseteq {"p", "n", "m"} /\ inspected.pin \in Pins
  BY DEF ScopeTypes, ScopeEntry
<1> QED
  BY <1>1, <1>2, <1>3, <1>4 DEF ScopeTypes, ScopeTypeOK, Verdicts, HookReg

\* Every layer that can be read as it is meant shows the verifier what Codex sees.
LEMMA MergedIsCodex ==
  ASSUME ScopeTypes, FieldsAreHeld, MergeCodexMCPScopes, NEW x \in Fields
  PROVE  Merged(x) = CodexField(x)
<1>1. \A l \in distinctScopePaths : tomlFiles[l].shape # "dotted"
  BY DEF MergeCodexMCPScopes, inspectCodexMCPScope, auditCodexForeignLine
<1>2. x \in DOMAIN MainFields \/ x \in DOMAIN HeaderFields
  BY DEF Fields
<1>3. \A l \in distinctScopePaths : Seen(l)[x] = tomlFiles[l].fields[x]
  BY <1>1, <1>2 DEF Seen, SeenField, SeenHeader
<1> DEFINE f == [l \in Layers |-> Seen(l)]
           g == [l \in Layers |-> tomlFiles[l].fields]
           D == {l \in {k \in distinctScopePaths : Contributes(k)} : f[l][x] # {}}
           E == {l \in distinctScopePaths : g[l][x] # {}}
<1>4. \A l \in distinctScopePaths : f[l][x] = g[l][x] /\ (g[l][x] # {} => Contributes(l))
  BY <1>3, LayerNames DEF FieldsAreHeld
<1>5. D = E
  BY <1>4
<1>6. Merged(x) = IF D = {} THEN {} ELSE f[IF "project" \in D THEN "project" ELSE "global"][x]
  BY DEF Merged, Highest
<1>7. CodexField(x) = IF E = {} THEN {} ELSE g[IF "project" \in E THEN "project" ELSE "global"][x]
  BY DEF CodexField, Highest
<1>8. D # {} => (IF "project" \in D THEN "project" ELSE "global") \in distinctScopePaths
  BY LayerNames DEF Layers
<1> HIDE DEF f, g, D, E
<1> QED
  BY <1>4, <1>5, <1>6, <1>7, <1>8

\* With nothing left open, Codex opens a connection to the probed server, with the key of the probe, and every command that
\* fires captures where this connection reads: the merged entry is the one Codex reads, its header is unique, and the
\* captures agree with it.
LEMMA VerifierIsRight ==
  ASSUME ScopeTypes, FieldsAreHeld, GroupsAreClean, inspected = Reading, ~inspected.problems, ~Mismatch
  PROVE  /\ CodexSessions # {}
         /\ \A x \in CodexSessions : /\ x.url = "s" /\ x.key = probe.key
                                     /\ \A r \in CodexFires : r.url = "s" /\ Lands(r) = Whoami(x.ns, FALSE)
<1>1. /\ ~HookProblem /\ ~EntryProblem /\ inspected.pin = effectiveCodexHeaders
      /\ inspected.captures = {Lands(r) : r \in {q \in EnumerateCodexHookScopes : q.url = "s"}}
  BY DEF Reading, EntryProblem
<1>2. MergeCodexMCPScopes /\ Merged("enabled") # {"false"} /\ Merged("helper") = {} /\ Merged("url") = {"s"}
      /\ ~codexAuthProblem
  BY <1>1 DEF EntryProblem
<1>3. \A x \in Fields : Merged(x) = CodexField(x)
  BY <1>2, MergedIsCodex
<1>4. \A l \in distinctScopePaths : tomlFiles[l].shape \notin Unloadable
  BY <1>2 DEF MergeCodexMCPScopes, inspectCodexMCPScope, DefinedOnce, parseTOMLTableHeader, parseTOMLString, Unloadable
<1>5. Merged("command") = {} /\ Merged("args") = {}
  <2>1. ~TransportMixed
    BY <1>2 DEF MergeCodexMCPScopes
  <2>2. "url" \in Fields \ {"command", "args", "enabled"}
    BY FieldNames
  <2> QED
    BY <1>2, <2>1, <2>2 DEF TransportMixed
<1>6. /\ ~HeaderAuth
      /\ Merged("bearer") = {} => probe.key = ""
      /\ Merged("bearer") # {} => environ.K # "" /\ environ.K = probe.key
  BY <1>2 DEF codexAuthProblem
<1>7. CodexField("auth") = {}
  <2>1. \A l \in distinctScopePaths : Seen(l)["auth"] = {}
    BY <1>6 DEF HeaderAuth
  <2>2. Merged("auth") = {}
    <3> DEFINE f == [l \in Layers |-> Seen(l)]
    <3>1. {l \in {k \in distinctScopePaths : Contributes(k)} : f[l]["auth"] # {}} = {}
      BY <2>1, LayerNames
    <3> QED
      BY <3>1 DEF Merged, Highest
  <2> QED
    BY <2>2, <1>3, FieldNames
<1>8. ~(CodexField("authEnv") # {} /\ environ.K # "")
  BY <1>6, <1>3, FieldNames DEF HeaderAuth
<1> DEFINE static == CodexField("ns") \cup CodexField("nsLower")
           named == IF CodexField("nsEnv") # {} /\ environ.V # "" THEN {environ.V} ELSE static
           names == IF named = {} THEN {""} ELSE named
           keys == IF CodexField("bearer") # {} THEN {environ.K} ELSE {""}
<1>9. CodexSessions = [url : {"s"}, ns : names, key : keys]
  <2>1. /\ CodexField("args") = {} /\ CodexField("url") = {"s"} /\ CodexField("command") = {}
        /\ CodexField("enabled") # {"false"} /\ CodexField("helper") = {}
        /\ CodexField("bearer") # {} => environ.K # ""
    BY <1>2, <1>3, <1>5, <1>6, FieldNames
  <2> QED
    BY <2>1, <1>4, <1>7, <1>8 DEF CodexSessions
<1>10. keys = {probe.key}
  BY <1>6, <1>3, FieldNames
<1>11. names = {effectiveCodexHeaders}
  <2>1. static = Static
    BY <1>3, FieldNames DEF Static
  <2>2. Cardinality(Static) <= 1
    BY <1>2 DEF MergeCodexMCPScopes
  <2>3. \A a, b \in Static : a = b
    BY <2>2, HeaderTyped, OneStatic
  <2>4. CodexField("nsEnv") = Merged("nsEnv")
    BY <1>3, FieldNames
  <2>5. FromEnv = IF CodexField("nsEnv") # {} /\ environ.V # "" THEN {environ.V} ELSE {}
    BY <2>4 DEF FromEnv
  <2>6. effectiveCodexHeaders \in IF FromEnv # {} THEN FromEnv ELSE IF Static # {} THEN Static ELSE {""}
    BY HeaderTyped
  <2>7. CASE CodexField("nsEnv") # {} /\ environ.V # ""
    BY <2>5, <2>6, <2>7
  <2>8. CASE ~(CodexField("nsEnv") # {} /\ environ.V # "")
    <3>1. FromEnv = {} /\ named = Static
      BY <2>1, <2>5, <2>8
    <3>2. effectiveCodexHeaders \in IF Static # {} THEN Static ELSE {""}
      BY <3>1, <2>6
    <3> HIDE DEF named
    <3> QED
      BY <3>1, <3>2, <2>3
  <2> QED
    BY <2>7, <2>8
<1> HIDE DEF names, keys
<1>12. CodexSessions = [url : {"s"}, ns : {effectiveCodexHeaders}, key : {probe.key}]
  BY <1>9, <1>10, <1>11
<1>13. CodexSessions # {}
  <2>1. [url |-> "s", ns |-> effectiveCodexHeaders, key |-> probe.key] \in CodexSessions
    BY <1>12
  <2> QED
    BY <2>1
<1>14. CodexFires \subseteq EnumerateCodexHookScopes /\ \A r \in EnumerateCodexHookScopes : r.url = "s"
  <2>1. \A r \in EnumerateCodexHookScopes : r.url = "s"
    BY <1>1 DEF HookProblem
  <2>2. \A l \in distinctScopePaths : hookFiles[l].regs \subseteq inspectCodexHookScope(l)
    BY LayerNames DEF GroupsAreClean, inspectCodexHookScope
  <2> QED
    BY <2>1, <2>2 DEF CodexFires, EnumerateCodexHookScopes
<1>15. \A r \in CodexFires : r.url = "s" /\ Lands(r) = Whoami(effectiveCodexHeaders, FALSE)
  <2> SUFFICES ASSUME NEW r \in CodexFires
               PROVE  r.url = "s" /\ Lands(r) = Whoami(effectiveCodexHeaders, FALSE)
    OBVIOUS
  <2>1. r.url = "s" /\ Lands(r) \in inspected.captures
    BY <1>1, <1>14
  <2>2. Whoami(inspected.pin, FALSE) = Lands(r)
    BY <2>1 DEF Mismatch
  <2> QED
    BY <2>1, <2>2, <1>1
<1>16. \A x \in CodexSessions : x.url = "s" /\ x.key = probe.key /\ x.ns = effectiveCodexHeaders
  BY <1>12
<1> QED
  BY <1>13, <1>15, <1>16

\* A wired home with hooks on fires at every event.
LEMMA DoctorIsRight ==
  ASSUME ScopeTypes, GroupsAreClean, WiredGlobally, aliased \/ tomlFiles["project"].features # "false"
  PROVE  /\ \A l \in distinctScopePaths : tomlFiles[l].features # "false"
         /\ {r.event : r \in CodexFires} = HookEvents
<1>1. \A l \in distinctScopePaths : tomlFiles[l].features # "false"
  BY DEF WiredGlobally, doctorCodexFeaturesHooks, distinctScopePaths, Layers
<1>2. "global" \in distinctScopePaths
  BY DEF distinctScopePaths, Layers
<1>3. inspectCodexHookScope("global") \subseteq CodexFires
  BY <1>2 DEF WiredGlobally, inspectCodexHookScope, CodexFires
<1>4. HookEvents \subseteq {r.event : r \in CodexFires}
  BY <1>3 DEF WiredGlobally, doctorReadCodexWiring
<1>5. CodexFires \subseteq HookReg
  <2>1. \A l \in Layers : hookFiles[l].regs \subseteq HookReg
    BY DEF ScopeTypes, HookFile
  <2> QED
    BY <2>1, LayerNames DEF CodexFires
<1>6. \A r \in HookReg : r.event \in HookEvents
  BY DEF HookReg
<1> QED
  BY <1>1, <1>4, <1>5, <1>6

\* What the invariant says of a verdict is what ScopeSafety asks.
LEMMA ScopesAreSafe ==
  ASSUME ~MixedGroups, ScopeInv
  PROVE  ScopeSafety
<1>1. AlignmentIsTrue
  <2> SUFFICES ASSUME verdict = "ok"
               PROVE  /\ CodexSessions # {}
                      /\ \A x \in CodexSessions :
                           /\ x.url = "s" /\ x.key = probe.key
                           /\ \A r \in CodexFires : r.url = "s" /\ Lands(r) = Whoami(x.ns, FALSE)
    BY DEF AlignmentIsTrue
  <2>1. inspected = Reading /\ ~inspected.problems /\ ~Mismatch
    BY DEF ScopeInv, VerdictStands
  <2> QED
    BY <2>1, VerifierIsRight DEF ScopeInv
<1>2. DoctorIsSound
  <2> SUFFICES ASSUME verdict = "healthy", aliased \/ tomlFiles["project"].features # "false"
               PROVE  /\ \A l \in distinctScopePaths : tomlFiles[l].features # "false"
                      /\ {r.event : r \in CodexFires} = HookEvents
    BY DEF DoctorIsSound
  <2>1. WiredGlobally
    BY DEF ScopeInv, VerdictStands
  <2> QED
    BY <2>1, DoctorIsRight DEF ScopeInv
<1> QED
  BY <1>1, <1>2 DEF ScopeSafety

\* The invariant holds in every reachable state.
LEMMA ScopeInvAlways == ScopeSpec => []ScopeInv
BY ScopeInitHolds, ScopeStepKeeps, PTL DEF ScopeSpec

\* Every reachable state of the files of Codex, of what was read of them and of the verdict is well typed (cmd/punk: connect,
\* verify and doctor codex).
THEOREM ScopeTypeCorrect == ScopeSpec => []ScopeTypeOK
<1>1. ScopeInv => ScopeTypeOK
  BY TypesGiveTypeOK DEF ScopeInv
<1> QED
  BY <1>1, ScopeInvAlways, PTL

\* Where punk's commands stand in groups of their own, "namespace alignment ok" is true of what Codex will do, and a doctor
\* without a failing line saw an installation that captures, after any number of edits of any kind (codexVerifyScopes,
\* printCodexVerify, doctorCodex).  Without the hypothesis the verifier overlooks a command in a mixed group.
THEOREM VerdictsAreTrue == ASSUME ~MixedGroups PROVE ScopeSpec => []ScopeSafety
<1>1. ScopeInv => ScopeSafety
  BY ScopesAreSafe
<1> QED
  BY <1>1, ScopeInvAlways, PTL

-----------------------------------------------------------------------------
(* What a session is given *)

HookPlaces == {"idle", "new", "read", "fetch", "end"}
\* Where only the request of a session start can be, and only that of a turn.
SessionOnly == {"assemble", "compare", "marker", "prior"}
TurnOnly == {"turns", "seen", "search", "pid"}
AskPlaces == {"idle", "lock", "inject"} \cup SessionOnly \cup TurnOnly
AskIds == {""} \cup Nat \cup Reasons \cup Hosts
HookRec == [pc : HookPlaces, payload : Payloads, replied : BOOLEAN]
AskRec == [pc : AskPlaces, turn : BOOLEAN, id : AskIds, seen : SUBSET Nat, ids : SUBSET Nat, past : SUBSET AskIds]
Block == [turn : BOOLEAN, id : AskIds, n : Nat, ids : SUBSET Nat]
Books == [marker : {<<>>} \cup (AskIds \X SUBSET Nat), injected : SUBSET Nat, turns : SUBSET AskIds]
EventRec == [n : Nat, kind : EventKinds \cup {"none"}, reason : Reasons, last : Nat, told : SUBSET Nat]
SlipRec == [late : Nat, lost : Nat, again : Nat]
CaptureTypes ==
    /\ host \in Hosts /\ event \in EventRec
    /\ punk \in [Copies -> HookRec] /\ asks \in [Copies -> AskRec]
    /\ deliveries \subseteq Copies /\ \E m \in 1 .. KnownFacts : known = 1 .. m
    /\ books \in Books /\ printed \in Seq(Block) /\ slips \in SlipRec

\* A request belongs to a hook that waits for it, at the event the host is at; past the lock it is alone.
Placed(c) ==
    /\ asks[c].pc # "idle" => punk[c].pc = "fetch" /\ (asks[c].turn /\ host # "hermes" => asks[c].id = event.n)
    /\ asks[c].pc \notin {"idle", "lock"} => deliveries = {c}
    /\ asks[c].pc \in TurnOnly => asks[c].turn
    /\ asks[c].pc \in SessionOnly => ~asks[c].turn
    /\ asks[c].seen \subseteq known /\ asks[c].ids \subseteq known
AllPlaced == books.injected \subseteq known /\ \A c \in Copies : Placed(c)

\* What the holder of the lock read of the books still stands there, unless a read failed.
ReadWell(c) ==
    /\ asks[c].pc \in {"search", "inject"} => asks[c].seen = books.injected
    /\ asks[c].turn /\ asks[c].pc \in {"seen", "search", "inject", "pid"} =>
         asks[c].past = books.turns /\ asks[c].id \notin books.turns
    /\ asks[c].pc = "marker" => books.marker # <<asks[c].id, asks[c].ids>>
Current(c) ==
    /\ asks[c].turn /\ asks[c].pc \in {"seen", "search", "inject", "pid"} => asks[c].past \subseteq books.turns
    /\ asks[c].turn /\ asks[c].pc = "inject" => asks[c].ids \cap asks[c].seen = {}
    /\ asks[c].pc \in {"marker", "prior", "inject", "pid"} => asks[c].ids # {}
    /\ slips.lost = 0 => ReadWell(c)
\* The facts of the turn that is recorded next are booked and stand in no block.
Unseen(c) == asks[c].pc = "pid" /\ FactsFit =>
    asks[c].ids \subseteq books.injected /\ \A i \in DOMAIN printed : asks[c].ids \cap printed[i].ids = {}

\* The books hold what was printed, while no call of theirs is lost and they have room for it; a delivered turn was
\* printed in any case.
BooksAreFull ==
    \A i \in DOMAIN printed : /\ FactsFit => printed[i].ids \subseteq books.injected
                              /\ printed[i].turn /\ TurnsFit => printed[i].id \in books.turns
TurnsWerePrinted == \A t \in books.turns : \E i \in DOMAIN printed : printed[i].turn /\ printed[i].id = t
TurnsAreNumbered == host # "hermes" => \A i \in DOMAIN printed : printed[i].turn => printed[i].id = printed[i].n

\* The marker is the last session block, or the one that is under way and differs from it.
LastSession(i) == ~printed[i].turn /\ \A k \in i + 1 .. Len(printed) : printed[k].turn
PairOf(i) == <<printed[i].id, printed[i].ids>>
Marked(c) == asks[c].pc = "prior" \/ (asks[c].pc = "inject" /\ ~asks[c].turn)
MarkerIsLast ==
    /\ \A c \in Copies : Marked(c) =>
         /\ books.marker = <<asks[c].id, asks[c].ids>>
         /\ \A i \in DOMAIN printed : LastSession(i) => PairOf(i) # books.marker
    /\ (\A c \in Copies : ~Marked(c)) => \A i \in DOMAIN printed : LastSession(i) => PairOf(i) = books.marker

\* A turn repeats no fact and no turn; a session block does not repeat the one before it.
NoRepeat == \A i, j \in DOMAIN printed :
    i < j /\ printed[j].turn => /\ FactsFit => printed[i].ids \cap printed[j].ids = {}
                                /\ printed[i].turn /\ TurnsFit => printed[i].id # printed[j].id
NoEcho == \A i, j \in DOMAIN printed : Before(i, j) => PairOf(i) # PairOf(j)

HistoryInv == /\ TurnsWerePrinted /\ TurnsAreNumbered
              /\ slips.lost = 0 => BooksAreFull /\ NoRepeat /\ \A c \in Copies : Unseen(c)
              /\ slips.lost = 0 /\ slips.late = 0 => MarkerIsLast /\ NoEcho

\* A hook that ended gave the reply that is waited for, unless it had no credentials or its payload was no JSON.
Answered == \A c \in Copies :
    punk[c].pc = "end" => punk[c].replied = MustReply(host, event.kind) \/ host \in BadCredentials \/ Nameless(c)

CaptureInv == CaptureTypes /\ AllPlaced /\ (\A c \in Copies : Current(c)) /\ HistoryInv /\ Answered

-----------------------------------------------------------------------------
\* The constants that the proofs compute with.
LEMMA CaptureBounds ==
  KnownFacts \in Nat \ {0} /\ InjectedCap \in Nat \ {0} /\ TurnsCap \in Nat \ {0} /\ BadCredentials \subseteq Hosts
BY CaptureConstants

\* The fields of no request.
LEMMA NoAskFields ==
  NoAsk \in AskRec /\ NoAsk.pc = "idle" /\ NoAsk.seen = {} /\ NoAsk.ids = {} /\ NoAsk.past = {}
BY DEF NoAsk, AskRec, AskPlaces, AskIds

\* ... and of no hook.
LEMMA NoHookFields == NoHook \in HookRec /\ NoHook.pc = "idle"
BY DEF NoHook, HookRec, HookPlaces, Payloads

\* The fields of a request have their types.
LEMMA AskFields ==
  ASSUME CaptureTypes, NEW c \in Copies
  PROVE  /\ asks[c] \in AskRec /\ asks[c].pc \in AskPlaces /\ asks[c].turn \in BOOLEAN /\ asks[c].id \in AskIds
         /\ asks[c].seen \subseteq Nat /\ asks[c].ids \subseteq Nat /\ asks[c].past \subseteq AskIds
<1>1. asks[c] \in AskRec
  BY DEF CaptureTypes
<1> QED
  BY <1>1 DEF AskRec

\* ... those of the books
LEMMA BookFields ==
  ASSUME CaptureTypes
  PROVE  /\ books.marker \in {<<>>} \cup (AskIds \X SUBSET Nat) /\ books.injected \subseteq Nat
         /\ books.turns \subseteq AskIds
BY DEF CaptureTypes, Books

\* ... and of the printed blocks.
LEMMA PrintedFields ==
  ASSUME CaptureTypes
  PROVE  /\ Len(printed) \in Nat /\ DOMAIN printed = 1 .. Len(printed)
         /\ \A i \in DOMAIN printed : printed[i] \in Block /\ printed[i].turn \in BOOLEAN /\ printed[i].id \in AskIds
                                      /\ printed[i].n \in Nat /\ printed[i].ids \subseteq Nat
<1>1. printed \in Seq(Block)
  BY DEF CaptureTypes
<1>2. Len(printed) \in Nat /\ DOMAIN printed = 1 .. Len(printed) /\ \A i \in DOMAIN printed : printed[i] \in Block
  BY <1>1
<1> QED
  BY <1>2 DEF Block

\* CaptureInit satisfies the invariant.
LEMMA CaptureInitHolds == CaptureInit => CaptureInv
<1> SUFFICES ASSUME CaptureInit PROVE CaptureInv
  OBVIOUS
<1>1. CaptureTypes
  <2>1. host \in Hosts
    BY DEF CaptureInit
  <2>2. event \in EventRec
    BY DEF CaptureInit, EventRec, Reasons
  <2>3. punk \in [Copies -> HookRec] /\ asks \in [Copies -> AskRec] /\ deliveries \subseteq Copies
    BY NoAskFields, NoHookFields DEF CaptureInit
  <2>4. \E m \in 1 .. KnownFacts : known = 1 .. m
    <3>1. 1 \in 1 .. KnownFacts /\ known = 1 .. 1
      BY CaptureBounds DEF CaptureInit
    <3> QED
      BY <3>1
  <2>5. books \in Books /\ slips \in SlipRec
    BY DEF CaptureInit, Books, SlipRec
  <2>6. printed \in Seq(Block)
    BY DEF CaptureInit
  <2> QED
    BY <2>1, <2>2, <2>3, <2>4, <2>5, <2>6 DEF CaptureTypes
<1>2. \A c \in Copies : asks[c] = NoAsk /\ punk[c] = NoHook
  BY DEF CaptureInit
<1>3. books.injected = {} /\ books.turns = {} /\ printed = <<>> /\ DOMAIN printed = {}
  BY DEF CaptureInit
<1>4. AllPlaced
  BY <1>2, <1>3, NoAskFields DEF AllPlaced, Placed, TurnOnly, SessionOnly
<1>5. \A c \in Copies : Current(c)
  BY <1>2, NoAskFields DEF Current, ReadWell
<1>6. HistoryInv
  <2>1. TurnsWerePrinted /\ TurnsAreNumbered /\ BooksAreFull /\ NoRepeat /\ NoEcho
    BY <1>3 DEF TurnsWerePrinted, TurnsAreNumbered, BooksAreFull, NoRepeat, NoEcho
  <2>2. \A c \in Copies : Unseen(c)
    BY <1>2, NoAskFields DEF Unseen
  <2>3. MarkerIsLast
    BY <1>2, <1>3, NoAskFields DEF MarkerIsLast, Marked
  <2> QED
    BY <2>1, <2>2, <2>3 DEF HistoryInv
<1>7. Answered
  BY <1>2, NoHookFields DEF Answered
<1> QED
  BY <1>1, <1>4, <1>5, <1>6, <1>7 DEF CaptureInv

-----------------------------------------------------------------------------
(* What a step leaves alone *)

SlipsGrow == /\ slips' \in SlipRec
             /\ slips'.lost = 0 => slips.lost = 0
             /\ slips'.late = 0 => slips.late = 0

\* A slip counts in one direction.
LEMMA SlipGrows ==
  ASSUME CaptureTypes, NEW f \in {"late", "lost", "again"}, Slip(f)
  PROVE  SlipsGrow /\ slips'[f] > 0
<1>1. slips \in SlipRec /\ slips' = [slips EXCEPT ![f] = @ + 1]
  BY DEF CaptureTypes, Slip
<1>2. CASE f = "late"
  BY <1>1, <1>2 DEF SlipsGrow, SlipRec
<1>3. CASE f = "lost"
  BY <1>1, <1>3 DEF SlipsGrow, SlipRec
<1>4. CASE f = "again"
  BY <1>1, <1>4 DEF SlipsGrow, SlipRec
<1> QED
  BY <1>2, <1>3, <1>4

\* ... and none counts as nothing.
LEMMA SlipsStay == ASSUME CaptureTypes, slips' = slips PROVE SlipsGrow
BY DEF SlipsGrow, CaptureTypes

\* What a book keeps of the read and the new entries are some of them, and all of them if it has room.
LEMMA LatestKeeps ==
  ASSUME NEW old, NEW new, NEW cap \in Nat, NEW S \in Latest(old, new, cap)
  PROVE  /\ S \subseteq old \cup new
         /\ \A T : IsFiniteSet(T) /\ old \cup new \subseteq T /\ Cardinality(T) <= cap => S = old \cup new
<1>1. S \subseteq old \cup new /\ (S = old \cup new \/ Cardinality(S) = cap)
  BY DEF Latest
<1>2. ASSUME NEW T, IsFiniteSet(T), old \cup new \subseteq T, Cardinality(T) <= cap PROVE S = old \cup new
  <2>1. IsFiniteSet(old \cup new) /\ Cardinality(old \cup new) <= Cardinality(T)
    BY <1>2, FS_Subset
  <2>2. Cardinality(S) <= Cardinality(old \cup new) /\ (Cardinality(old \cup new) = Cardinality(S) => S = old \cup new)
    BY <1>1, <2>1, FS_Subset
  <2>3. Cardinality(T) \in Nat /\ Cardinality(old \cup new) \in Nat
    BY <1>2, <2>1, FS_CardinalityType
  <2> QED
    BY <1>1, <1>2, <2>1, <2>2, <2>3
<1> QED
  BY <1>1, <1>2

\* The facts are finitely many ...
LEMMA FactsFinite == ASSUME CaptureTypes PROVE IsFiniteSet(known)
<1>1. PICK m \in 1 .. KnownFacts : known = 1 .. m
  BY DEF CaptureTypes
<1>2. m \in Nat
  BY <1>1, CaptureBounds
<1> QED
  BY <1>1, <1>2, FS_Interval

\* ... and so are the turns of a history.
LEMMA TurnsFinite ==
  ASSUME NEW p \in Seq(Block)
  PROVE  IsFiniteSet({p[i].id : i \in {j \in DOMAIN p : p[j].turn}})
<1> DEFINE T == {j \in DOMAIN p : p[j].turn}
           f == [i \in T |-> p[i].id]
<1>1. DOMAIN p = 1 .. Len(p) /\ Len(p) \in Nat
  OBVIOUS
<1>2. IsFiniteSet(1 .. Len(p))
  BY <1>1, FS_Interval
<1>3. IsFiniteSet(T)
  BY <1>1, <1>2, FS_Subset
<1>4. f \in [T -> {f[i] : i \in T}]
  OBVIOUS
<1> HIDE DEF T
<1> HIDE DEF f
<1>5. IsFiniteSet({f[i] : i \in T})
  <2>1. f \in Surjection(T, {f[i] : i \in T})
    BY <1>4 DEF Surjection
  <2> QED
    BY <1>3, <2>1, FS_Surjection
<1>6. {f[i] : i \in T} = {p[i].id : i \in T}
  BY DEF f
<1> QED
  BY <1>5, <1>6 DEF T

\* The same facts and the same blocks fit as before.
LEMMA FitStays ==
  ASSUME UNCHANGED known
  PROVE  (FactsFit' <=> FactsFit) /\ (printed' = printed => (TurnsFit' <=> TurnsFit))
BY DEF FactsFit, TurnsFit, DeliveredTurns, TurnBlocks

\* A copy that does not move keeps its place, unless it holds the lock of a delivery that is answered.
LEMMA OtherKept ==
  ASSUME CaptureInv, NEW d \in Copies, asks'[d] = asks[d], punk'[d] = punk[d], UNCHANGED <<host, event, known>>, SlipsGrow,
         \/ asks[d].pc \in {"idle", "lock"}
         \/ books' = books /\ (deliveries = {d} => deliveries' = {d})
  PROVE  Placed(d)' /\ Current(d)'
<1>1. Placed(d) /\ Current(d)
  BY DEF CaptureInv, AllPlaced
<1>2. Placed(d)'
  BY <1>1 DEF Placed, TurnOnly, SessionOnly
<1>3. Current(d)'
  BY <1>1 DEF Current, ReadWell, SlipsGrow
<1> QED
  BY <1>2, <1>3

\* The others wait for the lock, or ask nothing.
LEMMA OthersWait ==
  ASSUME CaptureInv, NEW c \in Copies, deliveries = {c} \/ deliveries = {}
  PROVE  \A d \in Copies \ {c} : asks[d].pc \in {"idle", "lock"}
BY DEF CaptureInv, AllPlaced, Placed

\* Nothing is printed or booked, no mark is set or taken, and what is under way stays so; or a loss makes it void.
LEMMA HistoryKept ==
  ASSUME CaptureInv, UNCHANGED <<books, printed, host>>, SlipsGrow, FactsFit' => FactsFit,
         \/ slips'.lost # 0
         \/ \A c \in Copies : asks'[c].pc = "pid" => asks[c].pc = "pid" /\ asks'[c].ids = asks[c].ids,
         \/ slips'.lost # 0 \/ slips'.late # 0
         \/ \A c \in Copies : /\ Marked(c)' <=> Marked(c)
                              /\ Marked(c) => asks'[c].id = asks[c].id /\ asks'[c].ids = asks[c].ids
  PROVE  HistoryInv'
<1>1. TurnsWerePrinted' /\ TurnsAreNumbered'
  BY DEF CaptureInv, HistoryInv, TurnsWerePrinted, TurnsAreNumbered
<1>2. ASSUME slips'.lost = 0 PROVE BooksAreFull' /\ NoRepeat' /\ \A c \in Copies : Unseen(c)'
  <2>1. BooksAreFull /\ NoRepeat /\ \A c \in Copies : Unseen(c)
    BY <1>2 DEF CaptureInv, HistoryInv, SlipsGrow
  <2>2. BooksAreFull' /\ NoRepeat'
    <3>1. TurnsFit' <=> TurnsFit
      BY DEF TurnsFit, DeliveredTurns, TurnBlocks
    <3> QED
      BY <2>1, <3>1 DEF BooksAreFull, NoRepeat
  <2>3. \A c \in Copies : Unseen(c)'
    BY <1>2, <2>1 DEF Unseen
  <2> QED
    BY <2>2, <2>3
<1>3. ASSUME slips'.lost = 0, slips'.late = 0 PROVE MarkerIsLast' /\ NoEcho'
  <2>1. MarkerIsLast /\ NoEcho
    BY <1>3 DEF CaptureInv, HistoryInv, SlipsGrow
  <2>2. \A i : LastSession(i)' <=> LastSession(i)
    BY DEF LastSession
  <2>3. \A i : PairOf(i)' = PairOf(i)
    BY DEF PairOf
  <2>4. NoEcho'
    BY <2>1, <2>3 DEF NoEcho, Before
  <2>5. MarkerIsLast'
    BY <1>3, <2>1, <2>2, <2>3 DEF MarkerIsLast
  <2> QED
    BY <2>4, <2>5
<1> QED
  BY <1>1, <1>2, <1>3 DEF HistoryInv

-----------------------------------------------------------------------------
(* The host and the hooks *)

\* The hooks move, the requests do not.
LEMMA HooksMove ==
  ASSUME CaptureInv, punk' \in [Copies -> HookRec], UNCHANGED <<host, asks, deliveries, books, printed>>,
         event' \in EventRec, SlipsGrow, known \subseteq known', \E m \in 1 .. KnownFacts : known' = 1 .. m,
         \A c \in Copies : asks[c].pc # "idle" => punk'[c].pc = punk[c].pc /\ event' = event,
         Answered'
  PROVE  CaptureInv'
<1>1. CaptureTypes'
  BY DEF CaptureInv, CaptureTypes, SlipsGrow
<1>2. AllPlaced'
  <2>1. books'.injected \subseteq known'
    BY DEF CaptureInv, AllPlaced
  <2>2. ASSUME NEW c \in Copies PROVE Placed(c)'
    <3>1. Placed(c)
      BY DEF CaptureInv, AllPlaced
    <3> QED
      BY <3>1 DEF Placed, TurnOnly, SessionOnly
  <2> QED
    BY <2>1, <2>2 DEF AllPlaced
<1>3. \A c \in Copies : Current(c)'
  BY DEF CaptureInv, Current, ReadWell, SlipsGrow
<1>4. HistoryInv'
  <2>1. \A c \in Copies : Marked(c)' <=> Marked(c)
    BY DEF Marked
  <2>2. FactsFit' => FactsFit
    <3>1. IsFiniteSet(known')
      <4>1. PICK m \in 1 .. KnownFacts : known' = 1 .. m
        OBVIOUS
      <4>2. m \in Nat
        BY <4>1, CaptureBounds
      <4> QED
        BY <4>1, <4>2, FS_Interval
    <3>2. Cardinality(known) <= Cardinality(known') /\ Cardinality(known) \in Nat /\ Cardinality(known') \in Nat
      BY <3>1, FS_Subset, FS_CardinalityType
    <3> QED
      BY <3>2, CaptureBounds DEF FactsFit
  <2> QED
    BY <2>1, <2>2, HistoryKept
<1> QED
  BY <1>1, <1>2, <1>3, <1>4 DEF CaptureInv

\* The hooks of an event start when no request is under way.
LEMMA HooksStartKeeps ==
  ASSUME CaptureInv, HooksStart, event' \in EventRec, SlipsGrow
  PROVE  CaptureInv'
<1>1. UNCHANGED <<host, asks, deliveries, known, captured, books, printed>>
  BY DEF HooksStart
<1>2. PICK S \in SUBSET Copies : punk' = [c \in Copies |-> IF c \in S THEN [NoHook EXCEPT !.pc = "new"] ELSE NoHook]
  BY DEF HooksStart
<1>3. [NoHook EXCEPT !.pc = "new"] \in HookRec /\ [NoHook EXCEPT !.pc = "new"].pc = "new"
  BY NoHookFields DEF HookRec, HookPlaces
<1>4. punk' \in [Copies -> HookRec] /\ \A c \in Copies : punk'[c].pc # "end"
  BY <1>2, <1>3, NoHookFields
<1>5. \A c \in Copies : asks[c].pc = "idle"
  BY DEF HooksStart, CaptureInv, AllPlaced, Placed
<1>6. Answered'
  BY <1>4 DEF Answered
<1>7. known \subseteq known' /\ \E m \in 1 .. KnownFacts : known' = 1 .. m
  BY <1>1 DEF CaptureInv, CaptureTypes
<1> QED
  BY <1>1, <1>4, <1>5, <1>6, <1>7, HooksMove

\* The host reaches its next event.
LEMMA HostGoesOnKeeps ==
  ASSUME CaptureInv, HostGoesOn
  PROVE  CaptureInv'
<1>1. PICK k \in EventKinds, r \in Reasons :
         event' = [n |-> event.last + 1, kind |-> k, reason |-> r, last |-> event.last + 1,
                   told |-> event.told \cup IF k = "prompt" THEN {event.last + 1} ELSE {}]
  BY DEF HostGoesOn
<1>2. event.last \in Nat /\ event.told \in SUBSET Nat
  BY DEF CaptureInv, CaptureTypes, EventRec
<1>3. event.last + 1 \in Nat /\ event.told \cup (IF k = "prompt" THEN {event.last + 1} ELSE {}) \in SUBSET Nat
  BY <1>2
<1>4. event' \in EventRec
  BY <1>1, <1>3 DEF EventRec
<1> QED
  BY <1>4, HooksStartKeeps, SlipsStay DEF HostGoesOn, CaptureInv

\* A prompt comes again.
LEMMA PromptComesAgainKeeps ==
  ASSUME CaptureInv, PromptComesAgain
  PROVE  CaptureInv'
<1>1. PICK k \in event.told : event' = [event EXCEPT !.n = k, !.kind = "prompt", !.reason = "startup"]
  BY DEF PromptComesAgain
<1>2. event \in EventRec
  BY DEF CaptureInv, CaptureTypes
<1>3. event' \in EventRec
  BY <1>1, <1>2 DEF EventRec, EventKinds, Reasons
<1> QED
  BY <1>3, HooksStartKeeps, SlipGrows DEF PromptComesAgain, CaptureInv

\* A fact arrives.
LEMMA FactArrivesKeeps ==
  ASSUME CaptureInv, FactArrives
  PROVE  CaptureInv'
<1>1. UNCHANGED <<host, event, punk, asks, deliveries, captured, books, printed, slips>>
  BY DEF FactArrives
<1>2. PICK m \in 1 .. KnownFacts : known = 1 .. m
  BY DEF CaptureInv, CaptureTypes
<1>3. Cardinality(known) = m
  <2>1. m \in Nat
    BY <1>2, CaptureBounds
  <2> QED
    BY <1>2, <2>1, FS_Interval
<1>4. m + 1 \in 1 .. KnownFacts /\ known' = 1 .. (m + 1)
  BY <1>2, <1>3, CaptureBounds DEF FactArrives
<1>5. known \subseteq known'
  BY <1>2, <1>4, CaptureBounds
<1>6. Answered' /\ SlipsGrow /\ event' \in EventRec /\ punk' \in [Copies -> HookRec]
  BY <1>1, SlipsStay DEF CaptureInv, CaptureTypes, Answered, Nameless
<1>7. \E j \in 1 .. KnownFacts : known' = 1 .. j
  BY <1>4
<1> QED
  BY <1>1, <1>5, <1>6, <1>7, HooksMove

\* One hook whose request has not begun goes on.
LEMMA OneHookMoves ==
  ASSUME CaptureInv, NEW c \in Copies, punk[c].pc # "fetch", NEW p \in HookRec, punk' = [punk EXCEPT ![c] = p],
         UNCHANGED <<host, event, asks, deliveries, known, books, printed>>, SlipsGrow,
         p.pc = "end" => \/ p.replied = MustReply(host, event.kind) \/ host \in BadCredentials
                         \/ host = "cursor" /\ p.payload = "broken"
  PROVE  CaptureInv'
<1>1. punk \in [Copies -> HookRec]
  BY DEF CaptureInv, CaptureTypes
<1>2. punk' \in [Copies -> HookRec] /\ punk'[c] = p /\ \A d \in Copies \ {c} : punk'[d] = punk[d]
  BY <1>1
<1>3. asks[c].pc = "idle"
  BY DEF CaptureInv, AllPlaced, Placed
<1>4. Answered'
  BY <1>2 DEF CaptureInv, Answered, Nameless, MustReply, isCursorBeforeSubmitPrompt, printAntigravityStopReply
<1>5. event' \in EventRec /\ known \subseteq known' /\ \E m \in 1 .. KnownFacts : known' = 1 .. m
  BY DEF CaptureInv, CaptureTypes
<1>6. \A d \in Copies : asks[d].pc # "idle" => punk'[d].pc = punk[d].pc /\ event' = event
  BY <1>2, <1>3
<1> QED
  BY <1>2, <1>4, <1>5, <1>6, HooksMove

\* The fields of a hook have their types.
LEMMA HookFields ==
  ASSUME CaptureTypes, NEW c \in Copies
  PROVE  punk[c] \in HookRec
BY DEF CaptureTypes

\* A hook without credentials ends without a reply.
LEMMA ReadFailsKeeps ==
  ASSUME CaptureInv, NEW c \in Copies, ReadFails(c)
  PROVE  CaptureInv'
<1> DEFINE p == [punk[c] EXCEPT !.pc = "end"]
<1>1. punk[c] \in HookRec
  BY HookFields DEF CaptureInv
<1>2. p \in HookRec
  BY <1>1 DEF HookRec, HookPlaces
<1>3. punk' = [punk EXCEPT ![c] = p]
  BY DEF ReadFails
<1>4. UNCHANGED <<host, event, asks, deliveries, known, books, printed>> /\ SlipsGrow
  BY SlipsStay DEF ReadFails, CaptureInv
<1>5. punk[c].pc # "fetch" /\ host \in BadCredentials
  BY DEF ReadFails, HookIs
<1> HIDE DEF p
<1> QED
  BY <1>2, <1>3, <1>4, <1>5, OneHookMoves

\* A payload is read.
LEMMA ReadPayloadKeeps ==
  ASSUME CaptureInv, NEW c \in Copies, ReadPayload(c)
  PROVE  CaptureInv'
<1>1. punk[c] \in HookRec
  BY HookFields DEF CaptureInv
<1>2. PICK q \in Payloads : punk' = [punk EXCEPT ![c].pc = "read", ![c].payload = q]
  BY DEF ReadPayload
<1> DEFINE p == [punk[c] EXCEPT !.pc = "read", !.payload = q]
<1>3. p \in HookRec /\ p.pc = "read"
  BY <1>1 DEF HookRec, HookPlaces
<1>4. punk' = [punk EXCEPT ![c] = p]
  <2>1. punk \in [Copies -> HookRec]
    BY DEF CaptureInv, CaptureTypes
  <2> QED
    BY <1>2, <2>1
<1>5. UNCHANGED <<host, event, asks, deliveries, known, books, printed>> /\ SlipsGrow
  BY SlipsStay DEF ReadPayload, CaptureInv
<1>6. punk[c].pc # "fetch"
  BY DEF ReadPayload, HookIs
<1> HIDE DEF p
<1> QED
  BY <1>3, <1>4, <1>5, <1>6, OneHookMoves

\* The end of a hook, with its reply.
LEMMA EndTyped ==
  ASSUME CaptureInv, NEW c \in Copies
  PROVE  LET p == [punk[c] EXCEPT !.pc = "end", !.replied = MustReply(host, event.kind)]
         IN  /\ p \in HookRec /\ p.pc = "end" /\ p.replied = MustReply(host, event.kind)
             /\ [punk EXCEPT ![c].pc = "end", ![c].replied = MustReply(host, event.kind)] = [punk EXCEPT ![c] = p]
<1>1. punk \in [Copies -> HookRec] /\ punk[c] \in HookRec
  BY DEF CaptureInv, CaptureTypes
<1>2. MustReply(host, event.kind) \in BOOLEAN
  BY DEF MustReply, isCursorBeforeSubmitPrompt, printAntigravityStopReply
<1> DEFINE b == MustReply(host, event.kind)
<1> HIDE DEF b
<1>3. b \in BOOLEAN
  BY <1>2 DEF b
<1>4. /\ [punk[c] EXCEPT !.pc = "end", !.replied = b] \in HookRec
      /\ [punk[c] EXCEPT !.pc = "end", !.replied = b].pc = "end"
      /\ [punk[c] EXCEPT !.pc = "end", !.replied = b].replied = b
  BY <1>1, <1>3 DEF HookRec, HookPlaces
<1>5. [punk EXCEPT ![c].pc = "end", ![c].replied = b] = [punk EXCEPT ![c] = [punk[c] EXCEPT !.pc = "end", !.replied = b]]
  BY <1>1
<1> QED
  BY <1>4, <1>5 DEF b

\* A payload that is not forwarded still gets its reply.
LEMMA SkipKeeps ==
  ASSUME CaptureInv, NEW c \in Copies, Skip(c)
  PROVE  CaptureInv'
<1> DEFINE b == Replies(c)
           p == [punk[c] EXCEPT !.pc = "end", !.replied = b]
<1>1. punk' = [punk EXCEPT ![c].pc = "end", ![c].replied = b] /\ punk \in [Copies -> HookRec]
  BY DEF Skip, CaptureInv, CaptureTypes
<1>a. b \in BOOLEAN /\ (b = MustReply(host, event.kind) \/ Nameless(c))
  BY DEF Replies, Nameless, MustReply, isCursorBeforeSubmitPrompt, printAntigravityStopReply
<1> HIDE DEF b
<1>2. /\ p \in HookRec /\ p.payload = punk[c].payload /\ p.replied = b
      /\ punk' = [punk EXCEPT ![c] = p]
  BY <1>1, <1>a DEF HookRec, HookPlaces
<1>b. p.replied = MustReply(host, event.kind) \/ (host = "cursor" /\ p.payload = "broken")
  BY <1>2, <1>a DEF Nameless
<1>3. UNCHANGED <<host, event, asks, deliveries, known, books, printed>> /\ SlipsGrow
  BY SlipsStay DEF Skip, CaptureInv
<1>4. punk[c].pc # "fetch"
  BY DEF Skip, HookIs
<1> HIDE DEF p
<1> QED
  BY <1>2, <1>b, <1>3, <1>4, OneHookMoves

-----------------------------------------------------------------------------
(* Requests *)

\* A prompt of a host that asks for turns has the number of its event; only hermes takes the hash.
LEMMA TurnIdIsEvent ==
  ASSUME CaptureTypes, Wanted = "turn", host # "hermes"
  PROVE  PromptID = event.n
<1>1. host \in {"claude", "cursor", "codex", "cline", "antigravity", "copilot", "hermes"}
  BY CaptureConstants DEF CaptureTypes
<1>2. host # "cursor"
  BY DEF Wanted, RunFrom
<1>3. host # "copilot"
  <2> SUFFICES ASSUME host = "copilot" PROVE FALSE
    OBVIOUS
  <2>1. Wanted = RunFromCopilot
    BY DEF Wanted
  <2> QED
    BY <2>1 DEF RunFromCopilot, StartOnly
<1> QED
  BY <1>1, <1>2, <1>3 DEF PromptID

\* The identity that a hook sends.
LEMMA IdTyped ==
  ASSUME CaptureTypes
  PROVE  (IF Wanted = "turn" THEN PromptID ELSE EventParam) \in AskIds
<1>1. event.n \in Nat /\ event.reason \in Reasons /\ host \in Hosts
  BY DEF CaptureTypes, EventRec
<1>2. PromptID \in Nat
  BY <1>1 DEF PromptID, promptIDFallback
<1>3. EventParam \in Reasons \cup Hosts
  BY <1>1 DEF EventParam
<1> QED
  BY <1>2, <1>3 DEF AskIds

\* A capture is stored, and a block asked for.
LEMMA ForwardKeeps ==
  ASSUME CaptureInv, NEW c \in Copies, Forward(c)
  PROVE  CaptureInv'
<1>1. UNCHANGED <<host, event, deliveries, known, books, printed>> /\ punk[c].pc = "read"
  BY DEF Forward, HookIs
<1>2. SlipsGrow
  BY SlipsStay, SlipGrows DEF Forward, CaptureInv
<1>3. CASE Wanted = "nothing"
  <2> DEFINE p == [punk[c] EXCEPT !.pc = "end", !.replied = MustReply(host, event.kind)]
  <2>1. punk' = [punk EXCEPT ![c].pc = "end", ![c].replied = MustReply(host, event.kind)] /\ asks' = asks
    <3>1. Replies(c) = MustReply(host, event.kind)
      BY DEF Forward, Replies, Nameless, MustReply, isCursorBeforeSubmitPrompt, printAntigravityStopReply
    <3> QED
      BY <1>3, <3>1 DEF Forward
  <2>2. p \in HookRec /\ p.replied = MustReply(host, event.kind) /\ punk' = [punk EXCEPT ![c] = p]
    BY <2>1, EndTyped
  <2> HIDE DEF p
  <2> QED
    BY <1>1, <1>2, <2>1, <2>2, OneHookMoves
<1>4. CASE Wanted # "nothing"
  <2> DEFINE id == IF Wanted = "turn" THEN PromptID ELSE EventParam
             turn == Wanted = "turn"
             a == [NoAsk EXCEPT !.pc = "lock", !.turn = turn, !.id = id]
  <2>1. punk' = [punk EXCEPT ![c].pc = "fetch"] /\ asks' = [asks EXCEPT ![c] = a]
    BY <1>4 DEF Forward
  <2>2. id \in AskIds /\ turn \in BOOLEAN /\ (turn /\ host # "hermes" => id = event.n)
    BY IdTyped, TurnIdIsEvent DEF CaptureInv
  <2> HIDE DEF id, turn
  <2>3. a \in AskRec /\ a.pc = "lock" /\ a.turn = turn /\ a.id = id /\ a.seen = {} /\ a.ids = {}
    BY <2>2, NoAskFields DEF AskRec, AskPlaces
  <2> HIDE DEF a
  <2>4. punk \in [Copies -> HookRec] /\ asks \in [Copies -> AskRec]
    BY DEF CaptureInv, CaptureTypes
  <2>5. [punk[c] EXCEPT !.pc = "fetch"] \in HookRec /\ [punk[c] EXCEPT !.pc = "fetch"].pc = "fetch"
    BY <2>4 DEF HookRec, HookPlaces
  <2>6. /\ punk' \in [Copies -> HookRec] /\ asks' \in [Copies -> AskRec]
        /\ punk'[c].pc = "fetch" /\ asks'[c] = a
        /\ \A d \in Copies \ {c} : punk'[d] = punk[d] /\ asks'[d] = asks[d]
    BY <2>1, <2>3, <2>4, <2>5
  <2>7. asks[c].pc = "idle"
    BY <1>1 DEF CaptureInv, AllPlaced, Placed
  <2>8. CaptureTypes'
    BY <1>1, <1>2, <2>6 DEF CaptureInv, CaptureTypes, SlipsGrow
  <2>9. ASSUME NEW d \in Copies \ {c} PROVE Placed(d)' /\ Current(d)'
    BY <1>1, <1>2, <2>6, OtherKept
  <2>10. Placed(c)' /\ Current(c)'
    BY <1>1, <2>2, <2>3, <2>6 DEF Placed, Current, ReadWell, TurnOnly, SessionOnly
  <2>11. AllPlaced' /\ \A d \in Copies : Current(d)'
    BY <1>1, <2>9, <2>10 DEF CaptureInv, AllPlaced
  <2>12. HistoryInv'
    <3>1. \A d \in Copies : asks'[d].pc = "pid" => asks[d].pc = "pid" /\ asks'[d].ids = asks[d].ids
      BY <2>3, <2>6
    <3>2. \A d \in Copies : /\ Marked(d)' <=> Marked(d)
                            /\ Marked(d) => asks'[d].id = asks[d].id /\ asks'[d].ids = asks[d].ids
      BY <2>3, <2>6, <2>7 DEF Marked
    <3> QED
      BY <1>1, <1>2, <3>1, <3>2, FitStays, HistoryKept
  <2>13. Answered'
    BY <1>1, <2>6 DEF CaptureInv, Answered, Nameless, MustReply, isCursorBeforeSubmitPrompt, printAntigravityStopReply
  <2> QED
    BY <2>8, <2>11, <2>12, <2>13 DEF CaptureInv
<1> QED
  BY <1>3, <1>4

\* A request takes the lock of the delivery when nobody holds it.
LEMMA LockKeeps ==
  ASSUME CaptureInv, NEW c \in Copies, Lock(c)
  PROVE  CaptureInv'
<1>1. /\ UNCHANGED <<host, event, punk, known, books, printed, slips>> /\ asks[c].pc = "lock"
      /\ deliveries = {} /\ deliveries' = {c}
  BY DEF Lock, AskIs, LockFree
<1> DEFINE to == IF asks[c].turn THEN "turns" ELSE "assemble"
           a == [asks[c] EXCEPT !.pc = to]
<1>2. asks' = [asks EXCEPT ![c] = a]
  BY DEF Lock, Turn
<1>3. asks \in [Copies -> AskRec] /\ asks[c] \in AskRec
  BY DEF CaptureInv, CaptureTypes
<1>4. a \in AskRec /\ a.pc = to /\ a.turn = asks[c].turn /\ a.id = asks[c].id /\ a.seen = asks[c].seen /\ a.ids = asks[c].ids
  <2>1. to \in AskPlaces
    BY DEF AskPlaces, TurnOnly, SessionOnly
  <2> HIDE DEF to
  <2> QED
    BY <2>1, <1>3 DEF AskRec
<1> HIDE DEF a
<1>5. asks' \in [Copies -> AskRec] /\ asks'[c] = a /\ \A d \in Copies \ {c} : asks'[d] = asks[d]
  BY <1>2, <1>3, <1>4
<1>6. \A d \in Copies \ {c} : asks[d].pc \in {"idle", "lock"}
  BY <1>1, OthersWait
<1>7. CaptureTypes'
  BY <1>1, <1>5 DEF CaptureInv, CaptureTypes
<1>8. ASSUME NEW d \in Copies \ {c} PROVE Placed(d)' /\ Current(d)'
  BY <1>1, <1>5, <1>6, OtherKept, SlipsStay DEF CaptureInv
<1>9. Placed(c)' /\ Current(c)'
  <2>1. Placed(c)
    BY DEF CaptureInv, AllPlaced
  <2> QED
    BY <1>1, <1>4, <1>5, <2>1 DEF Placed, Current, ReadWell, TurnOnly, SessionOnly
<1>10. AllPlaced' /\ \A d \in Copies : Current(d)'
  BY <1>1, <1>8, <1>9 DEF CaptureInv, AllPlaced
<1>11. HistoryInv'
  <2>1. \A d \in Copies : asks'[d].pc = "pid" => asks[d].pc = "pid" /\ asks'[d].ids = asks[d].ids
    BY <1>4, <1>5
  <2>2. \A d \in Copies : /\ Marked(d)' <=> Marked(d)
                          /\ Marked(d) => asks'[d].id = asks[d].id /\ asks'[d].ids = asks[d].ids
    BY <1>1, <1>4, <1>5 DEF Marked
  <2> QED
    BY <1>1, <2>1, <2>2, HistoryKept, FitStays, SlipsStay DEF CaptureInv
<1>12. Answered'
  BY <1>1 DEF CaptureInv, Answered, Nameless, MustReply, isCursorBeforeSubmitPrompt, printAntigravityStopReply
<1> QED
  BY <1>7, <1>10, <1>11, <1>12 DEF CaptureInv

\* A request is over and its hook ends.
LEMMA RequestEnds ==
  ASSUME CaptureInv, NEW c \in Copies,
         asks' = [asks EXCEPT ![c] = NoAsk], deliveries' = deliveries \ {c},
         punk' = [punk EXCEPT ![c].pc = "end", ![c].replied = MustReply(host, event.kind)],
         UNCHANGED <<host, event, known>>, SlipsGrow,
         books' = books \/ deliveries = {c},
         books' \in Books, books'.injected \subseteq known, printed' \in Seq(Block), HistoryInv'
  PROVE  CaptureInv'
<1> DEFINE p == [punk[c] EXCEPT !.pc = "end", !.replied = MustReply(host, event.kind)]
<1>1. p \in HookRec /\ p.pc = "end" /\ p.replied = MustReply(host, event.kind) /\ punk' = [punk EXCEPT ![c] = p]
  BY EndTyped
<1> HIDE DEF p
<1>2. punk \in [Copies -> HookRec] /\ asks \in [Copies -> AskRec]
  BY DEF CaptureInv, CaptureTypes
<1>3. /\ punk' \in [Copies -> HookRec] /\ asks' \in [Copies -> AskRec] /\ punk'[c] = p /\ asks'[c] = NoAsk
      /\ \A d \in Copies \ {c} : punk'[d] = punk[d] /\ asks'[d] = asks[d]
  BY <1>1, <1>2, NoAskFields
<1>4. CaptureTypes'
  BY <1>3 DEF CaptureInv, CaptureTypes, SlipsGrow
<1>5. ASSUME NEW d \in Copies \ {c} PROVE Placed(d)' /\ Current(d)'
  <2>1. asks[d].pc \in {"idle", "lock"} \/ (books' = books /\ (deliveries = {d} => deliveries' = {d}))
    BY OthersWait
  <2> QED
    BY <1>3, <2>1, OtherKept
<1>6. Placed(c)' /\ Current(c)'
  BY <1>3, NoAskFields DEF Placed, Current, ReadWell, TurnOnly, SessionOnly
<1>7. AllPlaced' /\ \A d \in Copies : Current(d)'
  BY <1>5, <1>6 DEF AllPlaced
<1>8. Answered'
  <2>1. \A d \in Copies \ {c} :
           punk'[d].pc = "end" => punk'[d].replied = MustReply(host, event.kind) \/ host \in BadCredentials \/ Nameless(d)'
    BY <1>3 DEF CaptureInv, Answered, Nameless
  <2>2. MustReply(host, event.kind)' = MustReply(host, event.kind)
    BY DEF MustReply, isCursorBeforeSubmitPrompt, printAntigravityStopReply
  <2> QED
    BY <1>1, <1>3, <2>1, <2>2 DEF Answered
<1> QED
  BY <1>4, <1>7, <1>8 DEF CaptureInv

\* A hook gives up and its request is cancelled: from here on MarkerIsLast is void, the rest of the history is not.
LEMMA TimesOutKeeps ==
  ASSUME CaptureInv, NEW c \in Copies, TimesOut(c)
  PROVE  CaptureInv'
<1>1. /\ UNCHANGED <<host, event, known, books, printed>> /\ asks' = [asks EXCEPT ![c] = NoAsk]
      /\ punk' = [punk EXCEPT ![c].pc = "end", ![c].replied = MustReply(host, event.kind)]
      /\ deliveries' = deliveries \ {c}
  BY DEF TimesOut
<1>2. SlipsGrow /\ slips'["late"] > 0
  BY SlipGrows DEF TimesOut, CaptureInv
<1>3. slips'.late # 0
  BY <1>2 DEF SlipsGrow
<1>4. \A d \in Copies : asks'[d].pc = "pid" => asks[d].pc = "pid" /\ asks'[d].ids = asks[d].ids
  BY <1>1, NoAskFields DEF CaptureInv, CaptureTypes
<1>5. HistoryInv'
  BY <1>1, <1>2, <1>3, <1>4, FitStays, HistoryKept
<1>6. books' \in Books /\ books'.injected \subseteq known /\ printed' \in Seq(Block)
  BY <1>1 DEF CaptureInv, CaptureTypes, AllPlaced
<1> QED
  BY <1>1, <1>2, <1>5, <1>6, RequestEnds

\* A request that holds the lock goes on.
LEMMA RequestGoes ==
  ASSUME CaptureInv, NEW c \in Copies, deliveries = {c}, asks[c].pc \notin {"idle", "lock"},
         NEW a \in AskRec, AskGoes(c, a),
         a.pc \notin {"idle", "lock"}, a.turn = asks[c].turn, a.id = asks[c].id,
         a.pc \in TurnOnly => a.turn, a.pc \in SessionOnly => ~a.turn,
         a.seen \subseteq known, a.ids \subseteq known,
         books' \in Books, books'.injected \subseteq known, SlipsGrow, Current(c)', HistoryInv'
  PROVE  CaptureInv'
<1>1. asks' = [asks EXCEPT ![c] = a] /\ UNCHANGED <<host, event, punk, deliveries, known, printed>>
  BY DEF AskGoes
<1>2. asks \in [Copies -> AskRec]
  BY DEF CaptureInv, CaptureTypes
<1>3. asks' \in [Copies -> AskRec] /\ asks'[c] = a /\ \A d \in Copies \ {c} : asks'[d] = asks[d]
  BY <1>1, <1>2
<1>4. CaptureTypes'
  BY <1>1, <1>3 DEF CaptureInv, CaptureTypes, SlipsGrow
<1>5. ASSUME NEW d \in Copies \ {c} PROVE Placed(d)' /\ Current(d)'
  BY <1>1, <1>3, OthersWait, OtherKept
<1>6. Placed(c)'
  <2>1. Placed(c)
    BY DEF CaptureInv, AllPlaced
  <2> QED
    BY <1>1, <1>3, <2>1 DEF Placed, TurnOnly, SessionOnly
<1>7. AllPlaced' /\ \A d \in Copies : Current(d)'
  BY <1>1, <1>5, <1>6 DEF AllPlaced
<1>8. Answered'
  BY <1>1 DEF CaptureInv, Answered, Nameless, MustReply, isCursorBeforeSubmitPrompt, printAntigravityStopReply
<1> QED
  BY <1>4, <1>7, <1>8 DEF CaptureInv

\* ... without a word to the books, short of the place where it is recorded.
LEMMA RequestReads ==
  ASSUME CaptureInv, NEW c \in Copies, asks[c].pc \notin {"idle", "lock"},
         NEW a \in AskRec, AskGoes(c, a), UNCHANGED books, SlipsGrow,
         a.pc \notin {"idle", "lock", "pid"}, a.turn = asks[c].turn, a.id = asks[c].id,
         a.pc \in TurnOnly => a.turn, a.pc \in SessionOnly => ~a.turn,
         a.seen \subseteq known, a.ids \subseteq known,
         Current(c)',
         Marked(c)' <=> Marked(c), Marked(c) => a.ids = asks[c].ids
  PROVE  CaptureInv'
<1>1. asks' = [asks EXCEPT ![c] = a] /\ UNCHANGED <<host, event, punk, deliveries, known, printed>>
  BY DEF AskGoes
<1>2. deliveries = {c}
  BY DEF CaptureInv, AllPlaced, Placed
<1>3. asks'[c] = a /\ \A d \in Copies \ {c} : asks'[d] = asks[d]
  BY <1>1 DEF CaptureInv, CaptureTypes
<1>4. books' \in Books /\ books'.injected \subseteq known
  BY DEF CaptureInv, CaptureTypes, AllPlaced
<1>5. HistoryInv'
  <2>1. \A d \in Copies : asks'[d].pc = "pid" => asks[d].pc = "pid" /\ asks'[d].ids = asks[d].ids
    BY <1>3
  <2>2. \A d \in Copies \ {c} : Marked(d)' <=> Marked(d)
    BY <1>3 DEF Marked
  <2>3. \A d \in Copies : /\ Marked(d)' <=> Marked(d)
                          /\ Marked(d) => asks'[d].id = asks[d].id /\ asks'[d].ids = asks[d].ids
    BY <1>3, <2>2
  <2> QED
    BY <1>1, <2>1, <2>3, FitStays, HistoryKept
<1> QED
  BY <1>2, <1>4, <1>5, RequestGoes

\* A read finds the book, or fails and finds it empty.
LEMMA FoundWhat ==
  ASSUME CaptureTypes, NEW b, NEW empty, NEW v, Found(b, empty, v)
  PROVE  SlipsGrow /\ (v = b \/ v = empty) /\ (slips'.lost = 0 => v = b)
<1>1. CASE v = b /\ UNCHANGED slips
  BY <1>1, SlipsStay
<1>2. CASE v = empty /\ Slip("lost")
  <2>1. SlipsGrow /\ slips'["lost"] > 0
    BY <1>2, SlipGrows
  <2> QED
    BY <1>2, <2>1 DEF SlipsGrow
<1> QED
  BY <1>1, <1>2 DEF Found

\* Nothing to print.
LEMMA ServeNothing ==
  ASSUME CaptureInv, NEW c \in Copies, asks[c].pc \notin {"idle", "lock"}, ~Marked(c), Serve(c, {}), UNCHANGED books, SlipsGrow
  PROVE  CaptureInv'
<1>1. /\ asks' = [asks EXCEPT ![c] = NoAsk] /\ deliveries' = deliveries \ {c}
      /\ punk' = [punk EXCEPT ![c].pc = "end", ![c].replied = MustReply(host, event.kind)]
      /\ UNCHANGED <<host, event, known, printed>>
  BY DEF Serve
<1>2. books' \in Books /\ books'.injected \subseteq known /\ printed' \in Seq(Block)
  BY <1>1 DEF CaptureInv, CaptureTypes, AllPlaced
<1>3. asks'[c] = NoAsk /\ \A d \in Copies \ {c} : asks'[d] = asks[d]
  BY <1>1 DEF CaptureInv, CaptureTypes
<1>4. HistoryInv'
  <2>1. \A d \in Copies : asks'[d].pc = "pid" => asks[d].pc = "pid" /\ asks'[d].ids = asks[d].ids
    BY <1>3, NoAskFields
  <2>2. \A d \in Copies : /\ Marked(d)' <=> Marked(d)
                          /\ Marked(d) => asks'[d].id = asks[d].id /\ asks'[d].ids = asks[d].ids
    BY <1>3, NoAskFields DEF Marked
  <2> QED
    BY <1>1, <2>1, <2>2, FitStays, HistoryKept
<1> QED
  BY <1>1, <1>2, <1>4, RequestEnds

\* The session block is assembled.
LEMMA AssembleKeeps ==
  ASSUME CaptureInv, NEW c \in Copies, Assemble(c)
  PROVE  CaptureInv'
<1> DEFINE a == [asks[c] EXCEPT !.pc = "compare", !.ids = known]
<1>1. asks[c].pc = "assemble" /\ AskGoes(c, a) /\ UNCHANGED <<books, slips>>
  BY DEF Assemble, AskIs
<1>2. asks[c] \in AskRec /\ known \subseteq Nat
  <2>1. PICK m \in 1 .. KnownFacts : known = 1 .. m
    BY DEF CaptureInv, CaptureTypes
  <2> QED
    BY <2>1, AskFields DEF CaptureInv
<1>3. a \in AskRec /\ a.pc = "compare" /\ a.turn = asks[c].turn /\ a.id = asks[c].id /\ a.seen = asks[c].seen /\ a.ids = known
  BY <1>2 DEF AskRec, AskPlaces, SessionOnly
<1> HIDE DEF a
<1>4. Placed(c)
  BY DEF CaptureInv, AllPlaced
<1>5. asks'[c] = a
  BY <1>1 DEF AskGoes, CaptureInv, CaptureTypes
<1>6. Current(c)'
  BY <1>3, <1>5 DEF Current, ReadWell
<1>7. ~Marked(c)' /\ ~Marked(c)
  BY <1>1, <1>3, <1>5 DEF Marked
<1> QED
  BY <1>1, <1>3, <1>4, <1>6, <1>7, RequestReads, SlipsStay DEF CaptureInv, Placed, TurnOnly, SessionOnly

\* ... and compared with the marker.
LEMMA CompareKeeps ==
  ASSUME CaptureInv, NEW c \in Copies, Compare(c)
  PROVE  CaptureInv'
<1>0. PICK mark \in {books.marker, <<>>} :
         /\ asks[c].pc = "compare" /\ UNCHANGED books /\ Found(books.marker, <<>>, mark)
         /\ IF asks[c].ids = {} \/ mark = <<asks[c].id, asks[c].ids>> THEN Serve(c, {})
                                                                      ELSE AskGoes(c, [asks[c] EXCEPT !.pc = "marker"])
  BY DEF Compare, AskIs
<1>1. asks[c].pc = "compare" /\ UNCHANGED books /\ SlipsGrow /\ (slips'.lost = 0 => mark = books.marker)
  BY <1>0, FoundWhat DEF CaptureInv
<1>2. ~Marked(c)
  BY <1>1 DEF Marked
<1>3. CASE asks[c].ids = {} \/ mark = <<asks[c].id, asks[c].ids>>
  BY <1>0, <1>1, <1>2, <1>3, ServeNothing
<1>4. CASE ~(asks[c].ids = {} \/ mark = <<asks[c].id, asks[c].ids>>)
  <2> DEFINE a == [asks[c] EXCEPT !.pc = "marker"]
  <2>1. AskGoes(c, a)
    BY <1>0, <1>4
  <2>2. asks[c] \in AskRec
    BY AskFields DEF CaptureInv
  <2>3. a \in AskRec /\ a.pc = "marker" /\ a.turn = asks[c].turn /\ a.id = asks[c].id /\ a.seen = asks[c].seen /\ a.ids = asks[c].ids
    BY <2>2 DEF AskRec, AskPlaces, SessionOnly
  <2> HIDE DEF a
  <2>4. Placed(c)
    BY DEF CaptureInv, AllPlaced
  <2>5. asks'[c] = a
    BY <2>1 DEF AskGoes, CaptureInv, CaptureTypes
  <2>6. Current(c)'
    BY <1>1, <1>4, <2>3, <2>5 DEF Current, ReadWell
  <2>7. ~Marked(c)'
    BY <2>3, <2>5 DEF Marked
  <2> QED
    BY <1>1, <1>2, <2>1, <2>3, <2>4, <2>6, <2>7, RequestReads DEF Placed, TurnOnly, SessionOnly
<1> QED
  BY <1>3, <1>4

\* The injected facts are read before they are written.
LEMMA ReadInjectedKeeps ==
  ASSUME CaptureInv, NEW c \in Copies, ReadInjected(c)
  PROVE  CaptureInv'
<1>0. PICK ids \in {books.injected, {}} :
         /\ asks[c].pc = "prior" /\ UNCHANGED books /\ Found(books.injected, {}, ids)
         /\ AskGoes(c, [asks[c] EXCEPT !.pc = "inject", !.seen = ids])
  BY DEF ReadInjected, AskIs
<1> DEFINE a == [asks[c] EXCEPT !.pc = "inject", !.seen = ids]
<1>1. asks[c].pc = "prior" /\ AskGoes(c, a) /\ UNCHANGED books /\ SlipsGrow /\ (slips'.lost = 0 => ids = books.injected)
  BY <1>0, FoundWhat DEF CaptureInv
<1>2. asks[c] \in AskRec /\ ids \subseteq Nat /\ ids \subseteq known
  BY AskFields, BookFields DEF CaptureInv, AllPlaced
<1>3. a \in AskRec /\ a.pc = "inject" /\ a.turn = asks[c].turn /\ a.id = asks[c].id /\ a.seen = ids /\ a.ids = asks[c].ids
  BY <1>2 DEF AskRec, AskPlaces
<1> HIDE DEF a
<1>4. Placed(c) /\ Current(c)
  BY DEF CaptureInv, AllPlaced
<1>5. asks'[c] = a /\ ~asks[c].turn
  BY <1>1, <1>4 DEF AskGoes, CaptureInv, CaptureTypes, Placed, SessionOnly
<1>6. Current(c)'
  BY <1>1, <1>3, <1>4, <1>5 DEF Current, ReadWell
<1>7. Marked(c)' /\ Marked(c)
  BY <1>1, <1>3, <1>5 DEF Marked
<1> QED
  BY <1>1, <1>2, <1>3, <1>4, <1>6, <1>7, RequestReads DEF Placed, TurnOnly, SessionOnly

\* A delivered turn is answered with nothing.
LEMMA ReadTurnsKeeps ==
  ASSUME CaptureInv, NEW c \in Copies, ReadTurns(c)
  PROVE  CaptureInv'
<1>0. PICK past \in {books.turns, {}} :
         /\ asks[c].pc = "turns" /\ UNCHANGED books /\ Found(books.turns, {}, past)
         /\ IF SeenTurn(c, past) THEN Serve(c, {}) ELSE AskGoes(c, [asks[c] EXCEPT !.pc = "seen", !.past = past])
  BY DEF ReadTurns, AskIs
<1>1. /\ asks[c].pc = "turns" /\ UNCHANGED books /\ SlipsGrow /\ past \subseteq books.turns
      /\ slips'.lost = 0 => past = books.turns
  BY <1>0, FoundWhat DEF CaptureInv
<1>2. ~Marked(c)
  BY <1>1 DEF Marked
<1>3. CASE SeenTurn(c, past)
  BY <1>0, <1>1, <1>2, <1>3, ServeNothing
<1>4. CASE ~SeenTurn(c, past)
  <2> DEFINE a == [asks[c] EXCEPT !.pc = "seen", !.past = past]
  <2>1. AskGoes(c, a)
    BY <1>0, <1>4
  <2>2. asks[c] \in AskRec /\ past \subseteq AskIds
    BY <1>1, AskFields, BookFields DEF CaptureInv
  <2>3. /\ a \in AskRec /\ a.pc = "seen" /\ a.turn = asks[c].turn /\ a.id = asks[c].id /\ a.seen = asks[c].seen
        /\ a.ids = asks[c].ids /\ a.past = past
    BY <2>2 DEF AskRec, AskPlaces, TurnOnly
  <2> HIDE DEF a
  <2>4. Placed(c)
    BY DEF CaptureInv, AllPlaced
  <2>5. asks'[c] = a
    BY <2>1 DEF AskGoes, CaptureInv, CaptureTypes
  <2>6. Current(c)'
    BY <1>1, <1>4, <2>3, <2>5 DEF Current, ReadWell, SeenTurn
  <2>7. ~Marked(c)'
    BY <2>3, <2>5 DEF Marked
  <2> QED
    BY <1>1, <1>2, <2>1, <2>3, <2>4, <2>6, <2>7, RequestReads DEF Placed, TurnOnly, SessionOnly
<1> QED
  BY <1>3, <1>4

\* ... a new one reads what was injected
LEMMA ReadSeenKeeps ==
  ASSUME CaptureInv, NEW c \in Copies, ReadSeen(c)
  PROVE  CaptureInv'
<1>0. PICK ids \in {books.injected, {}} :
         /\ asks[c].pc = "seen" /\ UNCHANGED books /\ Found(books.injected, {}, ids)
         /\ AskGoes(c, [asks[c] EXCEPT !.pc = "search", !.seen = ids])
  BY DEF ReadSeen, AskIs
<1> DEFINE a == [asks[c] EXCEPT !.pc = "search", !.seen = ids]
<1>1. asks[c].pc = "seen" /\ AskGoes(c, a) /\ UNCHANGED books /\ SlipsGrow /\ (slips'.lost = 0 => ids = books.injected)
  BY <1>0, FoundWhat DEF CaptureInv
<1>2. asks[c] \in AskRec /\ ids \subseteq Nat /\ ids \subseteq known
  BY AskFields, BookFields DEF CaptureInv, AllPlaced
<1>3. /\ a \in AskRec /\ a.pc = "search" /\ a.turn = asks[c].turn /\ a.id = asks[c].id /\ a.seen = ids
      /\ a.ids = asks[c].ids /\ a.past = asks[c].past
  BY <1>2 DEF AskRec, AskPlaces, TurnOnly
<1> HIDE DEF a
<1>4. Placed(c) /\ Current(c)
  BY DEF CaptureInv, AllPlaced
<1>5. asks'[c] = a
  BY <1>1 DEF AskGoes, CaptureInv, CaptureTypes
<1>6. Current(c)'
  BY <1>1, <1>3, <1>4, <1>5 DEF Current, ReadWell, SlipsGrow
<1>7. ~Marked(c)' /\ ~Marked(c)
  BY <1>1, <1>3, <1>5 DEF Marked
<1> QED
  BY <1>1, <1>2, <1>3, <1>4, <1>6, <1>7, RequestReads DEF Placed, TurnOnly, SessionOnly

\* ... and searches for the rest.
LEMMA SearchTurnKeeps ==
  ASSUME CaptureInv, NEW c \in Copies, SearchTurn(c)
  PROVE  CaptureInv'
<1> DEFINE new == known \ asks[c].seen
<1>1. asks[c].pc = "search" /\ UNCHANGED <<books, slips>>
  BY DEF SearchTurn, AskIs
<1>2. ~Marked(c)
  BY <1>1 DEF Marked
<1>a. SlipsGrow
  BY <1>1, SlipsStay DEF CaptureInv
<1>3. CASE new = {}
  BY <1>1, <1>2, <1>3, <1>a, ServeNothing DEF SearchTurn
<1>4. CASE new # {}
  <2> DEFINE a == [asks[c] EXCEPT !.pc = "inject", !.ids = new]
  <2>1. AskGoes(c, a)
    BY <1>4 DEF SearchTurn
  <2>2. asks[c] \in AskRec /\ new \subseteq Nat
    <3>1. PICK m \in 1 .. KnownFacts : known = 1 .. m
      BY DEF CaptureInv, CaptureTypes
    <3> QED
      BY <3>1, AskFields DEF CaptureInv
  <2>3. new \subseteq known /\ new \cap asks[c].seen = {}
    OBVIOUS
  <2> HIDE DEF new
  <2>4. /\ a \in AskRec /\ a.pc = "inject" /\ a.turn = asks[c].turn /\ a.id = asks[c].id /\ a.seen = asks[c].seen
        /\ a.ids = new /\ a.past = asks[c].past
    BY <2>2 DEF AskRec, AskPlaces
  <2> HIDE DEF a
  <2>5. Placed(c) /\ Current(c)
    BY DEF CaptureInv, AllPlaced
  <2>6. asks'[c] = a /\ asks[c].turn
    BY <2>1, <2>5, <1>1 DEF AskGoes, CaptureInv, CaptureTypes, Placed, TurnOnly
  <2>7. Current(c)'
    BY <1>1, <1>4, <2>3, <2>4, <2>5, <2>6 DEF Current, ReadWell
  <2>8. ~Marked(c)'
    BY <2>4, <2>6 DEF Marked
  <2> QED
    BY <1>1, <1>2, <1>a, <2>1, <2>3, <2>4, <2>5, <2>7, <2>8, RequestReads DEF Placed, TurnOnly, SessionOnly
<1> QED
  BY <1>3, <1>4

-----------------------------------------------------------------------------
(* What a request records *)

\* The marker is written: the block under way differs from the last one, which the marker named until now.
LEMMA RecordMarkerKeeps ==
  ASSUME CaptureInv, NEW c \in Copies, RecordMarker(c)
  PROVE  CaptureInv'
<1> DEFINE a == [asks[c] EXCEPT !.pc = "prior"]
           mark == <<asks[c].id, asks[c].ids>>
           b == [books EXCEPT !.marker = mark]
<1>1. asks[c].pc = "marker" /\ AskGoes(c, a) /\ Written(b)
  BY DEF RecordMarker, AskIs
<1>2. asks[c] \in AskRec /\ asks[c].id \in AskIds /\ asks[c].ids \subseteq Nat /\ books \in Books
  BY AskFields DEF CaptureInv, CaptureTypes
<1>3. /\ a \in AskRec /\ a.pc = "prior" /\ a.turn = asks[c].turn /\ a.id = asks[c].id /\ a.seen = asks[c].seen
      /\ a.ids = asks[c].ids
  BY <1>2 DEF AskRec, AskPlaces, SessionOnly
<1>4. b \in Books /\ b.marker = mark /\ b.injected = books.injected /\ b.turns = books.turns
  <2>1. mark \in AskIds \X SUBSET Nat
    BY <1>2
  <2> HIDE DEF mark
  <2> QED
    BY <1>2, <2>1 DEF Books
<1>5. Placed(c) /\ Current(c)
  BY DEF CaptureInv, AllPlaced
<1>6. deliveries = {c} /\ ~asks[c].turn /\ (slips.lost = 0 => books.marker # mark) /\ asks[c].ids # {}
  BY <1>1, <1>5 DEF Placed, Current, ReadWell, SessionOnly
<1> HIDE DEF a, b
<1>7. asks'[c] = a /\ (\A d \in Copies \ {c} : asks'[d] = asks[d]) /\ UNCHANGED <<host, printed, known>>
  BY <1>1 DEF AskGoes, CaptureInv, CaptureTypes
<1>8. \A d \in Copies \ {c} : asks[d].pc \in {"idle", "lock"}
  BY <1>6, OthersWait
<1>9. Current(c)'
  BY <1>3, <1>5, <1>6, <1>7 DEF Current, ReadWell
<1>10. CASE books' = b /\ slips' = slips
  <2>1. SlipsGrow
    BY <1>10, SlipsStay DEF CaptureInv
  <2>2. HistoryInv'
    <3>1. TurnsWerePrinted' /\ TurnsAreNumbered'
      BY <1>4, <1>7, <1>10 DEF CaptureInv, HistoryInv, TurnsWerePrinted, TurnsAreNumbered
    <3>2. ASSUME slips.lost = 0 PROVE BooksAreFull' /\ NoRepeat' /\ \A d \in Copies : Unseen(d)'
      <4>1. BooksAreFull /\ NoRepeat
        BY <3>2 DEF CaptureInv, HistoryInv
      <4>2. BooksAreFull' /\ NoRepeat'
        BY <4>1, <1>4, <1>7, <1>10, FitStays DEF BooksAreFull, NoRepeat
      <4>3. \A d \in Copies : Unseen(d)'
        BY <1>3, <1>7, <1>8 DEF Unseen
      <4> QED
        BY <4>2, <4>3
    <3>3. ASSUME slips.lost = 0, slips.late = 0 PROVE MarkerIsLast' /\ NoEcho'
      <4>1. MarkerIsLast /\ NoEcho
        BY <3>3 DEF CaptureInv, HistoryInv
      <4>2. \A d \in Copies : ~Marked(d)
        BY <1>1, <1>8 DEF Marked
      <4>3. \A i \in DOMAIN printed : LastSession(i) => PairOf(i) # mark
        BY <3>3, <4>1, <4>2, <1>6 DEF MarkerIsLast
      <4>4. /\ \A i : LastSession(i)' <=> LastSession(i)
            /\ \A i : PairOf(i)' = PairOf(i)
        BY <1>7 DEF LastSession, PairOf
      <4>5. NoEcho'
        BY <4>1, <4>4, <1>7 DEF NoEcho, Before
      <4>6. Marked(c)' /\ books'.marker = mark /\ \A d \in Copies \ {c} : ~Marked(d)'
        BY <1>3, <1>4, <1>7, <1>8, <1>10 DEF Marked
      <4>7. <<asks'[c].id, asks'[c].ids>> = mark
        BY <1>3, <1>7
      <4> HIDE DEF mark
      <4>8. MarkerIsLast'
        BY <4>3, <4>4, <4>6, <4>7, <1>7 DEF MarkerIsLast
      <4> QED
        BY <4>5, <4>8
    <3> QED
      BY <1>10, <3>1, <3>2, <3>3 DEF HistoryInv
  <2>3. books' \in Books /\ books'.injected \subseteq known
    BY <1>4, <1>10 DEF CaptureInv, AllPlaced
  <2> QED
    BY <1>1, <1>3, <1>5, <1>6, <1>9, <2>1, <2>2, <2>3, RequestGoes DEF Placed, TurnOnly, SessionOnly
<1>11. CASE Slip("lost") /\ books' = books
  <2>1. SlipsGrow /\ slips'.lost # 0
    <3>1. SlipsGrow /\ slips'["lost"] > 0
      BY <1>11, SlipGrows DEF CaptureInv
    <3> QED
      BY <3>1 DEF SlipsGrow
  <2>2. HistoryInv'
    BY <1>7, <1>11, <2>1, FitStays, HistoryKept
  <2>3. books' \in Books /\ books'.injected \subseteq known
    BY <1>2, <1>11 DEF CaptureInv, AllPlaced
  <2> QED
    BY <1>1, <1>3, <1>5, <1>6, <1>9, <2>1, <2>2, <2>3, RequestGoes DEF Placed, TurnOnly, SessionOnly
<1> QED
  BY <1>1, <1>10, <1>11 DEF Written

\* The injected book holds facts of the namespace, and all that it should as long as they fit.
LEMMA BookedFacts ==
  ASSUME CaptureInv, NEW c \in Copies, NEW S \in Latest(asks[c].seen, asks[c].ids, InjectedCap)
  PROVE  S \subseteq asks[c].seen \cup asks[c].ids /\ S \subseteq known /\ (FactsFit => S = asks[c].seen \cup asks[c].ids)
<1>1. asks[c].seen \cup asks[c].ids \subseteq known
  BY DEF CaptureInv, AllPlaced, Placed
<1>2. IsFiniteSet(known)
  BY FactsFinite DEF CaptureInv
<1>3. S \subseteq asks[c].seen \cup asks[c].ids
      /\ \A T : IsFiniteSet(T) /\ asks[c].seen \cup asks[c].ids \subseteq T /\ Cardinality(T) <= InjectedCap
              => S = asks[c].seen \cup asks[c].ids
  <2>1. InjectedCap \in Nat
    BY CaptureBounds
  <2> QED
    BY <2>1, LatestKeeps
<1> QED
  BY <1>1, <1>2, <1>3 DEF FactsFit

\* The facts of a turn are booked before its prompt id.
LEMMA RecordSeenKeeps ==
  ASSUME CaptureInv, NEW c \in Copies, RecordSeen(c)
  PROVE  CaptureInv'
<1>0. PICK more \in Latest(asks[c].seen, asks[c].ids, InjectedCap) : Written([books EXCEPT !.injected = more])
  BY DEF RecordSeen, Inject
<1> DEFINE a == [asks[c] EXCEPT !.pc = "pid"]
           b == [books EXCEPT !.injected = more]
<1>1. asks[c].pc = "inject" /\ asks[c].turn /\ AskGoes(c, a) /\ Written(b)
  BY <1>0 DEF RecordSeen, AskIs, Turn
<1>a. /\ more \subseteq asks[c].seen \cup asks[c].ids /\ more \subseteq known
      /\ FactsFit => more = asks[c].seen \cup asks[c].ids
  BY BookedFacts
<1>2. asks[c] \in AskRec /\ more \subseteq Nat /\ books \in Books
  BY <1>a, AskFields DEF CaptureInv, CaptureTypes
<1>3. /\ a \in AskRec /\ a.pc = "pid" /\ a.turn = asks[c].turn /\ a.id = asks[c].id /\ a.seen = asks[c].seen
      /\ a.ids = asks[c].ids /\ a.past = asks[c].past
  BY <1>2 DEF AskRec, AskPlaces, TurnOnly
<1>4. b \in Books /\ b.marker = books.marker /\ b.injected = more /\ b.turns = books.turns
  BY <1>2 DEF Books
<1>5. Placed(c) /\ Current(c)
  BY DEF CaptureInv, AllPlaced
<1>6. /\ deliveries = {c} /\ asks[c].past \subseteq books.turns /\ asks[c].ids # {} /\ more \subseteq known
      /\ slips.lost = 0 => /\ asks[c].seen = books.injected /\ asks[c].past = books.turns /\ asks[c].id \notin books.turns
                           /\ asks[c].ids \cap books.injected = {}
  BY <1>1, <1>5, <1>a DEF Placed, Current, ReadWell
<1> HIDE DEF a, b
<1>7. asks'[c] = a /\ (\A d \in Copies \ {c} : asks'[d] = asks[d]) /\ UNCHANGED <<host, printed, known>>
  BY <1>1 DEF AskGoes, CaptureInv, CaptureTypes
<1>8. \A d \in Copies \ {c} : asks[d].pc \in {"idle", "lock"}
  BY <1>6, OthersWait
<1>9. (\A d \in Copies : ~Marked(d)) /\ (\A d \in Copies : ~Marked(d)')
  BY <1>1, <1>3, <1>7, <1>8 DEF Marked
<1>10. CASE books' = b /\ slips' = slips
  <2>1. SlipsGrow
    BY <1>10, SlipsStay DEF CaptureInv
  <2>2. Current(c)'
    BY <1>3, <1>4, <1>6, <1>7, <1>10 DEF Current, ReadWell
  <2>3. HistoryInv'
    <3>1. TurnsWerePrinted' /\ TurnsAreNumbered'
      BY <1>4, <1>7, <1>10 DEF CaptureInv, HistoryInv, TurnsWerePrinted, TurnsAreNumbered
    <3>2. ASSUME slips.lost = 0 PROVE BooksAreFull' /\ NoRepeat' /\ \A d \in Copies : Unseen(d)'
      <4>1. BooksAreFull /\ NoRepeat
        BY <3>2 DEF CaptureInv, HistoryInv
      <4>2. BooksAreFull' /\ NoRepeat'
        BY <3>2, <4>1, <1>a, <1>4, <1>6, <1>7, <1>10, FitStays DEF BooksAreFull, NoRepeat
      <4>3. Unseen(c)'
        BY <3>2, <4>1, <1>a, <1>3, <1>4, <1>6, <1>7, <1>10, FitStays DEF Unseen, BooksAreFull
      <4>4. \A d \in Copies \ {c} : Unseen(d)'
        BY <1>7, <1>8 DEF Unseen
      <4> QED
        BY <4>2, <4>3, <4>4
    <3>3. ASSUME slips.lost = 0, slips.late = 0 PROVE MarkerIsLast' /\ NoEcho'
      <4>1. MarkerIsLast /\ NoEcho
        BY <3>3 DEF CaptureInv, HistoryInv
      <4>2. /\ \A i : LastSession(i)' <=> LastSession(i)
            /\ \A i : PairOf(i)' = PairOf(i)
        BY <1>7 DEF LastSession, PairOf
      <4>3. NoEcho'
        BY <4>1, <4>2, <1>7 DEF NoEcho, Before
      <4>4. MarkerIsLast'
        BY <4>1, <4>2, <1>4, <1>7, <1>9, <1>10 DEF MarkerIsLast
      <4> QED
        BY <4>3, <4>4
    <3> QED
      BY <1>10, <3>1, <3>2, <3>3 DEF HistoryInv
  <2>4. books' \in Books /\ books'.injected \subseteq known
    BY <1>4, <1>6, <1>10
  <2> QED
    BY <1>1, <1>3, <1>5, <1>6, <2>1, <2>2, <2>3, <2>4, RequestGoes DEF Placed, TurnOnly, SessionOnly
<1>11. CASE Slip("lost") /\ books' = books
  <2>1. SlipsGrow /\ slips'.lost # 0
    <3>1. SlipsGrow /\ slips'["lost"] > 0
      BY <1>11, SlipGrows DEF CaptureInv
    <3> QED
      BY <3>1 DEF SlipsGrow
  <2>2. HistoryInv'
    BY <1>7, <1>11, <2>1, FitStays, HistoryKept
  <2>3. books' \in Books /\ books'.injected \subseteq known
    BY <1>2, <1>11 DEF CaptureInv, AllPlaced
  <2>4. Current(c)'
    BY <1>3, <1>6, <1>7, <1>11, <2>1 DEF Current
  <2> QED
    BY <1>1, <1>3, <1>5, <1>6, <2>1, <2>2, <2>3, <2>4, RequestGoes DEF Placed, TurnOnly, SessionOnly
<1> QED
  BY <1>1, <1>10, <1>11 DEF Written

-----------------------------------------------------------------------------
(* What a request prints *)

\* Appending a block.
LEMMA PrintedGrows ==
  ASSUME CaptureTypes, NEW k \in Block, printed' = Append(printed, k)
  PROVE  /\ Len(printed) \in Nat /\ Len(printed') = Len(printed) + 1
         /\ DOMAIN printed = 1 .. Len(printed) /\ DOMAIN printed' = 1 .. Len(printed) + 1
         /\ \A i \in DOMAIN printed : i \in DOMAIN printed' /\ i < Len(printed) + 1 /\ printed'[i] = printed[i]
         /\ \A i \in DOMAIN printed' : i \in DOMAIN printed \/ i = Len(printed) + 1
         /\ printed'[Len(printed) + 1] = k /\ printed' \in Seq(Block)
<1>1. printed \in Seq(Block)
  BY DEF CaptureTypes
<1>2. Len(printed) \in Nat /\ DOMAIN printed = 1 .. Len(printed)
  BY <1>1
<1>3. Len(printed') = Len(printed) + 1 /\ DOMAIN printed' = 1 .. Len(printed) + 1 /\ printed' \in Seq(Block)
  BY <1>1
<1>4. \A i \in DOMAIN printed : printed'[i] = printed[i]
  BY <1>1
<1>5. printed'[Len(printed) + 1] = k
  BY <1>1
<1> QED
  BY <1>2, <1>3, <1>4, <1>5

\* The block that a request prints.
LEMMA ServePrints ==
  ASSUME CaptureInv, NEW c \in Copies, Serve(c, asks[c].ids), asks[c].ids # {}
  PROVE  LET k == [turn |-> asks[c].turn, id |-> asks[c].id, n |-> event.n, ids |-> asks[c].ids]
         IN  k \in Block /\ printed' = Append(printed, k)
<1>1. event.n \in Nat
  BY DEF CaptureInv, CaptureTypes, EventRec
<1>2. [turn |-> asks[c].turn, id |-> asks[c].id, n |-> event.n, ids |-> asks[c].ids] \in Block
  BY <1>1, AskFields DEF CaptureInv, Block
<1> QED
  BY <1>2 DEF Serve, Turn

\* The new block is the only one that can become the last of a session or follow the last one.
LEMMA OldBlocks ==
  ASSUME CaptureTypes, NEW k \in Block, printed' = Append(printed, k), NEW n \in Nat, n = Len(printed) + 1
  PROVE  /\ \A i \in DOMAIN printed : LastSession(i)' => LastSession(i) /\ k.turn
         /\ \A i \in DOMAIN printed : PairOf(i)' = PairOf(i)
         /\ PairOf(n)' = <<k.id, k.ids>>
         /\ \A i, j \in DOMAIN printed : Before(i, j)' => Before(i, j)
         /\ \A i \in DOMAIN printed : Before(i, n)' => LastSession(i) /\ ~k.turn
<1>1. /\ Len(printed) \in Nat /\ Len(printed') = Len(printed) + 1
      /\ DOMAIN printed = 1 .. Len(printed)
      /\ \A i \in DOMAIN printed : printed'[i] = printed[i]
      /\ printed'[Len(printed) + 1] = k
  BY PrintedGrows
<1>2. ASSUME NEW i \in DOMAIN printed, LastSession(i)'
      PROVE  LastSession(i) /\ k.turn
  <2>1. ~printed'[i].turn /\ \A m \in i + 1 .. Len(printed) + 1 : printed'[m].turn
    BY <1>1, <1>2 DEF LastSession
  <2>2. Len(printed) + 1 \in i + 1 .. Len(printed) + 1
    BY <1>1
  <2>3. \A m \in i + 1 .. Len(printed) : m \in DOMAIN printed /\ m \in i + 1 .. Len(printed) + 1
    BY <1>1
  <2> QED
    BY <1>1, <2>1, <2>2, <2>3 DEF LastSession
<1>3. \A i \in DOMAIN printed : PairOf(i)' = PairOf(i)
  BY <1>1 DEF PairOf
<1>4. PairOf(n)' = <<k.id, k.ids>>
  BY <1>1 DEF PairOf
<1>5. ASSUME NEW i \in DOMAIN printed, NEW j \in DOMAIN printed, Before(i, j)'
      PROVE  Before(i, j)
  <2>1. i < j /\ ~printed'[i].turn /\ ~printed'[j].turn /\ \A m \in i + 1 .. j - 1 : printed'[m].turn
    BY <1>5 DEF Before
  <2>2. \A m \in i + 1 .. j - 1 : m \in DOMAIN printed
    BY <1>1
  <2> QED
    BY <1>1, <2>1, <2>2 DEF Before
<1>6. ASSUME NEW i \in DOMAIN printed, Before(i, n)'
      PROVE  LastSession(i) /\ ~k.turn
  <2>1. ~printed'[i].turn /\ ~printed'[n].turn /\ \A m \in i + 1 .. n - 1 : printed'[m].turn
    BY <1>1, <1>6 DEF Before
  <2>2. \A m \in i + 1 .. Len(printed) : m \in DOMAIN printed /\ m \in i + 1 .. n - 1
    BY <1>1
  <2> QED
    BY <1>1, <2>1, <2>2 DEF LastSession
<1> QED
  BY <1>2, <1>3, <1>4, <1>5, <1>6

\* The turns of a history grow with it.
LEMMA TurnsGrow ==
  ASSUME CaptureTypes, NEW k \in Block, printed' = Append(printed, k)
  PROVE  /\ DeliveredTurns \subseteq DeliveredTurns' /\ IsFiniteSet(DeliveredTurns') /\ (TurnsFit' => TurnsFit)
         /\ k.turn => k.id \in DeliveredTurns'
<1>1. /\ Len(printed) + 1 \in DOMAIN printed' /\ printed'[Len(printed) + 1] = k /\ printed' \in Seq(Block)
      /\ \A i \in DOMAIN printed : i \in DOMAIN printed' /\ printed'[i] = printed[i]
  BY PrintedGrows
<1>2. DeliveredTurns \subseteq DeliveredTurns'
  BY <1>1 DEF DeliveredTurns, TurnBlocks
<1>3. IsFiniteSet(DeliveredTurns')
  BY <1>1, TurnsFinite DEF DeliveredTurns, TurnBlocks
<1>4. k.turn => k.id \in DeliveredTurns'
  BY <1>1 DEF DeliveredTurns, TurnBlocks
<1>5. Cardinality(DeliveredTurns) <= Cardinality(DeliveredTurns') /\ IsFiniteSet(DeliveredTurns)
  BY <1>2, <1>3, FS_Subset
<1>6. Cardinality(DeliveredTurns) \in Nat /\ Cardinality(DeliveredTurns') \in Nat
  BY <1>3, <1>5, FS_CardinalityType
<1>7. TurnsFit' => TurnsFit
  BY <1>5, <1>6, CaptureBounds DEF TurnsFit
<1> QED
  BY <1>2, <1>3, <1>4, <1>7

\* A session block is booked and printed.
LEMMA RecordInjectedKeeps ==
  ASSUME CaptureInv, NEW c \in Copies, RecordInjected(c)
  PROVE  CaptureInv'
<1>z. PICK more \in Latest(asks[c].seen, asks[c].ids, InjectedCap) : Written([books EXCEPT !.injected = more])
  BY DEF RecordInjected, Inject
<1> DEFINE b == [books EXCEPT !.injected = more]
           k == [turn |-> asks[c].turn, id |-> asks[c].id, n |-> event.n, ids |-> asks[c].ids]
<1>1. asks[c].pc = "inject" /\ ~asks[c].turn /\ Serve(c, asks[c].ids) /\ Written(b)
  BY <1>z DEF RecordInjected, AskIs, Turn
<1>a. more \subseteq asks[c].seen \cup asks[c].ids /\ more \subseteq known /\ (FactsFit => more = asks[c].seen \cup asks[c].ids)
  BY BookedFacts
<1>2. asks[c] \in AskRec /\ more \subseteq Nat /\ books \in Books
  BY <1>a, AskFields DEF CaptureInv, CaptureTypes
<1>3. b \in Books /\ b.marker = books.marker /\ b.injected = more /\ b.turns = books.turns
  BY <1>2 DEF Books
<1>4. Placed(c) /\ Current(c)
  BY DEF CaptureInv, AllPlaced
<1>5. deliveries = {c} /\ (slips.lost = 0 => asks[c].seen = books.injected) /\ asks[c].ids # {} /\ more \subseteq known
  BY <1>1, <1>4, <1>a DEF Placed, Current, ReadWell
<1>6. k \in Block /\ printed' = Append(printed, k)
  BY <1>1, <1>5, ServePrints
<1>7. k.turn = asks[c].turn /\ k.id = asks[c].id /\ k.ids = asks[c].ids
  OBVIOUS
<1> HIDE DEF b, k
<1>8. /\ asks' = [asks EXCEPT ![c] = NoAsk] /\ deliveries' = deliveries \ {c}
      /\ punk' = [punk EXCEPT ![c].pc = "end", ![c].replied = MustReply(host, event.kind)]
      /\ UNCHANGED <<host, event, known>>
  BY <1>1 DEF Serve
<1>9. asks'[c] = NoAsk /\ \A d \in Copies \ {c} : asks'[d] = asks[d] /\ asks[d].pc \in {"idle", "lock"}
  BY <1>5, <1>8, OthersWait DEF CaptureInv, CaptureTypes
<1>0. PICK n \in Nat : n = Len(printed) + 1
  <2>1. Len(printed) + 1 \in Nat
    BY PrintedFields DEF CaptureInv
  <2> QED
    BY <2>1
<1>10. /\ DOMAIN printed = 1 .. Len(printed) /\ n \in Nat /\ n \in DOMAIN printed'
       /\ \A i \in DOMAIN printed : i \in DOMAIN printed' /\ i < n /\ printed'[i] = printed[i]
       /\ \A i \in DOMAIN printed' : i \in DOMAIN printed \/ i = n
       /\ printed'[n] = k /\ printed' \in Seq(Block)
  BY <1>0, <1>6, PrintedGrows DEF CaptureInv
<1>11. SlipsGrow /\ (slips'.lost = 0 => books' = b /\ slips' = slips)
  <2>1. CASE books' = b /\ slips' = slips
    BY <2>1, SlipsStay DEF CaptureInv
  <2>2. CASE Slip("lost")
    <3>1. SlipsGrow /\ slips'["lost"] > 0
      BY <2>2, SlipGrows DEF CaptureInv
    <3> QED
      BY <3>1 DEF SlipsGrow
  <2> QED
    BY <1>1, <2>1, <2>2 DEF Written
<1>12. books' \in Books /\ books'.injected \subseteq known /\ books'.turns = books.turns /\ books'.marker = books.marker
  BY <1>1, <1>2, <1>3, <1>5 DEF Written, CaptureInv, AllPlaced
<1>13. TurnsWerePrinted' /\ TurnsAreNumbered'
  <2>1. TurnsWerePrinted /\ TurnsAreNumbered
    BY DEF CaptureInv, HistoryInv
  <2>2. TurnsWerePrinted'
    BY <2>1, <1>10, <1>12 DEF TurnsWerePrinted
  <2>3. TurnsAreNumbered'
    <3> QED
      BY <2>1, <1>1, <1>7, <1>8, <1>10 DEF TurnsAreNumbered
  <2> QED
    BY <2>2, <2>3
<1>14. ASSUME slips'.lost = 0 PROVE BooksAreFull' /\ NoRepeat' /\ \A d \in Copies : Unseen(d)'
  <2>1. BooksAreFull /\ NoRepeat
    BY <1>11, <1>14 DEF CaptureInv, HistoryInv, SlipsGrow
  <2>2. /\ FactsFit' => FactsFit /\ asks[c].ids \subseteq books'.injected /\ books.injected \subseteq books'.injected
        /\ TurnsFit' => TurnsFit
    <3>1. FactsFit' <=> FactsFit
      BY <1>8, FitStays
    <3>2. TurnsFit' => TurnsFit
      BY <1>6, TurnsGrow DEF CaptureInv
    <3>3. slips.lost = 0 /\ books'.injected = more
      BY <1>3, <1>11, <1>14
    <3> QED
      BY <1>a, <1>5, <3>1, <3>2, <3>3
  <2>3. BooksAreFull'
    BY <2>1, <2>2, <1>1, <1>7, <1>10, <1>12 DEF BooksAreFull
  <2>4. NoRepeat'
    <3> SUFFICES ASSUME NEW i \in DOMAIN printed', NEW j \in DOMAIN printed', i < j, printed'[j].turn
                 PROVE  /\ FactsFit' => printed'[i].ids \cap printed'[j].ids = {}
                        /\ printed'[i].turn /\ TurnsFit' => printed'[i].id # printed'[j].id
      BY DEF NoRepeat
    <3>1. j \in DOMAIN printed
      BY <1>1, <1>7, <1>10
    <3>2. i \in DOMAIN printed
      BY <3>1, <1>10
    <3> QED
      BY <2>1, <2>2, <3>1, <3>2, <1>10 DEF NoRepeat
  <2>5. \A d \in Copies : Unseen(d)'
    BY <1>9, NoAskFields DEF Unseen
  <2> QED
    BY <2>3, <2>4, <2>5
<1>15. ASSUME slips'.lost = 0, slips'.late = 0 PROVE MarkerIsLast' /\ NoEcho'
  <2>1. MarkerIsLast /\ NoEcho
    BY <1>11, <1>15 DEF CaptureInv, HistoryInv, SlipsGrow
  <2>2. /\ \A i \in DOMAIN printed : ~LastSession(i)'
        /\ \A i \in DOMAIN printed : PairOf(i)' = PairOf(i)
        /\ PairOf(n)' = <<asks[c].id, asks[c].ids>>
        /\ \A i, j \in DOMAIN printed : Before(i, j)' => Before(i, j)
        /\ \A i \in DOMAIN printed : Before(i, n)' => LastSession(i)
    <3>1. /\ \A i \in DOMAIN printed : LastSession(i)' => LastSession(i) /\ k.turn
          /\ \A i \in DOMAIN printed : PairOf(i)' = PairOf(i)
          /\ PairOf(n)' = <<k.id, k.ids>>
          /\ \A i, j \in DOMAIN printed : Before(i, j)' => Before(i, j)
          /\ \A i \in DOMAIN printed : Before(i, n)' => LastSession(i) /\ ~k.turn
      BY <1>0, <1>6, OldBlocks DEF CaptureInv
    <3> QED
      BY <3>1, <1>1, <1>7
  <2>3. Marked(c)
    BY <1>1 DEF Marked
  <2>4. books.marker = <<asks[c].id, asks[c].ids>> /\ \A i \in DOMAIN printed : LastSession(i) => PairOf(i) # books.marker
    BY <2>1, <2>3 DEF MarkerIsLast
  <2>5. \A d \in Copies : ~Marked(d)'
    BY <1>9, NoAskFields DEF Marked
  <2>6. MarkerIsLast'
    <3>1. ASSUME NEW i \in DOMAIN printed', LastSession(i)' PROVE PairOf(i)' = books'.marker
      <4>1. i = n
        BY <3>1, <2>2, <1>10
      <4>2. PairOf(i)' = <<asks[c].id, asks[c].ids>>
        BY <4>1, <2>2
      <4> QED
        BY <4>2, <2>4, <1>12
    <3> QED
      BY <3>1, <2>5 DEF MarkerIsLast
  <2>7. NoEcho'
    <3> SUFFICES ASSUME NEW i \in DOMAIN printed', NEW j \in DOMAIN printed', Before(i, j)'
                 PROVE  PairOf(i)' # PairOf(j)'
      BY DEF NoEcho
    <3>1. i < j /\ i \in DOMAIN printed
      <4>1. i < j
        BY DEF Before
      <4>2. ~(i = n)
        BY <4>1, <1>10
      <4> QED
        BY <4>1, <4>2, <1>10
    <3>2. CASE j \in DOMAIN printed
      BY <2>1, <2>2, <3>1, <3>2 DEF NoEcho
    <3>3. CASE j = n
      <4>1. LastSession(i) /\ PairOf(j)' = <<asks[c].id, asks[c].ids>>
        BY <2>2, <3>1, <3>3
      <4> QED
        BY <2>2, <2>4, <3>1, <4>1
    <3> QED
      BY <3>2, <3>3, <1>10
  <2> QED
    BY <2>6, <2>7
<1>16. HistoryInv'
  BY <1>13, <1>14, <1>15 DEF HistoryInv
<1> QED
  BY <1>5, <1>8, <1>10, <1>11, <1>12, <1>16, RequestEnds

\* A turn is booked and printed: none of its facts and no block of its id was printed before.
LEMMA RecordTurnKeeps ==
  ASSUME CaptureInv, NEW c \in Copies, RecordTurn(c)
  PROVE  CaptureInv'
<1>z. PICK more \in Latest(asks[c].past, {asks[c].id}, TurnsCap) : Written([books EXCEPT !.turns = more])
  BY DEF RecordTurn
<1> DEFINE b == [books EXCEPT !.turns = more]
           k == [turn |-> asks[c].turn, id |-> asks[c].id, n |-> event.n, ids |-> asks[c].ids]
<1>1. asks[c].pc = "pid" /\ Serve(c, asks[c].ids) /\ Written(b)
  BY <1>z DEF RecordTurn, AskIs
<1>a. /\ more \subseteq asks[c].past \cup {asks[c].id}
      /\ \A T : IsFiniteSet(T) /\ asks[c].past \cup {asks[c].id} \subseteq T /\ Cardinality(T) <= TurnsCap
              => more = asks[c].past \cup {asks[c].id}
  <2>1. TurnsCap \in Nat
    BY CaptureBounds
  <2> QED
    BY <2>1, LatestKeeps
<1>2. asks[c] \in AskRec /\ more \subseteq AskIds /\ books \in Books
  BY <1>a, AskFields DEF CaptureInv, CaptureTypes
<1>3. b \in Books /\ b.marker = books.marker /\ b.injected = books.injected /\ b.turns = more
  BY <1>2 DEF Books
<1>4. Placed(c) /\ Current(c)
  BY DEF CaptureInv, AllPlaced
<1>5. /\ deliveries = {c} /\ asks[c].turn /\ asks[c].ids # {} /\ (host # "hermes" => asks[c].id = event.n)
      /\ more \subseteq books.turns \cup {asks[c].id}
      /\ slips.lost = 0 => asks[c].past = books.turns /\ asks[c].id \notin books.turns
  BY <1>1, <1>4, <1>a DEF Placed, Current, ReadWell, TurnOnly
<1>6. k \in Block /\ printed' = Append(printed, k)
  BY <1>1, <1>5, ServePrints
<1>7. k.turn /\ k.id = asks[c].id /\ k.ids = asks[c].ids /\ k.n = event.n
  BY <1>5
<1> HIDE DEF b, k
<1>8. /\ asks' = [asks EXCEPT ![c] = NoAsk] /\ deliveries' = deliveries \ {c}
      /\ punk' = [punk EXCEPT ![c].pc = "end", ![c].replied = MustReply(host, event.kind)]
      /\ UNCHANGED <<host, event, known>>
  BY <1>1 DEF Serve
<1>9. asks'[c] = NoAsk /\ \A d \in Copies \ {c} : asks'[d] = asks[d] /\ asks[d].pc \in {"idle", "lock"}
  BY <1>5, <1>8, OthersWait DEF CaptureInv, CaptureTypes
<1>0. PICK n \in Nat : n = Len(printed) + 1
  <2>1. Len(printed) + 1 \in Nat
    BY PrintedFields DEF CaptureInv
  <2> QED
    BY <2>1
<1>10. /\ DOMAIN printed = 1 .. Len(printed) /\ n \in Nat /\ n \in DOMAIN printed'
       /\ \A i \in DOMAIN printed : i \in DOMAIN printed' /\ i < n /\ printed'[i] = printed[i]
       /\ \A i \in DOMAIN printed' : i \in DOMAIN printed \/ i = n
       /\ printed'[n] = k /\ printed' \in Seq(Block)
  BY <1>0, <1>6, PrintedGrows DEF CaptureInv
<1>11. SlipsGrow /\ (slips'.lost = 0 => books' = b /\ slips' = slips)
  <2>1. CASE books' = b /\ slips' = slips
    BY <2>1, SlipsStay DEF CaptureInv
  <2>2. CASE Slip("lost")
    <3>1. SlipsGrow /\ slips'["lost"] > 0
      BY <2>2, SlipGrows DEF CaptureInv
    <3> QED
      BY <3>1 DEF SlipsGrow
  <2> QED
    BY <1>1, <2>1, <2>2 DEF Written
<1>12. /\ books' \in Books /\ books'.injected = books.injected /\ books'.marker = books.marker
       /\ books'.turns \subseteq books.turns \cup {asks[c].id} /\ books.injected \subseteq known
  BY <1>1, <1>2, <1>3, <1>5 DEF Written, CaptureInv, AllPlaced
<1>13. TurnsWerePrinted' /\ TurnsAreNumbered'
  <2>1. TurnsWerePrinted /\ TurnsAreNumbered
    BY DEF CaptureInv, HistoryInv
  <2>2. TurnsWerePrinted'
    <3> SUFFICES ASSUME NEW t \in books'.turns
                 PROVE  \E i \in DOMAIN printed' : printed'[i].turn /\ printed'[i].id = t
      BY DEF TurnsWerePrinted
    <3>1. CASE t \in books.turns
      BY <2>1, <3>1, <1>10 DEF TurnsWerePrinted
    <3>2. CASE t = asks[c].id
      BY <3>2, <1>7, <1>10
    <3> QED
      BY <3>1, <3>2, <1>12
  <2>3. TurnsAreNumbered'
    <3> QED
      BY <2>1, <1>5, <1>7, <1>8, <1>10 DEF TurnsAreNumbered
  <2> QED
    BY <2>2, <2>3
<1>14. ASSUME slips'.lost = 0 PROVE BooksAreFull' /\ NoRepeat' /\ \A d \in Copies : Unseen(d)'
  <2>1. BooksAreFull /\ NoRepeat /\ Unseen(c)
    BY <1>11, <1>14 DEF CaptureInv, HistoryInv, SlipsGrow
  <2>a. slips.lost = 0 /\ books'.turns = more /\ (FactsFit' <=> FactsFit)
    BY <1>3, <1>8, <1>11, <1>14, FitStays
  <2>2. TurnsFit' => TurnsFit /\ books'.turns = books.turns \cup {asks[c].id}
    <3>1. /\ DeliveredTurns \subseteq DeliveredTurns' /\ IsFiniteSet(DeliveredTurns') /\ (TurnsFit' => TurnsFit)
          /\ asks[c].id \in DeliveredTurns'
      BY <1>6, <1>7, TurnsGrow DEF CaptureInv
    <3>2. books.turns \subseteq DeliveredTurns
      BY DEF CaptureInv, HistoryInv, TurnsWerePrinted, DeliveredTurns, TurnBlocks
    <3>3. asks[c].past \cup {asks[c].id} \subseteq DeliveredTurns'
      BY <1>5, <2>a, <3>1, <3>2
    <3>4. TurnsFit' => more = asks[c].past \cup {asks[c].id}
      BY <1>a, <3>1, <3>3 DEF TurnsFit
    <3> QED
      BY <1>5, <2>a, <3>1, <3>4
  <2>3. FactsFit => asks[c].ids \subseteq books.injected /\ \A i \in DOMAIN printed : asks[c].ids \cap printed[i].ids = {}
    BY <2>1, <1>1 DEF Unseen
  <2>4. BooksAreFull'
    BY <2>1, <2>a, <2>2, <2>3, <1>7, <1>10, <1>12 DEF BooksAreFull
  <2>5. NoRepeat'
    <3> SUFFICES ASSUME NEW i \in DOMAIN printed', NEW j \in DOMAIN printed', i < j, printed'[j].turn
                 PROVE  /\ FactsFit' => printed'[i].ids \cap printed'[j].ids = {}
                        /\ printed'[i].turn /\ TurnsFit' => printed'[i].id # printed'[j].id
      BY DEF NoRepeat
    <3>1. i \in DOMAIN printed
      <4>1. i \in DOMAIN printed \/ i = n
        BY <1>10
      <4>2. i # n
        BY <1>10
      <4> QED
        BY <4>1, <4>2
    <3>2. CASE j \in DOMAIN printed
      BY <2>1, <2>a, <2>2, <3>1, <3>2, <1>10 DEF NoRepeat
    <3>3. CASE j = n
      <4>1. printed'[j].ids = asks[c].ids /\ printed'[j].id = asks[c].id /\ printed'[i] = printed[i]
        BY <3>1, <3>3, <1>7, <1>10
      <4>2. printed[i].turn /\ TurnsFit => printed[i].id # asks[c].id
        BY <2>1, <2>a, <3>1, <1>5 DEF BooksAreFull
      <4> QED
        BY <2>a, <2>2, <2>3, <3>1, <4>1, <4>2
    <3> QED
      BY <3>2, <3>3, <1>10
  <2>6. \A d \in Copies : Unseen(d)'
    BY <1>9, NoAskFields DEF Unseen
  <2> QED
    BY <2>4, <2>5, <2>6
<1>15. ASSUME slips'.lost = 0, slips'.late = 0 PROVE MarkerIsLast' /\ NoEcho'
  <2>1. MarkerIsLast /\ NoEcho
    BY <1>11, <1>15 DEF CaptureInv, HistoryInv, SlipsGrow
  <2>2. /\ \A i \in DOMAIN printed : LastSession(i)' => LastSession(i)
        /\ \A i \in DOMAIN printed : PairOf(i)' = PairOf(i)
        /\ \A i, j \in DOMAIN printed : Before(i, j)' => Before(i, j)
        /\ \A i \in DOMAIN printed : ~Before(i, n)'
    <3>1. /\ \A i \in DOMAIN printed : LastSession(i)' => LastSession(i) /\ k.turn
          /\ \A i \in DOMAIN printed : PairOf(i)' = PairOf(i)
          /\ \A i, j \in DOMAIN printed : Before(i, j)' => Before(i, j)
          /\ \A i \in DOMAIN printed : Before(i, n)' => LastSession(i) /\ ~k.turn
      BY <1>0, <1>6, OldBlocks DEF CaptureInv
    <3> QED
      BY <3>1, <1>7
  <2>3. ~LastSession(n)'
    BY <1>7, <1>10 DEF LastSession
  <2>4. (\A d \in Copies : ~Marked(d)) /\ \A d \in Copies : ~Marked(d)'
    BY <1>1, <1>9, NoAskFields DEF Marked
  <2>5. \A i \in DOMAIN printed : LastSession(i) => PairOf(i) = books.marker
    BY <2>1, <2>4 DEF MarkerIsLast
  <2>6. MarkerIsLast'
    <3>1. ASSUME NEW i \in DOMAIN printed', LastSession(i)' PROVE PairOf(i)' = books'.marker
      <4>1. i \in DOMAIN printed
        BY <3>1, <2>3, <1>10
      <4>2. PairOf(i)' = PairOf(i) /\ LastSession(i)
        BY <4>1, <3>1, <2>2
      <4> QED
        BY <4>1, <4>2, <2>5, <1>12
    <3> QED
      BY <3>1, <2>4 DEF MarkerIsLast
  <2>7. NoEcho'
    <3> SUFFICES ASSUME NEW i \in DOMAIN printed', NEW j \in DOMAIN printed', Before(i, j)'
                 PROVE  PairOf(i)' # PairOf(j)'
      BY DEF NoEcho
    <3>1. i < j /\ i \in DOMAIN printed
      <4>1. i < j
        BY DEF Before
      <4>2. ~(i = n)
        BY <4>1, <1>10
      <4> QED
        BY <4>1, <4>2, <1>10
    <3>2. j \in DOMAIN printed
      BY <2>2, <3>1, <1>10
    <3> QED
      BY <2>1, <2>2, <3>1, <3>2 DEF NoEcho
  <2> QED
    BY <2>6, <2>7
<1>16. HistoryInv'
  BY <1>13, <1>14, <1>15 DEF HistoryInv
<1>17. books'.injected \subseteq known
  BY <1>12
<1> QED
  BY <1>5, <1>8, <1>10, <1>11, <1>12, <1>16, <1>17, RequestEnds

-----------------------------------------------------------------------------
(* The invariant and what follows from it *)

\* Every step keeps the invariant.
LEMMA CaptureStepKeeps == CaptureInv /\ [CaptureNext]_captureVars => CaptureInv'
<1> SUFFICES ASSUME CaptureInv, [CaptureNext]_captureVars PROVE CaptureInv'
  OBVIOUS
<1>1. CASE HostGoesOn
  BY <1>1, HostGoesOnKeeps
<1>0. CASE PromptComesAgain
  BY <1>0, PromptComesAgainKeeps
<1>2. CASE FactArrives
  BY <1>2, FactArrivesKeeps
<1>3. ASSUME NEW c \in Copies, HookStep(c) PROVE CaptureInv'
  BY <1>3, ReadFailsKeeps, ReadPayloadKeeps, SkipKeeps, ForwardKeeps, TimesOutKeeps DEF HookStep
<1>4. ASSUME NEW c \in Copies, AskStep(c) PROVE CaptureInv'
  BY <1>4, LockKeeps, AssembleKeeps, CompareKeeps, RecordMarkerKeeps, ReadInjectedKeeps, RecordInjectedKeeps,
     ReadTurnsKeeps, ReadSeenKeeps, SearchTurnKeeps, RecordSeenKeeps, RecordTurnKeeps DEF AskStep
<1>5. CASE UNCHANGED captureVars
  <2>1. UNCHANGED <<host, event, punk, asks, deliveries, known, captured, books, printed, slips>>
    BY <1>5 DEF captureVars
  <2>2. punk' \in [Copies -> HookRec] /\ event' \in EventRec /\ known \subseteq known' /\ \E m \in 1 .. KnownFacts : known' = 1 .. m
    BY <2>1 DEF CaptureInv, CaptureTypes
  <2>3. Answered' /\ SlipsGrow
    BY <2>1, SlipsStay DEF CaptureInv, Answered, Nameless, MustReply, isCursorBeforeSubmitPrompt, printAntigravityStopReply
  <2> QED
    BY <2>1, <2>2, <2>3, HooksMove
<1> QED
  BY <1>0, <1>1, <1>2, <1>3, <1>4, <1>5 DEF CaptureNext

\* The invariant holds in every reachable state.
LEMMA CaptureInvAlways == CaptureSpec => []CaptureInv
BY CaptureInitHolds, CaptureStepKeeps, PTL DEF CaptureSpec

\* The shapes of the invariant are those of the type invariant.
LEMMA InvGivesTypes == CaptureInv => CaptureTypeOK
<1> SUFFICES ASSUME CaptureInv PROVE CaptureTypeOK
  OBVIOUS
<1>1. host \in Hosts /\ event.kind \in EventKinds \cup {"none"} /\ deliveries \subseteq Copies
  BY DEF CaptureInv, CaptureTypes, EventRec
<1>2. \A c \in Copies : punk[c].pc \in {"idle", "new", "read", "fetch", "end"} /\ punk[c].payload \in Payloads
  <2>1. \A c \in Copies : punk[c] \in HookRec
    BY DEF CaptureInv, CaptureTypes
  <2> QED
    BY <2>1 DEF HookRec, HookPlaces
<1>3. known \subseteq 1 .. KnownFacts
  BY CaptureBounds DEF CaptureInv, CaptureTypes
<1>4. books.injected \subseteq known
  BY DEF CaptureInv, AllPlaced
<1> QED
  BY <1>1, <1>2, <1>3, <1>4 DEF CaptureTypeOK

\* NoRepeat and NoEcho are what DeliveredOnce asks.
LEMMA InvGivesOnce == CaptureInv => DeliveredOnce
<1> SUFFICES ASSUME CaptureInv, slips.lost = 0, NEW i \in DOMAIN printed, NEW j \in DOMAIN printed
             PROVE  /\ i < j /\ printed[j].turn /\ FactsFit => printed[i].ids \cap printed[j].ids = {}
                    /\ i < j /\ printed[j].turn /\ printed[i].turn /\ TurnsFit => printed[i].id # printed[j].id
                    /\ Before(i, j) /\ slips.late = 0 => PairOf(i) # PairOf(j)
  BY DEF DeliveredOnce, PairOf
<1>1. NoRepeat /\ (slips.late = 0 => NoEcho)
  BY DEF CaptureInv, HistoryInv
<1> QED
  BY <1>1 DEF NoRepeat, NoEcho

\* A turn with a delivered id is the one of this event: ids are numbers of events, except those of hermes.
LEMMA InvGivesFresh ==
  ASSUME CaptureInv, "hermes" \notin Hosts
  PROVE  FreshTurnsAreServed
<1> SUFFICES ASSUME NEW c \in Copies, asks[c].pc = "turns", asks[c].id \in books.turns
             PROVE  \E i \in DOMAIN printed : printed[i].turn /\ printed[i].n = event.n
  BY DEF FreshTurnsAreServed, AskIs, SeenTurn
<1>1. host # "hermes"
  BY DEF CaptureInv, CaptureTypes
<1>2. asks[c].id = event.n
  <2>1. Placed(c)
    BY DEF CaptureInv, AllPlaced
  <2> QED
    BY <1>1, <2>1 DEF Placed, TurnOnly
<1>3. PICK i \in DOMAIN printed : printed[i].turn /\ printed[i].id = asks[c].id
  BY DEF CaptureInv, HistoryInv, TurnsWerePrinted
<1>4. printed[i].id = printed[i].n
  BY <1>1, <1>3 DEF CaptureInv, HistoryInv, TurnsAreNumbered
<1> QED
  BY <1>2, <1>3, <1>4

\* A hook that ended with credentials has replied.
LEMMA InvGivesAnswers ==
  ASSUME CaptureInv, BadCredentials \cap {"cursor", "antigravity", "cline"} = {}
  PROVE  BlockingHooksAnswer
<1> SUFFICES ASSUME NEW c \in Copies, punk[c].pc = "end", MustReply(host, event.kind), ~Nameless(c)
             PROVE  punk[c].replied
  BY DEF BlockingHooksAnswer, HookIs
<1>1. host \in {"cursor", "antigravity", "cline"}
  BY DEF MustReply, isCursorBeforeSubmitPrompt, printAntigravityStopReply
<1>2. host \notin BadCredentials
  BY <1>1
<1>3. punk[c].replied = MustReply(host, event.kind)
  BY <1>2 DEF CaptureInv, Answered
<1> QED
  BY <1>3

\* Every reachable state of a session, its hooks and their requests is well typed (internal/hookcli, agent_handlers.go).
THEOREM CaptureTypeCorrect == CaptureSpec => []CaptureTypeOK
BY InvGivesTypes, CaptureInvAlways, PTL

\* While no bookkeeping read or write fails, no turn repeats a fact as long as the injected book has room for every fact, no turn
\* is printed twice, replayed or not, as long as the book of turns has room for every delivered one, and no session block repeats
\* the one before it unless one between them was lost, whichever copies of a hook race, fail or time out (deliveryMutex,
\* handleAgentTurnContext, recordInjectedIDs, recordDeliveredTurn).
THEOREM OncePerDelivery == CaptureSpec => []DeliveredOnce
BY InvGivesOnce, CaptureInvAlways, PTL

\* Every hook that is waited for answers unless its payload is no JSON, no delivery is repeated while the books can be read and
\* written and have room, and no fresh turn is mistaken for a delivered one, for any number of copies, events, facts and faults:
\* where the blocking hosts have credentials and no host hashes its prompts.  Both hypotheses are limits of the code (cmdHook
\* resolves the server before anything else; promptIDFallback of hermes).
THEOREM CaptureIsSafe ==
  ASSUME "hermes" \notin Hosts, BadCredentials \cap {"cursor", "antigravity", "cline"} = {}
  PROVE  CaptureSpec => []CaptureSafety
<1>1. CaptureInv => CaptureSafety
  BY InvGivesOnce, InvGivesFresh, InvGivesAnswers DEF CaptureSafety
<1> QED
  BY <1>1, CaptureInvAlways, PTL
=============================================================================
