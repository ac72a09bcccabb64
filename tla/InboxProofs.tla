---------------------------- MODULE InboxProofs -----------------------------
(***************************************************************************)
(* The inbox for any number of calls, invocations and messages: types, one *)
(* delivery at a time, and the unread cap where sends are admitted one by  *)
(* one.                                                                    *)
(***************************************************************************)
EXTENDS Inbox, FiniteSetTheorems, SequenceTheorems, TLAPS

-----------------------------------------------------------------------------
(* Types *)

\* What the columns of a row can be set to are messages.
LEMMA NewRows ==
  ASSUME TypeOK, NEW i \in DOMAIN msgs
  PROVE  /\ msgs[i] \in Message
         /\ Seen[i] \in Message /\ Expired[i] \in Message /\ Freed[i] \in Message
         /\ Acked[i] \in Message /\ Swept[i] \in Message
         /\ \A c \in Consumers : Leased(c)[i] \in Message
<1>1. msgs[i] \in Message
  BY DEF TypeOK
<1>2. /\ Seen[i] = [msgs[i] EXCEPT !.seen = TRUE]
      /\ Expired[i] = [msgs[i] EXCEPT !.lease = "expired"]
      /\ Freed[i] = [msgs[i] EXCEPT !.lease = "none", !.by = Nobody]
      /\ Acked[i] = [Freed[i] EXCEPT !.acked = TRUE]
      /\ Swept[i] = [msgs[i] EXCEPT !.swept = TRUE]
      /\ \A c \in Consumers : Leased(c)[i] = [Seen[i] EXCEPT !.lease = "live", !.by = c]
  BY DEF Seen, Expired, Freed, Acked, Swept, Leased
<1>3. Seen[i] \in Message /\ Expired[i] \in Message /\ Swept[i] \in Message
  BY <1>1, <1>2 DEF Message
<1>4. Freed[i] \in Message
  BY <1>1, <1>2 DEF Message
<1>5. Acked[i] \in Message
  BY <1>2, <1>4 DEF Message
<1>6. ASSUME NEW c \in Consumers PROVE Leased(c)[i] \in Message
  <2>1. Leased(c)[i] = [Seen[i] EXCEPT !.lease = "live", !.by = c]
    BY <1>2
  <2> HIDE DEF Leased, Seen
  <2> QED
    BY <1>3, <2>1 DEF Message
<1> QED
  BY <1>1, <1>3, <1>4, <1>5, <1>6

\* An UPDATE keeps the table a table of messages, and changes the rows of S.
LEMMA UpdateRows ==
  ASSUME TypeOK, NEW S, NEW f, \A i \in DOMAIN msgs : f[i] \in Message, Update(S, f)
  PROVE  /\ msgs' \in Seq(Message)
         /\ DOMAIN msgs' = DOMAIN msgs
         /\ Len(msgs') = Len(msgs)
         /\ \A i \in DOMAIN msgs : msgs'[i] = IF i \in S THEN f[i] ELSE msgs[i]
<1>1. /\ Len(msgs) \in Nat /\ DOMAIN msgs = 1..Len(msgs)
      /\ \A i \in DOMAIN msgs : msgs[i] \in Message
  BY DEF TypeOK
<1>2. msgs' = [i \in 1..Len(msgs) |-> IF i \in S THEN f[i] ELSE msgs[i]]
  BY <1>1 DEF Update
<1>3. \A i \in 1..Len(msgs) : (IF i \in S THEN f[i] ELSE msgs[i]) \in Message
  BY <1>1
<1>4. msgs' \in [1..Len(msgs) -> Message]
  BY <1>2, <1>3
<1> QED
  BY <1>1, <1>2, <1>4

\* A new row.
LEMMA AppendRow ==
  ASSUME TypeOK, NEW r \in Requests, msgs' = Append(msgs, NewMessage(r))
  PROVE  /\ NewMessage(r) \in Message
         /\ msgs' \in Seq(Message)
         /\ Len(msgs') = Len(msgs) + 1
         /\ DOMAIN msgs' = DOMAIN msgs \cup {Len(msgs) + 1}
         /\ \A i \in DOMAIN msgs : msgs'[i] = msgs[i]
         /\ msgs'[Len(msgs) + 1] = NewMessage(r)
<1>1. req[r] \in Request /\ msgs \in Seq(Message) /\ Len(msgs) \in Nat
      /\ DOMAIN msgs = 1..Len(msgs)
  BY DEF TypeOK
<1>2. NewMessage(r) \in Message
  <2>1. /\ req[r].sender \in Senders /\ req[r].key \in Keys \cup {NoKey}
        /\ req[r].body \in Bodies /\ req[r].reply \in Nat
    BY <1>1 DEF Request
  <2> QED
    BY <2>1 DEF NewMessage, Message
<1>3. msgs' \in Seq(Message) /\ Len(msgs') = Len(msgs) + 1
      /\ \A i \in 1..Len(msgs) : msgs'[i] = msgs[i]
      /\ msgs'[Len(msgs) + 1] = NewMessage(r)
  BY <1>1, <1>2, AppendProperties
<1>4. DOMAIN msgs' = 1..(Len(msgs) + 1)
  BY <1>3
<1>5. DOMAIN msgs' = DOMAIN msgs \cup {Len(msgs) + 1}
  BY <1>1, <1>4
<1> QED
  BY <1>1, <1>2, <1>3, <1>5

\* What a call turns into is a call.
LEMMA RequestRecords ==
  ASSUME TypeOK, NEW r \in Requests
  PROVE  /\ \A n \in Nat : Returns(r, n) \in Request
         /\ Fails(r) \in Request
         /\ \A b \in BOOLEAN : [req[r] EXCEPT !.pc = "find", !.locked = b] \in Request
         /\ [req[r] EXCEPT !.pc = "members"] \in Request
         /\ [req[r] EXCEPT !.pc = "count"] \in Request
         /\ [req[r] EXCEPT !.pc = "insert"] \in Request
<1>1. req[r] \in Request
  BY DEF TypeOK
<1>2. \A n \in Nat : Returns(r, n) \in Request
  BY <1>1 DEF Request, Returns
<1>3. \A p \in {"idle", "again"} :
        [req[r] EXCEPT !.pc = p, !.locked = FALSE, !.res = 0] \in Request
  BY <1>1 DEF Request
<1>4. Fails(r) \in Request
  BY <1>3 DEF Fails
<1> QED
  BY <1>1, <1>2, <1>4 DEF Request

\* The row numbers that occur in sets are numbers.
LEMMA RowNumbers ==
  ASSUME TypeOK
  PROVE  /\ DOMAIN msgs = 1..Len(msgs) /\ Len(msgs) \in Nat
         /\ Stored \in SUBSET Nat /\ Unread \subseteq Stored
         /\ Available \subseteq Unread /\ Batch \subseteq Available
         /\ Stored \subseteq DOMAIN msgs
<1>1. DOMAIN msgs = 1..Len(msgs) /\ Len(msgs) \in Nat
  BY DEF TypeOK
<1> QED
  BY <1>1 DEF Stored, Unread, Available, Batch

\* What an invocation turns into is an invocation.
LEMMA ConsumerRecords ==
  ASSUME TypeOK, NEW c \in Consumers
  PROVE  /\ NewConsumer \in Consumer
         /\ \A S \in SUBSET Nat :
              /\ [con[c] EXCEPT !.batch = @ \cup S, !.held = @ \cup S] \in Consumer
              /\ [con[c] EXCEPT !.read = @ \cup S] \in Consumer
              /\ \A p \in {"ack", "release"} :
                   [con[c] EXCEPT !.pc = p, !.asof = S] \in Consumer
         /\ \A i : [con[c] EXCEPT !.held = @ \ {i}] \in Consumer
         /\ [con[c] EXCEPT !.pc = "idle", !.batch = {}, !.held = {}, !.asof = {}] \in Consumer
         /\ [con[c] EXCEPT !.read = {}] \in Consumer
<1>1. con[c] \in Consumer
  BY DEF TypeOK
<1>2. /\ con[c].pc \in {"idle", "ack", "release"}
      /\ con[c].batch \in SUBSET Nat /\ con[c].held \in SUBSET Nat
      /\ con[c].read \in SUBSET Nat /\ con[c].asof \in SUBSET Nat
  BY <1>1 DEF Consumer
<1>3. NewConsumer \in Consumer
  BY DEF NewConsumer, Consumer
<1>4. ASSUME NEW S \in SUBSET Nat
      PROVE  /\ [con[c] EXCEPT !.batch = @ \cup S, !.held = @ \cup S] \in Consumer
             /\ [con[c] EXCEPT !.read = @ \cup S] \in Consumer
             /\ \A p \in {"ack", "release"} :
                  [con[c] EXCEPT !.pc = p, !.asof = S] \in Consumer
  BY <1>1, <1>2 DEF Consumer
<1>5. ASSUME NEW i PROVE [con[c] EXCEPT !.held = @ \ {i}] \in Consumer
  BY <1>1, <1>2 DEF Consumer
<1>6. /\ [con[c] EXCEPT !.pc = "idle", !.batch = {}, !.held = {}, !.asof = {}] \in Consumer
      /\ [con[c] EXCEPT !.read = {}] \in Consumer
  BY <1>1, <1>2 DEF Consumer
<1> QED
  BY <1>3, <1>4, <1>5, <1>6

\* The first state has its types.
LEMMA InitTypeOK == Init => TypeOK
<1> SUFFICES ASSUME Init PROVE TypeOK
  OBVIOUS
<1>1. members \subseteq Agents /\ msgs \in Seq(Message) /\ faults \in 0..MaxFaults
  BY InboxAssumption DEF Init
<1>2. req \in [Requests -> Request]
  <2>1. \A s \in Senders, b \in Bodies :
          [pc |-> "idle", sender |-> s, key |-> NoKey, body |-> b, reply |-> 0,
           locked |-> FALSE, res |-> 0] \in Request
    BY DEF Request
  <2> QED
    BY <2>1 DEF Init
<1>3. con \in [Consumers -> Consumer]
  <2>1. NewConsumer \in Consumer
    BY DEF NewConsumer, Consumer
  <2> QED
    BY <2>1 DEF Init
<1> QED
  BY <1>1, <1>2, <1>3 DEF TypeOK

\* Every step keeps the types.
LEMMA NextTypeOK == TypeOK /\ [Next]_vars => TypeOK'
<1> SUFFICES ASSUME TypeOK, [Next]_vars PROVE TypeOK'
  OBVIOUS
<1>0. /\ members \subseteq Agents /\ msgs \in Seq(Message) /\ faults \in 0..MaxFaults
      /\ req \in [Requests -> Request] /\ con \in [Consumers -> Consumer]
  BY DEF TypeOK
<1>1. ASSUME NEW r \in Requests, NEW rec \in Request, SetReq(r, rec),
             UNCHANGED <<members, msgs, con, faults>>
      PROVE  TypeOK'
  BY <1>0, <1>1 DEF TypeOK, SetReq
<1>2. ASSUME NEW c \in Consumers, NEW rec \in Consumer, SetCon(c, rec)
      PROVE  con' \in [Consumers -> Consumer]
  BY <1>0, <1>2 DEF SetCon
<1>3. ASSUME NEW r \in Requests, NEW s \in Senders, NEW k \in Keys \cup {NoKey},
             NEW b \in Bodies, NEW p \in Replies, SendMessage(r, s, k, b, p)
      PROVE  TypeOK'
  <2>1. [pc |-> "lock", sender |-> s, key |-> k, body |-> b, reply |-> p,
         locked |-> FALSE, res |-> 0] \in Request
    BY InboxAssumption DEF Request
  <2> QED
    BY <1>1, <1>3, <2>1 DEF SendMessage
<1>4. ASSUME NEW r \in Requests, NEW i \in DOMAIN msgs, Found(r, i),
             UNCHANGED <<members, msgs, con, faults>>
      PROVE  TypeOK'
  <2>0. i \in Nat
    BY RowNumbers
  <2>1. \A n \in {0, i} : Returns(r, n) \in Request
    BY <2>0, RequestRecords
  <2> QED
    BY <1>1, <1>4, <2>1 DEF Found
<1>5. ASSUME NEW r \in Requests, LockMessageInbox(r) \/ FindIdempotent(r)
                                  \/ CheckMembers(r) \/ CountUnread(r) \/ FindAgain(r)
      PROVE  TypeOK'
  <2>0. Same(r) \subseteq DOMAIN msgs
    BY RowNumbers DEF Same
  <2>1. CASE LockMessageInbox(r)
    <3>1. (Recipient \in members) \in BOOLEAN
      OBVIOUS
    <3> QED
      BY <1>1, <2>1, <3>1, RequestRecords DEF LockMessageInbox
  <2>2. CASE FindIdempotent(r)
    BY <1>1, <1>4, <2>0, <2>2, RequestRecords DEF FindIdempotent
  <2>3. CASE CheckMembers(r)
    BY <1>1, <2>3, RequestRecords DEF CheckMembers
  <2>4. CASE CountUnread(r)
    BY <1>1, <2>4, RequestRecords DEF CountUnread
  <2>5. CASE FindAgain(r)
    BY <1>1, <1>4, <2>0, <2>5, RequestRecords DEF FindAgain
  <2> QED
    BY <1>5, <2>1, <2>2, <2>3, <2>4, <2>5
<1>6. ASSUME NEW r \in Requests, Insert(r)
      PROVE  TypeOK'
  <2>1. CASE Same(r) # {}
    BY <1>1, <1>6, <2>1, RequestRecords DEF Insert
  <2>2. CASE Same(r) = {}
    <3>1. /\ msgs' = Append(msgs, NewMessage(r)) /\ SetReq(r, Returns(r, Len(msgs) + 1))
          /\ UNCHANGED <<members, con, faults>>
      BY <1>6, <2>2 DEF Insert
    <3>2. msgs' \in Seq(Message)
      BY <3>1, AppendRow
    <3>3. Returns(r, Len(msgs) + 1) \in Request
      <4>1. Len(msgs) + 1 \in Nat
        BY RowNumbers
      <4> QED
        BY <4>1, RequestRecords
    <3>4. req' \in [Requests -> Request]
      BY <1>0, <3>1, <3>3 DEF SetReq
    <3> QED
      BY <1>0, <3>1, <3>2, <3>4 DEF TypeOK
  <2> QED
    BY <2>1, <2>2
<1>7. ASSUME NEW r \in Requests, SendFails(r)
      PROVE  TypeOK'
  BY <1>1, <1>7, RequestRecords DEF SendFails
<1>8. ASSUME NEW c \in Consumers, LeaseRead(c) \/ PlainRead(c) \/ AckMessages(c)
                     \/ AckMessagesWithLease(c) \/ ReleaseMessageLeases(c)
      PROVE  TypeOK'
  <2>1. Batch \in SUBSET Nat
    BY RowNumbers
  <2>2. con' \in [Consumers -> Consumer]
    BY <1>2, <1>8, <2>1, ConsumerRecords
       DEF LeaseRead, PlainRead, AckMessages, AckMessagesWithLease, ReleaseMessageLeases, LetGo
  <2>3. msgs' \in Seq(Message)
    BY <1>8, NewRows, UpdateRows
       DEF LeaseRead, PlainRead, AckMessages, AckMessagesWithLease, ReleaseMessageLeases
  <2>4. UNCHANGED <<members, req, faults>>
    BY <1>8
       DEF LeaseRead, PlainRead, AckMessages, AckMessagesWithLease, ReleaseMessageLeases
  <2> QED
    BY <1>0, <2>2, <2>3, <2>4 DEF TypeOK
<1>9. ASSUME NEW c \in Consumers, NEW w \in {"ack", "release"}, Begin(c, w)
      PROVE  TypeOK'
  <2>1. {i \in Stored : msgs[i].lease = "live"} \in SUBSET Nat
    BY RowNumbers
  <2>2. con' \in [Consumers -> Consumer]
    BY <1>2, <1>9, <2>1, ConsumerRecords DEF Begin
  <2>3. faults' \in 0..MaxFaults
    BY <1>0, <1>9, InboxAssumption DEF Begin
  <2> QED
    BY <1>0, <1>9, <2>2, <2>3 DEF TypeOK, Begin
<1>10. ASSUME NEW c \in Consumers, ConsumerCrashes(c)
      PROVE  TypeOK'
  <2>1. con' \in [Consumers -> Consumer]
    BY <1>2, <1>10, ConsumerRecords DEF ConsumerCrashes
  <2>2. faults' \in 0..MaxFaults
    BY <1>0, <1>10, InboxAssumption DEF ConsumerCrashes
  <2> QED
    BY <1>0, <1>10, <2>1, <2>2 DEF TypeOK, ConsumerCrashes
<1>11. CASE SweepMessageRetention
  <2>1. PICK S \in SUBSET (Stored \ Unread) : Update(S, Swept)
    BY <1>11 DEF SweepMessageRetention
  <2>2. msgs' \in Seq(Message)
    BY <2>1, NewRows, UpdateRows
  <2> QED
    BY <1>0, <1>11, <2>2 DEF TypeOK, SweepMessageRetention
<1>12. ASSUME NEW i \in DOMAIN msgs, LeaseExpires(i)
      PROVE  TypeOK'
  <2>1. con' \in [Consumers -> Consumer]
    BY <1>12, ConsumerRecords DEF LeaseExpires
  <2>2. msgs' \in Seq(Message)
    BY <1>12, NewRows, UpdateRows DEF LeaseExpires
  <2>3. faults' \in 0..MaxFaults
    BY <1>0, <1>12, InboxAssumption DEF LeaseExpires
  <2> QED
    BY <1>0, <1>12, <2>1, <2>2, <2>3 DEF TypeOK, LeaseExpires
<1>13. ASSUME NEW a \in Agents, Register(a) \/ RemoveMember(a)
      PROVE  TypeOK'
  BY <1>0, <1>13 DEF TypeOK, Register, RemoveMember
<1>14. CASE UNCHANGED vars
  BY <1>0, <1>14 DEF TypeOK, vars
<1> QED
  BY <1>3, <1>5, <1>6, <1>7, <1>8, <1>9, <1>10, <1>11, <1>12, <1>13, <1>14
     DEF Next, SendStep

\* Members, messages, calls and invocations keep their types.
THEOREM InboxTypeCorrect == Spec => []TypeOK
<1> QED
  BY InitTypeOK, NextTypeOK, PTL DEF Spec

-----------------------------------------------------------------------------
(* Deliveries *)

\* A step that leaves the rows alone, or only adds to them, and gives nobody
\* anything, keeps HeldIsLeased.
LEMMA NothingHanded ==
  ASSUME HeldIsLeased, DOMAIN msgs \subseteq DOMAIN msgs',
         \A i \in DOMAIN msgs :
            msgs'[i].acked = msgs[i].acked /\ msgs'[i].lease = msgs[i].lease
            /\ msgs'[i].by = msgs[i].by,
         \A c \in Consumers : con'[c].held \subseteq con[c].held
  PROVE  HeldIsLeased'
BY DEF HeldIsLeased

\* What the new rows say.
LEMMA RowFields ==
  ASSUME TypeOK, NEW i \in DOMAIN msgs
  PROVE  /\ Acked[i].acked /\ Acked[i].swept = msgs[i].swept
         /\ Freed[i].acked = msgs[i].acked /\ Freed[i].swept = msgs[i].swept
         /\ Expired[i].acked = msgs[i].acked /\ Expired[i].swept = msgs[i].swept
         /\ Expired[i].by = msgs[i].by
         /\ Seen[i].acked = msgs[i].acked /\ Seen[i].swept = msgs[i].swept
         /\ Seen[i].lease = msgs[i].lease /\ Seen[i].by = msgs[i].by
         /\ Swept[i].acked = msgs[i].acked /\ Swept[i].swept
         /\ Swept[i].lease = msgs[i].lease /\ Swept[i].by = msgs[i].by
         /\ \A c \in Consumers :
              /\ Leased(c)[i].acked = msgs[i].acked /\ Leased(c)[i].swept = msgs[i].swept
              /\ Leased(c)[i].lease = "live" /\ Leased(c)[i].by = c
<1>1. msgs[i] \in Message
  BY DEF TypeOK
<1>2. Freed[i] = [msgs[i] EXCEPT !.lease = "none", !.by = Nobody]
  BY DEF Freed
<1>3. Acked[i] = [Freed[i] EXCEPT !.acked = TRUE]
  BY DEF Acked
<1>4. Seen[i] = [msgs[i] EXCEPT !.seen = TRUE]
  BY DEF Seen
<1>5. Swept[i] = [msgs[i] EXCEPT !.swept = TRUE]
  BY DEF Swept
<1>6. Expired[i] = [msgs[i] EXCEPT !.lease = "expired"]
  BY DEF Expired
<1>7. ASSUME NEW c \in Consumers
      PROVE  /\ Leased(c)[i].acked = msgs[i].acked /\ Leased(c)[i].swept = msgs[i].swept
             /\ Leased(c)[i].lease = "live" /\ Leased(c)[i].by = c
  <2>1. Leased(c)[i] = [Seen[i] EXCEPT !.lease = "live", !.by = c]
    BY DEF Leased
  <2> QED
    BY <1>1, <1>4, <2>1 DEF Message
<1>8. /\ Acked[i].acked /\ Acked[i].swept = msgs[i].swept
      /\ Freed[i].acked = msgs[i].acked /\ Freed[i].swept = msgs[i].swept
  BY <1>1, <1>2, <1>3 DEF Message
<1>9. /\ Seen[i].acked = msgs[i].acked /\ Seen[i].swept = msgs[i].swept
      /\ Seen[i].lease = msgs[i].lease /\ Seen[i].by = msgs[i].by
  BY <1>1, <1>4 DEF Message
<1>10. /\ Swept[i].acked = msgs[i].acked /\ Swept[i].swept
       /\ Swept[i].lease = msgs[i].lease /\ Swept[i].by = msgs[i].by
  BY <1>1, <1>5 DEF Message
<1>11. Expired[i].acked = msgs[i].acked /\ Expired[i].swept = msgs[i].swept
       /\ Expired[i].by = msgs[i].by
  BY <1>1, <1>6 DEF Message
<1> QED
  BY <1>7, <1>8, <1>9, <1>10, <1>11

\* What an invocation holds stays leased to it, step by step.
LEMMA NextHeldIsLeased ==
  ASSUME TypeOK, HeldIsLeased, [Next]_vars
  PROVE  HeldIsLeased'
<1>0. /\ con \in [Consumers -> Consumer]
      /\ \A i \in DOMAIN msgs : msgs[i] \in Message
      /\ \A c \in Consumers : con[c] \in Consumer
  BY DEF TypeOK
<1>1. CASE UNCHANGED <<msgs, con>>
  BY <1>1 DEF HeldIsLeased
<1>2. ASSUME NEW r \in Requests, Insert(r)
      PROVE  HeldIsLeased'
  <2>1. CASE Same(r) # {}
    BY <1>1, <1>2, <2>1 DEF Insert
  <2>2. CASE Same(r) = {}
    <3>1. msgs' = Append(msgs, NewMessage(r)) /\ con' = con
      BY <1>2, <2>2 DEF Insert
    <3> QED
      BY <3>1, AppendRow, NothingHanded
  <2> QED
    BY <2>1, <2>2
<1>3. ASSUME NEW c \in Consumers, LeaseRead(c)
      PROVE  HeldIsLeased'
  <2>1. /\ Update(Batch, Leased(c))
        /\ con' = [con EXCEPT ![c] = [con[c] EXCEPT !.batch = @ \cup Batch,
                                                   !.held = @ \cup Batch]]
    BY <1>3 DEF LeaseRead, SetCon
  <2>2. /\ DOMAIN msgs' = DOMAIN msgs
        /\ \A i \in DOMAIN msgs : msgs'[i] = IF i \in Batch THEN Leased(c)[i] ELSE msgs[i]
    BY <2>1, NewRows, UpdateRows
  <2>3. \A i \in DOMAIN msgs : Leased(c)[i].lease = "live" /\ Leased(c)[i].by = c
                               /\ Leased(c)[i].acked = msgs[i].acked
    BY RowFields
  <2>4. \A d \in Consumers : con'[d].held \subseteq
                              con[d].held \cup (IF d = c THEN Batch ELSE {})
    BY <1>0, <2>1 DEF Consumer
  <2>5. ASSUME NEW d \in Consumers, NEW i \in con'[d].held
        PROVE  i \in DOMAIN msgs' /\ (msgs'[i].acked
                 \/ (msgs'[i].lease = "live" /\ msgs'[i].by = d))
    <3>1. CASE i \in Batch
      <4>1. i \in DOMAIN msgs /\ msgs[i].lease # "live" /\ ~msgs[i].acked
        BY <3>1, RowNumbers DEF Available, Unread
      <4>2. i \notin con[d].held
        BY <4>1 DEF HeldIsLeased
      <4>3. d = c
        BY <2>4, <2>5, <4>2
      <4> QED
        BY <2>2, <2>3, <3>1, <4>1, <4>3
    <3>2. CASE i \notin Batch
      <4>1. i \in con[d].held
        BY <2>4, <2>5, <3>2
      <4> QED
        BY <2>2, <3>2, <4>1 DEF HeldIsLeased
    <3> QED
      BY <3>1, <3>2
  <2> QED
    BY <2>5 DEF HeldIsLeased
<1>4. ASSUME NEW c \in Consumers, PlainRead(c)
      PROVE  HeldIsLeased'
  <2>1. /\ DOMAIN msgs' = DOMAIN msgs
        /\ \A i \in DOMAIN msgs : msgs'[i] = IF i \in Batch THEN Seen[i] ELSE msgs[i]
    BY <1>4, NewRows, UpdateRows DEF PlainRead
  <2>3. \A i \in DOMAIN msgs : /\ msgs'[i].acked = msgs[i].acked
                               /\ msgs'[i].lease = msgs[i].lease
                               /\ msgs'[i].by = msgs[i].by
    BY <2>1, RowFields
  <2>4. \A d \in Consumers : con'[d].held = con[d].held
    BY <1>0, <1>4 DEF PlainRead, SetCon, Consumer
  <2> QED
    BY <2>1, <2>3, <2>4, NothingHanded
<1>5. ASSUME NEW c \in Consumers, NEW w, Begin(c, w)
      PROVE  HeldIsLeased'
  <2>1. \A d \in Consumers : con'[d].held = con[d].held
    BY <1>0, <1>5 DEF Begin, SetCon, Consumer
  <2> QED
    BY <1>5, <2>1, NothingHanded DEF Begin
<1>6. ASSUME NEW c \in Consumers, ConsumerCrashes(c)
      PROVE  HeldIsLeased'
  <2>1. \A d \in Consumers : con'[d].held \subseteq con[d].held
    BY <1>0, <1>6 DEF ConsumerCrashes, SetCon, NewConsumer
  <2> QED
    BY <1>6, <2>1, NothingHanded DEF ConsumerCrashes
<1>8. CASE SweepMessageRetention
  <2>1. PICK S \in SUBSET (Stored \ Unread) : Update(S, Swept)
    BY <1>8 DEF SweepMessageRetention
  <2>2. /\ DOMAIN msgs' = DOMAIN msgs
        /\ \A i \in DOMAIN msgs : msgs'[i] = IF i \in S THEN Swept[i] ELSE msgs[i]
    BY <2>1, NewRows, UpdateRows
  <2>4. \A i \in DOMAIN msgs : /\ msgs'[i].acked = msgs[i].acked
                               /\ msgs'[i].lease = msgs[i].lease
                               /\ msgs'[i].by = msgs[i].by
    BY <2>2, RowFields
  <2> QED
    BY <1>8, <2>2, <2>4, NothingHanded DEF SweepMessageRetention
<1>9. ASSUME NEW i \in DOMAIN msgs, LeaseExpires(i)
      PROVE  HeldIsLeased'
  <2>1. /\ DOMAIN msgs' = DOMAIN msgs
        /\ \A j \in DOMAIN msgs : msgs'[j] = IF j \in {i} THEN Expired[j] ELSE msgs[j]
    BY <1>9, NewRows, UpdateRows DEF LeaseExpires
  <2>2. \A d \in Consumers : con'[d].held = con[d].held \ {i}
    BY <1>0, <1>9 DEF LeaseExpires, Consumer
  <2> QED
    BY <2>1, <2>2 DEF HeldIsLeased
<1>10. ASSUME NEW c \in Consumers, AckMessages(c)
      PROVE  HeldIsLeased'
  <2>1. /\ DOMAIN msgs' = DOMAIN msgs
        /\ \A i \in DOMAIN msgs :
             msgs'[i] = IF i \in Unread \cap con[c].read THEN Acked[i] ELSE msgs[i]
    BY <1>10, NewRows, UpdateRows DEF AckMessages
  <2>2. \A d \in Consumers : con'[d].held = con[d].held
    BY <1>0, <1>10 DEF AckMessages, SetCon, Consumer
  <2> QED
    BY <2>1, <2>2, RowFields DEF HeldIsLeased
<1>11. ASSUME NEW c \in Consumers, NEW f, \A i \in DOMAIN msgs : f[i] \in Message,
              Update(Owned(c) \cap con[c].batch, f), LetGo(c)
      PROVE  HeldIsLeased'
  <2>1. /\ DOMAIN msgs' = DOMAIN msgs
        /\ \A i \in DOMAIN msgs :
             msgs'[i] = IF i \in Owned(c) \cap con[c].batch THEN f[i] ELSE msgs[i]
    BY <1>11, UpdateRows
  <2>2. con'[c].held = {} /\ \A d \in Consumers \ {c} : con'[d] = con[d]
    BY <1>0, <1>11 DEF LetGo, SetCon, Consumer
  <2>3. ASSUME NEW d \in Consumers \ {c}, NEW i \in con[d].held
        PROVE  i \notin Owned(c)
    BY <2>3 DEF HeldIsLeased, Owned, Unread
  <2> QED
    BY <2>1, <2>2, <2>3 DEF HeldIsLeased
<1>12. ASSUME NEW c \in Consumers, AckMessagesWithLease(c) \/ ReleaseMessageLeases(c)
      PROVE  HeldIsLeased'
  BY <1>11, <1>12, NewRows DEF AckMessagesWithLease, ReleaseMessageLeases
<1> QED
  BY <1>1, <1>2, <1>3, <1>4, <1>5, <1>6, <1>8, <1>9, <1>10, <1>12
     DEF Next, vars, SendStep, SendMessage, LockMessageInbox, FindIdempotent,
         CheckMembers, CountUnread, FindAgain, SendFails, Register, RemoveMember

\* Nobody holds anything at first.
LEMMA InitHeldIsLeased == Init => HeldIsLeased
BY DEF Init, HeldIsLeased, NewConsumer

\* Types and leases, together inductive.
DeliveryInv == TypeOK /\ HeldIsLeased

\* It holds throughout.
LEMMA DeliveryInvariance == Spec => []DeliveryInv
<1>1. Init => DeliveryInv
  BY InitTypeOK, InitHeldIsLeased DEF DeliveryInv
<1>2. DeliveryInv /\ [Next]_vars => DeliveryInv'
  BY NextTypeOK, NextHeldIsLeased DEF DeliveryInv
<1> QED
  BY <1>1, <1>2, PTL DEF Spec

\* A running lease hides its rows from every other invocation: no message is
\* in two hands unless it was acknowledged by id.
THEOREM OneDelivery == Spec => []DeliveredToOne
<1>1. DeliveryInv => DeliveredToOne
  BY DEF DeliveryInv, HeldIsLeased, DeliveredToOne
<1> QED
  BY <1>1, DeliveryInvariance, PTL

\* An ACK or a release under an owner's name never touches what another
\* invocation holds.
THEOREM OwnersRespected == Spec => OwnersAreRespected
<1>1. DeliveryInv /\ DeliveryInv' /\ [Next]_vars => [NotTakenAway]_vars
  <2> SUFFICES ASSUME TypeOK, HeldIsLeased, HeldIsLeased', Next,
                      NEW d \in Consumers, NEW i \in con[d].held \cap con'[d].held,
                      ~msgs[i].acked
               PROVE  \/ ~msgs'[i].acked /\ msgs'[i].by = d
                      \/ \E c \in Consumers : i \in con[c].read /\ i \notin con'[c].read
    BY DEF DeliveryInv, NotTakenAway
  <2>1. i \in DOMAIN msgs /\ msgs[i].by = d /\ i \in DOMAIN msgs'
        /\ msgs[i] \in Message /\ \A c \in Consumers : con[c] \in Consumer
        /\ con \in [Consumers -> Consumer]
    BY DEF HeldIsLeased, TypeOK
  <2>2. CASE ~msgs'[i].acked
    BY <2>2 DEF HeldIsLeased
  <2>3. CASE msgs'[i].acked
    <3>1. msgs' # msgs
      BY <2>3
    <3>2. ASSUME NEW c \in Consumers, AckMessages(c)
          PROVE  i \in con[c].read /\ i \notin con'[c].read
      <4>1. msgs'[i] = IF i \in Unread \cap con[c].read THEN Acked[i] ELSE msgs[i]
        BY <2>1, <3>2, NewRows, UpdateRows DEF AckMessages
      <4>2. con'[c].read = {}
        BY <2>1, <3>2 DEF AckMessages, SetCon, Consumer
      <4> QED
        BY <2>3, <4>1, <4>2
    <3>3. ASSUME NEW c \in Consumers, AckMessagesWithLease(c) PROVE FALSE
      <4>1. msgs'[i] = IF i \in Owned(c) \cap con[c].batch THEN Acked[i] ELSE msgs[i]
        BY <2>1, <3>3, NewRows, UpdateRows DEF AckMessagesWithLease
      <4>2. msgs[i].by = c
        BY <2>3, <4>1 DEF Owned
      <4>3. con'[c].held = {}
        BY <2>1, <3>3 DEF AckMessagesWithLease, LetGo, SetCon, Consumer
      <4> QED
        BY <2>1, <4>2, <4>3
    <3>4. ASSUME NEW S, NEW f, \A j \in DOMAIN msgs : f[j] \in Message /\ ~f[i].acked,
                 Update(S, f)
          PROVE  FALSE
      BY <2>1, <2>3, <3>4, UpdateRows
    <3>5. ASSUME NEW c \in Consumers, LeaseRead(c) \/ PlainRead(c) \/ ReleaseMessageLeases(c)
          PROVE  FALSE
      BY <2>1, <3>4, <3>5, NewRows, RowFields DEF LeaseRead, PlainRead, ReleaseMessageLeases
    <3>6. SweepMessageRetention => FALSE
      BY <2>1, <3>4, NewRows, RowFields DEF SweepMessageRetention
    <3>7. ASSUME NEW j \in DOMAIN msgs, LeaseExpires(j) PROVE FALSE
      BY <2>1, <3>4, <3>7, NewRows, RowFields DEF LeaseExpires
    <3>8. ASSUME NEW r \in Requests, Insert(r) PROVE FALSE
      <4>1. msgs' = Append(msgs, NewMessage(r))
        BY <3>1, <3>8 DEF Insert
      <4> QED
        BY <2>1, <2>3, <4>1, AppendRow
    <3> QED
      BY <3>1, <3>2, <3>3, <3>5, <3>6, <3>7, <3>8
         DEF Next, SendStep, SendMessage, LockMessageInbox, FindIdempotent, CheckMembers,
             CountUnread, FindAgain, SendFails, Begin, ConsumerCrashes, Register, RemoveMember
  <2> QED
    BY <2>2, <2>3
<1> QED
  BY <1>1, DeliveryInvariance, PTL DEF Spec, OwnersAreRespected

-----------------------------------------------------------------------------
(* The unread cap *)

\* Where every send finds something to lock: SQLite, or a membership that
\* does not change.
Serial == Driver = "sqlite" \/ ~Churn

CapInv == AdmissionInv /\ UnreadCap

\* The unread rows are finitely many, and fewer rows count less.
LEMMA UnreadFinite ==
  ASSUME TypeOK
  PROVE  /\ IsFiniteSet(Unread) /\ Cardinality(Unread) \in Nat
         /\ \A S : S \subseteq Unread => Cardinality(S) \in Nat
                                        /\ Cardinality(S) <= Cardinality(Unread)
<1>1. Unread \subseteq 1..Len(msgs) /\ Len(msgs) \in Nat
  BY RowNumbers
<1>2. IsFiniteSet(1..Len(msgs))
  BY <1>1, FS_Interval
<1>3. IsFiniteSet(Unread)
  BY <1>1, <1>2, FS_Subset
<1> QED
  BY <1>3, FS_Subset, FS_CardinalityType

\* A step of one call that leaves the rows alone.
LEMMA OneCall ==
  ASSUME TypeOK, CapInv, NEW r \in Requests, NEW rec \in Request, SetReq(r, rec),
         UNCHANGED <<members, msgs>>,
         rec.pc \in {"find", "members", "count", "insert"} =>
            /\ InTx(r) \/ \A x \in Requests : ~InTx(x)
            /\ Driver = "postgres" => rec.locked,
         rec.locked => rec.pc \in {"find", "members", "count", "insert"},
         rec.pc = "insert" => Cardinality(Unread) < Cap
  PROVE  CapInv'
<1>1. \A x \in Requests : req'[x] = IF x = r THEN rec ELSE req[x]
  BY DEF SetReq, TypeOK
<1>2. Unread' = Unread
  BY DEF Unread, Stored
<1>3. \A x \in Requests \ {r} : InTx(x)' = InTx(x)
  BY <1>1 DEF InTx
<1>4. InTx(r)' <=> rec.pc \in {"find", "members", "count", "insert"}
  BY <1>1 DEF InTx
<1>5. UnreadCap'
  BY <1>2 DEF UnreadCap, CapInv
<1>6. AdmissionInv'
  BY <1>1, <1>2, <1>3, <1>4 DEF AdmissionInv, CapInv
<1> QED
  BY <1>5, <1>6 DEF CapInv

\* A step of no call that makes nothing unread.
LEMMA NoCall ==
  ASSUME TypeOK, CapInv, UNCHANGED req, ~Churn => UNCHANGED members, Unread' \subseteq Unread
  PROVE  CapInv'
<1>1. Cardinality(Unread)' <= Cardinality(Unread) /\ Cardinality(Unread)' \in Nat
      /\ Cardinality(Unread) \in Nat
  BY UnreadFinite
<1>2. \A x \in Requests : InTx(x)' = InTx(x)
  BY DEF InTx
<1>3. UnreadCap'
  BY <1>1, InboxAssumption DEF UnreadCap, CapInv
<1>4. \A r \in Requests : req'[r].pc = "insert" => Cardinality(Unread)' < Cap
  BY <1>1, InboxAssumption DEF AdmissionInv, CapInv
<1>5. AdmissionInv'
  BY <1>2, <1>4 DEF AdmissionInv, CapInv
<1> QED
  BY <1>3, <1>5 DEF CapInv

\* An UPDATE that acknowledges, deletes or only marks rows makes nothing unread.
LEMMA UpdateReads ==
  ASSUME TypeOK, NEW S, NEW f, Update(S, f),
         \A i \in DOMAIN msgs : f[i] \in Message /\ (msgs[i].acked => f[i].acked)
                                /\ (msgs[i].swept => f[i].swept)
  PROVE  Unread' \subseteq Unread
<1>1. DOMAIN msgs' = DOMAIN msgs
      /\ \A i \in DOMAIN msgs : msgs'[i] = IF i \in S THEN f[i] ELSE msgs[i]
  BY UpdateRows
<1> QED
  BY <1>1 DEF Unread, Stored

\* Where sends are serial, every step keeps the cap.
LEMMA NextCapInv ==
  ASSUME Serial, TypeOK, CapInv, [Next]_vars
  PROVE  CapInv'
<1>0. \A x \in Requests : req[x] \in Request
  BY DEF TypeOK
<1>1. ASSUME NEW r \in Requests, NEW n \in Nat, SetReq(r, Returns(r, n)),
             UNCHANGED <<members, msgs>>
      PROVE  CapInv'
  <2>1. Returns(r, n).pc = "idle" /\ ~Returns(r, n).locked
    BY <1>0 DEF Returns, Request
  <2>2. Returns(r, n) \in Request
    BY RequestRecords
  <2> QED
    BY <1>1, <2>1, <2>2, OneCall
<1>2. ASSUME NEW r \in Requests, SetReq(r, Fails(r)), UNCHANGED <<members, msgs>>
      PROVE  CapInv'
  <2>1. Fails(r).pc \in {"idle", "again"} /\ ~Fails(r).locked
    BY <1>0 DEF Fails, Request
  <2>2. Fails(r) \in Request
    BY RequestRecords
  <2> QED
    BY <1>2, <2>1, <2>2, OneCall
<1>3. ASSUME NEW r \in Requests, NEW s \in Senders, NEW k \in Keys \cup {NoKey},
             NEW b \in Bodies, NEW p \in Replies, SendMessage(r, s, k, b, p)
      PROVE  CapInv'
  <2> DEFINE rec == [pc |-> "lock", sender |-> s, key |-> k, body |-> b, reply |-> p,
                     locked |-> FALSE, res |-> 0]
  <2>1. rec \in Request /\ rec.pc = "lock" /\ ~rec.locked
    BY InboxAssumption DEF Request
  <2>2. SetReq(r, rec) /\ UNCHANGED <<members, msgs>>
    BY <1>3 DEF SendMessage
  <2> HIDE DEF rec
  <2> QED
    BY <2>1, <2>2, OneCall
<1>4. ASSUME NEW r \in Requests, LockMessageInbox(r)
      PROVE  CapInv'
  <2> DEFINE rec == [req[r] EXCEPT !.pc = "find", !.locked = Recipient \in members]
  <2>1. \A x \in Requests : ~InTx(x)
    <3>1. CASE Driver = "sqlite"
      BY <1>4, <3>1 DEF LockMessageInbox, WriterFree
    <3>2. CASE Driver = "postgres"
      <4>1. Recipient \in members
        BY <3>2 DEF Serial, CapInv, AdmissionInv, Agents
      <4> QED
        BY <1>4, <3>2, <4>1 DEF LockMessageInbox, RowFree, CapInv, AdmissionInv
    <3> QED
      BY <3>1, <3>2, InboxAssumption
  <2>2. (Driver = "postgres") => Recipient \in members
    BY DEF Serial, CapInv, AdmissionInv, Agents
  <2>3. rec.pc = "find" /\ (rec.locked <=> Recipient \in members)
    BY <1>0 DEF Request
  <2>5. rec \in Request
    <3>1. (Recipient \in members) \in BOOLEAN
      OBVIOUS
    <3> QED
      BY <3>1, RequestRecords
  <2>4. SetReq(r, rec) /\ UNCHANGED <<members, msgs>>
    BY <1>4 DEF LockMessageInbox
  <2> HIDE DEF rec
  <2> QED
    BY <2>1, <2>2, <2>3, <2>4, <2>5, OneCall
<1>5. ASSUME NEW r \in Requests, InTx(r), NEW p \in {"members", "count", "insert"},
             SetReq(r, [req[r] EXCEPT !.pc = p]), UNCHANGED <<members, msgs>>,
             p = "insert" => Cardinality(Unread) < Cap
      PROVE  CapInv'
  <2> DEFINE rec == [req[r] EXCEPT !.pc = p]
  <2>1. rec \in Request /\ rec.pc = p /\ rec.locked = req[r].locked
    BY <1>0 DEF Request
  <2>2. Driver = "postgres" => rec.locked
    BY <1>5, <2>1 DEF CapInv, AdmissionInv
  <2> HIDE DEF rec
  <2>3. SetReq(r, rec)
    BY <1>5 DEF rec
  <2> QED
    BY <1>5, <2>1, <2>2, <2>3, OneCall
<1>6. ASSUME NEW r \in Requests, NEW i \in Same(r), Found(r, i), UNCHANGED <<members, msgs>>
      PROVE  CapInv'
  <2>1. i \in Nat
    BY RowNumbers DEF Same
  <2> QED
    BY <1>1, <1>6, <2>1 DEF Found
<1>7. ASSUME NEW r \in Requests, FindIdempotent(r) \/ CheckMembers(r) \/ CountUnread(r)
                                  \/ FindAgain(r) \/ SendFails(r)
      PROVE  CapInv'
  <2>1. CASE FindIdempotent(r)
    BY <1>5, <1>6, <2>1 DEF FindIdempotent, InTx
  <2>2. CASE CheckMembers(r)
    BY <1>1, <1>5, <2>2 DEF CheckMembers, InTx
  <2>3. CASE CountUnread(r)
    <3>1. Cardinality(Unread) \in Nat /\ Cap \in Nat
      BY UnreadFinite, InboxAssumption
    <3>2. InTx(r) /\ UNCHANGED <<members, msgs>>
      BY <2>3 DEF CountUnread, InTx
    <3>3. CASE Cardinality(Unread) >= Cap
      BY <1>2, <2>3, <3>2, <3>3 DEF CountUnread
    <3>4. CASE ~(Cardinality(Unread) >= Cap)
      <4>1. Cardinality(Unread) < Cap
        BY <3>1, <3>4
      <4>2. SetReq(r, [req[r] EXCEPT !.pc = "insert"])
        BY <2>3, <3>4 DEF CountUnread
      <4> QED
        BY <1>5, <3>2, <4>1, <4>2
    <3> QED
      BY <3>3, <3>4
  <2>4. CASE FindAgain(r)
    BY <1>1, <1>6, <2>4 DEF FindAgain
  <2>5. CASE SendFails(r)
    BY <1>1, <1>2, <2>5 DEF SendFails
  <2> QED
    BY <1>7, <2>1, <2>2, <2>3, <2>4, <2>5
<1>8. ASSUME NEW r \in Requests, Insert(r)
      PROVE  CapInv'
  <2>1. CASE Same(r) # {}
    BY <1>2, <1>8, <2>1 DEF Insert
  <2>2. CASE Same(r) = {}
    <3> DEFINE n == Len(msgs) + 1
    <3>1. /\ msgs' = Append(msgs, NewMessage(r)) /\ SetReq(r, Returns(r, n))
          /\ members' = members /\ req[r].pc = "insert"
      BY <1>8, <2>2 DEF Insert
    <3>2. /\ DOMAIN msgs' = DOMAIN msgs \cup {n} /\ n \notin DOMAIN msgs
          /\ \A i \in DOMAIN msgs : msgs'[i] = msgs[i]
          /\ ~msgs'[n].acked /\ ~msgs'[n].swept
      BY <3>1, AppendRow, RowNumbers DEF NewMessage
    <3>3. Unread' = Unread \cup {n} /\ n \notin Unread
      BY <3>2 DEF Unread, Stored
    <3>4. Cardinality(Unread)' = Cardinality(Unread) + 1
      BY <3>3, UnreadFinite, FS_AddElement
    <3>5. Cardinality(Unread) < Cap /\ InTx(r)
      BY <3>1 DEF CapInv, AdmissionInv, InTx
    <3>6. UnreadCap'
      BY <3>4, <3>5, UnreadFinite, InboxAssumption DEF UnreadCap
    <3>7. \A x \in Requests : req'[x] = IF x = r THEN Returns(r, n) ELSE req[x]
      BY <3>1 DEF SetReq, TypeOK
    <3>8. Returns(r, n).pc = "idle" /\ ~Returns(r, n).locked
      BY <1>0 DEF Returns, Request
    <3>9. \A x \in Requests : ~InTx(x)'
      BY <3>5, <3>7, <3>8 DEF InTx, CapInv, AdmissionInv
    <3>10. \A x \in Requests : ~req'[x].locked
      BY <3>5, <3>7, <3>8 DEF CapInv, AdmissionInv
    <3>11. \A x \in Requests : req'[x].pc # "insert"
      BY <3>9 DEF InTx
    <3>12. AdmissionInv'
      BY <3>1, <3>9, <3>10, <3>11 DEF CapInv, AdmissionInv
    <3> QED
      BY <3>6, <3>12 DEF CapInv
  <2> QED
    BY <2>1, <2>2
<1>9. ASSUME NEW c \in Consumers, LeaseRead(c) \/ PlainRead(c) \/ AckMessages(c)
                     \/ AckMessagesWithLease(c) \/ ReleaseMessageLeases(c)
      PROVE  CapInv'
  <2>1. Unread' \subseteq Unread
    BY <1>9, NewRows, RowFields, UpdateReads
       DEF LeaseRead, PlainRead, AckMessages, AckMessagesWithLease, ReleaseMessageLeases
  <2>2. UNCHANGED <<req, members>>
    BY <1>9
       DEF LeaseRead, PlainRead, AckMessages, AckMessagesWithLease, ReleaseMessageLeases
  <2> QED
    BY <2>1, <2>2, NoCall
<1>10. CASE SweepMessageRetention
  <2>1. Unread' \subseteq Unread
    BY <1>10, NewRows, RowFields, UpdateReads DEF SweepMessageRetention
  <2> QED
    BY <1>10, <2>1, NoCall DEF SweepMessageRetention
<1>11. ASSUME NEW i \in DOMAIN msgs, LeaseExpires(i)
      PROVE  CapInv'
  <2>1. Unread' \subseteq Unread
    BY <1>11, NewRows, RowFields, UpdateReads DEF LeaseExpires
  <2> QED
    BY <1>11, <2>1, NoCall DEF LeaseExpires
<1>12. ASSUME UNCHANGED <<req, msgs>>, ~Churn => UNCHANGED members
      PROVE  CapInv'
  <2>1. Unread' \subseteq Unread
    BY <1>12 DEF Unread, Stored
  <2> QED
    BY <1>12, <2>1, NoCall
<1>13. ASSUME NEW c \in Consumers, NEW w, Begin(c, w) \/ ConsumerCrashes(c)
      PROVE  CapInv'
  BY <1>12, <1>13 DEF Begin, ConsumerCrashes
<1>14. ASSUME NEW a \in Agents, Register(a) \/ RemoveMember(a)
      PROVE  CapInv'
  BY <1>12, <1>14 DEF Register, RemoveMember
<1>15. CASE UNCHANGED vars
  BY <1>12, <1>15 DEF vars
<1> QED
  BY <1>3, <1>4, <1>7, <1>8, <1>9, <1>10, <1>11, <1>13, <1>14, <1>15 DEF Next, SendStep

\* The first state: no call, no message.
LEMMA InitCapInv == Init => CapInv
<1> SUFFICES ASSUME Init PROVE CapInv
  OBVIOUS
<1>1. Unread = {}
  BY DEF Init, Unread, Stored
<1>2. Cardinality(Unread) = 0
  BY <1>1, FS_EmptySet
<1>3. \A r \in Requests : req[r].pc = "idle" /\ ~req[r].locked
  BY DEF Init
<1>4. ~Churn => members = Agents
  BY DEF Init
<1> QED
  BY <1>2, <1>3, <1>4, InboxAssumption DEF CapInv, AdmissionInv, UnreadCap, InTx

\* Where every send has something to lock, the unread cap is a cap, however
\* many senders race for the last place.
THEOREM CapHolds == Serial /\ Spec => []UnreadCap
<1>1. CASE Serial
  <2>1. TypeOK /\ CapInv /\ [Next]_vars => (TypeOK /\ CapInv)'
    BY <1>1, NextTypeOK, NextCapInv
  <2>2. Init => TypeOK /\ CapInv
    BY InitTypeOK, InitCapInv
  <2>3. CapInv => UnreadCap
    BY DEF CapInv
  <2> QED
    BY <2>1, <2>2, <2>3, PTL DEF Spec
<1>2. CASE ~Serial
  BY <1>2
<1> QED
  BY <1>1, <1>2

-----------------------------------------------------------------------------
(* Accepted messages *)

\* What SendMessage is asked to store, in a row and in a call.
Content(m) == <<m.sender, m.key, m.body, m.reply>>

\* No statement but the INSERT writes the content of a row.
LEMMA UpdatesKeepContent ==
  ASSUME TypeOK, NEW i \in DOMAIN msgs
  PROVE  /\ Content(Seen[i]) = Content(msgs[i]) /\ Content(Expired[i]) = Content(msgs[i])
         /\ Content(Freed[i]) = Content(msgs[i]) /\ Content(Acked[i]) = Content(msgs[i])
         /\ Content(Swept[i]) = Content(msgs[i])
         /\ \A c \in Consumers : Content(Leased(c)[i]) = Content(msgs[i])
<1>1. msgs[i] \in Message /\ Seen[i] \in Message /\ Freed[i] \in Message
  BY NewRows
<1>2. /\ Seen[i] = [msgs[i] EXCEPT !.seen = TRUE]
      /\ Expired[i] = [msgs[i] EXCEPT !.lease = "expired"]
      /\ Freed[i] = [msgs[i] EXCEPT !.lease = "none", !.by = Nobody]
      /\ Acked[i] = [Freed[i] EXCEPT !.acked = TRUE]
      /\ Swept[i] = [msgs[i] EXCEPT !.swept = TRUE]
      /\ \A c \in Consumers : Leased(c)[i] = [Seen[i] EXCEPT !.lease = "live", !.by = c]
  BY DEF Seen, Expired, Freed, Acked, Swept, Leased
<1> HIDE DEF Seen, Expired, Freed, Acked, Swept, Leased
<1>3. /\ Content(Seen[i]) = Content(msgs[i]) /\ Content(Expired[i]) = Content(msgs[i])
      /\ Content(Freed[i]) = Content(msgs[i]) /\ Content(Swept[i]) = Content(msgs[i])
  BY <1>1, <1>2 DEF Message, Content
<1>4. Content(Acked[i]) = Content(Freed[i])
  BY <1>1, <1>2 DEF Message, Content
<1>5. ASSUME NEW c \in Consumers PROVE Content(Leased(c)[i]) = Content(Seen[i])
  <2>1. Leased(c)[i] = [Seen[i] EXCEPT !.lease = "live", !.by = c]
    BY <1>2
  <2> QED
    BY <1>1, <2>1 DEF Message, Content
<1> QED
  BY <1>3, <1>4, <1>5

\* Rows are added and their other columns change: a row that is there stays
\* there (swept rows are marked) with the content it was stored with.
RowsKept == \A i \in DOMAIN msgs : i \in DOMAIN msgs' /\ Content(msgs'[i]) = Content(msgs[i])

LEMMA UpdateKeepsRows ==
  ASSUME TypeOK, NEW S, NEW f, Update(S, f),
         \A i \in DOMAIN msgs : f[i] \in Message /\ Content(f[i]) = Content(msgs[i])
  PROVE  RowsKept
<1>1. /\ DOMAIN msgs' = DOMAIN msgs
      /\ \A i \in DOMAIN msgs : msgs'[i] = IF i \in S THEN f[i] ELSE msgs[i]
  BY UpdateRows
<1> QED
  BY <1>1 DEF RowsKept

\* A step of the readers, of retention or of the clock leaves every content.
LEMMA NextRowsKept ==
  ASSUME TypeOK, [Next]_vars
  PROVE  RowsKept
<1>1. CASE UNCHANGED msgs
  BY <1>1 DEF RowsKept
<1>2. ASSUME NEW r \in Requests, Insert(r) PROVE RowsKept
  <2>1. CASE Same(r) # {}
    BY <1>1, <1>2, <2>1 DEF Insert
  <2>2. CASE Same(r) = {}
    <3>1. msgs' = Append(msgs, NewMessage(r))
      BY <1>2, <2>2 DEF Insert
    <3> QED
      BY <3>1, AppendRow DEF RowsKept
  <2> QED
    BY <2>1, <2>2
<1>3. ASSUME NEW c \in Consumers, LeaseRead(c) PROVE RowsKept
  <2>1. Update(Batch, Leased(c))
    BY <1>3 DEF LeaseRead
  <2> QED
    BY <2>1, NewRows, UpdatesKeepContent, UpdateKeepsRows
<1>4. ASSUME NEW c \in Consumers, PlainRead(c) PROVE RowsKept
  <2>1. Update(Batch, Seen)
    BY <1>4 DEF PlainRead
  <2> QED
    BY <2>1, NewRows, UpdatesKeepContent, UpdateKeepsRows
<1>5. ASSUME NEW c \in Consumers, AckMessagesWithLease(c) PROVE RowsKept
  <2>1. Update(Owned(c) \cap con[c].batch, Acked)
    BY <1>5 DEF AckMessagesWithLease
  <2> QED
    BY <2>1, NewRows, UpdatesKeepContent, UpdateKeepsRows
<1>6. ASSUME NEW c \in Consumers, AckMessages(c) PROVE RowsKept
  <2>1. Update(Unread \cap con[c].read, Acked)
    BY <1>6 DEF AckMessages
  <2> QED
    BY <2>1, NewRows, UpdatesKeepContent, UpdateKeepsRows
<1>7. ASSUME NEW c \in Consumers, ReleaseMessageLeases(c) PROVE RowsKept
  <2>1. Update(Owned(c) \cap con[c].batch, Freed)
    BY <1>7 DEF ReleaseMessageLeases
  <2> QED
    BY <2>1, NewRows, UpdatesKeepContent, UpdateKeepsRows
<1>8. ASSUME SweepMessageRetention PROVE RowsKept
  <2>1. PICK S \in SUBSET (Stored \ Unread) : Update(S, Swept)
    BY <1>8 DEF SweepMessageRetention
  <2> QED
    BY <2>1, NewRows, UpdatesKeepContent, UpdateKeepsRows
<1>9. ASSUME NEW i \in DOMAIN msgs, LeaseExpires(i) PROVE RowsKept
  <2>1. Update({i}, Expired)
    BY <1>9 DEF LeaseExpires
  <2> QED
    BY <2>1, NewRows, UpdatesKeepContent, UpdateKeepsRows
<1>10. \/ UNCHANGED msgs
       \/ \E r \in Requests : Insert(r)
       \/ \E c \in Consumers : \/ LeaseRead(c) \/ PlainRead(c) \/ AckMessagesWithLease(c)
                               \/ AckMessages(c) \/ ReleaseMessageLeases(c)
       \/ SweepMessageRetention
       \/ \E i \in DOMAIN msgs : LeaseExpires(i)
  BY DEF Next, vars, SendStep, SendMessage, LockMessageInbox, FindIdempotent, CheckMembers,
         CountUnread, FindAgain, SendFails, Begin, ConsumerCrashes, Register, RemoveMember
<1> QED
  BY <1>1, <1>2, <1>3, <1>4, <1>5, <1>6, <1>7, <1>8, <1>9, <1>10

\* A call that changes into one without an answer, or with an answer of its
\* own content, keeps AcceptedIsStored.
LEMMA AnsweredWell ==
  ASSUME TypeOK, AcceptedIsStored, RowsKept, NEW r \in Requests, NEW q, SetReq(r, q),
         q.res # 0 => q.res \in DOMAIN msgs' /\ Content(msgs'[q.res]) = Content(q)
  PROVE  AcceptedIsStored'
<1>1. \A x \in Requests : req'[x] = IF x = r THEN q ELSE req[x]
  BY DEF TypeOK, SetReq
<1>2. ASSUME NEW x \in Requests, req'[x].res # 0
      PROVE  req'[x].res \in DOMAIN msgs' /\ Content(msgs'[req'[x].res]) = Content(req'[x])
  <2>1. CASE x = r
    BY <1>1, <1>2, <2>1
  <2>2. CASE x # r
    <3>1. req'[x] = req[x]
      BY <1>1, <2>2
    <3>2. req[x].res \in DOMAIN msgs /\ Content(msgs[req[x].res]) = Content(req[x])
      BY <1>2, <3>1 DEF AcceptedIsStored, Content
    <3> QED
      BY <3>1, <3>2 DEF RowsKept
  <2> QED
    BY <2>1, <2>2
<1> QED
  BY <1>2 DEF AcceptedIsStored, Content

\* Going on, failing and returning nothing.
LEMMA NoAnswer ==
  ASSUME TypeOK, AcceptedIsStored, RowsKept, NEW r \in Requests,
         \/ SetReq(r, Fails(r)) \/ SetReq(r, Returns(r, 0))
         \/ \E p, b : SetReq(r, [req[r] EXCEPT !.pc = p, !.locked = b])
         \/ \E p : SetReq(r, [req[r] EXCEPT !.pc = p])
  PROVE  AcceptedIsStored'
<1>1. req[r] \in Request
  BY DEF TypeOK
<1>2. Fails(r).res = 0 /\ Returns(r, 0).res = 0
  BY <1>1 DEF Fails, Returns, Request
<1>3. req[r].res # 0 => req[r].res \in DOMAIN msgs' /\ Content(msgs'[req[r].res]) = Content(req[r])
  BY DEF AcceptedIsStored, RowsKept, Content
<1>4. CASE SetReq(r, Fails(r))
  BY <1>2, <1>4, AnsweredWell
<1>5. CASE SetReq(r, Returns(r, 0))
  BY <1>2, <1>5, AnsweredWell
<1>6. ASSUME NEW p, NEW b, SetReq(r, [req[r] EXCEPT !.pc = p, !.locked = b])
      PROVE  AcceptedIsStored'
  <2> DEFINE q == [req[r] EXCEPT !.pc = p, !.locked = b]
  <2>1. q.res = req[r].res /\ Content(q) = Content(req[r])
    BY <1>1 DEF Request, Content
  <2>2. SetReq(r, q)
    BY <1>6
  <2> HIDE DEF q
  <2> QED
    BY <1>3, <2>1, <2>2, AnsweredWell
<1>7. ASSUME NEW p, SetReq(r, [req[r] EXCEPT !.pc = p])
      PROVE  AcceptedIsStored'
  <2> DEFINE q == [req[r] EXCEPT !.pc = p]
  <2>1. q.res = req[r].res /\ Content(q) = Content(req[r])
    BY <1>1 DEF Request, Content
  <2>2. SetReq(r, q)
    BY <1>7
  <2> HIDE DEF q
  <2> QED
    BY <1>3, <2>1, <2>2, AnsweredWell
<1> QED
  BY <1>4, <1>5, <1>6, <1>7

\* Either lookup of the key answers with a row of the call's own content.
LEMMA FoundIsOwn ==
  ASSUME TypeOK, AcceptedIsStored, RowsKept, NEW r \in Requests, NEW i \in Same(r), Found(r, i)
  PROVE  AcceptedIsStored'
<1>1. req[r] \in Request /\ i \in DOMAIN msgs
  BY DEF TypeOK, Same, Stored
<1>2. CASE ~SameContent(msgs[i], req[r])
  BY <1>2, NoAnswer DEF Found
<1>3. CASE SameContent(msgs[i], req[r])
  <2> DEFINE q == Returns(r, i)
  <2>1. q.res = i /\ Content(q) = Content(req[r])
    BY <1>1 DEF Returns, Request, Content
  <2>2. Content(msgs[i]) = Content(req[r])
    BY <1>3 DEF Same, SameContent, Content
  <2>3. SetReq(r, q)
    BY <1>3 DEF Found
  <2>4. i \in DOMAIN msgs' /\ Content(msgs'[i]) = Content(msgs[i])
    BY <1>1 DEF RowsKept
  <2> HIDE DEF q
  <2> QED
    BY <2>1, <2>2, <2>3, <2>4, AnsweredWell
<1> QED
  BY <1>2, <1>3

\* Every answer a call has got stays the answer to that call.
LEMMA NextAccepted ==
  ASSUME TypeOK, AcceptedIsStored, [Next]_vars
  PROVE  AcceptedIsStored'
<1>0. RowsKept
  BY NextRowsKept
<1>1. CASE UNCHANGED req
  BY <1>0, <1>1 DEF AcceptedIsStored, RowsKept, Content
<1>2. ASSUME NEW r \in Requests, NEW s, NEW k, NEW b, NEW p, SendMessage(r, s, k, b, p)
      PROVE  AcceptedIsStored'
  <2> DEFINE q == [pc |-> "lock", sender |-> s, key |-> k, body |-> b, reply |-> p,
                   locked |-> FALSE, res |-> 0]
  <2>1. SetReq(r, q) /\ q.res = 0
    BY <1>2 DEF SendMessage
  <2> HIDE DEF q
  <2> QED
    BY <1>0, <2>1, AnsweredWell
<1>3. ASSUME NEW r \in Requests, LockMessageInbox(r) PROVE AcceptedIsStored'
  <2>1. SetReq(r, [req[r] EXCEPT !.pc = "find", !.locked = Recipient \in members])
    BY <1>3 DEF LockMessageInbox
  <2> QED
    BY <1>0, <2>1, NoAnswer
<1>4. ASSUME NEW r \in Requests, FindIdempotent(r) PROVE AcceptedIsStored'
  <2>1. (\E i \in Same(r) : Found(r, i)) \/ SetReq(r, [req[r] EXCEPT !.pc = "members"])
    BY <1>4 DEF FindIdempotent
  <2> QED
    BY <1>0, <2>1, FoundIsOwn, NoAnswer
<1>5. ASSUME NEW r \in Requests, CheckMembers(r) PROVE AcceptedIsStored'
  <2>1. SetReq(r, [req[r] EXCEPT !.pc = "count"]) \/ SetReq(r, Returns(r, 0))
    BY <1>5 DEF CheckMembers
  <2> QED
    BY <1>0, <2>1, NoAnswer
<1>6. ASSUME NEW r \in Requests, CountUnread(r) PROVE AcceptedIsStored'
  <2>1. SetReq(r, Fails(r)) \/ SetReq(r, [req[r] EXCEPT !.pc = "insert"])
    BY <1>6 DEF CountUnread
  <2> QED
    BY <1>0, <2>1, NoAnswer
<1>7. ASSUME NEW r \in Requests, Insert(r) PROVE AcceptedIsStored'
  <2>1. CASE Same(r) # {}
    BY <1>0, <1>7, <2>1, NoAnswer DEF Insert
  <2>2. CASE Same(r) = {}
    <3> DEFINE q == Returns(r, Len(msgs) + 1)
    <3>1. msgs' = Append(msgs, NewMessage(r)) /\ SetReq(r, q)
      BY <1>7, <2>2 DEF Insert
    <3>2. Len(msgs) + 1 \in DOMAIN msgs' /\ msgs'[Len(msgs) + 1] = NewMessage(r)
      BY <3>1, AppendRow
    <3>3. req[r] \in Request
      BY DEF TypeOK
    <3>4. q.res = Len(msgs) + 1 /\ Content(q) = Content(req[r])
      BY <3>3 DEF Returns, Request, Content
    <3>5. Content(NewMessage(r)) = Content(req[r])
      BY DEF NewMessage, Content
    <3> HIDE DEF q
    <3> QED
      BY <1>0, <3>1, <3>2, <3>4, <3>5, AnsweredWell
  <2> QED
    BY <2>1, <2>2
<1>8. ASSUME NEW r \in Requests, FindAgain(r) PROVE AcceptedIsStored'
  <2>1. (\E i \in Same(r) : Found(r, i)) \/ SetReq(r, Returns(r, 0))
    BY <1>8 DEF FindAgain
  <2> QED
    BY <1>0, <2>1, FoundIsOwn, NoAnswer
<1>9. ASSUME NEW r \in Requests, SendFails(r) PROVE AcceptedIsStored'
  BY <1>0, <1>9, NoAnswer DEF SendFails
<1>10. \/ UNCHANGED req
       \/ \E r \in Requests :
            \/ \E s \in Senders, k \in Keys \cup {NoKey}, b \in Bodies, p \in Replies :
                 SendMessage(r, s, k, b, p)
            \/ SendStep(r) \/ SendFails(r)
  BY DEF Next, vars, LeaseRead, PlainRead, Begin, AckMessagesWithLease, AckMessages,
         ReleaseMessageLeases, ConsumerCrashes, SweepMessageRetention, LeaseExpires,
         Register, RemoveMember
<1> QED
  BY <1>1, <1>2, <1>3, <1>4, <1>5, <1>6, <1>7, <1>8, <1>9, <1>10 DEF SendStep

\* "an identical resend returns the original message" (docs/agent-messaging.md):
\* whatever SendMessage returned, from its insert or from either lookup of the
\* key, on either database and however calls interleave and fail, is a message
\* of this sender with this key and this content.
THEOREM AcceptedStays == Spec => []AcceptedIsStored
<1>1. Init => AcceptedIsStored
  BY DEF Init, AcceptedIsStored
<1>2. TypeOK /\ AcceptedIsStored /\ [Next]_vars => AcceptedIsStored'
  BY NextAccepted
<1> QED
  BY <1>1, <1>2, InboxTypeCorrect, PTL DEF Spec
=============================================================================
