------------------------------- MODULE Inbox --------------------------------
(***************************************************************************)
(* The durable inbox of one (namespace, agent): SendMessage, leased and    *)
(* plain reads, ACK, release and retention (internal/region/messages.go).  *)
(*                                                                         *)
(* A send is a transaction of several statements.  Its first one updates   *)
(* the recipient's membership row: on SQLite that takes the writer lock,   *)
(* on Postgres the lock of that row, when the row exists.  Reads, ACKs and *)
(* releases are single statements, or transactions that lock every row     *)
(* they use, and are single steps.                                         *)
(*                                                                         *)
(* Time is abstracted to what the code asks of it: a lease is running or   *)
(* has run out.  Delivery invocations own their leases under names that    *)
(* are unique, as docs/agent-messaging.md requires.                        *)
(***************************************************************************)
EXTENDS Naturals, Sequences, FiniteSets

CONSTANTS Driver,     \* "sqlite" or "postgres"
          Requests,   \* concurrent SendMessage calls
          Senders,    \* agents that send
          Recipient,  \* the agent whose inbox this is
          Keys,       \* idempotency keys
          NoKey,      \* a send without one
          Bodies,     \* message contents
          Replies,    \* what reply_to may name: seq numbers, 0 for none
          Consumers,  \* delivery invocations
          Nobody,     \* leased_by IS NULL
          Cap,        \* MaxUnreadPerRecipient
          Limit,      \* rows of one read
          Churn,      \* whether membership changes
          MaxMsgs,    \* bound: messages ever stored
          MaxFaults   \* bound: crashes, given-up and overdue deliveries

ASSUME InboxAssumption ==
    /\ Driver \in {"sqlite", "postgres"}
    /\ Recipient \notin Senders
    /\ NoKey \notin Keys
    /\ Nobody \notin Consumers
    /\ Replies \subseteq Nat
    /\ Churn \in BOOLEAN
    /\ Cap \in Nat \ {0} /\ Limit \in Nat \ {0}
    /\ MaxMsgs \in Nat /\ MaxFaults \in Nat

VARIABLES members,  \* region_members of the namespace
          msgs,     \* agent_messages of the inbox, in order of seq
          req,      \* the SendMessage calls
          con,      \* the delivery invocations
          faults    \* crashes, releases and overdue leases so far

vars == <<members, msgs, req, con, faults>>

Agents == Senders \cup {Recipient}

\* seen is history: some reader was given the message.
Message == [sender : Senders, key : Keys \cup {NoKey}, body : Bodies, reply : Nat,
            acked : BOOLEAN, lease : {"none", "live", "expired"},
            by : Consumers \cup {Nobody}, swept : BOOLEAN, seen : BOOLEAN]

\* locked: the transaction holds the recipient's row (Postgres).  res is
\* the seq SendMessage returned, 0 for an error.
Request == [pc : {"idle", "lock", "find", "members", "count", "insert", "again"},
            sender : Senders, key : Keys \cup {NoKey}, body : Bodies, reply : Nat,
            locked : BOOLEAN, res : Nat]

\* batch: messages leased reads gave the invocation; held: those whose lease
\* has not run out on it; read: messages plain reads gave it; asof: the
\* leases that ran when its ACK or release read the clock.
Consumer == [pc : {"idle", "ack", "release"}, batch : SUBSET Nat, held : SUBSET Nat,
             read : SUBSET Nat, asof : SUBSET Nat]

Stored == {i \in DOMAIN msgs : ~msgs[i].swept}

Unread == {i \in Stored : ~msgs[i].acked}

InTx(r) == req[r].pc \in {"find", "members", "count", "insert"}

\* A statement that writes waits for SQLite's writer.
WriterFree == Driver = "sqlite" => \A r \in Requests : ~InTx(r)

\* A statement that writes the recipient's row waits for its lock.
RowFree == \A r \in Requests : ~req[r].locked

SetReq(r, rec) == req' = [req EXCEPT ![r] = rec]

\* End of a transaction and of the call.
Returns(r, seq) == [req[r] EXCEPT !.pc = "idle", !.locked = FALSE, !.res = seq]

\* After an error other than invalid, not found or conflict, a call with a
\* key looks the key up once more.
Fails(r) == [req[r] EXCEPT !.pc = IF req[r].key = NoKey THEN "idle" ELSE "again",
                           !.locked = FALSE, !.res = 0]

NewConsumer == [pc |-> "idle", batch |-> {}, held |-> {}, read |-> {}, asof |-> {}]

Init ==
    /\ members \in IF Churn THEN SUBSET Agents ELSE {Agents}
    /\ msgs = <<>>
    /\ req \in [Requests -> {[pc |-> "idle", sender |-> s, key |-> NoKey, body |-> b,
                              reply |-> 0, locked |-> FALSE, res |-> 0] :
                             s \in Senders, b \in Bodies}]
    /\ con = [c \in Consumers |-> NewConsumer]
    /\ faults = 0

-----------------------------------------------------------------------------
(* SendMessage *)

SendMessage(r, s, k, b, p) ==
    /\ req[r].pc = "idle"
    /\ Len(msgs) + Cardinality({x \in Requests : req[x].pc # "idle"}) < MaxMsgs
    /\ SetReq(r, [pc |-> "lock", sender |-> s, key |-> k, body |-> b, reply |-> p,
                  locked |-> FALSE, res |-> 0])
    /\ UNCHANGED <<members, msgs, con, faults>>

\* lockMessageInbox: without a membership row there is nothing to lock on
\* Postgres.
LockMessageInbox(r) ==
    /\ req[r].pc = "lock"
    /\ WriterFree
    /\ Recipient \in members => RowFree
    /\ SetReq(r, [req[r] EXCEPT !.pc = "find", !.locked = Recipient \in members])
    /\ UNCHANGED <<members, msgs, con, faults>>

\* The message stored under the call's key.
Same(r) == {i \in Stored : msgs[i].sender = req[r].sender /\ msgs[i].key = req[r].key
                           /\ req[r].key # NoKey}

\* Mutant: a key is enough.
SameContentKeyOnly(m, rec) == m.sender = rec.sender

SameContent(m, rec) == m.body = rec.body /\ m.reply = rec.reply

\* findIdempotent: the original, or a conflict.
Found(r, i) == SetReq(r, Returns(r, IF SameContent(msgs[i], req[r]) THEN i ELSE 0))

FindIdempotent(r) ==
    /\ req[r].pc = "find"
    /\ \/ \E i \in Same(r) : Found(r, i)
       \/ Same(r) = {} /\ SetReq(r, [req[r] EXCEPT !.pc = "members"])
    /\ UNCHANGED <<members, msgs, con, faults>>

CheckMembers(r) ==
    /\ req[r].pc = "members"
    /\ SetReq(r, IF /\ {req[r].sender, Recipient} \subseteq members
                    /\ req[r].reply = 0 \/ req[r].reply \in Stored
                 THEN [req[r] EXCEPT !.pc = "count"]
                 ELSE Returns(r, 0))
    /\ UNCHANGED <<members, msgs, con, faults>>

\* Mutant: a full inbox takes one more.
CountOffByOne(r) ==
    /\ req[r].pc = "count"
    /\ SetReq(r, IF Cardinality(Unread) > Cap THEN Fails(r)
                 ELSE [req[r] EXCEPT !.pc = "insert"])
    /\ UNCHANGED <<members, msgs, con, faults>>

\* ErrMessageBacklog at the cap.
CountUnread(r) ==
    /\ req[r].pc = "count"
    /\ SetReq(r, IF Cardinality(Unread) >= Cap THEN Fails(r)
                 ELSE [req[r] EXCEPT !.pc = "insert"])
    /\ UNCHANGED <<members, msgs, con, faults>>

\* Mutant: the columns default to values instead of NULL.
NewMessageNotNull(r) == [sender |-> req[r].sender, key |-> req[r].key, body |-> req[r].body,
                         reply |-> req[r].reply, acked |-> FALSE, lease |-> "null",
                         by |-> Nobody, swept |-> FALSE, seen |-> FALSE]

NewMessage(r) == [sender |-> req[r].sender, key |-> req[r].key, body |-> req[r].body,
                  reply |-> req[r].reply, acked |-> FALSE, lease |-> "none",
                  by |-> Nobody, swept |-> FALSE, seen |-> FALSE]

\* INSERT and commit; the unique index on the key refuses a second row.
Insert(r) ==
    /\ req[r].pc = "insert"
    /\ IF Same(r) # {}
         THEN SetReq(r, Fails(r)) /\ UNCHANGED msgs
         ELSE /\ msgs' = Append(msgs, NewMessage(r))
              /\ SetReq(r, Returns(r, Len(msgs) + 1))
    /\ UNCHANGED <<members, con, faults>>

\* The lookup outside the failed transaction.
FindAgain(r) ==
    /\ req[r].pc = "again"
    /\ \/ \E i \in Same(r) : Found(r, i)
       \/ Same(r) = {} /\ SetReq(r, Returns(r, 0))
    /\ UNCHANGED <<members, msgs, con, faults>>

\* A statement fails (a busy database, a lost connection) or the context is
\* cancelled, which skips the second lookup.
SendFails(r) ==
    /\ req[r].pc # "idle"
    /\ SetReq(r, Fails(r)) \/ SetReq(r, Returns(r, 0))
    /\ UNCHANGED <<members, msgs, con, faults>>

-----------------------------------------------------------------------------
(* Reads and deliveries *)

\* Mutant: leased rows are not hidden.
AvailableLeased == Unread

\* Mutant: a lease that ran out is taken for one that runs.
AvailableNeverLeased == {i \in Unread : msgs[i].lease = "none"}

\* Unread rows whose lease does not run.
Available == {i \in Unread : msgs[i].lease # "live"}

\* ORDER BY seq LIMIT.
Batch == {i \in Available : Cardinality({j \in Available : j < i}) < Limit}

\* An UPDATE of the rows in S, which sets them to what new has for them.
Update(S, new) == msgs' = [i \in DOMAIN msgs |-> IF i \in S THEN new[i] ELSE msgs[i]]

Seen == [i \in DOMAIN msgs |-> [msgs[i] EXCEPT !.seen = TRUE]]

Leased(c) == [i \in DOMAIN msgs |-> [Seen[i] EXCEPT !.lease = "live", !.by = c]]

Expired == [i \in DOMAIN msgs |-> [msgs[i] EXCEPT !.lease = "expired"]]

Freed == [i \in DOMAIN msgs |-> [msgs[i] EXCEPT !.lease = "none", !.by = Nobody]]

Acked == [i \in DOMAIN msgs |-> [Freed[i] EXCEPT !.acked = TRUE]]

Swept == [i \in DOMAIN msgs |-> [msgs[i] EXCEPT !.swept = TRUE]]

SetCon(c, rec) == con' = [con EXCEPT ![c] = rec]

\* ReadMessagesWithOptions with a lease: lock, SELECT, UPDATE, commit.
LeaseRead(c) ==
    /\ con[c].pc = "idle"
    /\ Available # {}
    /\ WriterFree
    /\ Recipient \in members => RowFree
    /\ Update(Batch, Leased(c))
    /\ SetCon(c, [con[c] EXCEPT !.batch = @ \cup Batch, !.held = @ \cup Batch])
    /\ UNCHANGED <<members, req, faults>>

\* ReadMessages: no lease.
PlainRead(c) ==
    /\ con[c].pc = "idle"
    /\ Available # {}
    /\ Update(Batch, Seen)
    /\ SetCon(c, [con[c] EXCEPT !.read = @ \cup Batch])
    /\ UNCHANGED <<members, req, faults>>

\* AckMessagesWithLease and ReleaseMessageLeases read the clock ...
Begin(c, what) ==
    /\ con[c].pc = "idle"
    /\ con[c].batch # {}
    /\ what = "release" => faults < MaxFaults
    /\ SetCon(c, [con[c] EXCEPT !.pc = what, !.asof = {i \in Stored : msgs[i].lease = "live"}])
    /\ faults' = IF what = "release" THEN faults + 1 ELSE faults
    /\ UNCHANGED <<members, msgs, req>>

\* Mutant: AND leased_by = $n is missing.
OwnedByAnyone(c) == {i \in Unread : msgs[i].lease = "live" \/ i \in con[c].asof}

\* ... and change the rows that are leased to the caller past that moment.
Owned(c) == {i \in Unread : /\ msgs[i].by = c
                            /\ msgs[i].lease = "live" \/ i \in con[c].asof}

\* The caller lets go of the batch, whatever the statement matched.
LetGo(c) == SetCon(c, [con[c] EXCEPT !.pc = "idle", !.batch = {}, !.held = {}, !.asof = {}])

AckMessagesWithLease(c) ==
    /\ con[c].pc = "ack"
    /\ WriterFree
    /\ Update(Owned(c) \cap con[c].batch, Acked)
    /\ LetGo(c)
    /\ UNCHANGED <<members, req, faults>>

\* An ACK by id alone, for messages a plain read returned.
AckMessages(c) ==
    /\ con[c].pc = "idle"
    /\ con[c].read # {}
    /\ WriterFree
    /\ Update(Unread \cap con[c].read, Acked)
    /\ SetCon(c, [con[c] EXCEPT !.read = {}])
    /\ UNCHANGED <<members, req, faults>>

ReleaseMessageLeases(c) ==
    /\ con[c].pc = "release"
    /\ WriterFree
    /\ Update(Owned(c) \cap con[c].batch, Freed)
    /\ LetGo(c)
    /\ UNCHANGED <<members, req, faults>>

\* SweepMessageRetention: some of the acknowledged rows are old enough.
SweepMessageRetention ==
    /\ WriterFree
    /\ \E S \in (SUBSET (Stored \ Unread)) \ {{}} : Update(S, Swept)
    /\ UNCHANGED <<members, req, con, faults>>

\* A lease runs out: because its invocation is gone, or is too slow.
LeaseExpires(i) ==
    /\ i \in Unread
    /\ msgs[i].lease = "live"
    /\ IF \E c \in Consumers : i \in con[c].held
         THEN faults < MaxFaults /\ faults' = faults + 1
         ELSE UNCHANGED faults
    /\ con' = [c \in Consumers |-> [con[c] EXCEPT !.held = @ \ {i}]]
    /\ Update({i}, Expired)
    /\ UNCHANGED <<members, req>>

\* An invocation ends without a word.
ConsumerCrashes(c) ==
    /\ faults < MaxFaults
    /\ con[c].batch \cup con[c].read # {}
    /\ SetCon(c, NewConsumer)
    /\ faults' = faults + 1
    /\ UNCHANGED <<members, msgs, req>>

-----------------------------------------------------------------------------
(* Membership *)

\* Register; an existing row keeps its place.
Register(a) ==
    /\ Churn
    /\ a \notin members
    /\ WriterFree
    /\ members' = members \cup {a}
    /\ UNCHANGED <<msgs, req, con, faults>>

\* RemoveMember waits for a send that has locked the row.
RemoveMember(a) ==
    /\ Churn
    /\ a \in members
    /\ WriterFree
    /\ a = Recipient => RowFree
    /\ members' = members \ {a}
    /\ UNCHANGED <<msgs, req, con, faults>>

SendStep(r) == \/ LockMessageInbox(r) \/ FindIdempotent(r) \/ CheckMembers(r)
               \/ CountUnread(r) \/ Insert(r) \/ FindAgain(r)

Next == \/ \E r \in Requests :
             \/ \E s \in Senders, k \in Keys \cup {NoKey}, b \in Bodies, p \in Replies :
                  SendMessage(r, s, k, b, p)
             \/ SendStep(r) \/ SendFails(r)
        \/ \E c \in Consumers :
             \/ LeaseRead(c) \/ PlainRead(c)
             \/ Begin(c, "ack") \/ Begin(c, "release")
             \/ AckMessagesWithLease(c) \/ ReleaseMessageLeases(c)
             \/ AckMessages(c) \/ ConsumerCrashes(c)
        \/ SweepMessageRetention
        \/ \E i \in DOMAIN msgs : LeaseExpires(i)
        \/ \E a \in Agents : Register(a) \/ RemoveMember(a)

Spec == Init /\ [][Next]_vars

\* Calls go on; whoever waits for the database's locks gets them in the end;
\* an invocation that is not interrupted acknowledges what it was given; time
\* passes; the clients poll.
Fairness == /\ \A r \in Requests : WF_vars(SendStep(r))
            /\ \A c \in Consumers : /\ SF_vars(LeaseRead(c))
                                     /\ WF_vars(Begin(c, "ack"))
                                     /\ SF_vars(AckMessagesWithLease(c))
                                     /\ SF_vars(ReleaseMessageLeases(c))
            /\ \A i \in 1..MaxMsgs : WF_vars(i \in DOMAIN msgs /\ LeaseExpires(i))

FairSpec == Spec /\ Fairness

-----------------------------------------------------------------------------
(* Properties *)

\* Type correctness of members, messages, calls and invocations.
TypeOK == /\ members \subseteq Agents
          /\ msgs \in Seq(Message)
          /\ req \in [Requests -> Request]
          /\ con \in [Consumers -> Consumer]
          /\ faults \in 0..MaxFaults

\* "The unread cap is per namespace+recipient and admits sends atomically"
\* (docs/agent-messaging.md): an inbox never holds more than Cap messages.
UnreadCap == Cardinality(Unread) <= Cap

\* Why sends are admitted one by one: as long as every transaction finds a
\* row to lock, or locks the whole database, there is one at a time, and what
\* it counted cannot grow before its insert.
AdmissionInv ==
    /\ ~Churn => members = Agents
    /\ \A r \in Requests : req[r].locked => InTx(r)
    /\ Driver = "postgres" => \A r \in Requests : InTx(r) => req[r].locked
    /\ \A r, x \in Requests : InTx(r) /\ InTx(x) => r = x
    /\ \A r \in Requests : req[r].pc = "insert" => Cardinality(Unread) < Cap

\* "an identical resend returns the original message": whatever SendMessage
\* returned, from its insert or from either lookup of the key, is a message
\* of this sender with this key and this content.
AcceptedIsStored ==
    \A r \in Requests : req[r].res # 0 =>
        /\ req[r].res \in DOMAIN msgs
        /\ LET m == msgs[req[r].res]
           IN  <<m.sender, m.key, m.body, m.reply>> =
               <<req[r].sender, req[r].key, req[r].body, req[r].reply>>

\* A running lease hides its rows: two invocations hold one message only
\* when it has been acknowledged by id meanwhile.
DeliveredToOne ==
    \A c, d \in Consumers : \A i \in con[c].held \cap con[d].held :
        c = d \/ msgs[i].acked

\* What an invocation holds is leased to it, unless it was acknowledged.
HeldIsLeased ==
    \A c \in Consumers : \A i \in con[c].held :
        /\ i \in DOMAIN msgs
        /\ msgs[i].acked \/ (msgs[i].lease = "live" /\ msgs[i].by = c)

\* A message in an invocation's hands is taken away only by a plain reader's
\* ACK by id.
NotTakenAway ==
    \A d \in Consumers : \A i \in con[d].held \cap con'[d].held :
        \/ msgs[i].acked
        \/ ~msgs'[i].acked /\ msgs'[i].by = d
        \/ \E c \in Consumers : i \in con[c].read /\ i \notin con'[c].read

\* "stale invocations cannot ACK a newer owner's delivery", nor release it.
OwnersAreRespected == [][NotTakenAway]_vars

\* "Unread messages never expire" and ACK means received: what retention
\* deletes, somebody was given.
DeletedWasReceived == \A i \in DOMAIN msgs : msgs[i].swept => msgs[i].seen

\* At-least-once delivery: in spite of crashed and slow invocations, every
\* stored message is acknowledged in the end.
EveryMessageIsAcked ==
    \A i \in 1..MaxMsgs : i \in DOMAIN msgs ~> i \in DOMAIN msgs /\ msgs[i].acked
=============================================================================
