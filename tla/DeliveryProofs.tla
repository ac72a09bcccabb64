--------------------------- MODULE DeliveryProofs ---------------------------
(***************************************************************************)
(* Theorems about the hooks that deliver mail to a session (HookInbox).    *)
(***************************************************************************)
EXTENDS HookInbox, FiniteSetTheorems, TLAPS

-----------------------------------------------------------------------------
(* The invariant *)

\* Only unread letters are leased.
BoxFits == \A m \in Letter : box[m].live => box[m].st = "unread"

\* What is to be delivered is neither held back nor acknowledged in silence, and
\* nothing is in hand between two scans.
ShapeFits ==
    \A p \in Hooks :
        /\ hook[p].pc \in {"idle", "peek", "register", "fetch", "wait"} => hook[p].used = {}
        /\ hook[p].used \cap (Held \cup hook[p].reack) = {} /\ hook[p].heldBack \subseteq Held
        /\ hook[p].pc = "reack" /\ hook[p].more => hook[p].used = {}

\* What a hook remembers, acknowledges in silence or is about to acknowledge was shown.
WasShown(p, m) ==
    m \in hook[p].st \cup hook[p].reack \/ (hook[p].pc \in {"remember", "ack"} /\ m \in hook[p].used) => shown[m] > 0
ShownFits == /\ AckedWasShown
             /\ \A m \in Remembered : shown[m] > 0
             /\ \A p \in Hooks, m \in Letter : WasShown(p, m)

\* The hooks that may yet show a letter, and a letter that no other will get hold of
\* before a fault: it is acknowledged, or leased to one that shows or acknowledges it.
InHand == {"reack", "unhold", "render", "reserve", "write"}
Bearers(m) == {p \in Hooks : m \in hook[p].used /\ hook[p].pc \in InHand}
Secured(m) ==
    \/ box[m].st = "acked"
    \/ /\ box[m].live /\ box[m].by \in Hooks
       /\ m \in hook[box[m].by].used /\ hook[box[m].by].pc \in InHand \cup {"remember", "ack"}
Showings(m) == shown[m] + Cardinality(Bearers(m))
CountsFit == \A m \in Letter : /\ IsFiniteSet(Bearers(m)) /\ Showings(m) <= 1 + faulty
                               /\ ~Secured(m) => Showings(m) <= faulty

\* The slots that reached the client or may yet reach it.  Those inside the window
\* are in the file, nobody holds the slot of another, and no window that is shorter by
\* the wait for the lock has too many.
Span == Window - LockWait
Pledged == blocks \cup ({hook[p].slot : p \in Hooks} \ {NoSlot})
Pledges(t) == {c \in Pledged : t - Span < c.at /\ c.at <= t}
SlotsFit ==
    /\ IsFiniteSet(file.conts)
    /\ \A c \in Pledged : hookTime - Window < c.at => c \in file.conts
    /\ \A p, q \in Hooks : p # q /\ hook[p].slot = hook[q].slot => hook[p].slot = NoSlot
    /\ \A p \in Hooks : hook[p].pc \notin {"remember", "ack", "leftover"} => hook[p].slot \notin blocks
    /\ \A t \in 0..HookClock : IsFiniteSet(Pledges(t)) /\ Cardinality(Pledges(t)) <= MaxContinue

\* A hook that waits for the lock has a clock that is not older than the wait.
ClockFits == \A p \in Hooks : hook[p].pc = "reserve" =>
                /\ hook[p].now \in Nat /\ hook[p].now <= hookTime
                /\ hookTime <= hook[p].now + LockWait

\* What a hook will acknowledge or give back before it ends.
Keeps(h) ==
    {m \in Letter :
        \/ m \in h.heldBack /\ h.pc \in {"fetch", "reack", "unhold"}
        \/ m \in h.reack /\ h.pc = "reack"
        \/ m \in h.used /\ h.pc \in InHand \cup {"remember", "ack"}
        \/ m \in h.left /\ h.pc \in {"reserve", "write", "giveback", "remember", "ack", "leftover"}}
LeasesFit ==
    faulty = 0 =>
       /\ \A m \in Letter : box[m].live => box[m].by \in Hooks /\ m \in Keeps(hook[box[m].by])
       /\ \A p \in Hooks : hook[p].pc \in {"peek", "register", "wait", "fetch", "reack"} =>
             \A m \in hook[p].seen : box[m].st = "acked" \/ (box[m].live /\ box[m].by = p)

\* A failure was reported because of a fault, and a stop event that goes on carries a
\* slot or was told that there is none.
DiagFits ==
    faulty = 0 =>
       \A p \in Hooks :
          LET h == hook[p] IN
          /\ ~h.failed /\ h.diag \notin {"delivery_failed", "handoff_unconfirmed"}
          /\ h.event = "stop" /\ h.pc \in {"register", "fetch", "reack", "unhold", "wait", "render", "reserve"}
                => h.cont
          /\ h.event = "stop" /\ h.pc = "write" => h.slot # NoSlot \/ h.capped

HookInv == HookTypeOK /\ BoxFits /\ ShapeFits /\ ShownFits /\ CountsFit /\ SlotsFit /\ ClockFits /\ LeasesFit /\ DiagFits

-----------------------------------------------------------------------------
(* Types *)

\* A hook that begins has nothing in hand.
LEMMA NewHookFacts ==
    /\ NewHook \in Hook
    /\ NewHook.pc = "idle" /\ NewHook.used = {} /\ NewHook.reack = {} /\ NewHook.heldBack = {} /\ NewHook.st = {}
    /\ NewHook.left = {} /\ NewHook.seen = {} /\ NewHook.slot = NoSlot /\ ~NewHook.failed
    /\ NewHook.diag = "waiting_for_next_prompt" /\ NewHook.event = "prompt"
  BY HookConstants DEF NewHook, Hook, HookPc, Outcome, NoSlot

\* A hook that only reports has nothing in hand.
LEMMA ReportingFacts ==
  ASSUME NEW d \in Outcome
  PROVE  /\ Reporting(d) \in Hook
         /\ Reporting(d).pc = "flush" /\ Reporting(d).used = {} /\ Reporting(d).reack = {}
         /\ Reporting(d).heldBack = {} /\ Reporting(d).st = {} /\ Reporting(d).left = {} /\ Reporting(d).seen = {}
         /\ Reporting(d).slot = NoSlot /\ ~Reporting(d).failed /\ Reporting(d).diag = d /\ Reporting(d).event = "prompt"
  BY NewHookFacts DEF Reporting, Hook, HookPc

\* One hook is replaced.
LEMMA BecomeFacts ==
  ASSUME HookTypeOK, NEW p \in Hooks, NEW rec \in Hook, Become(p, rec)
  PROVE  hook' \in [Hooks -> Hook] /\ hook'[p] = rec /\ \A q \in Hooks : q # p => hook'[q] = hook[q]
  BY DEF HookTypeOK, Become

\* The calls to the server change leases and acknowledge, row by row.
LEMMA BoxFacts ==
  ASSUME HookTypeOK, NEW p \in Hooks, NEW S
  PROVE  LeaseTo(p, S) \in [Letter -> Row] /\ AckOf(p, S) \in [Letter -> Row] /\ ReleaseOf(p, S) \in [Letter -> Row]
<1>1. \A m \in Letter : box[m] \in Row
  BY DEF HookTypeOK
<1>2. /\ [st |-> "unread", by |-> p, live |-> TRUE] \in Row /\ [st |-> "unread", by |-> NoHook, live |-> FALSE] \in Row
      /\ [st |-> "acked", by |-> NoHook, live |-> FALSE] \in Row
  BY DEF Row
<1> QED
  BY <1>1, <1>2 DEF LeaseTo, AckOf, ReleaseOf

\* The end of a process changes who its leases are known to.
LEMMA EndFacts ==
  ASSUME HookTypeOK, NEW p \in Hooks, EndHook(p)
  PROVE  /\ hook' \in [Hooks -> Hook] /\ hook'[p] = NewHook /\ \A q \in Hooks : q # p => hook'[q] = hook[q]
         /\ box' \in [Letter -> Row]
         /\ \A m \in Letter : /\ box'[m].st = box[m].st /\ box'[m].live = box[m].live
                              /\ box'[m].by = IF box[m].by = p THEN NoHook ELSE box[m].by
<1>1. \A m \in Letter : /\ box[m] \in Row
                        /\ [box[m] EXCEPT !.by = NoHook] = [st |-> box[m].st, by |-> NoHook, live |-> box[m].live]
  BY DEF HookTypeOK, Row
<1>2. \A m \in Letter : [box[m] EXCEPT !.by = NoHook] \in Row
  BY <1>1 DEF Row
<1>3. hook' \in [Hooks -> Hook] /\ hook'[p] = NewHook /\ \A q \in Hooks : q # p => hook'[q] = hook[q]
  BY NewHookFacts DEF EndHook, HookTypeOK
<1> QED
  BY <1>1, <1>2, <1>3 DEF EndHook

\* The oldest letters of a set are letters of it.
LEMMA OldestFacts == ASSUME NEW S, NEW n PROVE Oldest(S, n) \subseteq S
  BY DEF Oldest

\* Letters are numbers, and every set of them is finite.
LEMMA LetterFacts ==
    /\ Letter \subseteq Nat /\ IsFiniteSet(Letter)
    /\ \A S \in SUBSET Letter : IsFiniteSet(S) /\ Cardinality(S) \in Nat
<1>1. Letters \in Nat
  BY HookConstants
<1>2. IsFiniteSet(Letter)
  BY <1>1, FS_Interval DEF Letter
<1>3. Letter \subseteq Nat
  BY <1>1 DEF Letter
<1> QED
  BY <1>2, <1>3, FS_Subset, FS_CardinalityType

\* What a hook has after a page is sorted.
LEMMA SortFacts ==
  ASSUME HookTypeOK, NEW p \in Hooks, NEW page \in SUBSET Letter
  PROVE  /\ SortPage(p, page) \in Hook
         /\ SortPage(p, page).pc = "reack" /\ SortPage(p, page).seen = hook[p].seen \cup page
         /\ SortPage(p, page).reack = (page \ hook[p].seen) \cap hook[p].st
         /\ SortPage(p, page).heldBack = hook[p].heldBack \cup (((page \ hook[p].seen) \cap Held) \ hook[p].st)
         /\ SortPage(p, page).used = (page \ hook[p].seen) \ (hook[p].st \cup Held)
         /\ SortPage(p, page).left = hook[p].left /\ SortPage(p, page).slot = hook[p].slot
         /\ SortPage(p, page).st = hook[p].st /\ SortPage(p, page).failed = hook[p].failed
         /\ SortPage(p, page).event = hook[p].event /\ SortPage(p, page).cont = hook[p].cont
         /\ SortPage(p, page).diag = hook[p].diag /\ SortPage(p, page).capped = hook[p].capped
         /\ SortPage(p, page).more => SortPage(p, page).used = {}
<1>1. hook[p] \in Hook
  BY DEF HookTypeOK
<1> DEFINE more == /\ (page \ hook[p].seen) \ (hook[p].st \cup Held) = {} /\ page \ hook[p].seen # {}
      /\ Cardinality(page) = FetchLimit
                   /\ Cardinality(hook[p].seen \cup page) < ScanLimit
           rec == [hook[p] EXCEPT !.pc = "reack", !.seen = hook[p].seen \cup page, !.reack = (page \ hook[p].seen) \cap hook[p].st,
                     !.heldBack = @ \cup (((page \ hook[p].seen) \cap Held) \ hook[p].st),
                     !.used = (page \ hook[p].seen) \ (hook[p].st \cup Held), !.more = more]
<1>2. SortPage(p, page) = rec
  BY DEF SortPage
<1>3. more \in BOOLEAN /\ (more => (page \ hook[p].seen) \ (hook[p].st \cup Held) = {})
  OBVIOUS
<1> HIDE DEF more
<1>4. /\ (page \ hook[p].seen) \cap hook[p].st \in SUBSET Letter /\ hook[p].seen \cup page \in SUBSET Letter
      /\ hook[p].heldBack \cup (((page \ hook[p].seen) \cap Held) \ hook[p].st) \in SUBSET Letter
      /\ (page \ hook[p].seen) \ (hook[p].st \cup Held) \in SUBSET Letter
  BY <1>1 DEF Hook
<1>5. rec \in Hook
  BY <1>1, <1>3, <1>4 DEF Hook, HookPc
<1>6. rec.more = more
  BY <1>1 DEF Hook
<1>7. /\ rec.pc = "reack" /\ rec.seen = hook[p].seen \cup page
      /\ rec.reack = (page \ hook[p].seen) \cap hook[p].st
      /\ rec.heldBack = hook[p].heldBack \cup (((page \ hook[p].seen) \cap Held) \ hook[p].st)
      /\ rec.used = (page \ hook[p].seen) \ (hook[p].st \cup Held)
      /\ rec.left = hook[p].left /\ rec.slot = hook[p].slot
      /\ rec.st = hook[p].st /\ rec.failed = hook[p].failed
      /\ rec.event = hook[p].event /\ rec.cont = hook[p].cont
      /\ rec.diag = hook[p].diag /\ rec.capped = hook[p].capped
  BY <1>1 DEF Hook
<1> QED
  BY <1>2, <1>3, <1>5, <1>6, <1>7

\* The initial state is well typed.
LEMMA HookInitType == HookInit => HookTypeOK
  BY NewHookFacts, HookConstants DEF HookInit, HookTypeOK, Row

\* One hook changes and the rest of its step keeps its types.
LEMMA OneHookType ==
  ASSUME HookTypeOK, NEW p \in Hooks, NEW rec \in Hook, Become(p, rec),
         box' = box \/ box' \in [Letter -> Row], UNCHANGED <<file, hookTime, shown, blocks>>, NoFault \/ Fault
  PROVE  HookTypeOK'
<1>1. hook' \in [Hooks -> Hook]
  BY BecomeFacts
<1>2. box' \in [Letter -> Row]
  BY DEF HookTypeOK
<1>3. faulty' \in 0..HookFaults
  BY HookConstants DEF HookTypeOK, NoFault, Fault
<1> QED
  BY <1>1, <1>2, <1>3 DEF HookTypeOK

\* The end of a process keeps the types.
LEMMA HookEndType ==
  ASSUME HookTypeOK, NEW p \in Hooks, EndHook(p), UNCHANGED <<file, hookTime, shown, blocks>>, NoFault \/ Fault
  PROVE  HookTypeOK'
<1>1. hook' \in [Hooks -> Hook] /\ box' \in [Letter -> Row]
  <2>1. \A q \in Hooks : hook'[q] \in Hook
    BY EndFacts, NewHookFacts DEF HookTypeOK
  <2> QED
    BY <2>1, EndFacts
<1>3. faulty' \in 0..HookFaults
  BY HookConstants DEF HookTypeOK, NoFault, Fault
<1> QED
  BY <1>1, <1>3 DEF HookTypeOK

\* So do the beginning of a hook, its registration and its ends, ...
LEMMA StopsType ==
  ASSUME HookTypeOK, NEW p \in Hooks,
         RegisterHook(p) \/ KillHook(p) \/ Flush(p) \/ Peek(p)
               \/ (\E e \in {"prompt", "stop"}, mode \in {"context", "continue", "wait"}, a \in BOOLEAN : StartHook(p, e, mode, a))
  PROVE  HookTypeOK'
<1>1. hook[p] \in Hook
  BY DEF HookTypeOK
<1>2. CASE \E e \in {"prompt", "stop"}, mode \in {"context", "continue", "wait"}, a \in BOOLEAN : StartHook(p, e, mode, a)
  <2>1. PICK e \in {"prompt", "stop"}, mode \in {"context", "continue", "wait"}, a \in BOOLEAN : StartHook(p, e, mode, a)
    BY <1>2
  <2> DEFINE cont == mode # "context" /\ e = "stop" /\ ~a
             rec == [NewHook EXCEPT !.pc = "peek", !.event = e, !.cont = cont,
                                    !.mode = IF cont /\ mode = "wait" THEN "wait" ELSE "context"]
  <2>2. cont \in BOOLEAN
    OBVIOUS
  <2>3. Become(p, rec) /\ UNCHANGED <<box, file, hookTime, shown, blocks, faulty>>
    BY <2>1 DEF StartHook
  <2> HIDE DEF cont
  <2>4. rec \in Hook
    BY <2>2, NewHookFacts DEF Hook, HookPc
  <2> QED
    BY <2>3, <2>4, OneHookType DEF NoFault
<1>3. CASE Peek(p)
  <2>1. CASE EndHook(p)
    BY <1>3, <2>1, HookEndType DEF Peek, NoFault
  <2>2. ASSUME NEW c \in BOOLEAN, Become(p, [hook[p] EXCEPT !.pc = "register", !.cont = c, !.st = Remembered])
        PROVE HookTypeOK'
    <3>1. Remembered \in SUBSET Letter
      BY DEF Remembered, HookTypeOK
    <3>2. [hook[p] EXCEPT !.pc = "register", !.cont = c, !.st = Remembered] \in Hook
      BY <1>1, <3>1 DEF Hook, HookPc
    <3> QED
      BY <1>3, <2>2, <3>2, OneHookType, HookEndType DEF Peek, NoFault
  <2>3. hook[p].cont \in BOOLEAN
    BY <1>1 DEF Hook
  <2> QED
    BY <1>3, <2>1, <2>2, <2>3 DEF Peek
<1>4. CASE RegisterHook(p)
  <2>1. [hook[p] EXCEPT !.pc = "fetch"] \in Hook
    BY <1>1 DEF Hook, HookPc
  <2> QED
    BY <1>4, <2>1, OneHookType, HookEndType DEF RegisterHook
<1>5. CASE KillHook(p)
  BY <1>5, HookEndType DEF KillHook
<1>6. CASE Flush(p)
  BY <1>6, HookEndType DEF Flush, NoFault
<1> QED
  BY <1>2, <1>3, <1>4, <1>5, <1>6

\* ... the scan of the inbox, ...
LEMMA ScanType ==
  ASSUME HookTypeOK, NEW p \in Hooks,
         FetchPage(p) \/ FetchFails(p) \/ Reack(p) \/ Unhold(p) \/ WaitAgain(p) \/ WaitEnds(p)
  PROVE  HookTypeOK'
<1>1. hook[p] \in Hook /\ hook[p].diag \in Outcome /\ AvailableTo \in SUBSET Letter
      /\ Oldest(AvailableTo, FetchLimit) \in SUBSET Letter
  BY OldestFacts DEF HookTypeOK, AvailableTo, Hook
<1>2. CASE FetchPage(p)
  <2> DEFINE page == Oldest(AvailableTo, FetchLimit)
  <2>1. Become(p, SortPage(p, page)) /\ box' = LeaseTo(p, page)
    BY <1>2 DEF FetchPage
  <2>2. SortPage(p, page) \in Hook
    BY <1>1, SortFacts
  <2> QED
    BY <1>2, <2>1, <2>2, BoxFacts, OneHookType DEF FetchPage, NoFault
<1>3. CASE FetchFails(p)
  <2>1. [hook[p] EXCEPT !.pc = "unhold", !.failed = TRUE] \in Hook
    BY <1>1 DEF Hook, HookPc
  <2> QED
    BY <1>3, <2>1, BoxFacts, OneHookType DEF FetchFails
<1>4. CASE Reack(p)
  <2>1. [hook[p] EXCEPT !.pc = IF hook[p].more THEN "fetch" ELSE "unhold", !.reack = {}] \in Hook
    BY <1>1 DEF Hook, HookPc
  <2> QED
    BY <1>4, <2>1, BoxFacts, OneHookType DEF Reack, AckLost
<1>5. CASE Unhold(p)
  <2>1. /\ [hook[p] EXCEPT !.pc = "render", !.st = {}, !.seen = {}] \in Hook
        /\ [hook[p] EXCEPT !.pc = "wait", !.seen = {}, !.heldBack = {}, !.failed = FALSE] \in Hook
    BY <1>1 DEF Hook, HookPc
  <2>2. \A d \in Outcome : Reporting(d) \in Hook
    BY ReportingFacts
  <2>3. PICK rec : Become(p, rec) /\ rec \in {[hook[p] EXCEPT !.pc = "render", !.st = {}, !.seen = {}],
                                        [hook[p] EXCEPT !.pc = "wait", !.seen = {}, !.heldBack = {}, !.failed = FALSE],
                                        Reporting("delivery_failed"), Reporting("sender_filtered"), Reporting(hook[p].diag)}
    BY <1>5 DEF Unhold
  <2>4. rec \in Hook
    BY <1>1, <2>1, <2>2, <2>3 DEF Outcome
  <2> QED
    BY <1>5, <2>3, <2>4, BoxFacts, OneHookType DEF Unhold, Released
<1>6. CASE WaitAgain(p)
  <2>1. [hook[p] EXCEPT !.pc = "fetch"] \in Hook
    BY <1>1 DEF Hook, HookPc
  <2> QED
    BY <1>6, <2>1, OneHookType DEF WaitAgain, NoFault
<1>7. CASE WaitEnds(p)
  BY <1>1, <1>7, ReportingFacts, OneHookType DEF WaitEnds, NoFault
<1> QED
  BY <1>2, <1>3, <1>4, <1>5, <1>6, <1>7

\* ... the steps that fill the reply and give letters back, ...
LEMMA ReplyType ==
  ASSUME HookTypeOK, NEW p \in Hooks, Render(p) \/ Giveback(p) \/ AckShown(p) \/ Leftover(p)
  PROVE  HookTypeOK'
<1>1. hook[p] \in Hook /\ hook[p].diag \in Outcome /\ hook[p].used \in SUBSET Letter
  BY DEF HookTypeOK, Hook
<1>2. CASE Render(p)
  <2>1. PICK n : n \in 0..Cardinality(hook[p].used) /\ (NoFault \/ Fault) /\
          LET h == hook[p] IN
            Become(p, [h EXCEPT !.pc = IF n = 0 THEN "giveback" ELSE IF h.cont THEN "reserve" ELSE "write",
                                !.used = Oldest(h.used, n),
                                !.left = h.used \ Oldest(h.used, n),
                                !.now = IF n > 0 /\ h.cont THEN hookTime ELSE 0,
                                !.diag = IF n = 0 THEN "delivery_failed" ELSE @])
    BY <1>2 DEF Render
  <2>2. Oldest(hook[p].used, n) \in SUBSET Letter /\ hook[p].used \ Oldest(hook[p].used, n) \in SUBSET Letter
    BY <1>1, OldestFacts
  <2>3. [hook[p] EXCEPT !.pc = IF n = 0 THEN "giveback" ELSE IF hook[p].cont THEN "reserve" ELSE "write",
                                !.used = Oldest(hook[p].used, n),
                                !.left = hook[p].used \ Oldest(hook[p].used, n),
                                !.now = IF n > 0 /\ hook[p].cont THEN hookTime ELSE 0,
                                !.diag = IF n = 0 THEN "delivery_failed" ELSE @] \in Hook
    <3>1. (IF n > 0 /\ hook[p].cont THEN hookTime ELSE 0) \in 0..HookClock
      BY HookConstants DEF HookTypeOK
    <3> QED
      BY <1>1, <2>2, <3>1 DEF Hook, HookPc, Outcome
  <2> QED
    BY <1>2, <2>1, <2>3, OneHookType DEF Render
<1>3. CASE Giveback(p)
  <2>1. [hook[p] EXCEPT !.pc = "refund", !.left = {}] \in Hook
    BY <1>1 DEF Hook, HookPc
  <2>2. \/ Become(p, [hook[p] EXCEPT !.pc = "refund", !.left = {}])
        \/ Become(p, Reporting(hook[p].diag))
    BY <1>3 DEF Giveback
  <2> QED
    BY <1>1, <1>3, <2>1, <2>2, ReportingFacts, BoxFacts, OneHookType DEF Giveback, Released
<1>4. CASE AckShown(p)
  <2>1. /\ [hook[p] EXCEPT !.pc = "leftover", !.diag = IF hook[p].heldBack # {} THEN "sender_filtered" ELSE @] \in Hook
        /\ [hook[p] EXCEPT !.pc = "leftover", !.diag = "handoff_unconfirmed"] \in Hook
    BY <1>1 DEF Hook, HookPc, Outcome
  <2> QED
    BY <1>4, <2>1, BoxFacts, OneHookType DEF AckShown, AckLost
<1>5. CASE Leftover(p)
  BY <1>1, <1>5, ReportingFacts, BoxFacts, OneHookType DEF Leftover, Released
<1> QED
  BY <1>2, <1>3, <1>4, <1>5
\* The file as it is written.
LEMMA FileFacts ==
  ASSUME HookTypeOK
  PROVE  /\ file = [conts |-> file.conts, acked |-> file.acked]
         /\ \A c : [file EXCEPT !.conts = c] = [conts |-> c, acked |-> file.acked]
         /\ \A a : [file EXCEPT !.acked = a] = [conts |-> file.conts, acked |-> a]
  BY DEF HookTypeOK

\* ... the ones that change the state file or write the reply, ...
LEMMA WriterType ==
  ASSUME HookTypeOK, NEW p \in Hooks, Reserve(p) \/ WriteReply(p) \/ Refund(p) \/ Remember(p)
  PROVE  HookTypeOK'
<1>1. hook[p] \in Hook /\ hook[p].diag \in Outcome /\ hook[p].used \in SUBSET Letter
      /\ hook[p].slot \in Slot \cup {NoSlot} /\ hook[p].now \in 0..HookClock /\ 0 \in 0..HookClock
  BY HookConstants DEF HookTypeOK, Hook
<1>2. (NoFault \/ Fault) /\ UNCHANGED <<box, hookTime>>
  BY DEF Reserve, WriteReply, Refund, Remember
<1>7. faulty' \in 0..HookFaults
  BY <1>2, HookConstants DEF HookTypeOK, NoFault, Fault
<1> SUFFICES /\ hook' \in [Hooks -> Hook] /\ shown' \in [Letter -> Nat] /\ blocks' \subseteq Slot
             /\ file' \in [conts : SUBSET Slot, acked : Seq(Letter)]
  BY <1>2, <1>7 DEF HookTypeOK
<1>3. CASE Reserve(p)
  <2>1. UNCHANGED <<shown, blocks>> /\ Prune(file.conts, hook[p].now) \subseteq Slot
    BY <1>3 DEF Reserve, Prune, HookTypeOK
  <2>2. ASSUME NEW no \in 1..SlotNumbers, file' = [file EXCEPT !.conts = Prune(file.conts, hook[p].now) \cup {NewSlot(hook[p].now, no)}],
               Become(p, [hook[p] EXCEPT !.pc = "write", !.now = 0, !.slot = NewSlot(hook[p].now, no)])
        PROVE  hook' \in [Hooks -> Hook] /\ file' \in [conts : SUBSET Slot, acked : Seq(Letter)]
    <3>1. NewSlot(hook[p].now, no) \in Slot
      BY <1>1 DEF NewSlot, Slot
    <3>2. [hook[p] EXCEPT !.pc = "write", !.now = 0, !.slot = NewSlot(hook[p].now, no)] \in Hook
      BY <1>1, <3>1 DEF Hook, HookPc
    <3> QED
      BY <2>1, <2>2, <3>1, <3>2, BecomeFacts, FileFacts DEF HookTypeOK
  <2>3. [hook[p] EXCEPT !.pc = "write", !.now = 0, !.capped = TRUE] \in Hook /\ [hook[p] EXCEPT !.pc = "write", !.now = 0] \in Hook
    BY <1>1 DEF Hook, HookPc
  <2>4. CASE file' = [file EXCEPT !.conts = Prune(file.conts, hook[p].now)]
        /\ Become(p, [hook[p] EXCEPT !.pc = "write", !.now = 0, !.capped = TRUE])
    BY <2>1, <2>3, <2>4, BecomeFacts, FileFacts DEF HookTypeOK
  <2>5. CASE UNCHANGED file /\ Become(p, [hook[p] EXCEPT !.pc = "write", !.now = 0])
    BY <2>1, <2>3, <2>5, BecomeFacts DEF HookTypeOK
  <2> QED
    BY <1>3, <2>1, <2>2, <2>4, <2>5 DEF Reserve, HookTypeOK
<1>4. CASE WriteReply(p)
  <2>1. file' = file
    BY <1>4 DEF WriteReply
  <2>2. CASE /\ shown' = [m \in Letter |-> IF m \in hook[p].used THEN shown[m] + 1 ELSE shown[m]]
             /\ blocks' = blocks \cup ({hook[p].slot} \ {NoSlot})
             /\ Become(p, [hook[p] EXCEPT !.pc = "remember"])
    <3>1. [hook[p] EXCEPT !.pc = "remember"] \in Hook
      BY <1>1 DEF Hook, HookPc
    <3> QED
      BY <1>1, <2>1, <2>2, <3>1, BecomeFacts DEF HookTypeOK
  <2>3. CASE /\ UNCHANGED <<shown, blocks>>
             /\ Become(p, [hook[p] EXCEPT !.pc = "giveback", !.left = hook[p].used \cup hook[p].left, !.used = {},
                                 !.diag = IF hook[p].capped THEN "wake_budget_exhausted" ELSE "delivery_failed"])
    <3>1. [hook[p] EXCEPT !.pc = "giveback", !.left = hook[p].used \cup hook[p].left, !.used = {},
                                 !.diag = IF hook[p].capped THEN "wake_budget_exhausted" ELSE "delivery_failed"] \in Hook
      BY <1>1 DEF Hook, HookPc, Outcome
    <3> QED
      BY <2>1, <2>3, <3>1, BecomeFacts DEF HookTypeOK
  <2> QED
    BY <1>4, <2>2, <2>3 DEF WriteReply
<1>5. CASE Refund(p)
  <2>1. Reporting(hook[p].diag) \in Hook
    BY <1>1, ReportingFacts
  <2>2. file' \in [conts : SUBSET Slot, acked : Seq(Letter)]
    BY <1>5, FileFacts DEF Refund, HookTypeOK
  <2> QED
    BY <1>5, <2>1, <2>2, BecomeFacts DEF Refund, HookTypeOK
<1>6. CASE Remember(p)
  <2>1. [hook[p] EXCEPT !.pc = "ack"] \in Hook
    BY <1>1 DEF Hook, HookPc
  <2>2. ASSUME NEW q \in InOrder(hook[p].used), file' = [file EXCEPT !.acked = LastOf(file.acked \o q, AckMemory)]
        PROVE  file' \in [conts : SUBSET Slot, acked : Seq(Letter)]
    <3>1. q \in Seq(Letter)
      <4>1. Cardinality(hook[p].used) \in Nat
        BY <1>1, LetterFacts
      <4> QED
        BY <1>1, <2>2, <4>1 DEF InOrder
    <3>2. file.acked \o q \in Seq(Letter)
      BY <3>1 DEF HookTypeOK
    <3>3. ASSUME NEW s \in Seq(Letter) PROVE LastOf(s, AckMemory) \in Seq(Letter)
      BY HookConstants DEF LastOf
    <3> QED
      BY <2>2, <3>2, <3>3, FileFacts DEF HookTypeOK
  <2> QED
    BY <1>6, <2>1, <2>2, BecomeFacts DEF Remember, HookTypeOK
<1> QED
  BY <1>3, <1>4, <1>5, <1>6

\* ... and what happens around the hooks.
LEMMA AroundType ==
  ASSUME HookTypeOK, HookTick \/ \E m \in Letter : Arrive(m) \/ LeaseEnds(m)
  PROVE  HookTypeOK'
<1>1. faulty' \in 0..HookFaults /\ hookTime' \in 0..HookClock /\ UNCHANGED <<hook, file, shown, blocks>>
  BY HookConstants DEF HookTypeOK, NoFault, Fault, HookTick, Arrive, LeaseEnds
<1>2. box' \in [Letter -> Row]
  <2>1. CASE HookTick
    BY <2>1 DEF HookTick, HookTypeOK
  <2>2. ASSUME NEW m \in Letter, Arrive(m) PROVE box' \in [Letter -> Row]
    <3>1. [box[m] EXCEPT !.st = "unread"] \in Row
      BY DEF HookTypeOK, Row
    <3> QED
      BY <2>2, <3>1 DEF Arrive, HookTypeOK
  <2>3. ASSUME NEW m \in Letter, LeaseEnds(m) PROVE box' \in [Letter -> Row]
    <3>1. [box[m] EXCEPT !.live = FALSE] \in Row
      BY DEF HookTypeOK, Row
    <3> QED
      BY <2>3, <3>1 DEF LeaseEnds, HookTypeOK
  <2> QED
    BY <2>1, <2>2, <2>3
<1> QED
  BY <1>1, <1>2 DEF HookTypeOK

\* The steps of HookNext, by what they are about.
LEMMA HookNextCases ==
  ASSUME HookNext
  PROVE  \/ \E p \in Hooks :
              \/ RegisterHook(p) \/ KillHook(p) \/ Flush(p) \/ Peek(p)
              \/ \E e \in {"prompt", "stop"}, mode \in {"context", "continue", "wait"}, a \in BOOLEAN : StartHook(p, e, mode, a)
              \/ FetchPage(p) \/ FetchFails(p) \/ Reack(p) \/ Unhold(p) \/ WaitAgain(p) \/ WaitEnds(p)
              \/ Render(p) \/ Giveback(p) \/ AckShown(p) \/ Leftover(p)
              \/ Reserve(p) \/ WriteReply(p) \/ Refund(p) \/ Remember(p)
         \/ HookTick \/ \E m \in Letter : Arrive(m) \/ LeaseEnds(m)
  BY DEF HookNext, HookStep

\* Every step keeps the types.
LEMMA HookTypeStep == HookTypeOK /\ [HookNext]_hookVars => HookTypeOK'
<1> SUFFICES ASSUME HookTypeOK, [HookNext]_hookVars PROVE HookTypeOK'
  OBVIOUS
<1>1. CASE UNCHANGED hookVars
  BY <1>1 DEF hookVars, HookTypeOK
<1>2. CASE HookNext
  BY <1>2, HookNextCases, StopsType, ScanType, ReplyType, WriterType, AroundType
<1> QED
  BY <1>1, <1>2

\* Every reachable state of the inbox, the state file and the hooks is well typed.
THEOREM HookTypeCorrect == HookSpec => []HookTypeOK
  BY HookInitType, HookTypeStep, PTL DEF HookSpec

-----------------------------------------------------------------------------
(* What a hook has after each of its steps *)

\* No other hook moves.
Only(p) == \A q \in Hooks : q # p => hook'[q] = hook[q]

\* A hook that is replaced is what it becomes.
LEMMA BecomeGives ==
  ASSUME HookTypeOK, NEW p \in Hooks, NEW rec, Become(p, rec)
  PROVE  Only(p) /\ hook'[p] = rec
  BY DEF HookTypeOK, Become, Only

\* Nothing in hand.
Empty(g) == /\ g.used = {} /\ g.reack = {} /\ g.heldBack = {} /\ g.st = {} /\ g.left = {} /\ g.seen = {}
            /\ g.slot = NoSlot /\ ~g.failed

\* A hook that goes to its report has given everything up, ...
LEMMA ReportGives ==
  ASSUME HookTypeOK, NEW p \in Hooks, NEW d \in Outcome, Become(p, Reporting(d))
  PROVE  Only(p) /\ Empty(hook'[p]) /\ hook'[p].pc = "flush" /\ hook'[p].diag = d
  BY BecomeGives, ReportingFacts DEF Empty

\* ... and so has one that ended.
LEMMA EndGives ==
  ASSUME HookTypeOK, NEW p \in Hooks, EndHook(p)
  PROVE  Only(p) /\ Empty(hook'[p]) /\ hook'[p].pc = "idle" /\ hook'[p].diag = "waiting_for_next_prompt"
  BY EndFacts, NewHookFacts DEF Empty, Only

\* A new invocation has nothing in hand.
LEMMA StartGives ==
  ASSUME HookTypeOK, NEW p \in Hooks, NEW e, NEW mode, NEW a, StartHook(p, e, mode, a)
  PROVE  /\ Only(p) /\ hook[p].pc = "idle"
         /\ Empty(hook'[p]) /\ hook'[p].pc = "peek" /\ hook'[p].diag = "waiting_for_next_prompt"
<1> DEFINE cont == mode # "context" /\ e = "stop" /\ ~a
           m == IF cont /\ mode = "wait" THEN "wait" ELSE "context"
<1>1. Only(p) /\ hook[p].pc = "idle"
      /\ hook'[p] = [NewHook EXCEPT !.pc = "peek", !.event = e, !.cont = cont, !.mode = m]
  BY BecomeGives DEF StartHook, At
<1> HIDE DEF cont, m
<1> QED
  BY <1>1, NewHookFacts DEF Empty, Hook

\* A hook that goes on after its first look wants to continue a stop event.
LEMMA PeekGives ==
  ASSUME HookTypeOK, NEW p \in Hooks, Peek(p)
  PROVE  /\ hook[p].pc = "peek"
         /\ \/ EndHook(p)
            \/ LET h == hook[p]
                   g == hook'[p]
               IN  /\ Only(p) /\ g.pc = "register" /\ g.st = Remembered /\ box' = box /\ (h.event = "stop" => g.cont)
                   /\ g.event = h.event /\ g.seen = h.seen /\ g.reack = h.reack /\ g.heldBack = h.heldBack
                         /\ g.used = h.used
                   /\ g.left = h.left /\ g.failed = h.failed /\ g.slot = h.slot /\ g.diag = h.diag
<1> DEFINE cont == hook[p].cont /\ Cardinality(Prune(file.conts, hookTime)) < MaxContinue
<1>1. hook[p].pc = "peek" /\ hook[p] \in Hook
  BY DEF Peek, At, HookTypeOK
<1>2. CASE hook[p].event = "stop" /\ ~cont
  BY <1>1, <1>2 DEF Peek
<1>3. CASE ~(hook[p].event = "stop" /\ ~cont)
  <2>1. Only(p) /\ box' = box /\ hook'[p] = [hook[p] EXCEPT !.pc = "register", !.cont = cont, !.st = Remembered]
    BY <1>3, BecomeGives DEF Peek
  <2>2. hook[p].event = "stop" => cont
    BY <1>3
  <2>3. cont \in BOOLEAN
    BY <1>1 DEF Hook
  <2> HIDE DEF cont
  <2> QED
    BY <1>1, <2>1, <2>2, <2>3 DEF Hook
<1> QED
  BY <1>2, <1>3

\* Only the position of a hook changes.
Moves(p, pc) == LET h == hook[p]
                    g == hook'[p]
                IN  /\ Only(p)
                    /\ g.pc = pc /\ g.event = h.event /\ g.cont = h.cont /\ g.st = h.st /\ g.seen = h.seen
                    /\ g.reack = h.reack /\ g.heldBack = h.heldBack /\ g.used = h.used /\ g.left = h.left
                    /\ g.failed = h.failed /\ g.slot = h.slot /\ g.capped = h.capped /\ g.diag = h.diag

\* A step to another position.
LEMMA MoveGives ==
  ASSUME HookTypeOK, NEW p \in Hooks, NEW pc, Become(p, [hook[p] EXCEPT !.pc = pc])
  PROVE  Moves(p, pc)
<1>1. hook[p] \in Hook /\ Only(p) /\ hook'[p] = [hook[p] EXCEPT !.pc = pc]
  BY BecomeGives DEF HookTypeOK
<1> QED
  BY <1>1 DEF Hook, Moves

\* A fetch fails.
LEMMA FailGives ==
  ASSUME HookTypeOK, NEW p \in Hooks,
         Become(p, [hook[p] EXCEPT !.pc = "unhold", !.failed = TRUE])
  PROVE  LET h == hook[p]
             g == hook'[p]
         IN  /\ Only(p)
             /\ g.pc = "unhold" /\ g.event = h.event /\ g.cont = h.cont /\ g.st = h.st /\ g.seen = h.seen
             /\ g.reack = h.reack /\ g.heldBack = h.heldBack /\ g.used = h.used /\ g.left = h.left
             /\ g.failed = TRUE /\ g.slot = h.slot /\ g.capped = h.capped /\ g.diag = h.diag
<1>1. hook[p] \in Hook /\ Only(p) /\ hook'[p] = [hook[p] EXCEPT !.pc = "unhold", !.failed = TRUE]
  BY BecomeGives DEF HookTypeOK
<1> QED
  BY <1>1 DEF Hook

\* Repeated acknowledgements are over.
LEMMA ReackGives ==
  ASSUME HookTypeOK, NEW p \in Hooks,
         Become(p, [hook[p] EXCEPT !.pc = IF hook[p].more THEN "fetch" ELSE "unhold", !.reack = {}])
  PROVE  LET h == hook[p]
             g == hook'[p]
         IN  /\ Only(p)
             /\ g.pc = (IF h.more THEN "fetch" ELSE "unhold") /\ g.event = h.event /\ g.cont = h.cont
             /\ g.st = h.st /\ g.seen = h.seen /\ g.reack = {} /\ g.heldBack = h.heldBack /\ g.used = h.used
             /\ g.left = h.left /\ g.failed = h.failed /\ g.slot = h.slot /\ g.capped = h.capped
             /\ g.diag = h.diag
<1>1. hook[p] \in Hook /\ Only(p)
      /\ hook'[p] = [hook[p] EXCEPT !.pc = IF hook[p].more THEN "fetch" ELSE "unhold", !.reack = {}]
  BY BecomeGives DEF HookTypeOK
<1> QED
  BY <1>1 DEF Hook

\* A scan found something to deliver ...
LEMMA RenderGives ==
  ASSUME HookTypeOK, NEW p \in Hooks,
         Become(p, [hook[p] EXCEPT !.pc = "render", !.st = {}, !.seen = {}])
  PROVE  LET h == hook[p]
             g == hook'[p]
         IN  /\ Only(p)
             /\ g.pc = "render" /\ g.event = h.event /\ g.cont = h.cont /\ g.st = {} /\ g.seen = {}
             /\ g.reack = h.reack /\ g.heldBack = h.heldBack /\ g.used = h.used /\ g.left = h.left
             /\ g.failed = h.failed /\ g.slot = h.slot /\ g.capped = h.capped /\ g.diag = h.diag
<1>1. hook[p] \in Hook /\ Only(p) /\ hook'[p] = [hook[p] EXCEPT !.pc = "render", !.st = {}, !.seen = {}]
  BY BecomeGives DEF HookTypeOK
<1> QED
  BY <1>1 DEF Hook

\* ... or nothing, and the hook waits.
LEMMA WaitGives ==
  ASSUME HookTypeOK, NEW p \in Hooks,
         Become(p, [hook[p] EXCEPT !.pc = "wait", !.seen = {}, !.heldBack = {}, !.failed = FALSE])
  PROVE  LET h == hook[p]
             g == hook'[p]
         IN  /\ Only(p)
             /\ g.pc = "wait" /\ g.event = h.event /\ g.cont = h.cont /\ g.st = h.st /\ g.seen = {}
             /\ g.reack = h.reack /\ g.heldBack = {} /\ g.used = h.used /\ g.left = h.left
             /\ g.failed = FALSE /\ g.slot = h.slot /\ g.capped = h.capped /\ g.diag = h.diag
<1>1. hook[p] \in Hook /\ Only(p)
      /\ hook'[p] = [hook[p] EXCEPT !.pc = "wait", !.seen = {}, !.heldBack = {}, !.failed = FALSE]
  BY BecomeGives DEF HookTypeOK
<1> QED
  BY <1>1 DEF Hook

\* A slot was reserved ...
LEMMA SlotGives ==
  ASSUME HookTypeOK, NEW p \in Hooks, NEW s,
         Become(p, [hook[p] EXCEPT !.pc = "write", !.now = 0, !.slot = s])
  PROVE  LET h == hook[p]
             g == hook'[p]
         IN  /\ Only(p)
             /\ g.pc = "write" /\ g.event = h.event /\ g.cont = h.cont /\ g.st = h.st /\ g.seen = h.seen
             /\ g.reack = h.reack /\ g.heldBack = h.heldBack /\ g.used = h.used /\ g.left = h.left
             /\ g.failed = h.failed /\ g.slot = s /\ g.capped = h.capped /\ g.diag = h.diag
<1>1. hook[p] \in Hook /\ Only(p) /\ hook'[p] = [hook[p] EXCEPT !.pc = "write", !.now = 0, !.slot = s]
  BY BecomeGives DEF HookTypeOK
<1> QED
  BY <1>1 DEF Hook

\* ... or the cap was reached.
LEMMA CappedGives ==
  ASSUME HookTypeOK, NEW p \in Hooks,
         Become(p, [hook[p] EXCEPT !.pc = "write", !.now = 0, !.capped = TRUE])
  PROVE  LET h == hook[p]
             g == hook'[p]
         IN  /\ Only(p)
             /\ g.pc = "write" /\ g.event = h.event /\ g.cont = h.cont /\ g.st = h.st /\ g.seen = h.seen
             /\ g.reack = h.reack /\ g.heldBack = h.heldBack /\ g.used = h.used /\ g.left = h.left
             /\ g.failed = h.failed /\ g.slot = h.slot /\ g.capped /\ g.diag = h.diag
<1>1. hook[p] \in Hook /\ Only(p) /\ hook'[p] = [hook[p] EXCEPT !.pc = "write", !.now = 0, !.capped = TRUE]
  BY BecomeGives DEF HookTypeOK
<1> QED
  BY <1>1 DEF Hook

\* The lock was not to be had.
LEMMA MissGives ==
  ASSUME HookTypeOK, NEW p \in Hooks, Become(p, [hook[p] EXCEPT !.pc = "write", !.now = 0])
  PROVE  Moves(p, "write")
<1>1. hook[p] \in Hook /\ Only(p) /\ hook'[p] = [hook[p] EXCEPT !.pc = "write", !.now = 0]
  BY BecomeGives DEF HookTypeOK
<1> QED
  BY <1>1 DEF Hook, Moves

\* The leases of a reply that was not written are back.
LEMMA RefundGives ==
  ASSUME HookTypeOK, NEW p \in Hooks,
         Become(p, [hook[p] EXCEPT !.pc = "refund", !.left = {}])
  PROVE  LET h == hook[p]
             g == hook'[p]
         IN  /\ Only(p)
             /\ g.pc = "refund" /\ g.event = h.event /\ g.cont = h.cont /\ g.st = h.st /\ g.seen = h.seen
             /\ g.reack = h.reack /\ g.heldBack = h.heldBack /\ g.used = h.used /\ g.left = {}
             /\ g.failed = h.failed /\ g.slot = h.slot /\ g.capped = h.capped /\ g.diag = h.diag
<1>1. hook[p] \in Hook /\ Only(p) /\ hook'[p] = [hook[p] EXCEPT !.pc = "refund", !.left = {}]
  BY BecomeGives DEF HookTypeOK
<1> QED
  BY <1>1 DEF Hook

\* The reply has its letters ...
LEMMA FillGives ==
  ASSUME HookTypeOK, NEW p \in Hooks, Render(p)
  PROVE  LET h == hook[p]
             g == hook'[p]
         IN  /\ h.pc = "render" /\ Only(p) /\ box' = box /\ (NoFault \/ Fault)
             /\ g.used \cap g.left = {} /\ g.used \cup g.left = h.used
             /\ g.event = h.event /\ g.cont = h.cont /\ g.st = h.st /\ g.seen = h.seen
             /\ g.reack = h.reack /\ g.heldBack = h.heldBack /\ g.failed = h.failed /\ g.slot = h.slot
             /\ g.capped = h.capped
             /\ \/ g.pc = "giveback" /\ Fault
                \/ g.pc \in {"reserve", "write"} /\ g.diag = h.diag /\ (g.pc = "reserve" <=> h.cont)
             /\ g.pc = "reserve" => g.now = hookTime
<1>1. hook[p] \in Hook /\ hook[p].used \in SUBSET Letter
  BY DEF HookTypeOK, Hook
<1>2. PICK n : n \in 0..Cardinality(hook[p].used) /\ (IF n = 0 THEN Fault ELSE NoFault) /\
          LET h == hook[p] IN
            Become(p, [h EXCEPT !.pc = IF n = 0 THEN "giveback" ELSE IF h.cont THEN "reserve" ELSE "write",
                                !.used = Oldest(h.used, n),
                                !.left = h.used \ Oldest(h.used, n),
                                !.now = IF n > 0 /\ h.cont THEN hookTime ELSE 0,
                                !.diag = IF n = 0 THEN "delivery_failed" ELSE @])
  BY DEF Render
<1> DEFINE U == Oldest(hook[p].used, n)
           pc == IF n = 0 THEN "giveback" ELSE IF hook[p].cont THEN "reserve" ELSE "write"
           d == IF n = 0 THEN "delivery_failed" ELSE hook[p].diag
           now == IF n > 0 /\ hook[p].cont THEN hookTime ELSE 0
<1>3. U \subseteq hook[p].used
  BY OldestFacts
<1>7. n \in Nat /\ (pc = "reserve" => now = hookTime)
  <2>1. n \in Nat
    BY <1>2
  <2> QED
    BY <2>1
<1>4. Only(p) /\ hook'[p] = [hook[p] EXCEPT !.pc = pc, !.used = U, !.left = hook[p].used \ U, !.now = now, !.diag = d]
  BY <1>2, BecomeGives
<1>5. IF n = 0 THEN Fault /\ pc = "giveback"
      ELSE NoFault /\ d = hook[p].diag /\ pc \in {"reserve", "write"} /\ (pc = "reserve" <=> hook[p].cont)
  BY <1>1, <1>2 DEF Hook
<1>6. hook[p].pc = "render" /\ box' = box
  BY DEF Render, At
<1> HIDE DEF U, pc, d, now
<1> QED
  BY <1>1, <1>3, <1>4, <1>5, <1>6, <1>7 DEF Hook

\* ... and was not written ...
LEMMA LostGives ==
  ASSUME HookTypeOK, NEW p \in Hooks, NEW d,
         Become(p, [hook[p] EXCEPT !.pc = "giveback", !.left = hook[p].used \cup hook[p].left, !.used = {}, !.diag = d])
  PROVE  LET h == hook[p]
             g == hook'[p]
         IN  /\ Only(p) /\ g.pc = "giveback" /\ g.left = h.used \cup h.left /\ g.used = {} /\ g.diag = d
             /\ g.event = h.event /\ g.cont = h.cont /\ g.st = h.st /\ g.seen = h.seen
             /\ g.reack = h.reack /\ g.heldBack = h.heldBack /\ g.failed = h.failed /\ g.slot = h.slot
<1>1. hook[p] \in Hook /\ Only(p)
      /\ hook'[p] = [hook[p] EXCEPT !.pc = "giveback", !.left = hook[p].used \cup hook[p].left, !.used = {}, !.diag = d]
  BY BecomeGives DEF HookTypeOK
<1> QED
  BY <1>1 DEF Hook

\* ... or was, and acknowledged.
LEMMA AckGives ==
  ASSUME HookTypeOK, NEW p \in Hooks, NEW d, Become(p, [hook[p] EXCEPT !.pc = "leftover", !.diag = d])
  PROVE  LET h == hook[p]
             g == hook'[p]
         IN  /\ Only(p) /\ g.pc = "leftover" /\ g.left = h.left /\ g.used = h.used /\ g.diag = d
             /\ g.event = h.event /\ g.cont = h.cont /\ g.st = h.st /\ g.seen = h.seen
             /\ g.reack = h.reack /\ g.heldBack = h.heldBack /\ g.failed = h.failed /\ g.slot = h.slot
<1>1. hook[p] \in Hook /\ Only(p) /\ hook'[p] = [hook[p] EXCEPT !.pc = "leftover", !.diag = d]
  BY BecomeGives DEF HookTypeOK
<1> QED
  BY <1>1 DEF Hook

-----------------------------------------------------------------------------
(* What a hook has in hand *)

\* Every step of a hook keeps its letters apart from the ones it holds back.
LEMMA ShapeStep ==
  ASSUME HookTypeOK, ShapeFits, HookNext
  PROVE  ShapeFits'
<1> DEFINE P(h) == /\ h.pc \in {"idle", "peek", "register", "fetch", "wait"} => h.used = {}
                   /\ h.used \cap (Held \cup h.reack) = {} /\ h.heldBack \subseteq Held
                   /\ h.pc = "reack" /\ h.more => h.used = {}
<1>1. ASSUME NEW p \in Hooks, P(hook'[p]), Only(p) PROVE ShapeFits'
  BY <1>1 DEF ShapeFits, Only
<1>2. CASE UNCHANGED hook
  BY <1>2 DEF ShapeFits
<1>3. ASSUME NEW p \in Hooks, EndHook(p) PROVE ShapeFits'
  BY <1>1, <1>3, EndGives DEF Empty
<1>4. ASSUME NEW p \in Hooks, NEW d \in Outcome, Become(p, Reporting(d)) PROVE ShapeFits'
  BY <1>1, <1>4, ReportGives DEF Empty
<1>5. ASSUME NEW p \in Hooks PROVE P(hook[p]) /\ hook[p].diag \in Outcome
  BY DEF HookTypeOK, Hook, ShapeFits
<1>6. ASSUME NEW p \in Hooks, NEW pc, Become(p, [hook[p] EXCEPT !.pc = pc]), pc # "reack",
             pc \in {"fetch"} => hook[p].pc \in {"register", "wait"}, pc \notin {"idle", "peek", "register", "wait"}
      PROVE  ShapeFits'
  BY <1>1, <1>5, <1>6, MoveGives DEF Moves
<1> HIDE DEF P
<1>7. ASSUME NEW p \in Hooks, NEW e, NEW mode, NEW a, StartHook(p, e, mode, a) PROVE ShapeFits'
  BY <1>1, <1>7, StartGives DEF Empty, P
<1>8. ASSUME NEW p \in Hooks, Peek(p) PROVE ShapeFits'
  BY <1>1, <1>3, <1>5, <1>8, PeekGives DEF P
<1>9. ASSUME NEW p \in Hooks, RegisterHook(p) \/ WaitAgain(p) PROVE ShapeFits'
  BY <1>3, <1>6, <1>9 DEF RegisterHook, WaitAgain, At
<1>10. ASSUME NEW p \in Hooks, KillHook(p) \/ Flush(p) PROVE ShapeFits'
  BY <1>3, <1>10 DEF KillHook, Flush
<1>11. ASSUME NEW p \in Hooks, WaitEnds(p) \/ Leftover(p) \/ Refund(p) PROVE ShapeFits'
  BY <1>4, <1>5, <1>11 DEF WaitEnds, Leftover, Refund
<1>12. ASSUME NEW p \in Hooks, FetchPage(p) PROVE ShapeFits'
  <2> DEFINE page == Oldest(AvailableTo, FetchLimit)
  <2>1. page \in SUBSET Letter
    BY OldestFacts DEF AvailableTo
  <2>2. Only(p) /\ hook'[p] = SortPage(p, page)
    BY <1>12, BecomeGives DEF FetchPage
  <2>3. P(SortPage(p, page))
    BY <1>5, <2>1, SortFacts DEF P
  <2> QED
    BY <1>1, <2>2, <2>3
<1>13. ASSUME NEW p \in Hooks, FetchFails(p) PROVE ShapeFits'
  BY <1>1, <1>5, <1>13, FailGives DEF FetchFails, P
<1>14. ASSUME NEW p \in Hooks, Reack(p) PROVE ShapeFits'
  BY <1>1, <1>5, <1>14, ReackGives DEF Reack, At, P
<1>15. ASSUME NEW p \in Hooks, Unhold(p) PROVE ShapeFits'
  <2>1. \/ Become(p, [hook[p] EXCEPT !.pc = "render", !.st = {}, !.seen = {}])
        \/ hook[p].used = {}
              /\ Become(p, [hook[p] EXCEPT !.pc = "wait", !.seen = {}, !.heldBack = {}, !.failed = FALSE])
        \/ \E d \in Outcome : Become(p, Reporting(d))
    BY <1>5, <1>15 DEF Unhold, Outcome
  <2>2. CASE Become(p, [hook[p] EXCEPT !.pc = "render", !.st = {}, !.seen = {}])
    BY <1>1, <1>5, <2>2, RenderGives DEF P
  <2>3. CASE hook[p].used = {}
        /\ Become(p, [hook[p] EXCEPT !.pc = "wait", !.seen = {}, !.heldBack = {}, !.failed = FALSE])
    BY <1>1, <1>5, <2>3, WaitGives DEF P
  <2> QED
    BY <1>4, <2>1, <2>2, <2>3
<1>16. ASSUME NEW p \in Hooks, Render(p) PROVE ShapeFits'
  BY <1>1, <1>5, <1>16, FillGives DEF P
<1>17. ASSUME NEW p \in Hooks, Reserve(p) PROVE ShapeFits'
  <2>1. \/ \E s : Become(p, [hook[p] EXCEPT !.pc = "write", !.now = 0, !.slot = s])
        \/ Become(p, [hook[p] EXCEPT !.pc = "write", !.now = 0, !.capped = TRUE])
        \/ Become(p, [hook[p] EXCEPT !.pc = "write", !.now = 0])
    BY <1>17 DEF Reserve
  <2> QED
    BY <1>1, <1>5, <1>17, <2>1, SlotGives, CappedGives, MissGives DEF Moves, P, Reserve, At
<1>18. ASSUME NEW p \in Hooks, WriteReply(p) PROVE ShapeFits'
  <2>1. \/ Become(p, [hook[p] EXCEPT !.pc = "remember"])
        \/ \E d : Become(p, [hook[p] EXCEPT !.pc = "giveback", !.left = hook[p].used \cup hook[p].left, !.used = {}, !.diag = d])
    BY <1>18 DEF WriteReply
  <2> QED
    BY <1>1, <1>5, <1>6, <2>1, LostGives DEF P
<1>19. ASSUME NEW p \in Hooks, Giveback(p) PROVE ShapeFits'
  <2>1. \/ Become(p, [hook[p] EXCEPT !.pc = "refund", !.left = {}])
        \/ \E d \in Outcome : Become(p, Reporting(d))
    BY <1>5, <1>19 DEF Giveback
  <2> QED
    BY <1>1, <1>4, <1>5, <2>1, RefundGives DEF P
<1>20. ASSUME NEW p \in Hooks, Remember(p) PROVE ShapeFits'
  BY <1>6, <1>20 DEF Remember
<1>21. ASSUME NEW p \in Hooks, AckShown(p) PROVE ShapeFits'
  <2>1. \E d : Become(p, [hook[p] EXCEPT !.pc = "leftover", !.diag = d])
    BY <1>21 DEF AckShown
  <2> QED
    BY <1>1, <1>5, <2>1, AckGives DEF P
<1>22. CASE HookTick \/ \E m \in Letter : Arrive(m) \/ LeaseEnds(m)
  BY <1>2, <1>22 DEF HookTick, Arrive, LeaseEnds
<1> QED
  BY HookNextCases, <1>7, <1>8, <1>9, <1>10, <1>11, <1>12, <1>13, <1>14, <1>15, <1>16, <1>17, <1>18, <1>19, <1>20,
        <1>21, <1>22

-----------------------------------------------------------------------------
(* Rows of the inbox *)

\* What a step does to the inbox: one call to the server, or the end of a process.
Serves(p) == \E S : box' \in {box, LeaseTo(p, S), AckOf(p, S), ReleaseOf(p, S)}

\* Every step of a running hook makes at most one call.
LEMMA ServesAll ==
  ASSUME NEW p \in Hooks,
         \/ FetchPage(p) \/ FetchFails(p) \/ Reack(p) \/ Unhold(p) \/ WaitAgain(p) \/ WaitEnds(p)
         \/ Render(p) \/ Giveback(p) \/ AckShown(p) \/ Leftover(p)
         \/ Reserve(p) \/ WriteReply(p) \/ Refund(p) \/ Remember(p)
  PROVE  Serves(p)
  BY DEF Serves, FetchPage, FetchFails, Reack, Unhold, WaitAgain, WaitEnds, Render, Giveback, AckShown, Leftover,
         Reserve, WriteReply, Refund, Remember, AckLost, Released

\* The rows after a lease ran out and after a letter arrived.
LEMMA LeaseFacts ==
  ASSUME HookTypeOK, NEW m \in Letter
  PROVE  /\ LeaseEnds(m) => \A k \in Letter : box'[k].st = box[k].st /\ box'[k].by = box[k].by
                                            /\ box'[k].live = (box[k].live /\ k # m)
         /\ Arrive(m) => \A k \in Letter : box'[k].live = box[k].live /\ box'[k].by = box[k].by
                                         /\ box'[k].st = (IF k = m THEN "unread" ELSE box[k].st)
<1>1. box[m] \in Row /\ box \in [Letter -> Row] /\ \A k \in Letter : box[k].live \in BOOLEAN
  BY DEF HookTypeOK, Row
<1>2. ASSUME box' = [box EXCEPT ![m].live = FALSE], NEW k \in Letter
      PROVE  box'[k].st = box[k].st /\ box'[k].by = box[k].by /\ box'[k].live = (box[k].live /\ k # m)
  BY <1>1, <1>2 DEF Row
<1>3. ASSUME box' = [box EXCEPT ![m].st = "unread"], NEW k \in Letter
      PROVE  box'[k].live = box[k].live /\ box'[k].by = box[k].by
            /\ box'[k].st = (IF k = m THEN "unread" ELSE box[k].st)
  BY <1>1, <1>3 DEF Row
<1> QED
  BY <1>2, <1>3 DEF LeaseEnds, Arrive

\* Faults are counted, one by one.
LEMMA FaultsGrow ==
  ASSUME HookTypeOK, HookNext
  PROVE  faulty \in Nat /\ (faulty' = faulty \/ Fault)
<1>1. faulty \in Nat
  BY DEF HookTypeOK
<1>2. ASSUME NEW p \in Hooks,
             \/ FetchPage(p) \/ FetchFails(p) \/ Reack(p) \/ Unhold(p) \/ WaitAgain(p) \/ WaitEnds(p)
             \/ Render(p) \/ Giveback(p) \/ AckShown(p) \/ Leftover(p)
             \/ Reserve(p) \/ WriteReply(p) \/ Refund(p) \/ Remember(p)
      PROVE  faulty' = faulty \/ Fault
  BY <1>2 DEF FetchPage, FetchFails, Reack, Unhold, WaitAgain, WaitEnds, Render, Giveback, AckShown, Leftover,
         Reserve, WriteReply, Refund, Remember, AckLost, Released, NoFault
<1>3. ASSUME NEW p \in Hooks, NEW e, NEW mode, NEW a,
             StartHook(p, e, mode, a) \/ Peek(p) \/ RegisterHook(p) \/ KillHook(p) \/ Flush(p)
      PROVE  faulty' = faulty \/ Fault
  BY <1>3 DEF StartHook, Peek, RegisterHook, KillHook, Flush, NoFault
<1>4. CASE HookTick \/ \E m \in Letter : Arrive(m) \/ LeaseEnds(m)
  <2>1. ASSUME NEW m \in Letter, Arrive(m) \/ LeaseEnds(m) PROVE faulty' = faulty \/ Fault
    BY <2>1 DEF Arrive, LeaseEnds, NoFault
  <2> QED
    BY <1>1, <1>4, <2>1 DEF HookTick
<1> QED
  BY HookNextCases, <1>1, <1>2, <1>3, <1>4

\* No step leaves a lease on a letter that is not unread.
LEMMA BoxStep ==
  ASSUME HookTypeOK, BoxFits, HookNext
  PROVE  BoxFits'
<1>1. CASE UNCHANGED box
  BY <1>1 DEF BoxFits
<1>2. ASSUME NEW p \in Hooks, Serves(p) PROVE BoxFits'
  <2>1. PICK S : box' \in {box, LeaseTo(p, S), AckOf(p, S), ReleaseOf(p, S)}
    BY <1>2 DEF Serves
  <2>2. ASSUME NEW m \in Letter, box'[m].live PROVE box'[m].st = "unread"
    <3>1. box[m].live => box[m].st = "unread"
      BY DEF BoxFits
    <3>2. box'[m] \in {box[m], [st |-> "unread", by |-> p, live |-> TRUE], [st |-> "acked", by |-> NoHook, live |-> FALSE],
                      [st |-> "unread", by |-> NoHook, live |-> FALSE]}
      <4>1. box'[m] \in {box[m], LeaseTo(p, S)[m], AckOf(p, S)[m], ReleaseOf(p, S)[m]}
        BY <2>1
      <4>2. LeaseTo(p, S)[m] \in {box[m], [st |-> "unread", by |-> p, live |-> TRUE]}
        BY DEF LeaseTo
      <4>3. AckOf(p, S)[m] \in {box[m], [st |-> "acked", by |-> NoHook, live |-> FALSE]}
        BY DEF AckOf
      <4>4. ReleaseOf(p, S)[m] \in {box[m], [st |-> "unread", by |-> NoHook, live |-> FALSE]}
        BY DEF ReleaseOf
      <4> QED
        BY <4>1, <4>2, <4>3, <4>4
    <3> QED
      BY <2>2, <3>1, <3>2
  <2> QED
    BY <2>2 DEF BoxFits
<1>3. ASSUME NEW p \in Hooks, EndHook(p) PROVE BoxFits'
  BY <1>3, EndFacts DEF BoxFits
<1>4. ASSUME NEW p \in Hooks, NEW e, NEW mode, NEW a,
             StartHook(p, e, mode, a) \/ Peek(p) \/ RegisterHook(p) \/ KillHook(p) \/ Flush(p) PROVE BoxFits'
  BY <1>1, <1>3, <1>4 DEF StartHook, Peek, RegisterHook, KillHook, Flush
<1>5. ASSUME NEW m \in Letter, Arrive(m) PROVE BoxFits'
  BY <1>5, LeaseFacts DEF BoxFits, Arrive
<1>6. ASSUME NEW m \in Letter, LeaseEnds(m) PROVE BoxFits'
  BY <1>6, LeaseFacts DEF BoxFits
<1>7. CASE HookTick
  BY <1>1, <1>7 DEF HookTick
<1> QED
  BY HookNextCases, ServesAll, <1>2, <1>4, <1>5, <1>6, <1>7

-----------------------------------------------------------------------------
(* Reports *)

\* No step reports a failure without a fault.
LEMMA DiagStep ==
  ASSUME HookTypeOK, DiagFits, HookNext
  PROVE  DiagFits'
<1> DEFINE P(h) == /\ ~h.failed /\ h.diag \notin {"delivery_failed", "handoff_unconfirmed"}
                   /\ h.event = "stop"
                         /\ h.pc \in {"register", "fetch", "reack", "unhold", "wait", "render", "reserve"} => h.cont
                   /\ h.event = "stop" /\ h.pc = "write" => h.slot # NoSlot \/ h.capped
<1>1. CASE faulty' # 0
  BY <1>1 DEF DiagFits
<1>2. CASE faulty' = 0
  <2>1. faulty = 0 /\ ~Fault
    BY <1>2, FaultsGrow DEF Fault
  <2>2. ASSUME NEW p \in Hooks, P(hook'[p]), Only(p), faulty = 0 PROVE DiagFits'
    BY <2>2 DEF DiagFits, Only
  <2>3. CASE UNCHANGED hook /\ faulty = 0
    BY <2>3 DEF DiagFits
  <2>5. ASSUME NEW p \in Hooks, faulty = 0 PROVE P(hook[p]) /\ hook[p].diag \in Outcome
        /\ hook[p].event \in {"prompt", "stop"}
    BY <2>5 DEF HookTypeOK, Hook, DiagFits
  <2>4. ASSUME NEW p \in Hooks, NEW d \in Outcome, d \notin {"delivery_failed", "handoff_unconfirmed"},
               Become(p, Reporting(d)), faulty = 0 PROVE DiagFits'
    BY <2>2, <2>4, ReportGives DEF Empty
  <2>6. ASSUME NEW p \in Hooks, EndHook(p), faulty = 0 PROVE DiagFits'
    BY <2>2, <2>6, EndGives DEF Empty
  <2>7. ASSUME NEW p \in Hooks, NEW pc, Become(p, [hook[p] EXCEPT !.pc = pc]), faulty = 0,
               (pc = "fetch" /\ hook[p].pc \in {"register", "wait"}) \/ pc \in {"remember", "ack"}
        PROVE  DiagFits'
    BY <2>2, <2>5, <2>7, MoveGives DEF Moves
  <2> HIDE DEF P
  <2>23. ASSUME NEW p \in Hooks, Only(p), hook'[p].failed = hook[p].failed,
                hook'[p].diag \notin {"delivery_failed", "handoff_unconfirmed"}, hook'[p].pc \in {"giveback", "refund", "leftover"}
         PROVE  DiagFits'
    <3>1. P(hook[p])
      BY <2>1, <2>5
    <3>2. P(hook'[p])
      BY <2>23, <3>1 DEF P
    <3> QED
      BY <2>1, <2>2, <2>23, <3>2
  <2>8. ASSUME NEW p \in Hooks, NEW e, NEW mode, NEW a, StartHook(p, e, mode, a) PROVE DiagFits'
    BY <2>1, <2>2, <2>8, StartGives DEF Empty, P, StartHook
  <2>9. ASSUME NEW p \in Hooks, Peek(p) PROVE DiagFits'
    <3>1. CASE EndHook(p)
      BY <2>1, <2>6, <3>1
    <3>2. CASE ~EndHook(p)
      <4>1. Only(p) /\ hook'[p].pc = "register" /\ hook'[p].failed = hook[p].failed /\ hook'[p].diag = hook[p].diag
            /\ hook'[p].event = hook[p].event /\ (hook[p].event = "stop" => hook'[p].cont)
        BY <2>9, <3>2, PeekGives
      <4>2. P(hook[p])
        BY <2>1, <2>5
      <4>3. P(hook'[p])
        BY <4>1, <4>2 DEF P
      <4> QED
        BY <2>1, <2>2, <4>1, <4>3
    <3> QED
      BY <3>1, <3>2
  <2>10. ASSUME NEW p \in Hooks, RegisterHook(p) \/ KillHook(p) \/ Flush(p) \/ WaitAgain(p) PROVE DiagFits'
    BY <2>1, <2>6, <2>7, <2>10 DEF RegisterHook, KillHook, Flush, WaitAgain, At
  <2>11. ASSUME NEW p \in Hooks, WaitEnds(p) \/ Leftover(p) \/ Refund(p) PROVE DiagFits'
    <3>1. Become(p, Reporting(hook[p].diag))
      BY <2>11 DEF WaitEnds, Leftover, Refund, Released
    <3> QED
      BY <2>1, <2>4, <2>5, <3>1 DEF P
  <2>12. ASSUME NEW p \in Hooks, FetchPage(p) PROVE DiagFits'
    <3> DEFINE page == Oldest(AvailableTo, FetchLimit)
    <3>1. page \in SUBSET Letter
      BY OldestFacts DEF AvailableTo
    <3>2. Only(p) /\ hook'[p] = SortPage(p, page) /\ faulty = 0 /\ hook[p].pc = "fetch"
      BY <1>2, <2>12, BecomeGives DEF FetchPage, At
    <3> HIDE DEF page
    <3>3. P(SortPage(p, page))
      BY <2>5, <3>1, <3>2, SortFacts DEF P
    <3> QED
      BY <2>2, <3>2, <3>3
  <2>13. ASSUME NEW p \in Hooks, FetchFails(p) PROVE DiagFits'
    BY <2>1, <2>13 DEF FetchFails
  <2>14. ASSUME NEW p \in Hooks, Reack(p) PROVE DiagFits'
    <3>1. /\ hook[p].pc = "reack" /\ P(hook[p]) /\ Only(p)
      BY <2>1, <2>5, <2>14, ReackGives DEF Reack, At
    <3>2. LET h == hook[p]
              g == hook'[p]
          IN  g.pc \in {"fetch", "unhold"} /\ g.event = h.event /\ g.failed = h.failed /\ g.cont = h.cont
                /\ g.diag = h.diag
      BY <2>14, ReackGives DEF Reack
    <3>3. P(hook'[p])
      BY <3>1, <3>2 DEF P
    <3> QED
      BY <2>1, <2>2, <3>1, <3>3
  <2>15. ASSUME NEW p \in Hooks, Unhold(p) PROVE DiagFits'
    <3>1. faulty = 0 /\ hook[p].pc = "unhold"
      BY <2>1, <2>15 DEF Unhold, Released, At
    <3>2. CASE Become(p, [hook[p] EXCEPT !.pc = "render", !.st = {}, !.seen = {}])
      <4>1. Only(p) /\ hook'[p].pc = "render" /\ hook'[p].failed = hook[p].failed /\ hook'[p].diag = hook[p].diag
            /\ hook'[p].cont = hook[p].cont /\ hook'[p].event = hook[p].event
        BY <3>2, RenderGives
      <4>2. P(hook[p])
        BY <2>1, <2>5
      <4>3. P(hook'[p])
        BY <3>1, <4>1, <4>2 DEF P
      <4> QED
        BY <2>1, <2>2, <4>1, <4>3
    <3>3. CASE Become(p, [hook[p] EXCEPT !.pc = "wait", !.seen = {}, !.heldBack = {}, !.failed = FALSE])
      BY <2>2, <2>5, <3>1, <3>3, WaitGives DEF P
    <3>4. ASSUME NEW d \in {"sender_filtered", hook[p].diag}, Become(p, Reporting(d)) PROVE DiagFits'
      BY <2>4, <2>5, <3>1, <3>4 DEF P, Outcome
    <3>5. ~hook[p].failed
      BY <2>5, <3>1 DEF P
    <3> QED
      BY <2>15, <3>2, <3>3, <3>4, <3>5 DEF Unhold
  <2>16. ASSUME NEW p \in Hooks, Render(p) PROVE DiagFits'
    BY <1>2, <2>1, <2>2, <2>5, <2>16, FillGives DEF P
  <2>17. ASSUME NEW p \in Hooks, Reserve(p) PROVE DiagFits'
    <3>1. faulty = 0 /\ hook[p].pc = "reserve"
      BY <2>1, <2>17 DEF Reserve, At
    <3>2. \/ \E no \in 1..SlotNumbers : Become(p, [hook[p] EXCEPT !.pc = "write", !.now = 0, !.slot = NewSlot(hook[p].now, no)])
          \/ Become(p, [hook[p] EXCEPT !.pc = "write", !.now = 0, !.capped = TRUE])
      BY <2>1, <2>17 DEF Reserve
    <3>3. \A no \in 1..SlotNumbers : NewSlot(hook[p].now, no) # NoSlot
      BY DEF NewSlot, NoSlot, HookTypeOK
    <3> QED
      <4>1. Only(p) /\ hook'[p].pc = "write" /\ hook'[p].failed = hook[p].failed /\ hook'[p].diag = hook[p].diag
            /\ (hook'[p].slot # NoSlot \/ hook'[p].capped)
        <5>1. ASSUME NEW no \in 1..SlotNumbers, Become(p, [hook[p] EXCEPT !.pc = "write", !.now = 0, !.slot = NewSlot(hook[p].now, no)])
              PROVE  /\ Only(p) /\ hook'[p].pc = "write" /\ hook'[p].failed = hook[p].failed
                    /\ hook'[p].diag = hook[p].diag
                     /\ hook'[p].slot # NoSlot
          <6>1. /\ Only(p) /\ hook'[p].pc = "write" /\ hook'[p].failed = hook[p].failed /\ hook'[p].diag = hook[p].diag
                /\ hook'[p].slot = NewSlot(hook[p].now, no)
            BY <5>1, SlotGives
          <6> QED
            BY <6>1, <3>3
        <5>2. CASE Become(p, [hook[p] EXCEPT !.pc = "write", !.now = 0, !.capped = TRUE])
          <6>1. Only(p) /\ hook'[p].pc = "write" /\ hook'[p].failed = hook[p].failed /\ hook'[p].diag = hook[p].diag
            BY <5>2, CappedGives
          <6>2. hook'[p].capped
            BY <5>2, CappedGives
          <6> QED
            BY <6>1, <6>2
        <5> QED
          BY <3>2, <5>1, <5>2
      <4>2. P(hook[p])
        BY <2>1, <2>5
      <4>3. P(hook'[p])
        BY <4>1, <4>2 DEF P
      <4> QED
        BY <2>1, <2>2, <4>1, <4>3
  <2>18. ASSUME NEW p \in Hooks, WriteReply(p) PROVE DiagFits'
    <3>1. faulty = 0 /\ hook[p].pc = "write"
      BY <2>1, <2>18 DEF WriteReply, At
    <3>2. CASE Become(p, [hook[p] EXCEPT !.pc = "remember"])
      BY <2>7, <3>1, <3>2
    <3>3. CASE ~Carries(hook[p])
          /\ Become(p, [hook[p] EXCEPT !.pc = "giveback", !.left = hook[p].used \cup hook[p].left, !.used = {},
                                 !.diag = IF hook[p].capped THEN "wake_budget_exhausted" ELSE "delivery_failed"])
      <4>1. hook[p].event = "stop" /\ hook[p].slot = NoSlot
        BY <2>5, <3>1, <3>3 DEF Carries
      <4>2. hook[p].capped
        BY <2>5, <3>1, <4>1 DEF P
      <4> QED
        <5>1. Become(p, [hook[p] EXCEPT !.pc = "giveback", !.left = hook[p].used \cup hook[p].left, !.used = {},
                                 !.diag = "wake_budget_exhausted"])
          BY <3>3, <4>2
        <5>2. Only(p) /\ hook'[p].pc = "giveback" /\ hook'[p].failed = hook[p].failed
              /\ hook'[p].diag = "wake_budget_exhausted"
          BY <5>1, LostGives
        <5> QED
          BY <2>23, <5>2
    <3> QED
      BY <2>1, <2>18, <3>2, <3>3 DEF WriteReply
  <2>19. ASSUME NEW p \in Hooks, Giveback(p) PROVE DiagFits'
    <3>1. faulty = 0 /\ hook[p].pc = "giveback"
      BY <2>1, <2>19 DEF Giveback, Released, At
    <3>2. CASE Become(p, [hook[p] EXCEPT !.pc = "refund", !.left = {}])
      BY <2>2, <2>5, <3>1, <3>2, RefundGives DEF P
    <3>3. CASE Become(p, Reporting(hook[p].diag))
      BY <2>4, <2>5, <3>1, <3>3 DEF P
    <3> QED
      BY <2>19, <3>2, <3>3 DEF Giveback
  <2>20. ASSUME NEW p \in Hooks, Remember(p) PROVE DiagFits'
    BY <2>1, <2>7, <2>20 DEF Remember
  <2>21. ASSUME NEW p \in Hooks, AckShown(p) PROVE DiagFits'
    <3>1. faulty = 0 /\ hook[p].pc = "ack"
      BY <2>1, <2>21 DEF AckShown, AckLost, At
    <3>2. \E d \in {"sender_filtered", hook[p].diag} : Become(p, [hook[p] EXCEPT !.pc = "leftover", !.diag = d])
      <4>1. Become(p, [hook[p] EXCEPT !.pc = "leftover", !.diag = IF hook[p].heldBack # {} THEN "sender_filtered" ELSE hook[p].diag])
        BY <2>1, <2>21 DEF AckShown, AckLost
      <4> QED
        BY <4>1
    <3> QED
      <4>1. PICK d \in {"sender_filtered", hook[p].diag} : Become(p, [hook[p] EXCEPT !.pc = "leftover", !.diag = d])
        BY <3>2
      <4>2. d \notin {"delivery_failed", "handoff_unconfirmed"}
        BY <2>1, <2>5 DEF P
      <4> QED
        BY <2>23, <4>1, <4>2, AckGives
  <2>22. CASE HookTick \/ \E m \in Letter : Arrive(m) \/ LeaseEnds(m)
    BY <1>2, <2>1, <2>3, <2>22 DEF HookTick, Arrive, LeaseEnds
  <2> QED
    BY HookNextCases, <2>8, <2>9, <2>10, <2>11, <2>12, <2>13, <2>14, <2>15, <2>16, <2>17, <2>18, <2>19, <2>20, <2>21,
          <2>22
<1> QED
  BY <1>1, <1>2

-----------------------------------------------------------------------------
(* What was shown *)

\* A letter that was shown stays shown.
LEMMA ShownGrows ==
  ASSUME HookTypeOK, HookNext, NEW m \in Letter
  PROVE  shown[m] \in Nat /\ (shown'[m] = shown[m] \/ shown'[m] = shown[m] + 1)
<1>1. shown \in [Letter -> Nat]
  BY DEF HookTypeOK
<1>2. CASE shown' = shown
  BY <1>1, <1>2
<1>3. ASSUME NEW p \in Hooks, WriteReply(p) PROVE shown'[m] = shown[m] \/ shown'[m] = shown[m] + 1
  BY <1>1, <1>3 DEF WriteReply
<1>4. ASSUME NEW p \in Hooks, NEW e, NEW mode, NEW a,
             \/ StartHook(p, e, mode, a) \/ Peek(p) \/ RegisterHook(p) \/ KillHook(p) \/ Flush(p)
             \/ FetchPage(p) \/ FetchFails(p) \/ Reack(p) \/ Unhold(p) \/ WaitAgain(p) \/ WaitEnds(p)
             \/ Render(p) \/ Giveback(p) \/ AckShown(p) \/ Leftover(p)
             \/ Reserve(p) \/ Refund(p) \/ Remember(p)
      PROVE  shown' = shown
  BY <1>4 DEF StartHook, Peek, RegisterHook, KillHook, Flush, FetchPage, FetchFails, Reack, Unhold, WaitAgain, WaitEnds,
         Render, Giveback, AckShown, Leftover, Reserve, Refund, Remember
<1>5. CASE HookTick \/ \E k \in Letter : Arrive(k) \/ LeaseEnds(k)
  BY <1>2, <1>5 DEF HookTick, Arrive, LeaseEnds
<1> QED
  BY HookNextCases, <1>1, <1>2, <1>3, <1>4, <1>5

\* Nothing is acknowledged.
NoAck == \A m \in Letter : box'[m].st = "acked" => box[m].st = "acked"

\* Leases, releases and ends acknowledge nothing; an acknowledgement only what it names.
LEMMA NoAckFacts ==
  ASSUME HookTypeOK, NEW p \in Hooks, NEW S
  PROVE  /\ box' = box \/ box' = LeaseTo(p, S) \/ box' = ReleaseOf(p, S) => NoAck
         /\ EndHook(p) => NoAck
         /\ box' = AckOf(p, S) => \A m \in Letter : box'[m].st = "acked" => box[m].st = "acked" \/ m \in S
<1>1. CASE box' = box
  BY <1>1 DEF NoAck
<1>2. CASE box' = LeaseTo(p, S)
  BY <1>2 DEF NoAck, LeaseTo
<1>3. CASE box' = ReleaseOf(p, S)
  BY <1>3 DEF NoAck, ReleaseOf
<1>4. CASE EndHook(p)
  BY <1>4, EndFacts DEF NoAck
<1>5. ASSUME box' = AckOf(p, S), NEW m \in Letter, box'[m].st = "acked" PROVE box[m].st = "acked" \/ m \in S
  <2>1. CASE m \in OwnedBy(p, S)
    BY <2>1 DEF OwnedBy
  <2>2. CASE m \notin OwnedBy(p, S)
    BY <1>5, <2>2 DEF AckOf
  <2> QED
    BY <2>1, <2>2
<1> QED
  BY <1>1, <1>2, <1>3, <1>4, <1>5

\* Nothing is acknowledged, or remembered, that was not shown.
LEMMA ShownStep ==
  ASSUME HookTypeOK, ShapeFits, ShownFits, HookNext
  PROVE  ShownFits'
<1>1. ASSUME NEW p \in Hooks, Only(p),
             \A m \in Letter : box'[m].st = "acked" => box[m].st = "acked" \/ shown'[m] > 0,
             \A m \in Remembered' : m \in Remembered \/ shown'[m] > 0,
             \A m \in Letter : WasShown(p, m)'
      PROVE  ShownFits'
  <2>1. \A m \in Letter : shown[m] > 0 => shown'[m] > 0
    BY ShownGrows
  <2>2. AckedWasShown'
    BY <1>1, <2>1 DEF ShownFits, AckedWasShown
  <2>3. \A m \in Remembered' : shown'[m] > 0
    BY <1>1, <2>1 DEF ShownFits, Remembered, HookTypeOK
  <2>4. ASSUME NEW q \in Hooks, NEW m \in Letter, q # p PROVE WasShown(q, m)'
    <3>1. WasShown(q, m) /\ hook'[q] = hook[q]
      BY <1>1, <2>4 DEF ShownFits, Only
    <3> QED
      BY <2>1, <3>1 DEF WasShown
  <2> QED
    BY <1>1, <2>2, <2>3, <2>4 DEF ShownFits
<1>2. ASSUME NEW p \in Hooks, NoAck, file' = file, Only(p),
             hook'[p].st \subseteq hook[p].st \cup Remembered,
             hook'[p].reack \subseteq hook[p].st \cup hook[p].reack,
             hook'[p].pc \in {"remember", "ack"} => hook[p].pc \in {"remember", "ack"}
                   /\ hook'[p].used \subseteq hook[p].used
      PROVE  ShownFits'
  <2>1. \A m \in Letter : shown[m] > 0 => shown'[m] > 0
    BY ShownGrows
  <2>2. ASSUME NEW m \in Letter PROVE WasShown(p, m)'
    <3>1. WasShown(p, m) /\ (m \in Remembered => shown[m] > 0)
      BY DEF ShownFits
    <3> QED
      BY <1>2, <2>1, <3>1 DEF WasShown
  <2>3. Remembered' = Remembered
    BY <1>2 DEF Remembered
  <2> QED
    BY <1>1, <1>2, <2>2, <2>3 DEF NoAck
<1>3. ASSUME NEW p \in Hooks, EndHook(p), file' = file PROVE ShownFits'
  <2>1. Only(p) /\ hook'[p].st = {} /\ hook'[p].reack = {} /\ hook'[p].pc = "idle" /\ NoAck
    BY <1>3, EndGives, NoAckFacts DEF Empty
  <2> QED
    BY <1>2, <1>3, <2>1
<1>4. ASSUME NEW p \in Hooks, NEW d \in Outcome, Become(p, Reporting(d)), NoAck, file' = file PROVE ShownFits'
  <2>1. Only(p) /\ hook'[p].st = {} /\ hook'[p].reack = {} /\ hook'[p].pc = "flush"
    BY <1>4, ReportGives DEF Empty
  <2> QED
    BY <1>2, <1>4, <2>1
<1>5. ASSUME NEW p \in Hooks PROVE hook[p].diag \in Outcome
  BY DEF HookTypeOK, Hook
<1>6. ASSUME NEW p \in Hooks, NEW pc, Become(p, [hook[p] EXCEPT !.pc = pc]), pc \notin {"remember", "ack"}, NoAck, file' = file
      PROVE  ShownFits'
  <2>1. Only(p) /\ hook'[p].st = hook[p].st /\ hook'[p].reack = hook[p].reack /\ hook'[p].pc = pc
    BY <1>6, MoveGives DEF Moves
  <2> QED
    BY <1>2, <1>6, <2>1
<1>7. ASSUME NEW p \in Hooks, NEW e, NEW mode, NEW a, StartHook(p, e, mode, a) PROVE ShownFits'
  <2>1. Only(p) /\ hook'[p].st = {} /\ hook'[p].reack = {} /\ hook'[p].pc = "peek" /\ NoAck /\ file' = file
    BY <1>7, StartGives, NoAckFacts DEF Empty, StartHook
  <2> QED
    BY <1>2, <2>1
<1>8. ASSUME NEW p \in Hooks, Peek(p) PROVE ShownFits'
  <2>1. file' = file
    BY <1>8 DEF Peek
  <2>2. CASE ~EndHook(p)
    <3>1. Only(p) /\ hook'[p].st = Remembered /\ hook'[p].reack = hook[p].reack /\ hook'[p].pc = "register" /\ NoAck
      BY <1>8, <2>2, PeekGives, NoAckFacts
    <3> QED
      BY <1>2, <2>1, <3>1
  <2> QED
    BY <1>3, <2>1, <2>2
<1>9. ASSUME NEW p \in Hooks, RegisterHook(p) \/ WaitAgain(p) PROVE ShownFits'
  BY <1>3, <1>6, <1>9, NoAckFacts DEF RegisterHook, WaitAgain
<1>10. ASSUME NEW p \in Hooks, KillHook(p) \/ Flush(p) PROVE ShownFits'
  BY <1>3, <1>10 DEF KillHook, Flush
<1>11. ASSUME NEW p \in Hooks, WaitEnds(p) \/ Leftover(p) PROVE ShownFits'
  <2>1. file' = file /\ Become(p, Reporting(hook[p].diag)) /\ (box' = box \/ box' = ReleaseOf(p, hook[p].left))
    BY <1>11 DEF WaitEnds, Leftover, Released
  <2> QED
    BY <1>4, <1>5, <2>1, NoAckFacts
<1>12. ASSUME NEW p \in Hooks, FetchPage(p) PROVE ShownFits'
  <2> DEFINE page == Oldest(AvailableTo, FetchLimit)
  <2>1. page \in SUBSET Letter
    BY OldestFacts DEF AvailableTo
  <2>2. Only(p) /\ hook'[p] = SortPage(p, page) /\ file' = file /\ box' = LeaseTo(p, page)
    BY <1>12, BecomeGives DEF FetchPage
  <2> HIDE DEF page
  <2>3. hook'[p].st = hook[p].st /\ hook'[p].reack \subseteq hook[p].st /\ hook'[p].pc = "reack"
    BY <2>1, <2>2, SortFacts
  <2> QED
    BY <1>2, <2>2, <2>3, NoAckFacts
<1>13. ASSUME NEW p \in Hooks, FetchFails(p) PROVE ShownFits'
  <2>1. Only(p) /\ hook'[p].st = hook[p].st /\ hook'[p].reack = hook[p].reack /\ hook'[p].pc = "unhold"
    BY <1>13, FailGives DEF FetchFails
  <2>2. file' = file /\ NoAck
    BY <1>13, NoAckFacts DEF FetchFails
  <2> QED
    BY <1>2, <2>1, <2>2
<1>14. ASSUME NEW p \in Hooks, Reack(p) PROVE ShownFits'
  <2>1. Only(p) /\ hook'[p].st = hook[p].st /\ hook'[p].reack = {} /\ hook'[p].pc \in {"fetch", "unhold"}
    BY <1>14, ReackGives DEF Reack
  <2>2. file' = file /\ (box' = box \/ box' = AckOf(p, hook[p].reack)) /\ shown' = shown
    BY <1>14 DEF Reack, AckLost
  <2>3. ASSUME NEW m \in Letter PROVE WasShown(p, m)' /\ (m \in hook[p].reack => shown'[m] > 0)
    <3>1. WasShown(p, m)
      BY DEF ShownFits
    <3> QED
      BY <2>1, <2>2, <3>1 DEF WasShown
  <2>4. Remembered' = Remembered
    BY <2>2 DEF Remembered
  <2>5. \A m \in Letter : box'[m].st = "acked" => box[m].st = "acked" \/ m \in hook[p].reack
    BY <2>2, NoAckFacts DEF NoAck
  <2> QED
    BY <1>1, <2>1, <2>3, <2>4, <2>5
<1>15. ASSUME NEW p \in Hooks, Unhold(p) PROVE ShownFits'
  <2>1. file' = file /\ NoAck
    BY <1>15, NoAckFacts DEF Unhold, Released
  <2>2. CASE Become(p, [hook[p] EXCEPT !.pc = "render", !.st = {}, !.seen = {}])
    <3>1. Only(p) /\ hook'[p].st = {} /\ hook'[p].reack = hook[p].reack /\ hook'[p].pc = "render"
      BY <2>2, RenderGives
    <3> QED
      BY <1>2, <2>1, <3>1
  <2>3. CASE Become(p, [hook[p] EXCEPT !.pc = "wait", !.seen = {}, !.heldBack = {}, !.failed = FALSE])
    <3>1. Only(p) /\ hook'[p].st = hook[p].st /\ hook'[p].reack = hook[p].reack /\ hook'[p].pc = "wait"
      BY <2>3, WaitGives
    <3> QED
      BY <1>2, <2>1, <3>1
  <2>4. CASE \E d \in Outcome : Become(p, Reporting(d))
    BY <1>4, <2>1, <2>4
  <2> QED
    BY <1>5, <1>15, <2>2, <2>3, <2>4 DEF Unhold, Outcome
<1>16. ASSUME NEW p \in Hooks, Render(p) PROVE ShownFits'
  <2>1. Only(p) /\ hook'[p].st = hook[p].st /\ hook'[p].reack = hook[p].reack
        /\ hook'[p].pc \in {"giveback", "reserve", "write"}
    BY <1>16, FillGives
  <2>2. file' = file /\ NoAck
    BY <1>16, NoAckFacts DEF Render
  <2> QED
    BY <1>2, <2>1, <2>2
<1>17. ASSUME NEW p \in Hooks, Reserve(p) PROVE ShownFits'
  <2>1. NoAck /\ shown' = shown /\ file'.acked = file.acked
    BY <1>17, NoAckFacts, FileFacts DEF Reserve
  <2>2. \/ \E s : Become(p, [hook[p] EXCEPT !.pc = "write", !.now = 0, !.slot = s])
        \/ Become(p, [hook[p] EXCEPT !.pc = "write", !.now = 0, !.capped = TRUE])
        \/ Become(p, [hook[p] EXCEPT !.pc = "write", !.now = 0])
    BY <1>17 DEF Reserve
  <2>3. Only(p) /\ hook'[p].st = hook[p].st /\ hook'[p].reack = hook[p].reack /\ hook'[p].pc = "write"
    BY <2>2, SlotGives, CappedGives, MissGives, MoveGives DEF Moves
  <2>4. Remembered' = Remembered
    BY <2>1 DEF Remembered
  <2>5. ASSUME NEW m \in Letter PROVE WasShown(p, m)'
    <3>1. WasShown(p, m)
      BY DEF ShownFits
    <3> QED
      BY <2>1, <2>3, <3>1 DEF WasShown
  <2> QED
    BY <1>1, <2>1, <2>3, <2>4, <2>5 DEF NoAck
<1>18. ASSUME NEW p \in Hooks, WriteReply(p) PROVE ShownFits'
  <2>1. NoAck /\ file' = file
    BY <1>18, NoAckFacts DEF WriteReply
  <2>2. CASE /\ shown' = [m \in Letter |-> IF m \in hook[p].used THEN shown[m] + 1 ELSE shown[m]]
             /\ Become(p, [hook[p] EXCEPT !.pc = "remember"])
    <3>1. Only(p) /\ hook'[p].st = hook[p].st /\ hook'[p].reack = hook[p].reack /\ hook'[p].used = hook[p].used
      BY <2>2, MoveGives DEF Moves
    <3>2. ASSUME NEW m \in Letter PROVE WasShown(p, m)'
      <4>1. WasShown(p, m) /\ shown[m] \in Nat
        BY DEF ShownFits, HookTypeOK
      <4>2. m \in hook[p].used => shown'[m] > 0
        BY <2>2, <4>1
      <4>3. shown[m] > 0 => shown'[m] > 0
        BY ShownGrows
      <4> QED
        BY <3>1, <4>1, <4>2, <4>3 DEF WasShown
    <3>3. Remembered' = Remembered
      BY <2>1 DEF Remembered
    <3> QED
      BY <1>1, <2>1, <3>1, <3>2, <3>3 DEF NoAck
  <2>3. CASE \E d : Become(p, [hook[p] EXCEPT !.pc = "giveback", !.left = hook[p].used \cup hook[p].left, !.used = {}, !.diag = d])
    <3>1. Only(p) /\ hook'[p].st = hook[p].st /\ hook'[p].reack = hook[p].reack /\ hook'[p].pc = "giveback"
      BY <2>3, LostGives
    <3> QED
      BY <1>2, <2>1, <3>1
  <2> QED
    BY <1>18, <2>2, <2>3 DEF WriteReply
<1>19. ASSUME NEW p \in Hooks, Giveback(p) PROVE ShownFits'
  <2>1. file' = file /\ NoAck
    BY <1>19, NoAckFacts DEF Giveback, Released
  <2>2. CASE Become(p, [hook[p] EXCEPT !.pc = "refund", !.left = {}])
    <3>1. Only(p) /\ hook'[p].st = hook[p].st /\ hook'[p].reack = hook[p].reack /\ hook'[p].pc = "refund"
      BY <2>2, RefundGives
    <3> QED
      BY <1>2, <2>1, <3>1
  <2>3. CASE Become(p, Reporting(hook[p].diag))
    BY <1>4, <1>5, <2>1, <2>3
  <2> QED
    BY <1>19, <2>2, <2>3 DEF Giveback
<1>20. ASSUME NEW p \in Hooks, Refund(p) PROVE ShownFits'
  <2>1. NoAck /\ shown' = shown /\ file'.acked = file.acked /\ Become(p, Reporting(hook[p].diag))
    BY <1>20, NoAckFacts, FileFacts DEF Refund
  <2>2. Only(p) /\ hook'[p].st = {} /\ hook'[p].reack = {} /\ hook'[p].pc = "flush"
    BY <1>5, <2>1, ReportGives DEF Empty
  <2>3. Remembered' = Remembered
    BY <2>1 DEF Remembered
  <2> QED
    BY <1>1, <2>1, <2>2, <2>3 DEF NoAck, WasShown
<1>21. ASSUME NEW p \in Hooks, Remember(p) PROVE ShownFits'
  <2>1. NoAck /\ shown' = shown /\ Become(p, [hook[p] EXCEPT !.pc = "ack"]) /\ hook[p].pc = "remember"
    BY <1>21, NoAckFacts DEF Remember, At
  <2>2. Only(p) /\ hook'[p].st = hook[p].st /\ hook'[p].reack = hook[p].reack /\ hook'[p].used = hook[p].used
    BY <2>1, MoveGives DEF Moves
  <2>3. ASSUME NEW m \in Letter PROVE WasShown(p, m)' /\ (m \in hook[p].used => shown[m] > 0)
    <3>1. WasShown(p, m)
      BY DEF ShownFits
    <3> QED
      BY <2>1, <2>2, <3>1 DEF WasShown
  <2>4. \A m \in Remembered' : m \in Remembered \/ m \in hook[p].used
    <3>1. CASE file' = file
      BY <3>1 DEF Remembered
    <3>2. ASSUME NEW q \in InOrder(hook[p].used), file' = [file EXCEPT !.acked = LastOf(file.acked \o q, AckMemory)]
          PROVE  \A m \in Remembered' : m \in Remembered \/ m \in hook[p].used
      <4>1. hook[p].used \in SUBSET Letter /\ Cardinality(hook[p].used) \in Nat /\ file.acked \in Seq(Letter)
        BY LetterFacts DEF HookTypeOK, Hook
      <4>2. q \in [1..Cardinality(hook[p].used) -> hook[p].used] /\ q \in Seq(hook[p].used)
        BY <3>2, <4>1 DEF InOrder
      <4> DEFINE s == file.acked \o q
      <4>3. s \in Seq(Letter) /\ Len(s) = Len(file.acked) + Len(q)
        BY <4>1, <4>2
      <4>4. \A i \in 1..Len(s) : s[i] \in Remembered \/ s[i] \in hook[p].used
        BY <4>1, <4>2 DEF Remembered
      <4> HIDE DEF s
      <4>5. ASSUME NEW i \in DOMAIN LastOf(s, AckMemory)
            PROVE  \E j \in 1..Len(s) : LastOf(s, AckMemory)[i] = s[j]
        <5>1. AckMemory \in Nat /\ Len(s) \in Nat
          BY <4>3, HookConstants
        <5>2. CASE Len(s) > AckMemory
          <6>1. LastOf(s, AckMemory) = SubSeq(s, Len(s) - AckMemory + 1, Len(s))
            BY <5>2 DEF LastOf
          <6>2. i \in 1..AckMemory /\ LastOf(s, AckMemory)[i] = s[Len(s) - AckMemory + i]
            BY <4>3, <4>5, <5>1, <5>2, <6>1
          <6> QED
            BY <5>1, <5>2, <6>2
        <5>3. CASE ~(Len(s) > AckMemory)
          BY <4>3, <4>5, <5>1, <5>3 DEF LastOf
        <5> QED
          BY <5>2, <5>3
      <4>6. file'.acked = LastOf(s, AckMemory)
        BY <3>2, FileFacts DEF s
      <4> QED
        BY <4>4, <4>5, <4>6 DEF Remembered
    <3> QED
      BY <1>21, <3>1, <3>2 DEF Remember
  <2>5. hook[p].used \subseteq Letter
    BY DEF HookTypeOK, Hook
  <2> QED
    BY <1>1, <2>1, <2>2, <2>3, <2>4, <2>5 DEF NoAck
<1>22. ASSUME NEW p \in Hooks, AckShown(p) PROVE ShownFits'
  <2>1. PICK d : Become(p, [hook[p] EXCEPT !.pc = "leftover", !.diag = d])
    BY <1>22 DEF AckShown
  <2>2. Only(p) /\ hook'[p].st = hook[p].st /\ hook'[p].reack = hook[p].reack /\ hook'[p].pc = "leftover"
    BY <2>1, AckGives
  <2>3. hook[p].pc = "ack" /\ file' = file /\ (box' = box \/ box' = AckOf(p, hook[p].used)) /\ shown' = shown
    BY <1>22 DEF AckShown, AckLost, At
  <2>4. ASSUME NEW m \in Letter PROVE WasShown(p, m)' /\ (m \in hook[p].used => shown'[m] > 0)
    <3>1. WasShown(p, m)
      BY DEF ShownFits
    <3> QED
      BY <2>2, <2>3, <3>1 DEF WasShown
  <2>5. Remembered' = Remembered
    BY <2>3 DEF Remembered
  <2>6. \A m \in Letter : box'[m].st = "acked" => box[m].st = "acked" \/ m \in hook[p].used
    BY <2>3, NoAckFacts DEF NoAck
  <2> QED
    BY <1>1, <2>2, <2>4, <2>5, <2>6
<1>23. CASE HookTick \/ \E m \in Letter : Arrive(m) \/ LeaseEnds(m)
  <2>1. UNCHANGED <<hook, file, shown>>
    BY <1>23 DEF HookTick, Arrive, LeaseEnds
  <2>2. NoAck
    BY <1>23, LeaseFacts DEF HookTick, NoAck, Arrive
  <2> QED
    BY <2>1, <2>2 DEF ShownFits, NoAck, AckedWasShown, Remembered, WasShown
<1> QED
  BY HookNextCases, <1>7, <1>8, <1>9, <1>10, <1>11, <1>12, <1>13, <1>14, <1>15, <1>16, <1>17, <1>18, <1>19, <1>20,
        <1>21, <1>22, <1>23

-----------------------------------------------------------------------------
(* How often a letter is shown *)

\* A hook that may yet show the letter, and one that shows or acknowledges it.
Bears(h, m) == m \in h.used /\ h.pc \in InHand
Holds(h, m) == m \in h.used /\ h.pc \in InHand \cup {"remember", "ack"}

\* One step changes what one hook may show, hence the count by one.
LEMMA BearersMove ==
  ASSUME NEW p \in Hooks, Only(p), NEW m, IsFiniteSet(Bearers(m))
  PROVE  /\ IsFiniteSet(Bearers(m)') /\ Cardinality(Bearers(m)) \in Nat /\ Cardinality(Bearers(m)') \in Nat
         /\ Cardinality(Bearers(m)') <= Cardinality(Bearers(m)) + 1
         /\ (Bears(hook'[p], m) => Bears(hook[p], m)) => Cardinality(Bearers(m)') <= Cardinality(Bearers(m))
         /\ Bears(hook[p], m) /\ ~Bears(hook'[p], m) => Cardinality(Bearers(m)') + 1 = Cardinality(Bearers(m))
<1> DEFINE B == Bearers(m)
           C == Bearers(m)'
<1>1. /\ \A q \in Hooks : q # p => (q \in C <=> q \in B)
      /\ (p \in C <=> Bears(hook'[p], m)) /\ (p \in B <=> Bears(hook[p], m))
      /\ C \subseteq Hooks /\ B \subseteq Hooks
  BY DEF Bearers, Bears, Only
<1>2. IsFiniteSet(B) /\ Cardinality(B) \in Nat
  BY FS_CardinalityType
<1> HIDE DEF B, C
<1>3. CASE Bears(hook'[p], m) <=> Bears(hook[p], m)
  <2>1. C = B
    BY <1>1, <1>3
  <2> QED
    BY <1>2, <1>3, <2>1 DEF B, C
<1>4. CASE Bears(hook'[p], m) /\ ~Bears(hook[p], m)
  <2>1. C = B \cup {p} /\ p \notin B
    BY <1>1, <1>4
  <2>2. IsFiniteSet(C) /\ Cardinality(C) = Cardinality(B) + 1
    BY <1>2, <2>1, FS_AddElement
  <2> QED
    BY <1>2, <1>4, <2>2 DEF B, C
<1>5. CASE ~Bears(hook'[p], m) /\ Bears(hook[p], m)
  <2>1. C = B \ {p} /\ p \in B
    BY <1>1, <1>5
  <2>2. IsFiniteSet(C) /\ Cardinality(C) = Cardinality(B) - 1
    BY <1>2, <2>1, FS_RemoveElement
  <2>3. Cardinality(C) \in Nat
    BY <2>2, FS_CardinalityType
  <2> QED
    BY <1>2, <1>5, <2>2, <2>3 DEF B, C
<1> QED
  BY <1>3, <1>4, <1>5

\* A fault pays for one more showing.
LEMMA FaultPays ==
  ASSUME HookTypeOK, CountsFit, NEW p \in Hooks, Only(p), Fault, shown' = shown,
         \A m \in Letter : Bears(hook'[p], m) => Bears(hook[p], m)
  PROVE  CountsFit'
<1>1. ASSUME NEW m \in Letter PROVE IsFiniteSet(Bearers(m)') /\ Showings(m)' <= faulty'
  <2>1. IsFiniteSet(Bearers(m)) /\ shown[m] + Cardinality(Bearers(m)) <= 1 + faulty
    BY DEF CountsFit, Showings
  <2>2. /\ IsFiniteSet(Bearers(m)') /\ Cardinality(Bearers(m)) \in Nat /\ Cardinality(Bearers(m)') \in Nat
        /\ Cardinality(Bearers(m)') <= Cardinality(Bearers(m))
    BY <2>1, BearersMove
  <2>3. faulty \in Nat /\ faulty' = faulty + 1 /\ shown[m] \in Nat /\ Showings(m)' = shown[m] + Cardinality(Bearers(m)')
    BY DEF HookTypeOK, Fault, Showings
  <2> QED
    BY <2>1, <2>2, <2>3
<1>2. faulty \in Nat /\ faulty' = faulty + 1
  BY DEF HookTypeOK, Fault
<1>3. \A m \in Letter : Showings(m)' \in Int
  <2>1. ASSUME NEW m \in Letter PROVE Showings(m)' \in Int
    <3>1. IsFiniteSet(Bearers(m)') /\ shown[m] \in Nat /\ Showings(m)' = shown[m] + Cardinality(Bearers(m)')
      BY <1>1 DEF Showings, HookTypeOK
    <3>2. Cardinality(Bearers(m)') \in Nat
      BY <3>1, FS_CardinalityType
    <3> QED
      BY <3>1, <3>2
  <2> QED
    BY <2>1
<1>4. \A m \in Letter : Showings(m)' <= 1 + faulty'
  BY <1>1, <1>2, <1>3
<1> QED
  BY <1>1, <1>4 DEF CountsFit

\* The lease and the letter stay with the hook that shows it, unless it gives up showing it.
Settles(p, m) ==
    /\ Bears(hook'[p], m) => Bears(hook[p], m)
    /\ \/ box'[m] = box[m]
       \/ box'[m].st = "acked"
       \/ box[m].by = p /\ box[m].st # "acked" /\ ~Holds(hook[p], m)
    /\ box'[m] = box[m] /\ box[m].live /\ box[m].by = p /\ Holds(hook[p], m)
          => Holds(hook'[p], m) \/ (Bears(hook[p], m) /\ ~Bears(hook'[p], m))

\* Without a fault, a letter that nobody secures any more is one that somebody gave up.
LEMMA SettledCounts ==
  ASSUME HookTypeOK, CountsFit, NEW p \in Hooks, Only(p), NoFault, shown' = shown, \A m \in Letter : Settles(p, m)
  PROVE  CountsFit'
<1> SUFFICES ASSUME NEW m \in Letter
             PROVE  IsFiniteSet(Bearers(m)') /\ Showings(m)' <= 1 + faulty' /\ (~Secured(m)' => Showings(m)' <= faulty')
  BY DEF CountsFit
<1>1. /\ IsFiniteSet(Bearers(m)) /\ shown[m] + Cardinality(Bearers(m)) <= 1 + faulty
      /\ ~Secured(m) => shown[m] + Cardinality(Bearers(m)) <= faulty
  BY DEF CountsFit, Showings
<1>2. Bears(hook'[p], m) => Bears(hook[p], m)
  BY DEF Settles
<1>3. /\ IsFiniteSet(Bearers(m)') /\ Cardinality(Bearers(m)) \in Nat /\ Cardinality(Bearers(m)') \in Nat
      /\ Cardinality(Bearers(m)') <= Cardinality(Bearers(m))
      /\ Bears(hook[p], m) /\ ~Bears(hook'[p], m) => Cardinality(Bearers(m)') + 1 = Cardinality(Bearers(m))
  BY <1>1, <1>2, BearersMove
<1>4. faulty \in Nat /\ faulty' = faulty /\ shown[m] \in Nat /\ Showings(m)' = shown[m] + Cardinality(Bearers(m)')
  BY DEF HookTypeOK, NoFault, Showings
<1>5. Secured(m) => Secured(m)' \/ (Bears(hook[p], m) /\ ~Bears(hook'[p], m))
  <2>1. ASSUME box[m].st = "acked" PROVE box'[m].st = "acked"
    BY <2>1 DEF Settles
  <2>2. ASSUME box[m].live, box[m].by \in Hooks, Holds(hook[box[m].by], m)
        PROVE  Secured(m)' \/ (Bears(hook[p], m) /\ ~Bears(hook'[p], m))
    <3>1. CASE box'[m].st = "acked"
      BY <3>1 DEF Secured
    <3>2. CASE box'[m] = box[m]
      <4>1. CASE box[m].by # p
        <5>1. Holds(hook'[box[m].by], m)
          BY <2>2, <4>1 DEF Only
        <5> QED
          BY <2>2, <3>2, <5>1 DEF Secured, Holds
      <4>2. CASE box[m].by = p
        <5>1. Holds(hook'[p], m) \/ (Bears(hook[p], m) /\ ~Bears(hook'[p], m))
          BY <2>2, <3>2, <4>2 DEF Settles
        <5> QED
          BY <2>2, <3>2, <4>2, <5>1 DEF Secured, Holds
      <4> QED
        BY <4>1, <4>2
    <3> QED
      BY <2>2, <3>1, <3>2 DEF Settles
  <2> QED
    BY <2>1, <2>2 DEF Secured, Holds
<1> QED
  BY <1>1, <1>3, <1>4, <1>5

\* A page is leased: its letters were nobody's.
LEMMA FetchCounts ==
  ASSUME HookTypeOK, BoxFits, ShapeFits, CountsFit, NEW p \in Hooks, FetchPage(p)
  PROVE  CountsFit'
<1> DEFINE page == Oldest(AvailableTo, FetchLimit)
<1>1. page \in SUBSET Letter /\ \A m \in page : box[m].st = "unread" /\ ~box[m].live
  BY OldestFacts DEF AvailableTo
<1>2. /\ Only(p) /\ hook'[p] = SortPage(p, page) /\ box' = LeaseTo(p, page) /\ hook[p].pc = "fetch"
      /\ shown' = shown /\ faulty' = faulty
  BY BecomeGives DEF FetchPage, At
<1> HIDE DEF page
<1>3. hook'[p].pc = "reack" /\ hook'[p].used \subseteq page
  BY <1>1, <1>2, SortFacts
<1>4. hook[p].used = {}
  BY <1>2 DEF ShapeFits
<1> SUFFICES ASSUME NEW m \in Letter
             PROVE  IsFiniteSet(Bearers(m)') /\ Showings(m)' <= 1 + faulty' /\ (~Secured(m)' => Showings(m)' <= faulty')
  BY DEF CountsFit
<1>5. /\ IsFiniteSet(Bearers(m)) /\ shown[m] + Cardinality(Bearers(m)) <= 1 + faulty
      /\ ~Secured(m) => shown[m] + Cardinality(Bearers(m)) <= faulty
  BY DEF CountsFit, Showings
<1>6. /\ IsFiniteSet(Bearers(m)') /\ Cardinality(Bearers(m)) \in Nat /\ Cardinality(Bearers(m)') \in Nat
      /\ Cardinality(Bearers(m)') <= Cardinality(Bearers(m)) + 1
      /\ (Bears(hook'[p], m) => Bears(hook[p], m)) => Cardinality(Bearers(m)') <= Cardinality(Bearers(m))
  BY <1>2, <1>5, BearersMove
<1>7. faulty \in Nat /\ shown[m] \in Nat /\ Showings(m)' = shown[m] + Cardinality(Bearers(m)')
  BY <1>2 DEF HookTypeOK, Showings
<1>8. CASE m \in page
  <2>1. ~Secured(m)
    BY <1>1, <1>8 DEF Secured
  <2>2. CASE m \in hook'[p].used
    <3>1. box'[m] = [st |-> "unread", by |-> p, live |-> TRUE]
      BY <1>2, <1>8 DEF LeaseTo
    <3>2. Secured(m)'
      BY <1>3, <2>2, <3>1 DEF Secured, InHand
    <3> QED
      BY <1>2, <1>5, <1>6, <1>7, <2>1, <3>2
  <2>3. CASE m \notin hook'[p].used
    <3>1. ~Bears(hook'[p], m)
      BY <2>3 DEF Bears
    <3> QED
      BY <1>2, <1>5, <1>6, <1>7, <2>1, <3>1
  <2> QED
    BY <2>2, <2>3
<1>9. CASE m \notin page
  <2>1. ~Bears(hook'[p], m)
    BY <1>3, <1>9 DEF Bears
  <2>2. box'[m] = box[m]
    BY <1>2, <1>9 DEF LeaseTo
  <2>3. Secured(m) => Secured(m)'
    <3>1. ASSUME box[m].by \in Hooks, m \in hook[box[m].by].used PROVE hook'[box[m].by] = hook[box[m].by]
      BY <1>2, <1>4, <3>1 DEF Only
    <3> QED
      BY <2>2, <3>1 DEF Secured
  <2> QED
    BY <1>2, <1>5, <1>6, <1>7, <2>1, <2>3
<1> QED
  BY <1>8, <1>9

\* A letter that is written is not to be shown any more.
LEMMA WriteCounts ==
  ASSUME HookTypeOK, CountsFit, NEW p \in Hooks, hook[p].pc = "write", NoFault, box' = box,
         shown' = [m \in Letter |-> IF m \in hook[p].used THEN shown[m] + 1 ELSE shown[m]],
         Become(p, [hook[p] EXCEPT !.pc = "remember"])
  PROVE  CountsFit'
<1>1. Only(p) /\ hook'[p].pc = "remember" /\ hook'[p].used = hook[p].used
  BY MoveGives DEF Moves
<1> SUFFICES ASSUME NEW m \in Letter
             PROVE  IsFiniteSet(Bearers(m)') /\ Showings(m)' <= 1 + faulty' /\ (~Secured(m)' => Showings(m)' <= faulty')
  BY DEF CountsFit
<1>2. /\ IsFiniteSet(Bearers(m)) /\ shown[m] + Cardinality(Bearers(m)) <= 1 + faulty
      /\ ~Secured(m) => shown[m] + Cardinality(Bearers(m)) <= faulty
  BY DEF CountsFit, Showings
<1>3. /\ IsFiniteSet(Bearers(m)') /\ Cardinality(Bearers(m)) \in Nat /\ Cardinality(Bearers(m)') \in Nat
      /\ (Bears(hook'[p], m) => Bears(hook[p], m)) => Cardinality(Bearers(m)') <= Cardinality(Bearers(m))
      /\ Bears(hook[p], m) /\ ~Bears(hook'[p], m) => Cardinality(Bearers(m)') + 1 = Cardinality(Bearers(m))
  BY <1>1, <1>2, BearersMove
<1>4. faulty \in Nat /\ faulty' = faulty /\ shown[m] \in Nat /\ Showings(m)' = shown'[m] + Cardinality(Bearers(m)')
  BY DEF HookTypeOK, NoFault, Showings
<1>5. ~Bears(hook'[p], m)
  BY <1>1 DEF Bears, InHand
<1>6. shown'[m] + Cardinality(Bearers(m)') <= shown[m] + Cardinality(Bearers(m))
  <2>1. CASE m \in hook[p].used
    <3>1. Bears(hook[p], m)
      BY <2>1 DEF Bears, InHand
    <3>2. shown'[m] = shown[m] + 1
      BY <2>1
    <3> QED
      BY <1>3, <1>4, <1>5, <3>1, <3>2
  <2>2. CASE m \notin hook[p].used
    <3>1. shown'[m] = shown[m]
      BY <2>2
    <3> QED
      BY <1>3, <1>4, <1>5, <3>1
  <2> QED
    BY <2>1, <2>2
<1>7. Secured(m) => Secured(m)'
  <2>1. ASSUME NEW q \in Hooks, m \in hook[q].used, hook[q].pc \in InHand \cup {"remember", "ack"}
        PROVE  m \in hook'[q].used /\ hook'[q].pc \in InHand \cup {"remember", "ack"}
    BY <1>1, <2>1 DEF Only
  <2> QED
    BY <2>1 DEF Secured
<1>8. shown'[m] \in Nat
  BY <1>4
<1> QED
  BY <1>2, <1>3, <1>4, <1>6, <1>7, <1>8

\* Every step keeps the count of showings.
LEMMA CountsStep ==
  ASSUME HookTypeOK, BoxFits, ShapeFits, CountsFit, HookNext
  PROVE  CountsFit'
<1>1. ASSUME NEW p \in Hooks, Only(p), shown' = shown, NoFault \/ Fault, box' = box,
             \A m \in Letter : Bears(hook'[p], m) => Bears(hook[p], m),
             NoFault => \A m \in Letter : Holds(hook[p], m) => Holds(hook'[p], m)
                   \/ (Bears(hook[p], m) /\ ~Bears(hook'[p], m))
      PROVE  CountsFit'
  BY <1>1, FaultPays, SettledCounts DEF Settles
<1>2. ASSUME NEW p \in Hooks, EndHook(p), shown' = shown, NoFault \/ Fault,
             NoFault => hook[p].pc \notin InHand \cup {"remember", "ack"}
      PROVE  CountsFit'
  <2>1. Only(p) /\ hook'[p].used = {}
    BY <1>2, EndGives DEF Empty
  <2>2. \A m \in Letter : ~Bears(hook'[p], m)
    BY <2>1 DEF Bears
  <2>3. ASSUME NoFault, NEW m \in Letter PROVE Settles(p, m)
    <3>1. ~Holds(hook[p], m)
      BY <1>2, <2>3 DEF Holds
    <3>2. \/ box'[m] = box[m]
          \/ box'[m].st = "acked"
          \/ box[m].by = p /\ box[m].st # "acked"
      <4>1. CASE box[m].by # p
        BY <1>2, <4>1 DEF EndHook
      <4>2. CASE box[m].by = p
        BY <1>2, <4>2, EndFacts
      <4> QED
        BY <4>1, <4>2
    <3> QED
      BY <2>2, <3>1, <3>2 DEF Settles
  <2> QED
    BY <1>2, <2>1, <2>2, <2>3, FaultPays, SettledCounts
<1>3. ASSUME NEW p \in Hooks, Only(p), shown' = shown, NEW S, Released(p, S), \A m \in Letter \cap S : ~Holds(hook[p], m),
             \A m \in Letter : Bears(hook'[p], m) => Bears(hook[p], m),
             \A m \in Letter : Holds(hook[p], m) => Holds(hook'[p], m) \/ (Bears(hook[p], m) /\ ~Bears(hook'[p], m))
      PROVE  CountsFit'
  <2>1. CASE NoFault /\ box' = ReleaseOf(p, S)
    <3>1. ASSUME NEW m \in Letter PROVE Settles(p, m)
      <4>1. CASE m \in OwnedBy(p, S)
        <5>1. box[m].by = p /\ box[m].st = "unread" /\ m \in S
          BY <4>1 DEF OwnedBy
        <5> QED
          BY <1>3, <5>1 DEF Settles
      <4>2. CASE m \notin OwnedBy(p, S)
        <5>1. box'[m] = box[m]
          BY <2>1, <4>2 DEF ReleaseOf
        <5> QED
          BY <1>3, <5>1 DEF Settles
      <4> QED
        BY <4>1, <4>2
    <3> QED
      BY <1>3, <2>1, <3>1, SettledCounts
  <2>2. CASE Fault
    BY <1>3, <2>2, FaultPays
  <2> QED
    BY <1>3, <2>1, <2>2 DEF Released
<1>4. ASSUME NEW p \in Hooks PROVE hook[p].diag \in Outcome
  BY DEF HookTypeOK, Hook
<1>5. ASSUME NEW p \in Hooks, NEW d \in Outcome, Become(p, Reporting(d))
      PROVE  Only(p) /\ \A m \in Letter : ~Bears(hook'[p], m)
  BY <1>5, ReportGives DEF Empty, Bears
<1>6. ASSUME NEW p \in Hooks, NEW m, hook[p].pc \notin InHand \cup {"remember", "ack"} PROVE ~Holds(hook[p], m)
  BY <1>6 DEF Holds
<1>7. ASSUME NEW p \in Hooks, NEW e, NEW mode, NEW a, StartHook(p, e, mode, a) PROVE CountsFit'
  <2>1. Only(p) /\ hook'[p].used = {} /\ hook[p].pc = "idle"
    BY <1>7, StartGives DEF Empty
  <2>2. \A m \in Letter : ~Bears(hook'[p], m) /\ ~Holds(hook[p], m)
    BY <1>6, <2>1 DEF Bears, InHand
  <2>3. box' = box /\ shown' = shown /\ NoFault
    BY <1>7 DEF StartHook, NoFault
  <2> QED
    BY <1>1, <2>1, <2>2, <2>3
<1>8. ASSUME NEW p \in Hooks, Peek(p) PROVE CountsFit'
  <2>1. shown' = shown /\ NoFault /\ hook[p].pc = "peek"
    BY <1>8 DEF Peek, NoFault, At
  <2>2. CASE EndHook(p)
    BY <1>2, <2>1, <2>2 DEF InHand
  <2>3. CASE ~EndHook(p)
    <3>1. Only(p) /\ hook'[p].pc = "register" /\ box' = box
      BY <1>8, <2>3, PeekGives
    <3>2. \A m \in Letter : ~Bears(hook'[p], m) /\ ~Holds(hook[p], m)
      BY <1>6, <2>1, <3>1 DEF Bears, InHand
    <3> QED
      BY <1>1, <2>1, <3>1, <3>2
  <2> QED
    BY <2>2, <2>3
<1>9. ASSUME NEW p \in Hooks, RegisterHook(p) \/ WaitAgain(p) PROVE CountsFit'
  <2>1. shown' = shown /\ hook[p].pc \in {"register", "wait"}
    BY <1>9 DEF RegisterHook, WaitAgain, At
  <2>2. CASE EndHook(p) /\ Fault
    BY <1>2, <2>1, <2>2 DEF InHand
  <2>3. CASE NoFault /\ Become(p, [hook[p] EXCEPT !.pc = "fetch"]) /\ box' = box
    <3>1. Only(p) /\ hook'[p].pc = "fetch"
      BY <2>3, MoveGives DEF Moves
    <3>2. \A m \in Letter : ~Bears(hook'[p], m) /\ ~Holds(hook[p], m)
      BY <1>6, <2>1, <3>1 DEF Bears, InHand
    <3> QED
      BY <1>1, <2>1, <2>3, <3>1, <3>2
  <2> QED
    BY <1>9, <2>2, <2>3 DEF RegisterHook, WaitAgain, NoFault
<1>10. ASSUME NEW p \in Hooks, KillHook(p) PROVE CountsFit'
  <2>1. faulty' # faulty
    BY <1>10 DEF KillHook, Fault, HookTypeOK
  <2> QED
    BY <1>2, <1>10, <2>1 DEF KillHook, NoFault
<1>11. ASSUME NEW p \in Hooks, Flush(p) PROVE CountsFit'
  BY <1>2, <1>11 DEF Flush, At, InHand, NoFault
<1>12. ASSUME NEW p \in Hooks, WaitEnds(p) \/ Refund(p) PROVE CountsFit'
  <2>1. /\ hook[p].pc \in {"wait", "refund"} /\ box' = box /\ shown' = shown /\ (NoFault \/ Fault)
        /\ Become(p, Reporting(hook[p].diag))
    BY <1>12 DEF WaitEnds, Refund, At, NoFault
  <2>2. \A m \in Letter : ~Holds(hook[p], m)
    BY <1>6, <2>1 DEF InHand
  <2> QED
    BY <1>1, <1>4, <1>5, <2>1, <2>2
<1>13. ASSUME NEW p \in Hooks, FetchFails(p) PROVE CountsFit'
  <2>1. Only(p) /\ hook'[p].used = {} /\ shown' = shown /\ Fault
    BY <1>13, FailGives DEF FetchFails, At, ShapeFits
  <2> QED
    BY <2>1, FaultPays DEF Bears
<1>14. ASSUME NEW p \in Hooks, Reack(p) PROVE CountsFit'
  <2>1. /\ Only(p) /\ hook'[p].used = hook[p].used /\ shown' = shown /\ hook[p].pc = "reack"
        /\ hook'[p].pc = (IF hook[p].more THEN "fetch" ELSE "unhold")
    BY <1>14, ReackGives DEF Reack, At
  <2>2. \A m \in Letter : Bears(hook'[p], m) <=> Bears(hook[p], m)
    <3>1. CASE hook[p].more
      BY <2>1, <3>1 DEF Bears, ShapeFits
    <3>2. CASE ~hook[p].more
      BY <2>1, <3>2 DEF Bears, InHand
    <3> QED
      BY <3>1, <3>2
  <2>3. \A m \in Letter : Holds(hook[p], m) => Bears(hook[p], m)
    BY <2>1 DEF Holds, Bears, InHand
  <2>4. \A m \in Letter : Holds(hook[p], m) => Holds(hook'[p], m)
    BY <2>2, <2>3 DEF Holds, Bears
  <2>5. CASE NoFault /\ box' = AckOf(p, hook[p].reack)
    <3>1. \A m \in Letter : box'[m] = box[m] \/ box'[m].st = "acked"
      BY <2>5 DEF AckOf
    <3> QED
      BY <2>1, <2>2, <2>4, <2>5, <3>1, SettledCounts DEF Settles
  <2>6. CASE Fault
    BY <2>1, <2>2, <2>6, FaultPays
  <2> QED
    BY <1>14, <2>5, <2>6 DEF Reack, AckLost
<1>15. ASSUME NEW p \in Hooks, Unhold(p) PROVE CountsFit'
  <2>1. hook[p].pc = "unhold" /\ shown' = shown /\ Released(p, hook[p].heldBack)
    BY <1>15 DEF Unhold, At
  <2>2. \A m \in Letter \cap hook[p].heldBack : ~Holds(hook[p], m)
    BY DEF Holds, ShapeFits
  <2>3. CASE hook[p].used # {}
    <3>1. Become(p, [hook[p] EXCEPT !.pc = "render", !.st = {}, !.seen = {}])
      BY <1>15, <2>3 DEF Unhold
    <3>2. Only(p) /\ hook'[p].pc = "render" /\ hook'[p].used = hook[p].used
      BY <3>1, RenderGives
    <3>3. \A m \in Letter : (Bears(hook'[p], m) <=> Bears(hook[p], m)) /\ (Holds(hook'[p], m) <=> Holds(hook[p], m))
      BY <2>1, <3>2 DEF Bears, Holds, InHand
    <3> QED
      BY <1>3, <2>1, <2>2, <3>2, <3>3
  <2>4. CASE hook[p].used = {}
    <3>1. Only(p) /\ hook'[p].used = {}
      <4>1. CASE Become(p, [hook[p] EXCEPT !.pc = "wait", !.seen = {}, !.heldBack = {}, !.failed = FALSE])
        BY <2>4, <4>1, WaitGives
      <4>2. ASSUME NEW d \in Outcome, Become(p, Reporting(d)) PROVE Only(p) /\ hook'[p].used = {}
        BY <4>2, ReportGives DEF Empty
      <4> QED
        BY <1>4, <1>15, <2>4, <4>1, <4>2 DEF Unhold, Outcome
    <3>2. \A m \in Letter : ~Bears(hook'[p], m) /\ ~Holds(hook[p], m)
      BY <2>4, <3>1 DEF Bears, Holds
    <3> QED
      BY <1>3, <2>1, <3>1, <3>2
  <2> QED
    BY <2>3, <2>4
<1>16. ASSUME NEW p \in Hooks, Render(p) PROVE CountsFit'
  <2>1. /\ Only(p) /\ hook[p].pc = "render" /\ box' = box /\ (NoFault \/ Fault) /\ shown' = shown
        /\ hook'[p].used \subseteq hook[p].used
        /\ hook'[p].pc \in {"giveback", "reserve", "write"}
    BY <1>16, FillGives DEF Render
  <2>2. \A m \in Letter : Bears(hook'[p], m) => Bears(hook[p], m)
    BY <2>1 DEF Bears, InHand
  <2>3. \A m \in Letter : Holds(hook[p], m) => Bears(hook[p], m)
    BY <2>1 DEF Bears, Holds, InHand
  <2>4. \A m \in Letter : Bears(hook'[p], m) => Holds(hook'[p], m)
    BY DEF Bears, Holds
  <2> QED
    BY <1>1, <2>1, <2>2, <2>3, <2>4
<1>17. ASSUME NEW p \in Hooks, Reserve(p) PROVE CountsFit'
  <2>1. \/ \E s : Become(p, [hook[p] EXCEPT !.pc = "write", !.now = 0, !.slot = s])
        \/ Become(p, [hook[p] EXCEPT !.pc = "write", !.now = 0, !.capped = TRUE])
        \/ Become(p, [hook[p] EXCEPT !.pc = "write", !.now = 0])
    BY <1>17 DEF Reserve
  <2>2. Only(p) /\ hook'[p].used = hook[p].used /\ hook'[p].pc = "write"
    BY <2>1, SlotGives, CappedGives, MissGives, MoveGives DEF Moves
  <2>3. hook[p].pc = "reserve" /\ box' = box /\ shown' = shown /\ (NoFault \/ Fault)
    BY <1>17 DEF Reserve, At
  <2>4. \A m \in Letter : (Bears(hook'[p], m) <=> Bears(hook[p], m)) /\ (Holds(hook'[p], m) <=> Holds(hook[p], m))
    BY <2>2, <2>3 DEF Bears, Holds, InHand
  <2> QED
    BY <1>1, <2>2, <2>3, <2>4
<1>18. ASSUME NEW p \in Hooks, WriteReply(p) PROVE CountsFit'
  <2>1. hook[p].pc = "write" /\ box' = box
    BY <1>18 DEF WriteReply, At
  <2>2. CASE /\ NoFault /\ shown' = [m \in Letter |-> IF m \in hook[p].used THEN shown[m] + 1 ELSE shown[m]]
             /\ Become(p, [hook[p] EXCEPT !.pc = "remember"])
    BY <2>1, <2>2, WriteCounts
  <2>3. CASE /\ NoFault \/ Fault
             /\ shown' = shown
             /\ \E d : Become(p, [hook[p] EXCEPT !.pc = "giveback", !.left = hook[p].used \cup hook[p].left, !.used = {}, !.diag = d])
    <3>1. Only(p) /\ hook'[p].used = {}
      BY <2>3, LostGives
    <3>2. \A m \in Letter : ~Bears(hook'[p], m) /\ (Holds(hook[p], m) => Bears(hook[p], m))
      BY <2>1, <3>1 DEF Bears, Holds, InHand
    <3> QED
      BY <1>1, <2>1, <2>3, <3>1, <3>2
  <2> QED
    BY <1>18, <2>2, <2>3 DEF WriteReply
<1>19. ASSUME NEW p \in Hooks, Giveback(p) \/ Leftover(p) PROVE CountsFit'
  <2>1. hook[p].pc \in {"giveback", "leftover"} /\ shown' = shown /\ Released(p, hook[p].left)
    BY <1>19 DEF Giveback, Leftover, At
  <2>2. \A m \in Letter : ~Holds(hook[p], m)
    BY <1>6, <2>1 DEF InHand
  <2>3. Only(p) /\ \A m \in Letter : ~Bears(hook'[p], m)
    <3>1. CASE Become(p, [hook[p] EXCEPT !.pc = "refund", !.left = {}])
      BY <3>1, RefundGives DEF Bears, InHand
    <3>2. CASE Become(p, Reporting(hook[p].diag))
      BY <1>4, <1>5, <3>2
    <3> QED
      BY <1>19, <3>1, <3>2 DEF Giveback, Leftover
  <2> QED
    BY <1>3, <2>1, <2>2, <2>3
<1>20. ASSUME NEW p \in Hooks, Remember(p) PROVE CountsFit'
  <2>1. Become(p, [hook[p] EXCEPT !.pc = "ack"]) /\ hook[p].pc = "remember" /\ box' = box /\ shown' = shown
        /\ (NoFault \/ Fault)
    BY <1>20 DEF Remember, At
  <2>2. Only(p) /\ hook'[p].pc = "ack" /\ hook'[p].used = hook[p].used
    BY <2>1, MoveGives DEF Moves
  <2>3. \A m \in Letter : ~Bears(hook'[p], m) /\ (Holds(hook'[p], m) <=> Holds(hook[p], m))
    BY <2>1, <2>2 DEF Bears, Holds, InHand
  <2> QED
    BY <1>1, <2>1, <2>2, <2>3
<1>21. ASSUME NEW p \in Hooks, AckShown(p) PROVE CountsFit'
  <2>1. PICK d : Become(p, [hook[p] EXCEPT !.pc = "leftover", !.diag = d])
    BY <1>21 DEF AckShown
  <2>2. Only(p) /\ hook'[p].pc = "leftover" /\ hook[p].pc = "ack" /\ shown' = shown
    BY <1>21, <2>1, AckGives DEF AckShown, At
  <2>3. \A m \in Letter : ~Bears(hook'[p], m)
    BY <2>2 DEF Bears, InHand
  <2>4. CASE NoFault /\ box' = AckOf(p, hook[p].used)
    <3>1. ASSUME NEW m \in Letter PROVE Settles(p, m)
      <4>1. CASE m \in OwnedBy(p, hook[p].used)
        <5>1. box'[m] = [st |-> "acked", by |-> NoHook, live |-> FALSE]
          BY <2>4, <4>1 DEF AckOf
        <5>2. box[m].live
          BY <4>1 DEF OwnedBy
        <5>3. box'[m].st = "acked" /\ box'[m] # box[m]
          BY <5>1, <5>2
        <5> QED
          BY <2>3, <5>3 DEF Settles
      <4>2. CASE m \notin OwnedBy(p, hook[p].used)
        <5>1. box'[m] = box[m]
          BY <2>4, <4>2 DEF AckOf
        <5>2. ~(box[m].live /\ box[m].by = p /\ Holds(hook[p], m))
          BY <4>2 DEF OwnedBy, Holds, BoxFits
        <5> QED
          BY <2>3, <5>1, <5>2 DEF Settles
      <4> QED
        BY <4>1, <4>2
    <3> QED
      BY <2>2, <2>4, <3>1, SettledCounts
  <2>5. CASE Fault
    BY <2>2, <2>3, <2>5, FaultPays
  <2> QED
    BY <1>21, <2>4, <2>5 DEF AckShown, AckLost
<1>22. CASE HookTick \/ \E m \in Letter : Arrive(m) \/ LeaseEnds(m)
  <2>1. hook' = hook /\ shown' = shown
    BY <1>22 DEF HookTick, Arrive, LeaseEnds
  <2>2. \A m : Bearers(m)' = Bearers(m) /\ Showings(m)' = Showings(m)
    BY <2>1 DEF Bearers, Showings
  <2>3. CASE Fault
    <3>1. ASSUME NEW m \in Letter PROVE Showings(m) <= faulty' /\ Showings(m) <= 1 + faulty'
      <4>1. IsFiniteSet(Bearers(m)) /\ Showings(m) <= 1 + faulty /\ shown[m] \in Nat /\ faulty \in Nat
            /\ faulty' = faulty + 1
        BY <2>3 DEF CountsFit, HookTypeOK, Fault
      <4>2. Showings(m) \in Int
        BY <4>1, FS_CardinalityType DEF Showings
      <4> QED
        BY <4>1, <4>2
    <3> QED
      BY <2>2, <3>1 DEF CountsFit
  <2>4. CASE faulty' = faulty /\ \A m \in Letter : Secured(m) => Secured(m)'
    BY <2>2, <2>4 DEF CountsFit
  <2>5. CASE HookTick
    <3>1. faulty' = faulty /\ box' = box
      BY <2>5 DEF HookTick
    <3> QED
      BY <2>1, <2>4, <3>1 DEF Secured
  <2>6. ASSUME NEW m \in Letter, Arrive(m) PROVE CountsFit'
    <3>1. faulty' = faulty /\ box[m].st = "unsent"
      BY <2>6 DEF Arrive
    <3>2. \A k \in Letter : /\ box'[k].live = box[k].live /\ box'[k].by = box[k].by
                            /\ box[k].st = "acked" => box'[k].st = "acked"
      BY <2>6, <3>1, LeaseFacts
    <3> QED
      BY <2>1, <2>4, <3>1, <3>2 DEF Secured
  <2>7. ASSUME NEW m \in Letter, LeaseEnds(m) PROVE CountsFit'
    <3>1. CASE box[m].by # NoHook
      BY <2>3, <2>7, <3>1 DEF LeaseEnds
    <3>2. CASE box[m].by = NoHook
      <4>1. faulty' = faulty
        BY <2>7, <3>2 DEF LeaseEnds, NoFault
      <4>2. ASSUME NEW k \in Letter, Secured(k) PROVE Secured(k)'
        <5>1. box'[k].st = box[k].st /\ box'[k].by = box[k].by /\ box'[k].live = (box[k].live /\ k # m)
          BY <2>7, LeaseFacts
        <5>2. CASE k = m
          BY <2>1, <3>2, <4>2, <5>1, <5>2, HookConstants DEF Secured
        <5>3. CASE k # m
          BY <2>1, <4>2, <5>1, <5>3 DEF Secured
        <5> QED
          BY <5>2, <5>3
      <4> QED
        BY <2>4, <4>1, <4>2
    <3> QED
      BY <3>1, <3>2
  <2> QED
    BY <1>22, <2>5, <2>6, <2>7
<1> QED
  BY HookNextCases, FetchCounts, <1>7, <1>8, <1>9, <1>10, <1>11, <1>12, <1>13, <1>14, <1>15, <1>16, <1>17, <1>18,
        <1>19, <1>20, <1>21, <1>22

-----------------------------------------------------------------------------
(* Slots of continuations *)

Settled == {"remember", "ack", "leftover"}

\* A slot is kept as it was or given up.
Slackens(p) == \/ hook'[p].slot = NoSlot
               \/ hook'[p].slot = hook[p].slot /\ (hook'[p].pc \in Settled \/ hook[p].pc \notin Settled)

\* Entries of the window have a time; no entry is none.
LEMMA SlotTypes ==
  ASSUME HookTypeOK
  PROVE  /\ NoSlot \notin Slot /\ blocks \subseteq Slot /\ file.conts \subseteq Slot /\ Pledged \subseteq Slot
         /\ \A c \in Slot : c.at \in Nat
         /\ hookTime \in Nat /\ Window \in Nat /\ MaxContinue \in Nat
<1>1. NoSlot \notin Slot
  BY DEF NoSlot, Slot
<1>2. \A p \in Hooks : hook[p].slot \in Slot \cup {NoSlot}
  BY DEF HookTypeOK, Hook
<1>3. blocks \subseteq Slot /\ file.conts \subseteq Slot /\ hookTime \in Nat
  BY HookConstants DEF HookTypeOK
<1>4. \A c \in Slot : c.at \in Nat
  BY HookConstants DEF Slot
<1> QED
  BY <1>1, <1>2, <1>3, <1>4, HookConstants DEF Pledged

\* Steps that reserve no slot keep what is said of slots.
LEMMA SlotsShrink ==
  ASSUME HookTypeOK, SlotsFit, NEW p \in Hooks, Only(p), Slackens(p), blocks' = blocks, hookTime' = hookTime,
         IsFiniteSet(file.conts'), \A c \in file.conts : hookTime - Window < c.at /\ c \in Pledged' => c \in file.conts'
  PROVE  SlotsFit'
<1>1. \A q \in Hooks : hook'[q].slot = hook[q].slot \/ hook'[q].slot = NoSlot
  BY DEF Only, Slackens
<1>2. Pledged' \subseteq Pledged
  BY <1>1 DEF Pledged
<1>3. \A c \in Pledged' : hookTime' - Window < c.at => c \in file.conts'
  BY <1>2 DEF SlotsFit
<1>4. \A q, r \in Hooks : q # r /\ hook'[q].slot = hook'[r].slot => hook'[q].slot = NoSlot
  <2>1. \A q, r \in Hooks : q # r /\ hook[q].slot = hook[r].slot => hook[q].slot = NoSlot
    BY DEF SlotsFit
  <2> QED
    BY <1>1, <2>1
<1>5. \A q \in Hooks : hook'[q].pc \notin Settled => hook'[q].slot \notin blocks'
  <2>1. NoSlot \notin blocks
    BY SlotTypes
  <2>2. \A q \in Hooks : hook[q].pc \notin Settled => hook[q].slot \notin blocks
    BY DEF SlotsFit, Settled
  <2> QED
    BY <2>1, <2>2 DEF Only, Slackens
<1>6. ASSUME NEW t \in 0..HookClock PROVE IsFiniteSet(Pledges(t)') /\ Cardinality(Pledges(t)') <= MaxContinue
  <2>1. Pledges(t)' \subseteq Pledges(t) /\ IsFiniteSet(Pledges(t)) /\ Cardinality(Pledges(t)) <= MaxContinue
    BY <1>2 DEF Pledges, SlotsFit
  <2>2. IsFiniteSet(Pledges(t)') /\ Cardinality(Pledges(t)') <= Cardinality(Pledges(t))
    BY <2>1, FS_Subset
  <2>3. Cardinality(Pledges(t)') \in Nat /\ Cardinality(Pledges(t)) \in Nat
    BY <2>1, <2>2, FS_CardinalityType
  <2> QED
    BY <2>1, <2>2, <2>3, SlotTypes
<1> QED
  BY <1>3, <1>4, <1>5, <1>6 DEF SlotsFit, Settled

\* A slot is reserved where there is room.
LEMMA SlotsGrow ==
  ASSUME HookTypeOK, SlotsFit, ClockFits, NEW p \in Hooks, hook[p].pc = "reserve",
         NEW no \in 1..SlotNumbers, NextNumber(no),
         Cardinality(Prune(file.conts, hook[p].now)) < MaxContinue,
         file' = [file EXCEPT !.conts = Prune(file.conts, hook[p].now) \cup {NewSlot(hook[p].now, no)}],
         Become(p, [hook[p] EXCEPT !.pc = "write", !.now = 0, !.slot = NewSlot(hook[p].now, no)]), blocks' = blocks, hookTime' = hookTime
  PROVE  SlotsFit'
<1> DEFINE c == NewSlot(hook[p].now, no)
           kept == Prune(file.conts, hook[p].now)
<1>1. Only(p) /\ hook'[p].slot = c /\ file.conts' = kept \cup {c}
  BY SlotGives, FileFacts
<1>0. hook[p].now \in Nat /\ hook[p].now <= hookTime /\ hookTime <= hook[p].now + LockWait
  BY DEF ClockFits
<1>2. c.no = no /\ c.at = hook[p].now /\ c # NoSlot
  BY <1>0 DEF NewSlot, NoSlot
<1>3. c \notin blocks /\ \A q \in Hooks : hook[q].slot # c
  BY <1>2 DEF NextNumber, Taken
<1>4. /\ IsFiniteSet(kept) /\ Cardinality(kept) \in Nat /\ Cardinality(kept) < MaxContinue
      /\ IsFiniteSet(kept \cup {c}) /\ Cardinality(kept \cup {c}) <= Cardinality(kept) + 1
  <2>1. IsFiniteSet(kept)
    BY FS_Subset DEF Prune, SlotsFit
  <2>2. Cardinality(kept) \in Nat
    BY <2>1, FS_CardinalityType
  <2>3. /\ IsFiniteSet(kept \cup {c})
        /\ Cardinality(kept \cup {c}) = IF c \in kept THEN Cardinality(kept) ELSE Cardinality(kept) + 1
    BY <2>1, FS_AddElement
  <2> HIDE DEF c, kept
  <2>4. Cardinality(kept \cup {c}) <= Cardinality(kept) + 1
    BY <2>2, <2>3
  <2> QED
    BY <2>1, <2>2, <2>3, <2>4 DEF kept
<1>5. Pledged' \subseteq Pledged \cup {c}
  BY <1>1 DEF Pledged, Only
<1>6. \A x \in Pledged : hookTime - Window < x.at => x \in kept
  <2>1. ASSUME NEW x \in Pledged, hookTime - Window < x.at PROVE x \in file.conts /\ x.at > hook[p].now - Window
    <3>1. x.at \in Nat /\ x \in file.conts
      BY <2>1, SlotTypes DEF SlotsFit
    <3> QED
      BY <1>0, <2>1, <3>1, SlotTypes
  <2> QED
    BY <2>1 DEF Prune
<1> HIDE DEF c, kept
<1>7. \A x \in Pledged' : hookTime' - Window < x.at => x \in file.conts'
  BY <1>1, <1>5, <1>6
<1>8. \A q, r \in Hooks : q # r /\ hook'[q].slot = hook'[r].slot => hook'[q].slot = NoSlot
  <2>1. \A q, r \in Hooks : q # r /\ hook[q].slot = hook[r].slot => hook[q].slot = NoSlot
    BY DEF SlotsFit
  <2> QED
    BY <1>1, <1>3, <2>1 DEF Only
<1>9. \A q \in Hooks : hook'[q].pc \notin Settled => hook'[q].slot \notin blocks'
  BY <1>1, <1>3 DEF Only, SlotsFit, Settled
<1>10. ASSUME NEW t \in 0..HookClock PROVE IsFiniteSet(Pledges(t)') /\ Cardinality(Pledges(t)') <= MaxContinue
  <2>1. t \in Nat /\ IsFiniteSet(Pledges(t)) /\ Cardinality(Pledges(t)) <= MaxContinue
    BY HookConstants DEF SlotsFit
  <2>2. CASE hook[p].now <= t
    <3>1. \A x \in Pledged : t - Span < x.at => x \in kept
      <4>1. ASSUME NEW x \in Pledged, t - Span < x.at PROVE hookTime - Window < x.at
        <5>1. x.at \in Nat /\ LockWait \in Nat
          BY SlotTypes, HookConstants
        <5> QED
          BY <1>0, <2>1, <2>2, <4>1, <5>1, SlotTypes DEF Span
      <4> QED
        BY <1>6, <4>1
    <3>2. Pledges(t)' \subseteq kept \cup {c}
      BY <1>5, <3>1 DEF Pledges
    <3>3. IsFiniteSet(Pledges(t)') /\ Cardinality(Pledges(t)') <= Cardinality(kept \cup {c})
      BY <1>4, <3>2, FS_Subset
    <3>4. Cardinality(Pledges(t)') \in Nat /\ Cardinality(kept \cup {c}) \in Nat
      BY <1>4, <3>3, FS_CardinalityType
    <3> QED
      BY <1>4, <3>3, <3>4, SlotTypes
  <2>3. CASE ~(hook[p].now <= t)
    <3>1. Pledges(t)' \subseteq Pledges(t)
      BY <1>2, <1>5, <2>3 DEF Pledges
    <3>2. IsFiniteSet(Pledges(t)') /\ Cardinality(Pledges(t)') <= Cardinality(Pledges(t))
      BY <2>1, <3>1, FS_Subset
    <3>3. Cardinality(Pledges(t)') \in Nat /\ Cardinality(Pledges(t)) \in Nat
      BY <2>1, <3>2, FS_CardinalityType
    <3> QED
      BY <2>1, <3>2, <3>3, SlotTypes
  <2> QED
    BY <2>2, <2>3
<1> QED
  BY <1>1, <1>4, <1>7, <1>8, <1>9, <1>10 DEF SlotsFit, Settled

\* A slot reaches the client.
LEMMA SlotsReach ==
  ASSUME HookTypeOK, SlotsFit, NEW p \in Hooks, Become(p, [hook[p] EXCEPT !.pc = "remember"]),
         blocks' = blocks \cup ({hook[p].slot} \ {NoSlot}), file' = file, hookTime' = hookTime
  PROVE  SlotsFit'
<1>1. Only(p) /\ hook'[p].pc = "remember" /\ \A q \in Hooks : hook'[q].slot = hook[q].slot
  BY MoveGives DEF Moves, Only
<1>2. Pledged' = Pledged
  BY <1>1 DEF Pledged
<1>3. \A t : Pledges(t)' = Pledges(t)
  BY <1>2 DEF Pledges
<1>4. ASSUME NEW q \in Hooks, hook'[q].pc \notin Settled PROVE hook'[q].slot \notin blocks'
  <2>1. q # p /\ hook'[q] = hook[q]
    BY <1>1, <1>4 DEF Settled, Only
  <2>2. hook[q].slot \notin blocks
    BY <1>4, <2>1 DEF SlotsFit, Settled
  <2>3. hook[q].slot = hook[p].slot => hook[q].slot = NoSlot
    BY <2>1 DEF SlotsFit
  <2> QED
    BY <2>1, <2>2, <2>3
<1> QED
  BY <1>1, <1>2, <1>3, <1>4 DEF SlotsFit, Settled

\* Every step keeps what is said of slots.
LEMMA SlotsStep ==
  ASSUME HookTypeOK, SlotsFit, ClockFits, HookNext
  PROVE  SlotsFit'
<1>1. ASSUME NEW p \in Hooks, Only(p), Slackens(p), blocks' = blocks, hookTime' = hookTime, file' = file
      PROVE  SlotsFit'
  <2>1. file.conts' = file.conts /\ IsFiniteSet(file.conts')
    BY <1>1 DEF SlotsFit
  <2> QED
    BY <1>1, <2>1, SlotsShrink
<1>2. ASSUME NEW p \in Hooks, EndHook(p), blocks' = blocks, hookTime' = hookTime, file' = file PROVE SlotsFit'
  BY <1>1, <1>2, EndGives DEF Empty, Slackens
<1>3. ASSUME NEW p \in Hooks, NEW d \in Outcome, Become(p, Reporting(d)), blocks' = blocks, hookTime' = hookTime, file' = file
      PROVE  SlotsFit'
  BY <1>1, <1>3, ReportGives DEF Empty, Slackens
<1>4. ASSUME NEW p \in Hooks PROVE hook[p].diag \in Outcome
  BY DEF HookTypeOK, Hook
<1>5. ASSUME NEW p \in Hooks, NEW pc, Become(p, [hook[p] EXCEPT !.pc = pc]), pc \in Settled \/ hook[p].pc \notin Settled
      PROVE  Only(p) /\ Slackens(p)
  BY <1>5, MoveGives DEF Moves, Slackens
<1>6. ASSUME NEW p \in Hooks, Only(p), hook'[p].slot = hook[p].slot, hook[p].pc \notin Settled,
             blocks' = blocks, hookTime' = hookTime, file' = file
      PROVE  SlotsFit'
  BY <1>1, <1>6 DEF Slackens
<1>7. ASSUME NEW p \in Hooks, NEW e, NEW mode, NEW a, StartHook(p, e, mode, a) PROVE SlotsFit'
  <2>1. Only(p) /\ hook'[p].slot = NoSlot /\ blocks' = blocks /\ hookTime' = hookTime /\ file' = file
    BY <1>7, StartGives DEF Empty, StartHook
  <2> QED
    BY <1>1, <2>1 DEF Slackens
<1>8. ASSUME NEW p \in Hooks, Peek(p) PROVE SlotsFit'
  <2>1. blocks' = blocks /\ hookTime' = hookTime /\ file' = file /\ hook[p].pc \notin Settled
    BY <1>8 DEF Peek, At, Settled
  <2>2. CASE ~EndHook(p)
    BY <1>6, <1>8, <2>1, <2>2, PeekGives
  <2> QED
    BY <1>2, <2>1, <2>2
<1>9. ASSUME NEW p \in Hooks, RegisterHook(p) \/ WaitAgain(p) PROVE SlotsFit'
  <2>1. blocks' = blocks /\ hookTime' = hookTime /\ file' = file /\ hook[p].pc \notin Settled
    BY <1>9 DEF RegisterHook, WaitAgain, At, Settled
  <2> QED
    BY <1>1, <1>2, <1>5, <1>9, <2>1 DEF RegisterHook, WaitAgain
<1>10. ASSUME NEW p \in Hooks, KillHook(p) \/ Flush(p) PROVE SlotsFit'
  BY <1>2, <1>10 DEF KillHook, Flush
<1>11. ASSUME NEW p \in Hooks, WaitEnds(p) \/ Leftover(p) PROVE SlotsFit'
  BY <1>3, <1>4, <1>11 DEF WaitEnds, Leftover
<1>12. ASSUME NEW p \in Hooks, FetchPage(p) PROVE SlotsFit'
  <2> DEFINE page == Oldest(AvailableTo, FetchLimit)
  <2>1. page \in SUBSET Letter
    BY OldestFacts DEF AvailableTo
  <2>2. Only(p) /\ hook'[p] = SortPage(p, page)
    BY <1>12, BecomeGives DEF FetchPage
  <2>3. file' = file /\ hookTime' = hookTime /\ blocks' = blocks /\ hook[p].pc \notin Settled
    BY <1>12 DEF FetchPage, At, Settled
  <2> HIDE DEF page
  <2>4. hook'[p].slot = hook[p].slot
    BY <2>1, <2>2, SortFacts
  <2> QED
    BY <1>6, <2>2, <2>3, <2>4
<1>13. ASSUME NEW p \in Hooks, FetchFails(p) PROVE SlotsFit'
  <2>1. file' = file /\ hookTime' = hookTime /\ blocks' = blocks /\ hook[p].pc \notin Settled
    BY <1>13 DEF FetchFails, At, Settled
  <2>2. Only(p) /\ hook'[p].slot = hook[p].slot
    BY <1>13, FailGives DEF FetchFails
  <2> QED
    BY <1>6, <2>1, <2>2
<1>14. ASSUME NEW p \in Hooks, Reack(p) PROVE SlotsFit'
  <2>1. file' = file /\ hookTime' = hookTime /\ blocks' = blocks /\ hook[p].pc \notin Settled
    BY <1>14 DEF Reack, At, Settled
  <2>2. Only(p) /\ hook'[p].slot = hook[p].slot
    BY <1>14, ReackGives DEF Reack
  <2> QED
    BY <1>6, <2>1, <2>2
<1>15. ASSUME NEW p \in Hooks, Unhold(p) PROVE SlotsFit'
  <2>1. file' = file /\ hookTime' = hookTime /\ blocks' = blocks /\ hook[p].pc \notin Settled
    BY <1>15 DEF Unhold, At, Settled
  <2>2. CASE Become(p, [hook[p] EXCEPT !.pc = "render", !.st = {}, !.seen = {}])
    <3>1. Only(p) /\ hook'[p].slot = hook[p].slot
      BY <2>2, RenderGives
    <3> QED
      BY <1>6, <2>1, <3>1
  <2>3. CASE Become(p, [hook[p] EXCEPT !.pc = "wait", !.seen = {}, !.heldBack = {}, !.failed = FALSE])
    <3>1. Only(p) /\ hook'[p].slot = hook[p].slot
      BY <2>3, WaitGives
    <3> QED
      BY <1>6, <2>1, <3>1
  <2>4. CASE \E d \in Outcome : Become(p, Reporting(d))
    BY <1>3, <2>1, <2>4
  <2> QED
    BY <1>4, <1>15, <2>2, <2>3, <2>4 DEF Unhold, Outcome
<1>16. ASSUME NEW p \in Hooks, Render(p) PROVE SlotsFit'
  <2>1. file' = file /\ hookTime' = hookTime /\ blocks' = blocks /\ hook[p].pc \notin Settled
    BY <1>16 DEF Render, At, Settled
  <2>2. Only(p) /\ hook'[p].slot = hook[p].slot
    BY <1>16, FillGives
  <2> QED
    BY <1>6, <2>1, <2>2
<1>17. ASSUME NEW p \in Hooks, Reserve(p) PROVE SlotsFit'
  <2>1. hookTime' = hookTime /\ blocks' = blocks /\ hook[p].pc = "reserve" /\ hook[p].pc \notin Settled
    BY <1>17 DEF Reserve, At, Settled
  <2>2. ASSUME NEW no \in 1..SlotNumbers, Cardinality(Prune(file.conts, hook[p].now)) < MaxContinue, NextNumber(no),
               file' = [file EXCEPT !.conts = Prune(file.conts, hook[p].now) \cup {NewSlot(hook[p].now, no)}],
               Become(p, [hook[p] EXCEPT !.pc = "write", !.now = 0, !.slot = NewSlot(hook[p].now, no)])
        PROVE  SlotsFit'
    BY <2>1, <2>2, SlotsGrow
  <2>3. CASE file' = [file EXCEPT !.conts = Prune(file.conts, hook[p].now)]
        /\ Become(p, [hook[p] EXCEPT !.pc = "write", !.now = 0, !.capped = TRUE])
    <3>1. Only(p) /\ Slackens(p)
      BY <2>1, <2>3, CappedGives DEF Slackens
    <3>2. file.conts' = Prune(file.conts, hook[p].now)
      BY <2>3, FileFacts
    <3>3. IsFiniteSet(Prune(file.conts, hook[p].now))
      BY FS_Subset DEF Prune, SlotsFit
    <3>4. ASSUME NEW c \in file.conts, hookTime - Window < c.at PROVE c \in Prune(file.conts, hook[p].now)
      <4>1. c.at \in Nat /\ hook[p].now \in Nat /\ hook[p].now <= hookTime
        BY <2>1, SlotTypes DEF ClockFits
      <4>2. c.at > hook[p].now - Window
        BY <3>4, <4>1, SlotTypes
      <4> QED
        BY <4>2 DEF Prune
    <3> QED
      BY <2>1, <3>1, <3>2, <3>3, <3>4, SlotsShrink
  <2>4. CASE UNCHANGED file /\ Become(p, [hook[p] EXCEPT !.pc = "write", !.now = 0])
    BY <1>6, <2>1, <2>4, MissGives DEF Moves
  <2> QED
    BY <1>17, <2>2, <2>3, <2>4 DEF Reserve
<1>18. ASSUME NEW p \in Hooks, WriteReply(p) PROVE SlotsFit'
  <2>1. file' = file /\ hookTime' = hookTime /\ hook[p].pc \notin Settled
    BY <1>18 DEF WriteReply, At, Settled
  <2>2. CASE blocks' = blocks \cup ({hook[p].slot} \ {NoSlot}) /\ Become(p, [hook[p] EXCEPT !.pc = "remember"])
    BY <2>1, <2>2, SlotsReach
  <2>3. CASE /\ blocks' = blocks
             /\ \E d : Become(p, [hook[p] EXCEPT !.pc = "giveback", !.left = hook[p].used \cup hook[p].left, !.used = {}, !.diag = d])
    <3>1. Only(p) /\ hook'[p].slot = hook[p].slot
      BY <2>3, LostGives
    <3> QED
      BY <1>6, <2>1, <2>3, <3>1
  <2> QED
    BY <1>18, <2>2, <2>3 DEF WriteReply
<1>19. ASSUME NEW p \in Hooks, Giveback(p) PROVE SlotsFit'
  <2>1. file' = file /\ hookTime' = hookTime /\ blocks' = blocks /\ hook[p].pc \notin Settled
    BY <1>19 DEF Giveback, At, Settled
  <2>2. CASE Become(p, [hook[p] EXCEPT !.pc = "refund", !.left = {}])
    <3>1. Only(p) /\ hook'[p].slot = hook[p].slot
      BY <2>2, RefundGives
    <3> QED
      BY <1>6, <2>1, <3>1
  <2>3. CASE Become(p, Reporting(hook[p].diag))
    BY <1>3, <1>4, <2>1, <2>3
  <2> QED
    BY <1>19, <2>2, <2>3 DEF Giveback
<1>20. ASSUME NEW p \in Hooks, Refund(p) PROVE SlotsFit'
  <2>1. hookTime' = hookTime /\ blocks' = blocks /\ hook[p].pc = "refund" /\ Become(p, Reporting(hook[p].diag))
    BY <1>20 DEF Refund, At
  <2>2. CASE file' = file
    BY <1>3, <1>4, <2>1, <2>2
  <2>3. CASE file' = [file EXCEPT !.conts = file.conts \ {hook[p].slot}]
    <3>1. Only(p) /\ hook'[p].slot = NoSlot
      BY <1>4, <2>1, ReportGives DEF Empty
    <3>2. file.conts' = file.conts \ {hook[p].slot}
      BY <2>3, FileFacts
    <3>3. IsFiniteSet(file.conts')
      BY <3>2, FS_Subset DEF SlotsFit
    <3>4. ASSUME hook[p].slot \in Pledged' PROVE FALSE
      <4>1. hook[p].slot \notin blocks
        BY <2>1 DEF SlotsFit
      <4>2. PICK q \in Hooks : hook'[q].slot = hook[p].slot /\ hook[p].slot # NoSlot
        BY <2>1, <3>4, <4>1 DEF Pledged
      <4>3. q # p /\ hook[q].slot = hook[p].slot
        BY <3>1, <4>2 DEF Only
      <4> QED
        BY <4>2, <4>3 DEF SlotsFit
    <3>5. \A c \in file.conts : c \in Pledged' => c \in file.conts'
      BY <3>2, <3>4
    <3> QED
      BY <2>1, <3>1, <3>3, <3>5, SlotsShrink DEF Slackens
  <2> QED
    BY <1>20, <2>2, <2>3 DEF Refund
<1>21. ASSUME NEW p \in Hooks, Remember(p) PROVE SlotsFit'
  <2>1. /\ hookTime' = hookTime /\ blocks' = blocks /\ Become(p, [hook[p] EXCEPT !.pc = "ack"])
        /\ file.conts' = file.conts
    BY <1>21, FileFacts DEF Remember
  <2>2. Only(p) /\ Slackens(p)
    BY <1>5, <2>1 DEF Settled
  <2>3. IsFiniteSet(file.conts)
    BY DEF SlotsFit
  <2> QED
    BY <2>1, <2>2, <2>3, SlotsShrink
<1>22. ASSUME NEW p \in Hooks, AckShown(p) PROVE SlotsFit'
  <2>1. \E d : Become(p, [hook[p] EXCEPT !.pc = "leftover", !.diag = d])
    BY <1>22 DEF AckShown
  <2>2. Only(p) /\ Slackens(p)
    BY <2>1, AckGives DEF Slackens, Settled
  <2> QED
    BY <1>1, <1>22, <2>2 DEF AckShown
<1>23. CASE HookTick \/ \E m \in Letter : Arrive(m) \/ LeaseEnds(m)
  <2>1. hook' = hook /\ file' = file /\ blocks' = blocks /\ (hookTime' = hookTime \/ hookTime' = hookTime + 1)
    BY <1>23 DEF HookTick, Arrive, LeaseEnds
  <2>2. Pledged' = Pledged /\ \A t : Pledges(t)' = Pledges(t)
    BY <2>1 DEF Pledged, Pledges
  <2>3. \A c \in Pledged' : hookTime' - Window < c.at => c \in file.conts'
    <3>1. ASSUME NEW c \in Pledged, hookTime' - Window < c.at PROVE hookTime - Window < c.at
      <4>1. c.at \in Nat
        BY SlotTypes
      <4> QED
        BY <2>1, <3>1, <4>1, SlotTypes
    <3> QED
      BY <2>1, <2>2, <3>1 DEF SlotsFit
  <2> QED
    BY <2>1, <2>2, <2>3 DEF SlotsFit
<1> QED
  BY HookNextCases, <1>7, <1>8, <1>9, <1>10, <1>11, <1>12, <1>13, <1>14, <1>15, <1>16, <1>17, <1>18, <1>19, <1>20,
        <1>21, <1>22, <1>23

\* A clock is read right before the wait, which ends in time.
LEMMA ClockStep ==
  ASSUME HookTypeOK, ClockFits, HookNext
  PROVE  ClockFits'
<1>1. ASSUME NEW p \in Hooks, Only(p), hookTime' = hookTime, hook'[p].pc # "reserve" PROVE ClockFits'
  BY <1>1 DEF ClockFits, Only
<1>2. ASSUME NEW p \in Hooks, EndHook(p), hookTime' = hookTime PROVE ClockFits'
  BY <1>1, <1>2, EndGives
<1>3. ASSUME NEW p \in Hooks, NEW d \in Outcome, Become(p, Reporting(d)), hookTime' = hookTime PROVE ClockFits'
  BY <1>1, <1>3, ReportGives
<1>4. ASSUME NEW p \in Hooks, NEW pc, Become(p, [hook[p] EXCEPT !.pc = pc]), pc # "reserve", hookTime' = hookTime
      PROVE  ClockFits'
  BY <1>1, <1>4, MoveGives DEF Moves
<1>5. ASSUME NEW p \in Hooks PROVE hook[p].diag \in Outcome
  BY DEF HookTypeOK, Hook
<1>7. ASSUME NEW p \in Hooks, NEW e, NEW mode, NEW a, StartHook(p, e, mode, a) PROVE ClockFits'
  <2>1. Only(p) /\ hook'[p].pc = "peek" /\ hookTime' = hookTime
    BY <1>7, StartGives DEF StartHook
  <2> QED
    BY <1>1, <2>1
<1>8. ASSUME NEW p \in Hooks, Peek(p) PROVE ClockFits'
  <2>1. hookTime' = hookTime
    BY <1>8 DEF Peek
  <2> QED
    BY <1>1, <1>2, <1>8, <2>1, PeekGives
<1>9. ASSUME NEW p \in Hooks, RegisterHook(p) \/ WaitAgain(p) \/ Remember(p) PROVE ClockFits'
  BY <1>2, <1>4, <1>9 DEF RegisterHook, WaitAgain, Remember
<1>10. ASSUME NEW p \in Hooks, KillHook(p) \/ Flush(p) PROVE ClockFits'
  BY <1>2, <1>10 DEF KillHook, Flush
<1>11. ASSUME NEW p \in Hooks, WaitEnds(p) \/ Leftover(p) \/ Refund(p) PROVE ClockFits'
  BY <1>3, <1>5, <1>11 DEF WaitEnds, Leftover, Refund
<1>12. ASSUME NEW p \in Hooks, FetchPage(p) PROVE ClockFits'
  <2> DEFINE page == Oldest(AvailableTo, FetchLimit)
  <2>1. page \in SUBSET Letter
    BY OldestFacts DEF AvailableTo
  <2>2. Only(p) /\ hook'[p] = SortPage(p, page) /\ hookTime' = hookTime
    BY <1>12, BecomeGives DEF FetchPage
  <2> HIDE DEF page
  <2>3. hook'[p].pc = "reack"
    BY <2>1, <2>2, SortFacts
  <2> QED
    BY <1>1, <2>2, <2>3
<1>13. ASSUME NEW p \in Hooks, FetchFails(p) PROVE ClockFits'
  <2>1. Only(p) /\ hook'[p].pc = "unhold" /\ hookTime' = hookTime
    BY <1>13, FailGives DEF FetchFails
  <2> QED
    BY <1>1, <2>1
<1>14. ASSUME NEW p \in Hooks, Reack(p) PROVE ClockFits'
  <2>1. Only(p) /\ hook'[p].pc \in {"fetch", "unhold"} /\ hookTime' = hookTime
    BY <1>14, ReackGives DEF Reack
  <2> QED
    BY <1>1, <2>1
<1>15. ASSUME NEW p \in Hooks, Unhold(p) PROVE ClockFits'
  <2>1. hookTime' = hookTime
    BY <1>15 DEF Unhold
  <2>2. CASE Become(p, [hook[p] EXCEPT !.pc = "render", !.st = {}, !.seen = {}])
    BY <1>1, <2>1, <2>2, RenderGives
  <2>3. CASE Become(p, [hook[p] EXCEPT !.pc = "wait", !.seen = {}, !.heldBack = {}, !.failed = FALSE])
    BY <1>1, <2>1, <2>3, WaitGives
  <2>4. CASE \E d \in Outcome : Become(p, Reporting(d))
    BY <1>3, <2>1, <2>4
  <2> QED
    BY <1>5, <1>15, <2>2, <2>3, <2>4 DEF Unhold, Outcome
<1>16. ASSUME NEW p \in Hooks, Render(p) PROVE ClockFits'
  <2>1. hookTime' = hookTime /\ hookTime \in Nat /\ LockWait \in Nat
    BY <1>16, HookConstants DEF Render, HookTypeOK
  <2>2. Only(p) /\ (hook'[p].pc = "reserve" => hook'[p].now = hookTime)
    BY <1>16, FillGives
  <2>3. hookTime <= hookTime + LockWait
    BY <2>1
  <2> QED
    BY <2>1, <2>2, <2>3 DEF ClockFits, Only
<1>17. ASSUME NEW p \in Hooks, Reserve(p) PROVE ClockFits'
  <2>1. \/ \E s : Become(p, [hook[p] EXCEPT !.pc = "write", !.now = 0, !.slot = s])
        \/ Become(p, [hook[p] EXCEPT !.pc = "write", !.now = 0, !.capped = TRUE])
        \/ Become(p, [hook[p] EXCEPT !.pc = "write", !.now = 0])
    BY <1>17 DEF Reserve
  <2>2. Only(p) /\ hook'[p].pc = "write" /\ hookTime' = hookTime
    BY <1>17, <2>1, SlotGives, CappedGives, MissGives DEF Moves, Reserve
  <2> QED
    BY <1>1, <2>2
<1>18. ASSUME NEW p \in Hooks, WriteReply(p) PROVE ClockFits'
  <2>1. \/ Become(p, [hook[p] EXCEPT !.pc = "remember"])
        \/ \E d : Become(p, [hook[p] EXCEPT !.pc = "giveback", !.left = hook[p].used \cup hook[p].left, !.used = {}, !.diag = d])
    BY <1>18 DEF WriteReply
  <2>2. hookTime' = hookTime
    BY <1>18 DEF WriteReply
  <2> QED
    BY <1>1, <1>4, <2>1, <2>2, LostGives
<1>19. ASSUME NEW p \in Hooks, Giveback(p) PROVE ClockFits'
  <2>1. hookTime' = hookTime
    BY <1>19 DEF Giveback
  <2>2. CASE Become(p, [hook[p] EXCEPT !.pc = "refund", !.left = {}])
    BY <1>1, <2>1, <2>2, RefundGives
  <2>3. CASE Become(p, Reporting(hook[p].diag))
    BY <1>3, <1>5, <2>1, <2>3
  <2> QED
    BY <1>19, <2>2, <2>3 DEF Giveback
<1>20. ASSUME NEW p \in Hooks, AckShown(p) PROVE ClockFits'
  <2>1. (\E d : Become(p, [hook[p] EXCEPT !.pc = "leftover", !.diag = d])) /\ hookTime' = hookTime
    BY <1>20 DEF AckShown
  <2> QED
    BY <1>1, <2>1, AckGives
<1>21. CASE HookTick
  <2>1. hook' = hook /\ hookTime' = hookTime + 1 /\ hookTime \in Nat /\ LockWait \in Nat
    BY <1>21, HookConstants DEF HookTick, HookTypeOK
  <2>2. ASSUME NEW p \in Hooks, hook[p].pc = "reserve"
        PROVE  hook[p].now \in Nat /\ hook[p].now <= hookTime' /\ hookTime' <= hook[p].now + LockWait
    <3>1. hook[p].now \in Nat /\ hook[p].now <= hookTime /\ hookTime < hook[p].now + LockWait
      BY <1>21, <2>2 DEF ClockFits, HookTick, At
    <3> QED
      BY <2>1, <3>1
  <2> QED
    BY <2>1, <2>2 DEF ClockFits
<1>22. CASE \E m \in Letter : Arrive(m) \/ LeaseEnds(m)
  BY <1>22 DEF ClockFits, Arrive, LeaseEnds
<1> QED
  BY HookNextCases, <1>7, <1>8, <1>9, <1>10, <1>11, <1>12, <1>13, <1>14, <1>15, <1>16, <1>17, <1>18, <1>19, <1>20,
        <1>21, <1>22

-----------------------------------------------------------------------------
(* Leases come back *)

Scans == {"peek", "register", "wait", "fetch", "reack"}
Sees(h, m) == h.pc \in Scans /\ m \in h.seen

\* Leases are kept by those who will give them back.
LEMMA LeasesKept ==
  ASSUME HookTypeOK', LeasesFit, faulty = 0, NEW p \in Hooks, Only(p),
         \A m \in Letter : box'[m].live => box'[m] = box[m] \/ (box'[m].by = p /\ m \in Keeps(hook'[p])),
         \A m \in Letter : box'[m] = box[m] /\ box[m].live /\ box[m].by = p /\ m \in Keeps(hook[p])
               => m \in Keeps(hook'[p]),
         \A m \in Letter : box[m].st = "acked" => box'[m].st = "acked",
         \A m \in Letter : box'[m] = box[m] \/ box'[m].st = "acked" \/ ~box[m].live \/ box[m].by = p,
         \A m \in Letter : Sees(hook'[p], m) => box'[m].st = "acked" \/ (box'[m].live /\ box'[m].by = p)
  PROVE  LeasesFit'
<1>1. ASSUME NEW m \in Letter, box'[m].live PROVE box'[m].by \in Hooks /\ m \in Keeps(hook'[box'[m].by])
  <2>1. CASE box'[m] = box[m]
    <3>1. box[m].live /\ box[m].by \in Hooks /\ m \in Keeps(hook[box[m].by])
      BY <1>1, <2>1 DEF LeasesFit
    <3>2. CASE box[m].by = p
      BY <2>1, <3>1, <3>2
    <3>3. CASE box[m].by # p
      <4>1. hook'[box[m].by] = hook[box[m].by]
        BY <3>1, <3>3 DEF Only
      <4> QED
        BY <2>1, <3>1, <4>1
    <3> QED
      BY <3>2, <3>3
  <2>2. CASE box'[m].by = p /\ m \in Keeps(hook'[p])
    BY <2>2
  <2> QED
    BY <1>1, <2>1, <2>2
<1>2. ASSUME NEW q \in Hooks, NEW m \in Letter, Sees(hook'[q], m) PROVE box'[m].st = "acked"
      \/ (box'[m].live /\ box'[m].by = q)
  <2>1. CASE q = p
    BY <1>2, <2>1
  <2>2. CASE q # p
    <3>1. Sees(hook[q], m)
      BY <1>2, <2>2 DEF Only
    <3>2. box[m].st = "acked" \/ (box[m].live /\ box[m].by = q)
      BY <3>1 DEF LeasesFit, Sees, Scans
    <3> QED
      BY <2>2, <3>2
  <2> QED
    BY <2>1, <2>2
<1>3. \A q \in Hooks : hook'[q].pc \in Scans =>
         \A m \in Letter : m \in hook'[q].seen => box'[m].st = "acked" \/ (box'[m].live /\ box'[m].by = q)
  BY <1>2 DEF Sees
<1>4. \A q \in Hooks : hook'[q].pc \in Scans =>
         \A m \in hook'[q].seen : box'[m].st = "acked" \/ (box'[m].live /\ box'[m].by = q)
  BY <1>3 DEF HookTypeOK, Hook
<1> QED
  BY <1>1, <1>4 DEF LeasesFit, Scans

\* Rows after a release, an acknowledgement and the end of a process.
LEMMA RowChanges ==
  ASSUME HookTypeOK, BoxFits, NEW p \in Hooks, NEW S, NEW m \in Letter
  PROVE  /\ box' = ReleaseOf(p, S) =>
              /\ box'[m] = box[m] \/ (box[m].by = p /\ ~box'[m].live)
              /\ box[m].st = "acked" => box'[m].st = "acked"
              /\ box'[m] = box[m] /\ box[m].live /\ box[m].by = p => m \notin S
         /\ box' = AckOf(p, S) =>
              /\ box'[m] = box[m] \/ (box'[m].st = "acked" /\ ~box'[m].live)
              /\ box'[m] = box[m] /\ box[m].live /\ box[m].by = p => m \notin S
<1>1. CASE m \in OwnedBy(p, S)
  <2>1. m \in S /\ box[m].by = p /\ box[m].live /\ box[m].st = "unread"
    BY <1>1 DEF OwnedBy
  <2>2. ReleaseOf(p, S)[m] = [st |-> "unread", by |-> NoHook, live |-> FALSE]
    BY <1>1 DEF ReleaseOf
  <2>3. AckOf(p, S)[m] = [st |-> "acked", by |-> NoHook, live |-> FALSE]
    BY <1>1 DEF AckOf
  <2> QED
    BY <2>1, <2>2, <2>3
<1>2. CASE m \notin OwnedBy(p, S)
  <2>1. ReleaseOf(p, S)[m] = box[m] /\ AckOf(p, S)[m] = box[m]
    BY <1>2 DEF ReleaseOf, AckOf
  <2>2. box[m].live /\ box[m].by = p => m \notin S
    BY <1>2 DEF OwnedBy, BoxFits
  <2> QED
    BY <2>1, <2>2
<1> QED
  BY <1>1, <1>2

\* A step that leaves the inbox alone, ...
LEMMA LeasesStill ==
  ASSUME HookTypeOK', LeasesFit, faulty = 0, NEW p \in Hooks, Only(p), box' = box,
         \A m \in Letter : m \in Keeps(hook[p]) => m \in Keeps(hook'[p]),
         \A m \in Letter : Sees(hook'[p], m) => Sees(hook[p], m)
  PROVE  LeasesFit'
<1>1. \A m \in Letter : Sees(hook'[p], m) => box'[m].st = "acked" \/ (box'[m].live /\ box'[m].by = p)
  BY DEF LeasesFit, Sees, Scans
<1> QED
  BY <1>1, LeasesKept

\* ... one that releases letters, ...
LEMMA LeasesReleased ==
  ASSUME HookTypeOK, HookTypeOK', BoxFits, LeasesFit, faulty = 0, NEW p \in Hooks, Only(p), NEW S, box' = ReleaseOf(p, S),
         \A m \in Letter : m \in Keeps(hook[p]) => m \in S \/ m \in Keeps(hook'[p]),
         \A m \in Letter : ~Sees(hook'[p], m)
  PROVE  LeasesFit'
<1>1. ASSUME NEW m \in Letter
      PROVE  /\ box'[m] = box[m] \/ (box[m].by = p /\ ~box'[m].live)
             /\ box[m].st = "acked" => box'[m].st = "acked"
             /\ box'[m] = box[m] /\ box[m].live /\ box[m].by = p => m \notin S
  BY RowChanges
<1>2. \A m \in Letter : box'[m].live => box'[m] = box[m]
  BY <1>1
<1>3. \A m \in Letter : box'[m] = box[m] /\ box[m].live /\ box[m].by = p /\ m \in Keeps(hook[p])
      => m \in Keeps(hook'[p])
  BY <1>1
<1>4. \A m \in Letter : box'[m] = box[m] \/ box[m].by = p
  BY <1>1
<1>5. \A m \in Letter : box[m].st = "acked" => box'[m].st = "acked"
  BY <1>1
<1> QED
  BY <1>2, <1>3, <1>4, <1>5, LeasesKept

\* ... one that acknowledges them, ...
LEMMA LeasesAcked ==
  ASSUME HookTypeOK, HookTypeOK', BoxFits, LeasesFit, faulty = 0, NEW p \in Hooks, Only(p), NEW S, box' = AckOf(p, S),
         \A m \in Letter : m \in Keeps(hook[p]) => m \in S \/ m \in Keeps(hook'[p]),
         \A m \in Letter : Sees(hook'[p], m) => Sees(hook[p], m)
  PROVE  LeasesFit'
<1>1. ASSUME NEW m \in Letter
      PROVE  /\ box'[m] = box[m] \/ (box'[m].st = "acked" /\ ~box'[m].live)
             /\ box'[m] = box[m] /\ box[m].live /\ box[m].by = p => m \notin S
  BY RowChanges
<1>2. \A m \in Letter : box'[m].live => box'[m] = box[m]
  BY <1>1
<1>3. \A m \in Letter : box'[m] = box[m] /\ box[m].live /\ box[m].by = p /\ m \in Keeps(hook[p])
      => m \in Keeps(hook'[p])
  BY <1>1
<1>4. \A m \in Letter : box'[m] = box[m] \/ box'[m].st = "acked"
  BY <1>1
<1>5. \A m \in Letter : box[m].st = "acked" => box'[m].st = "acked"
  BY <1>4
<1>6. \A m \in Letter : Sees(hook'[p], m) => box[m].st = "acked" \/ (box[m].live /\ box[m].by = p)
  BY DEF LeasesFit, Sees, Scans
<1>7. \A m \in Letter : Sees(hook'[p], m) => box'[m].st = "acked" \/ (box'[m].live /\ box'[m].by = p)
  BY <1>4, <1>6
<1> QED
  BY <1>2, <1>3, <1>4, <1>5, <1>7, LeasesKept

\* ... and the end of a hook that has none.
LEMMA LeasesEnd ==
  ASSUME HookTypeOK, HookTypeOK', LeasesFit, faulty = 0, NEW p \in Hooks, EndHook(p), hook[p].pc \in {"peek", "flush"}
  PROVE  LeasesFit'
<1>1. Only(p) /\ hook'[p].pc = "idle"
  BY EndGives
<1>2. \A m : m \notin Keeps(hook[p])
  BY DEF Keeps, InHand
<1>3. \A m \in Letter : box[m].live => box[m].by # p
  BY <1>2 DEF LeasesFit
<1>4. \A m \in Letter : box[m].by # p => box'[m] = box[m]
  BY DEF EndHook
<1>5. \A m \in Letter : box'[m].live = box[m].live /\ box'[m].st = box[m].st
  BY EndFacts
<1>6. \A m \in Letter : ~Sees(hook'[p], m)
  BY <1>1 DEF Sees, Scans
<1>7. \A m \in Letter : box'[m].live => box'[m] = box[m]
  BY <1>3, <1>4, <1>5
<1>8. \A m \in Letter : box'[m] = box[m] \/ ~box[m].live
  BY <1>3, <1>4
<1> QED
  BY <1>1, <1>2, <1>5, <1>6, <1>7, <1>8, LeasesKept

\* Every letter of a page is in hand afterwards.
LEMMA LeasesFetched ==
  ASSUME HookTypeOK, HookTypeOK', ShapeFits, LeasesFit, faulty = 0, NEW p \in Hooks, FetchPage(p)
  PROVE  LeasesFit'
<1> DEFINE page == Oldest(AvailableTo, FetchLimit)
<1>1. page \in SUBSET Letter /\ \A m \in page : box[m].st = "unread" /\ ~box[m].live
  BY OldestFacts DEF AvailableTo
<1>2. Only(p) /\ hook'[p] = SortPage(p, page) /\ box' = LeaseTo(p, page) /\ hook[p].pc = "fetch"
  BY BecomeGives DEF FetchPage, At
<1> HIDE DEF page
<1>3. /\ hook'[p].pc = "reack" /\ hook'[p].seen = hook[p].seen \cup page
      /\ hook'[p].reack = (page \ hook[p].seen) \cap hook[p].st
      /\ hook'[p].heldBack = hook[p].heldBack \cup (((page \ hook[p].seen) \cap Held) \ hook[p].st)
      /\ hook'[p].used = (page \ hook[p].seen) \ (hook[p].st \cup Held)
  BY <1>1, <1>2, SortFacts
<1>4. \A m \in Letter : m \in hook[p].seen => box[m].st = "acked" \/ (box[m].live /\ box[m].by = p)
  BY <1>2 DEF LeasesFit
<1>5. \A m \in page : m \in hook'[p].reack \cup hook'[p].heldBack \cup hook'[p].used
  BY <1>1, <1>3, <1>4
<1>6. \A m \in page : m \in Keeps(hook'[p])
  BY <1>1, <1>3, <1>5 DEF Keeps, InHand
<1>7. \A m \in Letter : m \in Keeps(hook[p]) => m \in Keeps(hook'[p])
  BY <1>2, <1>3 DEF Keeps, InHand
<1>8. \A m \in page : box'[m] = [st |-> "unread", by |-> p, live |-> TRUE]
  BY <1>1, <1>2 DEF LeaseTo
<1>9. \A m \in Letter : m \notin page => box'[m] = box[m]
  BY <1>2 DEF LeaseTo
<1>10. \A m \in Letter : box'[m].live => box'[m] = box[m] \/ (box'[m].by = p /\ m \in Keeps(hook'[p]))
  BY <1>6, <1>8, <1>9
<1>11. \A m \in Letter : box[m].st = "acked" => box'[m].st = "acked"
  BY <1>1, <1>9
<1>12. \A m \in Letter : box'[m] = box[m] \/ ~box[m].live
  BY <1>1, <1>9
<1>13. \A m \in Letter : Sees(hook'[p], m) => box'[m].st = "acked" \/ (box'[m].live /\ box'[m].by = p)
  <2>1. ASSUME NEW m \in Letter, m \in hook'[p].seen PROVE box'[m].st = "acked" \/ (box'[m].live /\ box'[m].by = p)
    <3>1. CASE m \in page
      BY <1>8, <3>1
    <3>2. CASE m \notin page
      BY <1>3, <1>4, <1>9, <2>1, <3>2
    <3> QED
      BY <3>1, <3>2
  <2> QED
    BY <2>1 DEF Sees
<1> QED
  BY <1>2, <1>7, <1>10, <1>11, <1>12, <1>13, LeasesKept

\* Without a fault, every lease has somebody who will give it back.
LEMMA LeasesStep ==
  ASSUME HookTypeOK, BoxFits, ShapeFits, LeasesFit, HookNext
  PROVE  LeasesFit'
<1> SUFFICES ASSUME faulty' = 0 PROVE LeasesFit'
  BY DEF LeasesFit
<1>1. faulty = 0 /\ ~Fault /\ HookTypeOK'
  BY FaultsGrow, HookTypeStep DEF Fault
<1>2. ASSUME NEW p \in Hooks, NEW m PROVE Sees(hook[p], m) <=> hook[p].pc \in Scans /\ m \in hook[p].seen
  BY DEF Sees
<1>3. ASSUME NEW p \in Hooks, Only(p), box' = box, hook[p].pc \in {"idle", "peek", "register", "wait", "refund", "flush"},
             \A m \in Letter : Sees(hook'[p], m) => Sees(hook[p], m)
      PROVE  LeasesFit'
  <2>1. \A m \in Letter : m \notin Keeps(hook[p])
    BY <1>3 DEF Keeps, InHand
  <2> QED
    BY <1>1, <1>3, <2>1, LeasesStill
<1>4. ASSUME NEW p \in Hooks PROVE hook[p].diag \in Outcome
  BY DEF HookTypeOK, Hook
<1>5. ASSUME NEW p \in Hooks, NEW d \in Outcome, Become(p, Reporting(d))
      PROVE  Only(p) /\ hook'[p].pc = "flush" /\ \A m \in Letter : ~Sees(hook'[p], m)
  BY <1>5, ReportGives DEF Empty, Sees
<1>6. ASSUME NEW p \in Hooks, NEW e, NEW mode, NEW a, StartHook(p, e, mode, a) PROVE LeasesFit'
  <2>1. Only(p) /\ hook'[p].seen = {} /\ hook[p].pc = "idle" /\ box' = box
    BY <1>6, StartGives DEF Empty, StartHook
  <2> QED
    BY <1>3, <2>1 DEF Sees
<1>7. ASSUME NEW p \in Hooks, Peek(p) PROVE LeasesFit'
  <2>1. hook[p].pc = "peek"
    BY <1>7, PeekGives
  <2>2. CASE ~EndHook(p)
    <3>1. Only(p) /\ hook'[p].seen = hook[p].seen /\ box' = box
      BY <1>7, <2>2, PeekGives
    <3> QED
      BY <1>3, <2>1, <3>1 DEF Sees, Scans
  <2>3. CASE EndHook(p)
    BY <1>1, <2>1, <2>3, LeasesEnd
  <2> QED
    BY <2>2, <2>3
<1>8. ASSUME NEW p \in Hooks, RegisterHook(p) \/ WaitAgain(p) PROVE LeasesFit'
  <2>1. hook[p].pc \in {"register", "wait"} /\ box' = box /\ Become(p, [hook[p] EXCEPT !.pc = "fetch"])
    BY <1>1, <1>8 DEF RegisterHook, WaitAgain, At
  <2>2. Only(p) /\ hook'[p].seen = hook[p].seen
    BY <2>1, MoveGives DEF Moves
  <2> QED
    BY <1>3, <2>1, <2>2 DEF Sees, Scans
<1>9. ASSUME NEW p \in Hooks, KillHook(p) \/ FetchFails(p) PROVE LeasesFit'
  BY <1>1, <1>9 DEF KillHook, FetchFails
<1>10. ASSUME NEW p \in Hooks, Flush(p) PROVE LeasesFit'
  <2>1. EndHook(p) /\ hook[p].pc = "flush"
    BY <1>10 DEF Flush, At
  <2> QED
    BY <1>1, <2>1, LeasesEnd
<1>11. ASSUME NEW p \in Hooks, WaitEnds(p) \/ Refund(p) PROVE LeasesFit'
  <2>1. hook[p].pc \in {"wait", "refund"} /\ box' = box /\ Become(p, Reporting(hook[p].diag))
    BY <1>11 DEF WaitEnds, Refund, At
  <2> QED
    BY <1>3, <1>4, <1>5, <2>1
<1>12. ASSUME NEW p \in Hooks, FetchPage(p) PROVE LeasesFit'
  BY <1>1, <1>12, LeasesFetched
<1>13. ASSUME NEW p \in Hooks, Reack(p) PROVE LeasesFit'
  <2>1. /\ Only(p) /\ hook'[p].used = hook[p].used /\ hook'[p].heldBack = hook[p].heldBack
        /\ hook'[p].seen = hook[p].seen
        /\ hook'[p].pc = (IF hook[p].more THEN "fetch" ELSE "unhold")
    BY <1>13, ReackGives DEF Reack
  <2>2. hook[p].pc = "reack" /\ box' = AckOf(p, hook[p].reack)
    BY <1>1, <1>13 DEF Reack, AckLost, At
  <2>3. \A m \in Letter : m \in Keeps(hook[p]) => m \in hook[p].reack \/ m \in Keeps(hook'[p])
    <3>1. CASE hook[p].more
      BY <2>1, <2>2, <3>1 DEF Keeps, InHand, ShapeFits
    <3>2. CASE ~hook[p].more
      BY <2>1, <2>2, <3>2 DEF Keeps, InHand
    <3> QED
      BY <3>1, <3>2
  <2>4. \A m \in Letter : Sees(hook'[p], m) => Sees(hook[p], m)
    BY <2>1, <2>2 DEF Sees, Scans
  <2> QED
    BY <1>1, <2>1, <2>2, <2>3, <2>4, LeasesAcked
<1>14. ASSUME NEW p \in Hooks, Unhold(p) PROVE LeasesFit'
  <2>1. hook[p].pc = "unhold" /\ box' = ReleaseOf(p, hook[p].heldBack)
    BY <1>1, <1>14 DEF Unhold, Released, At
  <2>2. \A m \in Letter : m \in Keeps(hook[p]) => m \in hook[p].heldBack \/ m \in hook[p].used
    BY <2>1 DEF Keeps, InHand
  <2>3. CASE hook[p].used # {}
    <3>1. Become(p, [hook[p] EXCEPT !.pc = "render", !.st = {}, !.seen = {}])
      BY <1>14, <2>3 DEF Unhold
    <3>2. Only(p) /\ hook'[p].pc = "render" /\ hook'[p].used = hook[p].used /\ hook'[p].seen = {}
      BY <3>1, RenderGives
    <3>3. \A m \in Letter : m \in hook[p].used => m \in Keeps(hook'[p])
      BY <3>2 DEF Keeps, InHand
    <3> QED
      BY <1>1, <2>1, <2>2, <3>2, <3>3, LeasesReleased DEF Sees
  <2>4. CASE hook[p].used = {}
    <3>1. Only(p) /\ hook'[p].seen = {}
      <4>1. CASE Become(p, [hook[p] EXCEPT !.pc = "wait", !.seen = {}, !.heldBack = {}, !.failed = FALSE])
        BY <4>1, WaitGives
      <4>2. ASSUME NEW d \in Outcome, Become(p, Reporting(d)) PROVE Only(p) /\ hook'[p].seen = {}
        BY <4>2, ReportGives DEF Empty
      <4> QED
        BY <1>4, <1>14, <2>4, <4>1, <4>2 DEF Unhold, Outcome
    <3> QED
      BY <1>1, <2>1, <2>2, <2>4, <3>1, LeasesReleased DEF Sees
  <2> QED
    BY <2>3, <2>4
<1>15. ASSUME NEW p \in Hooks, Render(p) PROVE LeasesFit'
  <2>1. /\ Only(p) /\ hook[p].pc = "render" /\ box' = box /\ hook'[p].used \cup hook'[p].left = hook[p].used
        /\ hook'[p].pc \in {"reserve", "write"}
    BY <1>1, <1>15, FillGives
  <2>2. \A m \in Letter : m \in Keeps(hook[p]) => m \in hook[p].used
    BY <2>1 DEF Keeps, InHand
  <2>3. \A m \in Letter : m \in hook[p].used => m \in Keeps(hook'[p])
    BY <2>1 DEF Keeps, InHand
  <2> QED
    BY <1>1, <2>1, <2>2, <2>3, LeasesStill DEF Sees, Scans
<1>16. ASSUME NEW p \in Hooks, Reserve(p) PROVE LeasesFit'
  <2>1. \/ \E s : Become(p, [hook[p] EXCEPT !.pc = "write", !.now = 0, !.slot = s])
        \/ Become(p, [hook[p] EXCEPT !.pc = "write", !.now = 0, !.capped = TRUE])
        \/ Become(p, [hook[p] EXCEPT !.pc = "write", !.now = 0])
    BY <1>16 DEF Reserve
  <2>2. Only(p) /\ hook'[p].used = hook[p].used /\ hook'[p].left = hook[p].left /\ hook'[p].pc = "write"
    BY <2>1, SlotGives, CappedGives, MissGives, MoveGives DEF Moves
  <2>3. hook[p].pc = "reserve" /\ box' = box
    BY <1>16 DEF Reserve, At
  <2>4. \A m \in Letter : m \in Keeps(hook[p]) => m \in Keeps(hook'[p])
    BY <2>2, <2>3 DEF Keeps, InHand
  <2> QED
    BY <1>1, <2>2, <2>3, <2>4, LeasesStill DEF Sees, Scans
<1>17. ASSUME NEW p \in Hooks, WriteReply(p) PROVE LeasesFit'
  <2>1. hook[p].pc = "write" /\ box' = box
    BY <1>17 DEF WriteReply, At
  <2>2. \A m \in Letter : m \in Keeps(hook[p]) => m \in hook[p].used \/ m \in hook[p].left
    BY <2>1 DEF Keeps, InHand
  <2>3. CASE Become(p, [hook[p] EXCEPT !.pc = "remember"])
    <3>1. Only(p) /\ hook'[p].used = hook[p].used /\ hook'[p].left = hook[p].left /\ hook'[p].pc = "remember"
      BY <2>3, MoveGives DEF Moves
    <3>2. \A m \in Letter : m \in hook[p].used \/ m \in hook[p].left => m \in Keeps(hook'[p])
      BY <3>1 DEF Keeps
    <3> QED
      BY <1>1, <2>1, <2>2, <3>1, <3>2, LeasesStill DEF Sees, Scans
  <2>4. CASE \E d : Become(p, [hook[p] EXCEPT !.pc = "giveback", !.left = hook[p].used \cup hook[p].left, !.used = {}, !.diag = d])
    <3>1. Only(p) /\ hook'[p].pc = "giveback" /\ hook'[p].left = hook[p].used \cup hook[p].left
      BY <2>4, LostGives
    <3>2. \A m \in Letter : m \in hook[p].used \/ m \in hook[p].left => m \in Keeps(hook'[p])
      BY <3>1 DEF Keeps
    <3> QED
      BY <1>1, <2>1, <2>2, <3>1, <3>2, LeasesStill DEF Sees, Scans
  <2> QED
    BY <1>17, <2>3, <2>4 DEF WriteReply
<1>18. ASSUME NEW p \in Hooks, Giveback(p) PROVE LeasesFit'
  <2>1. hook[p].pc = "giveback" /\ box' = ReleaseOf(p, hook[p].left)
    BY <1>1, <1>18 DEF Giveback, Released, At
  <2>2. \A m \in Letter : m \in Keeps(hook[p]) => m \in hook[p].left
    BY <2>1 DEF Keeps, InHand
  <2>3. Only(p) /\ \A m \in Letter : ~Sees(hook'[p], m)
    <3>1. CASE Become(p, [hook[p] EXCEPT !.pc = "refund", !.left = {}])
      BY <3>1, RefundGives DEF Sees, Scans
    <3>2. CASE Become(p, Reporting(hook[p].diag))
      BY <1>4, <1>5, <3>2
    <3> QED
      BY <1>18, <3>1, <3>2 DEF Giveback
  <2> QED
    BY <1>1, <2>1, <2>2, <2>3, LeasesReleased
<1>19. ASSUME NEW p \in Hooks, Leftover(p) PROVE LeasesFit'
  <2>1. hook[p].pc = "leftover" /\ box' = ReleaseOf(p, hook[p].left) /\ Become(p, Reporting(hook[p].diag))
    BY <1>1, <1>19 DEF Leftover, Released, At
  <2>2. \A m \in Letter : m \in Keeps(hook[p]) => m \in hook[p].left
    BY <2>1 DEF Keeps, InHand
  <2>3. Only(p) /\ \A m \in Letter : ~Sees(hook'[p], m)
    BY <1>4, <1>5, <2>1
  <2> QED
    BY <1>1, <2>1, <2>2, <2>3, LeasesReleased
<1>20. ASSUME NEW p \in Hooks, Remember(p) PROVE LeasesFit'
  <2>1. hook[p].pc = "remember" /\ box' = box /\ Become(p, [hook[p] EXCEPT !.pc = "ack"])
    BY <1>20 DEF Remember, At
  <2>2. Only(p) /\ hook'[p].used = hook[p].used /\ hook'[p].left = hook[p].left /\ hook'[p].pc = "ack"
    BY <2>1, MoveGives DEF Moves
  <2>3. \A m \in Letter : m \in Keeps(hook[p]) => m \in Keeps(hook'[p])
    BY <2>1, <2>2 DEF Keeps, InHand
  <2> QED
    BY <1>1, <2>1, <2>2, <2>3, LeasesStill DEF Sees, Scans
<1>21. ASSUME NEW p \in Hooks, AckShown(p) PROVE LeasesFit'
  <2>1. hook[p].pc = "ack" /\ box' = AckOf(p, hook[p].used)
    BY <1>1, <1>21 DEF AckShown, AckLost, At
  <2>2. PICK d : Become(p, [hook[p] EXCEPT !.pc = "leftover", !.diag = d])
    BY <1>21 DEF AckShown
  <2>3. Only(p) /\ hook'[p].left = hook[p].left /\ hook'[p].pc = "leftover"
    BY <2>2, AckGives
  <2>4. \A m \in Letter : m \in Keeps(hook[p]) => m \in hook[p].used \/ m \in Keeps(hook'[p])
    BY <2>1, <2>3 DEF Keeps, InHand
  <2> QED
    BY <1>1, <2>1, <2>3, <2>4, LeasesAcked DEF Sees, Scans
<1>22. CASE HookTick
  BY <1>1, <1>22 DEF HookTick, LeasesFit, Keeps
<1>23. ASSUME NEW k \in Letter, Arrive(k) PROVE LeasesFit'
  <2>1. hook' = hook /\ box[k].st = "unsent"
    BY <1>23 DEF Arrive
  <2>2. \A m \in Letter : /\ box'[m].live = box[m].live /\ box'[m].by = box[m].by
                          /\ box[m].st = "acked" => box'[m].st = "acked"
    BY <1>23, <2>1, LeaseFacts
  <2>3. \A p \in Hooks : hook[p].seen \subseteq Letter
    BY DEF HookTypeOK, Hook
  <2>4. \A m \in Letter : box'[m].live => box'[m].by \in Hooks /\ m \in Keeps(hook'[box'[m].by])
    BY <1>1, <2>1, <2>2 DEF LeasesFit
  <2>5. \A p \in Hooks : hook'[p].pc \in Scans =>
          \A m \in hook'[p].seen : box'[m].st = "acked" \/ (box'[m].live /\ box'[m].by = p)
    BY <1>1, <2>1, <2>2, <2>3 DEF LeasesFit, Scans
  <2> QED
    BY <2>4, <2>5 DEF LeasesFit, Scans
<1>24. ASSUME NEW k \in Letter, LeaseEnds(k) PROVE LeasesFit'
  <2>1. box[k].live /\ box[k].by = NoHook
    BY <1>1, <1>24 DEF LeaseEnds
  <2> QED
    BY <1>1, <2>1, HookConstants DEF LeasesFit
<1> QED
  BY HookNextCases, <1>6, <1>7, <1>8, <1>9, <1>10, <1>11, <1>12, <1>13, <1>14, <1>15, <1>16, <1>17, <1>18, <1>19,
        <1>20, <1>21, <1>22, <1>23, <1>24

-----------------------------------------------------------------------------
(* The theorem *)

\* The invariant holds at first, ...
LEMMA HookInvInit == HookInit => HookInv
<1> SUFFICES ASSUME HookInit PROVE HookInv
  OBVIOUS
<1>1. HookTypeOK
  BY HookInitType
<1>2. /\ \A p \in Hooks : hook[p] = NewHook
      /\ \A m \in Letter : box[m].st = "unsent" /\ ~box[m].live /\ shown[m] = 0
      /\ file.conts = {} /\ file.acked = <<>> /\ blocks = {} /\ faulty = 0
  BY DEF HookInit
<1>3. \A p \in Hooks : Empty(hook[p]) /\ hook[p].pc = "idle" /\ hook[p].event = "prompt"
      /\ hook[p].diag = "waiting_for_next_prompt"
  BY <1>2, NewHookFacts DEF Empty
<1>4. BoxFits
  BY <1>2 DEF BoxFits
<1>5. ShapeFits
  BY <1>3 DEF ShapeFits, Empty
<1>6. ShownFits
  <2>1. Remembered = {}
    BY <1>2 DEF Remembered
  <2>2. \A p \in Hooks, m \in Letter : WasShown(p, m)
    BY <1>3 DEF WasShown, Empty
  <2> QED
    BY <1>2, <2>1, <2>2 DEF ShownFits, AckedWasShown
<1>7. CountsFit
  <2>1. \A m \in Letter : Bearers(m) = {}
    BY <1>3 DEF Bearers, Empty
  <2>2. ASSUME NEW m \in Letter PROVE IsFiniteSet(Bearers(m)) /\ Showings(m) = 0
    <3>1. IsFiniteSet(Bearers(m)) /\ Cardinality(Bearers(m)) = 0
      <4>1. Bearers(m) = {}
        BY <2>1
      <4> QED
        BY <4>1, FS_EmptySet
    <3>2. shown[m] = 0
      BY <1>2
    <3> QED
      BY <3>1, <3>2 DEF Showings
  <2> QED
    BY <1>2, <2>2 DEF CountsFit
<1>8. SlotsFit
  <2>1. Pledged = {}
    BY <1>2, <1>3 DEF Pledged, Empty
  <2>2. \A t : Pledges(t) = {}
    BY <2>1 DEF Pledges
  <2>3. IsFiniteSet({}) /\ Cardinality({}) = 0 /\ MaxContinue \in Nat
    BY FS_EmptySet, HookConstants
  <2> QED
    <3>1. IsFiniteSet(file.conts) /\ \A t \in 0..HookClock : IsFiniteSet(Pledges(t))
          /\ Cardinality(Pledges(t)) <= MaxContinue
      BY <1>2, <2>2, <2>3
    <3>2. \A p \in Hooks : hook[p].slot = NoSlot /\ hook[p].slot \notin blocks
      BY <1>2, <1>3 DEF Empty
    <3> QED
      BY <2>1, <3>1, <3>2 DEF SlotsFit
<1>9. LeasesFit
  BY <1>2, <1>3 DEF LeasesFit, Empty
<1>10. DiagFits
  BY <1>3 DEF DiagFits, Empty
<1>11. ClockFits
  BY <1>3 DEF ClockFits
<1> QED
  BY <1>1, <1>4, <1>5, <1>6, <1>7, <1>8, <1>9, <1>10, <1>11 DEF HookInv

\* ... every step keeps it, ...
LEMMA HookInvStep == HookInv /\ [HookNext]_hookVars => HookInv'
<1>1. CASE UNCHANGED hookVars
  <2> SUFFICES ASSUME HookInv PROVE HookInv'
    BY <1>1 DEF hookVars, HookInv
  <2>1. UNCHANGED <<box, file, hook, hookTime, shown, blocks, faulty>>
    BY <1>1 DEF hookVars
  <2>2. HookTypeOK' /\ BoxFits' /\ ShapeFits' /\ DiagFits'
    BY <2>1 DEF HookInv, HookTypeOK, BoxFits, ShapeFits, DiagFits
  <2>3. ShownFits'
    BY <2>1 DEF HookInv, ShownFits, AckedWasShown, Remembered, WasShown
  <2>4. CountsFit'
    BY <2>1 DEF HookInv, CountsFit, Bearers, Showings, Secured
  <2>5. SlotsFit'
    BY <2>1 DEF HookInv, SlotsFit, Pledged, Pledges
  <2>7. ClockFits'
    BY <2>1 DEF HookInv, ClockFits
  <2>6. LeasesFit'
    BY <2>1 DEF HookInv, LeasesFit, Keeps
  <2> QED
    BY <2>2, <2>3, <2>4, <2>5, <2>6, <2>7 DEF HookInv
<1>2. ASSUME HookInv, HookNext PROVE HookInv'
  BY <1>2, HookTypeStep, BoxStep, ShapeStep, ShownStep, CountsStep, SlotsStep, ClockStep, LeasesStep, DiagStep DEF HookInv
<1> QED
  BY <1>1, <1>2

\* ... and it says that hooks are safe.
LEMMA HookInvSafe == HookInv => HookSafety
<1> SUFFICES ASSUME HookInv PROVE HookSafety
  OBVIOUS
<1>1. AckedWasShown
  BY DEF HookInv, ShownFits
<1>2. DuplicatesNeedFaults
  <2> SUFFICES ASSUME NEW m \in Letter PROVE shown[m] <= 1 + faulty
    BY DEF DuplicatesNeedFaults
  <2>1. IsFiniteSet(Bearers(m)) /\ shown[m] + Cardinality(Bearers(m)) <= 1 + faulty /\ shown[m] \in Nat
        /\ faulty \in Nat
    BY DEF HookInv, CountsFit, Showings, HookTypeOK
  <2>2. Cardinality(Bearers(m)) \in Nat
    BY <2>1, FS_CardinalityType
  <2> QED
    BY <2>1, <2>2
<1>3. ContinuationCap
  <2> SUFFICES ASSUME NEW t \in 0..HookClock
               PROVE  Cardinality({c \in blocks : t - Span < c.at /\ c.at <= t}) <= MaxContinue
    BY DEF ContinuationCap, Span
  <2> DEFINE B == {c \in blocks : t - Span < c.at /\ c.at <= t}
  <2>1. B \subseteq Pledges(t) /\ IsFiniteSet(Pledges(t)) /\ Cardinality(Pledges(t)) <= MaxContinue
    BY DEF HookInv, SlotsFit, Pledges, Pledged
  <2> HIDE DEF B
  <2>2. IsFiniteSet(B) /\ Cardinality(B) <= Cardinality(Pledges(t))
    BY <2>1, FS_Subset
  <2>3. Cardinality(B) \in Nat /\ Cardinality(Pledges(t)) \in Nat /\ MaxContinue \in Nat
    BY <2>1, <2>2, FS_CardinalityType, HookConstants
  <2>4. Cardinality(B) <= MaxContinue
    BY <2>1, <2>2, <2>3
  <2> QED
    BY <2>4 DEF B
<1>4. LeasesComeBack
  BY HookConstants DEF HookInv, LeasesFit, LeasesComeBack
<1>5. NoFalseAlarm
  <2>1. faulty \in Nat
    BY DEF HookInv, HookTypeOK
  <2> QED
    BY <2>1 DEF HookInv, DiagFits, NoFalseAlarm
<1> QED
  BY <1>1, <1>2, <1>3, <1>4, <1>5 DEF HookSafety

\* Whatever overlaps, fails or is lost: what was acknowledged was shown, a letter is
\* shown twice only after a fault, the client is kept going within the cap, and without
\* a fault leases come back and no failure is reported.
THEOREM HooksAreSafe == HookSpec => []HookSafety
  BY HookInvInit, HookInvStep, HookInvSafe, PTL DEF HookSpec
=============================================================================
