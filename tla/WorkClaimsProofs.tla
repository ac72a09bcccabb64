-------------------------- MODULE WorkClaimsProofs --------------------------
(***************************************************************************)
(* On SQLite claims are exclusive and kept, for any number of requests,    *)
(* holders, lease lengths, claims and ticks.                               *)
(***************************************************************************)
EXTENDS WorkClaims, SequenceTheorems, TLAPS

\* No rows and idle requests have their types.
LEMMA InitTypeOK == Init => TypeOK
<1> SUFFICES ASSUME Init PROVE TypeOK
  OBVIOUS
<1>1. clock \in 0..MaxClock /\ rows \in Seq(Row)
  BY ClaimAssumption DEF Init
<1>2. req \in [Requests -> Request]
  <2>1. \A h \in Holders, d \in TTLs :
          [pc |-> "idle", holder |-> h, now |-> 0, ttl |-> d,
           snapshot |-> {}, seen |-> 0, fresh |-> FALSE] \in Request
    BY DEF Request
  <2> QED
    BY <2>1 DEF Init
<1> QED
  BY <1>1, <1>2 DEF TypeOK

\* What a request turns into is a request.
LEMMA RequestRecords ==
  ASSUME TypeOK, NEW r \in Requests
  PROVE  /\ Idle(r) \in Request
         /\ \A h \in Holders, d \in TTLs :
              [Idle(r) EXCEPT !.pc = "select", !.holder = h, !.ttl = d,
                              !.now = clock] \in Request
         /\ \A i \in Nat : [req[r] EXCEPT !.pc = "write", !.seen = i] \in Request
         /\ \A i \in Nat : [req[r] EXCEPT !.pc = "write", !.seen = i,
                                          !.fresh = TRUE] \in Request
         /\ \A S \in SUBSET Nat : [req[r] EXCEPT !.pc = "lock", !.snapshot = S] \in Request
         /\ \A S \in SUBSET Nat : [req[r] EXCEPT !.snapshot = S] \in Request
         /\ [req[r] EXCEPT !.fresh = FALSE] \in Request
<1>1. req[r] \in Request /\ clock \in Nat
  BY ClaimAssumption DEF TypeOK
<1>2. Idle(r) \in Request
  BY <1>1 DEF Request, Idle
<1>3. \A h \in Holders, d \in TTLs :
        [Idle(r) EXCEPT !.pc = "select", !.holder = h, !.ttl = d,
                        !.now = clock] \in Request
  BY <1>1, <1>2 DEF Request
<1>4. \A i \in Nat : /\ [req[r] EXCEPT !.pc = "write", !.seen = i] \in Request
                      /\ [req[r] EXCEPT !.pc = "write", !.seen = i,
                                        !.fresh = TRUE] \in Request
  BY <1>1 DEF Request
<1>5. \A S \in SUBSET Nat :
        /\ [req[r] EXCEPT !.pc = "lock", !.snapshot = S] \in Request
        /\ [req[r] EXCEPT !.snapshot = S] \in Request
  BY <1>1 DEF Request
<1>6. [req[r] EXCEPT !.fresh = FALSE] \in Request
  BY <1>1 DEF Request
<1> QED
  BY <1>2, <1>3, <1>4, <1>5, <1>6

\* The open rows are indices of the table, and so is the newest of them.
LEMMA OpenRowsAreNumbers ==
  ASSUME TypeOK
  PROVE  /\ OpenRows \subseteq 1..Len(rows)
         /\ OpenRows \in SUBSET Nat
         /\ \A S \in SUBSET Nat : Newest(S) \subseteq Nat
<1>1. DOMAIN rows = 1..Len(rows) /\ Len(rows) \in Nat
  BY DEF TypeOK
<1>2. OpenRows \subseteq 1..Len(rows) /\ OpenRows \in SUBSET Nat
  BY <1>1 DEF OpenRows
<1>3. ASSUME NEW S \in SUBSET Nat PROVE Newest(S) \subseteq Nat
  <2>1. CASE S = {}
    BY <2>1 DEF Newest
  <2>2. CASE S # {}
    BY <2>2 DEF Newest
  <2> QED
    BY <2>1, <2>2
<1> QED
  BY <1>2, <1>3

\* The table after the UPDATE and after the INSERT.
LEMMA WriteRows ==
  ASSUME TypeOK, NEW r \in Requests
  PROVE  LET row == [holder |-> req[r].holder, expires |-> req[r].now + req[r].ttl,
                     released |-> FALSE]
         IN  /\ Closed(r) \in Seq(Row)
             /\ Len(Closed(r)) = Len(rows)
             /\ \A i \in 1..Len(rows) :
                  Closed(r)[i] = IF req[r].seen = 0 THEN rows[i]
                                 ELSE [rows[i] EXCEPT !.released = TRUE]
             /\ row \in Row
             /\ Append(Closed(r), row) \in Seq(Row)
             /\ Len(Append(Closed(r), row)) = Len(rows) + 1
             /\ Append(Closed(r), row)[Len(rows) + 1] = row
             /\ \A i \in 1..Len(rows) : Append(Closed(r), row)[i] = Closed(r)[i]
<1> DEFINE row == [holder |-> req[r].holder, expires |-> req[r].now + req[r].ttl,
                   released |-> FALSE]
           shut == [i \in 1..Len(rows) |-> [rows[i] EXCEPT !.released = TRUE]]
<1>1. rows \in Seq(Row) /\ Len(rows) \in Nat /\ DOMAIN rows = 1..Len(rows)
      /\ \A i \in 1..Len(rows) : rows[i] \in Row
  BY DEF TypeOK
<1>2. row \in Row
  <2>1. req[r] \in Request
    BY DEF TypeOK
  <2>2. req[r].holder \in Holders /\ req[r].now \in Nat /\ req[r].ttl \in Nat
    BY <2>1, ClaimAssumption DEF Request
  <2> QED
    BY <2>2 DEF Row
<1>3. \A i \in 1..Len(rows) : [rows[i] EXCEPT !.released = TRUE] \in Row
  BY <1>1 DEF Row
<1>4. shut \in Seq(Row) /\ Len(shut) = Len(rows)
  <2>1. shut \in [1..Len(rows) -> Row]
    BY <1>3
  <2> QED
    BY <1>1, <2>1
<1>5. Closed(r) = IF req[r].seen = 0 THEN rows ELSE shut
  BY <1>1 DEF Closed
<1>6. /\ Closed(r) \in Seq(Row)
      /\ Len(Closed(r)) = Len(rows)
      /\ \A i \in 1..Len(rows) :
           Closed(r)[i] = IF req[r].seen = 0 THEN rows[i]
                          ELSE [rows[i] EXCEPT !.released = TRUE]
  BY <1>1, <1>4, <1>5
<1> HIDE DEF row, shut
<1>7. /\ Append(Closed(r), row) \in Seq(Row)
      /\ Len(Append(Closed(r), row)) = Len(rows) + 1
      /\ Append(Closed(r), row)[Len(rows) + 1] = row
      /\ \A i \in 1..Len(rows) : Append(Closed(r), row)[i] = Closed(r)[i]
  BY <1>1, <1>2, <1>6, AppendProperties
<1> QED
  BY <1>2, <1>6, <1>7 DEF row

\* The table after a release.
LEMMA ReleaseRows ==
  ASSUME TypeOK, NEW h, ReleaseWork(h)
  PROVE  /\ rows' \in Seq(Row)
         /\ Len(rows') = Len(rows)
         /\ \A i \in 1..Len(rows) :
              rows'[i] = [rows[i] EXCEPT !.released = @ \/ rows[i].holder = h]
<1>1. Len(rows) \in Nat /\ DOMAIN rows = 1..Len(rows)
      /\ \A i \in 1..Len(rows) : rows[i] \in Row
  BY DEF TypeOK
<1>2. rows' = [i \in 1..Len(rows) |-> [rows[i] EXCEPT !.released = @ \/ rows[i].holder = h]]
  BY <1>1 DEF ReleaseWork
<1>3. \A i \in 1..Len(rows) :
        [rows[i] EXCEPT !.released = @ \/ rows[i].holder = h] \in Row
  BY <1>1 DEF Row
<1>4. rows' \in [1..Len(rows) -> Row]
  BY <1>2, <1>3
<1> QED
  BY <1>1, <1>2, <1>4

\* Every step keeps the types.
LEMMA NextTypeOK == TypeOK /\ [Next]_vars => TypeOK'
<1> SUFFICES ASSUME TypeOK, [Next]_vars PROVE TypeOK'
  OBVIOUS
<1>1. clock \in Nat /\ req \in [Requests -> Request] /\ rows \in Seq(Row)
  BY ClaimAssumption DEF TypeOK
<1>2. ASSUME NEW r \in Requests, NEW rec \in Request, Set(r, rec),
             UNCHANGED <<clock, rows>>
      PROVE  TypeOK'
  BY <1>1, <1>2 DEF TypeOK, Set
<1>3. ASSUME NEW r \in Requests, NEW h \in Holders, NEW d \in TTLs, ClaimWork(r, h, d)
      PROVE  TypeOK'
  BY <1>2, <1>3, RequestRecords DEF ClaimWork
<1>4. ASSUME NEW r \in Requests, SelectSqlite(r)
      PROVE  TypeOK'
  <2>1. PICK i \in Newest(OpenRows) :
          IF i # 0 /\ Blocked(i, req[r])
            THEN Set(r, Idle(r))
            ELSE Set(r, [req[r] EXCEPT !.pc = "write", !.seen = i, !.fresh = TRUE])
    BY <1>4 DEF SelectSqlite
  <2>2. i \in Nat /\ UNCHANGED <<clock, rows>>
    BY <1>4, OpenRowsAreNumbers DEF SelectSqlite
  <2>3. CASE i # 0 /\ Blocked(i, req[r])
    BY <1>2, <2>1, <2>2, <2>3, RequestRecords
  <2>4. CASE ~(i # 0 /\ Blocked(i, req[r]))
    BY <1>2, <2>1, <2>2, <2>4, RequestRecords
  <2> QED
    BY <2>3, <2>4
<1>5. ASSUME NEW r \in Requests, SelectPostgres(r)
      PROVE  TypeOK'
  BY <1>2, <1>5, RequestRecords, OpenRowsAreNumbers DEF SelectPostgres
<1>6. ASSUME NEW r \in Requests, LockPostgres(r)
      PROVE  TypeOK'
  <2> DEFINE S == req[r].snapshot
  <2>0. S \in SUBSET Nat /\ UNCHANGED <<clock, rows>>
    BY <1>1, <1>6 DEF Request, LockPostgres
  <2>1. PICK i \in Newest(S) :
          \/ Set(r, [req[r] EXCEPT !.pc = "write", !.seen = 0])
          \/ Set(r, [req[r] EXCEPT !.snapshot = @ \ {i}])
          \/ Set(r, Idle(r))
          \/ Set(r, [req[r] EXCEPT !.pc = "write", !.seen = i])
    BY <1>6 DEF LockPostgres
  <2>2. i \in Nat
    BY <2>0, OpenRowsAreNumbers
  <2>3. [req[r] EXCEPT !.snapshot = @ \ {i}] = [req[r] EXCEPT !.snapshot = S \ {i}]
    OBVIOUS
  <2>4. /\ Idle(r) \in Request
        /\ [req[r] EXCEPT !.pc = "write", !.seen = 0] \in Request
        /\ [req[r] EXCEPT !.pc = "write", !.seen = i] \in Request
        /\ [req[r] EXCEPT !.snapshot = S \ {i}] \in Request
    BY <2>0, <2>2, RequestRecords
  <2> HIDE DEF S
  <2> QED
    BY <1>2, <2>0, <2>1, <2>3, <2>4
<1>7. ASSUME NEW r \in Requests, Write(r)
      PROVE  TypeOK'
  <2>1. rows' \in Seq(Row)
    BY <1>7, WriteRows DEF Write
  <2>2. req' \in [Requests -> Request]
    <3>1. \A x \in Requests : [req[x] EXCEPT !.fresh = FALSE] \in Request
      BY RequestRecords
    <3> QED
      BY <1>7, <3>1, RequestRecords DEF Write, Commit
  <2> QED
    BY <1>7, <2>1, <2>2 DEF Write, TypeOK
<1>8. ASSUME NEW r \in Requests, Abort(r)
      PROVE  TypeOK'
  BY <1>2, <1>8, RequestRecords DEF Abort
<1>9. ASSUME NEW h \in Holders, ReleaseWork(h)
      PROVE  TypeOK'
  <2>1. rows' \in Seq(Row)
    BY <1>9, ReleaseRows DEF ReleaseWork
  <2>2. req' \in [Requests -> Request]
    <3>1. \A x \in Requests : [req[x] EXCEPT !.fresh = FALSE] \in Request
      BY RequestRecords
    <3> QED
      BY <1>9, <3>1 DEF ReleaseWork
  <2> QED
    BY <1>9, <2>1, <2>2 DEF ReleaseWork, TypeOK
<1>10. CASE Tick
  BY <1>10, ClaimAssumption DEF Tick, TypeOK
<1>11. CASE UNCHANGED vars
  BY <1>11 DEF vars, TypeOK
<1> QED
  BY <1>3, <1>4, <1>5, <1>6, <1>7, <1>8, <1>9, <1>10, <1>11 DEF Next

\* The invariant on SQLite: types, and what SqliteInv says of that driver.
Inv == TypeOK /\ (Driver = "sqlite" => SqliteInv)

\* The first state satisfies the invariant.
LEMMA InitInv == Init => Inv
<1> SUFFICES ASSUME Init PROVE Inv
  OBVIOUS
<1>1. TypeOK
  BY InitTypeOK
<1>2. OpenRows = {} /\ clock = 0
  BY DEF Init, OpenRows
<1>3. \A r \in Requests : req[r].pc = "idle" /\ req[r].now = 0
  BY DEF Init
<1>4. SqliteInv
  BY <1>2, <1>3 DEF SqliteInv
<1> QED
  BY <1>1, <1>4 DEF Inv

\* A step that changes one request and neither clock nor rows keeps the
\* invariant when the new record satisfies what SqliteInv asks of it.
LEMMA OneRequest ==
  ASSUME TypeOK, SqliteInv, NEW r \in Requests, NEW rec, Set(r, rec),
         UNCHANGED <<clock, rows>>, rec.now <= clock, rec.pc # "lock",
         rec.pc = "write" /\ rec.fresh =>
             \A i \in OpenRows : rec.seen = i /\ ~Blocked(i, rec)
  PROVE  SqliteInv'
<1>1. req' = [req EXCEPT ![r] = rec] /\ req \in [Requests -> Request]
  BY DEF Set, TypeOK
<1>2. OpenRows' = OpenRows
  BY DEF OpenRows
<1>3. \A x \in Requests : req'[x] = IF x = r THEN rec ELSE req[x]
  BY <1>1
<1> QED
  BY <1>2, <1>3 DEF SqliteInv, Blocked

\* Every step of a SQLite deployment keeps the invariant.
LEMMA NextSqliteInv ==
  ASSUME Driver = "sqlite", TypeOK, SqliteInv, [Next]_vars
  PROVE  SqliteInv'
<1>1. /\ clock \in Nat /\ rows \in Seq(Row) /\ Len(rows) \in Nat
      /\ DOMAIN rows = 1..Len(rows)
      /\ \A x \in Requests : req[x] \in Request
  BY ClaimAssumption DEF TypeOK
<1>2. \A x \in Requests : Idle(x) = [req[x] EXCEPT !.pc = "idle", !.snapshot = {}, !.seen = 0]
  BY DEF Idle
<1>3. \A x \in Requests : /\ Idle(x).pc = "idle" /\ Idle(x).now = req[x].now
                           /\ req[x].now \in Nat /\ req[x].now <= clock
                           /\ req[x].pc # "lock"
  BY <1>1, <1>2 DEF Request, SqliteInv
<1>4. ASSUME NEW r \in Requests, NEW h \in Holders, NEW d \in TTLs, ClaimWork(r, h, d)
      PROVE  SqliteInv'
  <2> DEFINE rec == [Idle(r) EXCEPT !.pc = "select", !.holder = h, !.ttl = d, !.now = clock]
  <2>1. rec.pc = "select" /\ rec.now = clock
    BY <1>1, <1>2 DEF Request
  <2>2. Set(r, rec) /\ UNCHANGED <<clock, rows>>
    BY <1>4 DEF ClaimWork
  <2> HIDE DEF rec
  <2> QED
    BY <1>1, <2>1, <2>2, OneRequest
<1>5. ASSUME NEW r \in Requests, Set(r, Idle(r)), UNCHANGED <<clock, rows>>
      PROVE  SqliteInv'
  BY <1>3, <1>5, OneRequest
<1>6. ASSUME NEW r \in Requests, SelectSqlite(r)
      PROVE  SqliteInv'
  <2>1. PICK i \in Newest(OpenRows) :
          IF i # 0 /\ Blocked(i, req[r])
            THEN Set(r, Idle(r))
            ELSE Set(r, [req[r] EXCEPT !.pc = "write", !.seen = i, !.fresh = TRUE])
    BY <1>6 DEF SelectSqlite
  <2>2. UNCHANGED <<clock, rows>>
    BY <1>6 DEF SelectSqlite
  <2>3. CASE i # 0 /\ Blocked(i, req[r])
    BY <1>5, <2>1, <2>2, <2>3
  <2>4. CASE ~(i # 0 /\ Blocked(i, req[r]))
    <3> DEFINE rec == [req[r] EXCEPT !.pc = "write", !.seen = i, !.fresh = TRUE]
    <3>1. /\ rec.pc = "write" /\ rec.seen = i /\ rec.now = req[r].now
          /\ rec.holder = req[r].holder
      BY <1>1 DEF Request
    <3>2. ASSUME NEW j \in OpenRows PROVE i = j /\ ~Blocked(j, rec)
      <4>1. i \in OpenRows /\ i # 0
        BY <1>1, OpenRowsAreNumbers DEF Newest
      <4>2. i = j
        BY <4>1 DEF SqliteInv
      <4> QED
        BY <2>4, <3>1, <4>1, <4>2 DEF Blocked
    <3>3. Set(r, rec)
      BY <2>1, <2>4
    <3> HIDE DEF rec
    <3> QED
      BY <1>3, <2>2, <3>1, <3>2, <3>3, OneRequest
  <2> QED
    BY <2>3, <2>4
<1>7. ASSUME NEW r \in Requests, Write(r)
      PROVE  SqliteInv'
  <2> DEFINE row == [holder |-> req[r].holder, expires |-> req[r].now + req[r].ttl,
                     released |-> FALSE]
  <2>1. /\ req[r].pc = "write" /\ req[r].fresh /\ clock' = clock
        /\ rows' = Append(Closed(r), row) /\ Commit(r, Idle(r))
    BY <1>7 DEF Write
  <2>2. /\ Len(rows') = Len(rows) + 1 /\ rows' \in Seq(Row)
        /\ \A i \in 1..Len(rows) :
             rows'[i] = IF req[r].seen = 0 THEN rows[i]
                        ELSE [rows[i] EXCEPT !.released = TRUE]
    BY <2>1, WriteRows
  <2>3. \A i \in 1..Len(rows) : rows'[i].released
    <3>1. ASSUME NEW i \in 1..Len(rows) PROVE rows'[i].released
      <4>0. rows[i] \in Row
        BY <1>1
      <4>1. CASE i \in OpenRows
        <5>1. req[r].seen = i /\ i # 0
          BY <2>1, <4>1 DEF SqliteInv
        <5> QED
          BY <2>2, <4>0, <5>1 DEF Row
      <4>2. CASE i \notin OpenRows
        <5>1. rows[i].released
          BY <1>1, <4>2 DEF OpenRows
        <5> QED
          BY <2>2, <4>0, <5>1 DEF Row
      <4> QED
        BY <4>1, <4>2
    <3> QED
      BY <3>1
  <2>4. \A i \in OpenRows' : i = Len(rows) + 1
    <3>1. DOMAIN rows' = 1..(Len(rows) + 1)
      BY <2>2
    <3> QED
      BY <1>1, <2>3, <3>1 DEF OpenRows
  <2>5. \A x \in Requests :
          req'[x] = IF x = r THEN Idle(r) ELSE [req[x] EXCEPT !.fresh = FALSE]
    BY <2>1 DEF Commit
  <2>6. \A x \in Requests : /\ req'[x].now = req[x].now
                             /\ req'[x].pc # "lock"
                             /\ ~(req'[x].pc = "write" /\ req'[x].fresh)
    BY <1>1, <1>3, <2>5 DEF Request
  <2> QED
    BY <1>3, <2>1, <2>4, <2>6 DEF SqliteInv
<1>8. ASSUME NEW h \in Holders, ReleaseWork(h)
      PROVE  SqliteInv'
  <2>1. OpenRows' \subseteq OpenRows
    <3>1. DOMAIN rows' = 1..Len(rows)
      BY <1>8, ReleaseRows
    <3>2. \A i \in 1..Len(rows) : ~rows'[i].released => ~rows[i].released
      <4>1. \A i \in 1..Len(rows) : rows[i] \in Row
        BY <1>1
      <4> QED
        BY <1>8, <4>1, ReleaseRows DEF Row
    <3> QED
      BY <1>1, <3>1, <3>2 DEF OpenRows
  <2>2. \A x \in Requests : req'[x] = [req[x] EXCEPT !.fresh = FALSE]
    BY <1>8 DEF ReleaseWork
  <2>3. \A x \in Requests : /\ req'[x].now = req[x].now /\ req'[x].pc = req[x].pc
                             /\ ~req'[x].fresh
    BY <1>1, <2>2 DEF Request
  <2>4. clock' = clock
    BY <1>8 DEF ReleaseWork
  <2> QED
    BY <1>3, <2>1, <2>3, <2>4 DEF SqliteInv
<1>9. CASE Tick
  <2>1. rows' = rows /\ req' = req /\ clock' = clock + 1
    BY <1>9 DEF Tick
  <2>2. OpenRows' = OpenRows
    BY <2>1 DEF OpenRows
  <2>3. \A x \in Requests : req'[x].now <= clock' /\ req'[x].pc # "lock"
    BY <1>1, <1>3, <2>1
  <2> QED
    BY <2>1, <2>2, <2>3 DEF SqliteInv, Blocked
<1>10. CASE UNCHANGED vars
  BY <1>10 DEF vars, SqliteInv, OpenRows, Blocked
<1>11. ASSUME NEW r \in Requests, SelectPostgres(r) \/ LockPostgres(r)
      PROVE  SqliteInv'
  BY <1>3, <1>11 DEF SelectPostgres, LockPostgres
<1>12. ASSUME NEW r \in Requests, Abort(r)
      PROVE  SqliteInv'
  BY <1>5, <1>12 DEF Abort
<1> QED
  BY <1>4, <1>6, <1>7, <1>8, <1>9, <1>10, <1>11, <1>12 DEF Next

\* Types: clock, table and requests keep theirs whatever the driver.
THEOREM ClaimsTypeCorrect == Spec => []TypeOK
<1> QED
  BY InitTypeOK, NextTypeOK, PTL DEF Spec

\* The invariant holds throughout.
LEMMA Invariance == Spec => []Inv
<1>1. Inv /\ [Next]_vars => Inv'
  BY NextTypeOK, NextSqliteInv DEF Inv
<1> QED
  BY <1>1, InitInv, PTL DEF Spec

\* On SQLite no two live claims on a key belong to different holders: the
\* promise of ClaimWork's comment, for the driver that keeps it.
THEOREM SqliteClaimsExclude == Driver = "sqlite" /\ Spec => []ClaimExclusive
<1>1. Driver = "sqlite" /\ Inv => ClaimExclusive
  BY DEF Inv, SqliteInv, ClaimExclusive, Live
<1>2. CASE Driver = "sqlite"
  <2>1. Inv => ClaimExclusive
    BY <1>1, <1>2
  <2> QED
    BY <2>1, Invariance, PTL
<1>3. CASE Driver # "sqlite"
  BY <1>3
<1> QED
  BY <1>2, <1>3

\* On SQLite a live claim closes only by a call under its holder's own name.
LEMMA LiveRowStep ==
  ASSUME Driver = "sqlite", TypeOK, SqliteInv, [Next]_vars, NEW i \in DOMAIN rows,
         Live(i), rows'[i].released
  PROVE  \/ \E j \in DOMAIN rows' \ DOMAIN rows : rows'[j].holder = rows[i].holder
         \/ rows' = [k \in DOMAIN rows |-> [rows[k] EXCEPT !.released =
                       @ \/ rows[k].holder = rows[i].holder]]
<1>1. /\ rows \in Seq(Row) /\ Len(rows) \in Nat /\ DOMAIN rows = 1..Len(rows)
      /\ rows[i] \in Row /\ clock \in Nat /\ ~rows[i].released
      /\ i \in OpenRows /\ rows[i].expires > clock
  BY ClaimAssumption DEF TypeOK, Live, OpenRows
<1>2. rows' # rows
  BY <1>1
<1>3. ASSUME NEW r \in Requests, Write(r)
      PROVE  \E j \in DOMAIN rows' \ DOMAIN rows : rows'[j].holder = rows[i].holder
  <2>1. /\ Len(rows') = Len(rows) + 1 /\ rows' \in Seq(Row)
        /\ rows'[Len(rows) + 1].holder = req[r].holder
    BY <1>3, WriteRows DEF Write
  <2>2. ~Blocked(i, req[r]) /\ req[r].now <= clock /\ req[r].now \in Nat
    BY <1>1, <1>3 DEF SqliteInv, Write, TypeOK, Request
  <2>3. rows[i].holder = req[r].holder
    BY <1>1, <2>2 DEF Blocked, Row
  <2>4. Len(rows) + 1 \in DOMAIN rows' \ DOMAIN rows
    BY <1>1, <2>1
  <2> QED
    BY <2>1, <2>3, <2>4
<1>4. ASSUME NEW h \in Holders, ReleaseWork(h)
      PROVE  rows' = [k \in DOMAIN rows |-> [rows[k] EXCEPT !.released =
                        @ \/ rows[k].holder = rows[i].holder]]
  <2>1. rows'[i] = [rows[i] EXCEPT !.released = @ \/ rows[i].holder = h]
    BY <1>1, <1>4, ReleaseRows
  <2>2. rows[i].holder = h
    BY <1>1, <2>1 DEF Row
  <2> QED
    BY <1>4, <2>2 DEF ReleaseWork
<1> QED
  BY <1>2, <1>3, <1>4 DEF Next, vars, ClaimWork, SelectSqlite, SelectPostgres,
     LockPostgres, Abort, Tick

\* On SQLite nobody else's claim or release takes a live claim away.
THEOREM SqliteClaimsAreKept == Driver = "sqlite" /\ Spec => LiveClaimIsKept
<1>1. CASE Driver = "sqlite"
  <2>1. Inv /\ [Next]_vars => [OnlyOwnCallsClose]_vars
    BY <1>1, LiveRowStep DEF Inv, OnlyOwnCallsClose
  <2> QED
    BY <2>1, Invariance, PTL DEF Spec, LiveClaimIsKept
<1>2. CASE Driver # "sqlite"
  BY <1>2
<1> QED
  BY <1>1, <1>2
=============================================================================
