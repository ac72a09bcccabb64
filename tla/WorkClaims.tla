----------------------------- MODULE WorkClaims -----------------------------
(***************************************************************************)
(* Work-claim leases (internal/region/claim.go): agents of a region take a *)
(* lease on a key so that no other agent works on it.  The rows of one     *)
(* (namespace, key) are modelled; claims on other keys touch other rows.   *)
(*                                                                         *)
(* ClaimWork is one transaction of a SELECT, an UPDATE and an INSERT, and  *)
(* what keeps two of them apart depends on the database.  SQLite aborts a  *)
(* transaction that read before another one committed (one connection per  *)
(* process, BUSY_SNAPSHOT across processes).  Postgres runs READ COMMITTED *)
(* and the SELECT locks the row it returns, when it returns one: a waiter  *)
(* looks at the row again and passes to the next row of its old snapshot   *)
(* when it has been released meanwhile.                                    *)
(***************************************************************************)
EXTENDS Naturals, Sequences

CONSTANTS Driver,    \* "sqlite" or "postgres"
          Requests,  \* concurrent ClaimWork calls
          Holders,   \* the names agents claim under
          TTLs,      \* lease lengths
          MaxClock,  \* bound: time
          MaxRows    \* bound: claims ever made

ASSUME ClaimAssumption == /\ Driver \in {"sqlite", "postgres"}
                          /\ TTLs \subseteq Nat \ {0}
                          /\ MaxClock \in Nat
                          /\ MaxRows \in Nat

VARIABLES clock,  \* store.now
          rows,   \* work_claims of the key, in order of id
          req     \* the requests' local state

vars == <<clock, rows, req>>

Row == [holder : Holders, expires : Nat, released : BOOLEAN]

\* pc; the clock read before the transaction; the rows of the SELECT's
\* snapshot still to try; the row it returned (0: none), which Postgres
\* keeps locked; and whether nothing was committed since (SQLite).
Request == [pc : {"idle", "select", "lock", "write"}, holder : Holders,
            now : Nat, ttl : TTLs, snapshot : SUBSET Nat, seen : Nat,
            fresh : BOOLEAN]

OpenRows == {i \in DOMAIN rows : ~rows[i].released}

\* A claim that has not been released and has not expired (ListClaims).
Live(i) == i \in OpenRows /\ rows[i].expires > clock

Locked(i) == \E r \in Requests : req[r].pc = "write" /\ req[r].seen = i

Idle(r) == [req[r] EXCEPT !.pc = "idle", !.snapshot = {}, !.seen = 0]

Set(r, rec) == req' = [req EXCEPT ![r] = rec]

\* A commit makes every other open snapshot stale.
Commit(r, rec) == req' = [x \in Requests |-> IF x = r THEN rec
                                             ELSE [req[x] EXCEPT !.fresh = FALSE]]

Init == /\ clock = 0
        /\ rows = <<>>
        /\ req \in [Requests -> {[pc |-> "idle", holder |-> h, now |-> 0, ttl |-> d,
                                  snapshot |-> {}, seen |-> 0, fresh |-> FALSE] :
                                 h \in Holders, d \in TTLs}]

\* Mutant: a lease of no length.
ClaimWorkNoTTL(r, h, d) ==
    /\ req[r].pc = "idle"
    /\ Set(r, [Idle(r) EXCEPT !.pc = "select", !.holder = h, !.ttl = 0, !.now = clock])
    /\ UNCHANGED <<clock, rows>>

\* ClaimWork reads the clock before its transaction begins.
ClaimWork(r, h, d) ==
    /\ req[r].pc = "idle"
    /\ Set(r, [Idle(r) EXCEPT !.pc = "select", !.holder = h, !.ttl = d, !.now = clock])
    /\ UNCHANGED <<clock, rows>>

\* Mutant: the comparison with the clock is the wrong way round.
BlockedExpired(i, rec) == rows[i].expires < rec.now /\ rows[i].holder # rec.holder

\* The row is another holder's and not expired: ErrClaimed.
Blocked(i, rec) == rows[i].expires > rec.now /\ rows[i].holder # rec.holder

\* ORDER BY id DESC LIMIT 1: the newest row, 0 when there is none.
Newest(S) == IF S = {} THEN {0} ELSE {i \in S : \A j \in S : j <= i}

\* The SELECT on SQLite: the newest open row of the snapshot it takes.
SelectSqlite(r) ==
    /\ Driver = "sqlite"
    /\ req[r].pc = "select"
    /\ \E i \in Newest(OpenRows) :
         IF i # 0 /\ Blocked(i, req[r])
           THEN Set(r, Idle(r))
           ELSE Set(r, [req[r] EXCEPT !.pc = "write", !.seen = i, !.fresh = TRUE])
    /\ UNCHANGED <<clock, rows>>

\* The SELECT on Postgres takes its snapshot ...
SelectPostgres(r) ==
    /\ Driver = "postgres"
    /\ req[r].pc = "select"
    /\ Set(r, [req[r] EXCEPT !.pc = "lock", !.snapshot = OpenRows])
    /\ UNCHANGED <<clock, rows>>

\* ... waits for the lock of its newest row, and takes the next one when
\* that row turns out released.
LockPostgres(r) ==
    /\ req[r].pc = "lock"
    /\ \E i \in Newest(req[r].snapshot) :
         \/ i = 0 /\ Set(r, [req[r] EXCEPT !.pc = "write", !.seen = 0])
         \/ /\ i # 0
            /\ ~Locked(i)
            /\ IF rows[i].released
                 THEN Set(r, [req[r] EXCEPT !.snapshot = @ \ {i}])
                 ELSE IF Blocked(i, req[r])
                        THEN Set(r, Idle(r))
                        ELSE Set(r, [req[r] EXCEPT !.pc = "write", !.seen = i])
    /\ UNCHANGED <<clock, rows>>

\* What the UPDATE leaves: it closes every open row of the key, and is run
\* only when the SELECT found one.
Closed(r) == IF req[r].seen = 0 THEN rows
             ELSE [i \in DOMAIN rows |-> [rows[i] EXCEPT !.released = TRUE]]

\* Mutant: SQLite lets a stale snapshot write.
WriteStale(r) ==
    /\ req[r].pc = "write"
    /\ Len(rows) < MaxRows
    /\ rows' = Append(Closed(r), [holder |-> req[r].holder,
                                  expires |-> req[r].now + req[r].ttl,
                                  released |-> FALSE])
    /\ Commit(r, Idle(r))
    /\ UNCHANGED clock

\* UPDATE, INSERT and commit.  On Postgres the UPDATE waits for rows that
\* others have locked.
Write(r) ==
    /\ req[r].pc = "write"
    /\ Driver = "sqlite" => req[r].fresh
    /\ Driver = "postgres" /\ req[r].seen # 0 =>
         \A i \in OpenRows : \A x \in Requests \ {r} :
            ~(req[x].pc = "write" /\ req[x].seen = i)
    /\ Len(rows) < MaxRows
    /\ rows' = Append(Closed(r), [holder |-> req[r].holder,
                                  expires |-> req[r].now + req[r].ttl,
                                  released |-> FALSE])
    /\ Commit(r, Idle(r))
    /\ UNCHANGED clock

\* The transaction fails: a stale SQLite snapshot, a lost connection, a
\* cancelled request.
Abort(r) ==
    /\ req[r].pc # "idle"
    /\ Set(r, Idle(r))
    /\ UNCHANGED <<clock, rows>>

\* ReleaseWork: one UPDATE, which waits for a claimer's lock.
ReleaseWork(h) ==
    /\ \E i \in OpenRows : rows[i].holder = h
    /\ Driver = "postgres" => \A i \in OpenRows : rows[i].holder = h => ~Locked(i)
    /\ rows' = [i \in DOMAIN rows |->
                  [rows[i] EXCEPT !.released = @ \/ rows[i].holder = h]]
    /\ req' = [x \in Requests |-> [req[x] EXCEPT !.fresh = FALSE]]
    /\ UNCHANGED clock

Tick == /\ clock < MaxClock
        /\ clock' = clock + 1
        /\ UNCHANGED <<rows, req>>

Next == \/ \E r \in Requests :
             \/ \E h \in Holders, d \in TTLs : ClaimWork(r, h, d)
             \/ SelectSqlite(r) \/ SelectPostgres(r) \/ LockPostgres(r)
             \/ Write(r) \/ Abort(r)
        \/ \E h \in Holders : ReleaseWork(h)
        \/ Tick

Spec == Init /\ [][Next]_vars

-----------------------------------------------------------------------------
(* Properties *)

\* Type correctness of the rows and the requests.
TypeOK == /\ clock \in 0..MaxClock
          /\ rows \in Seq(Row)
          /\ req \in [Requests -> Request]

\* "two racing claimers cannot both win": two live claims on the key never
\* have different holders.
ClaimExclusive ==
    \A i, j \in DOMAIN rows : Live(i) /\ Live(j) => rows[i].holder = rows[j].holder

\* A live row closes in a step that inserts a row of the same holder or that
\* closes the rows of that holder and no others.
OnlyOwnCallsClose ==
    \A i \in DOMAIN rows :
      Live(i) /\ rows'[i].released =>
        \/ \E j \in DOMAIN rows' \ DOMAIN rows : rows'[j].holder = rows[i].holder
        \/ rows' = [k \in DOMAIN rows |-> [rows[k] EXCEPT !.released =
                      @ \/ rows[k].holder = rows[i].holder]]

\* An agent that holds a live claim keeps it until it expires or until a
\* call under its own name closes or renews it: nobody else's claim or
\* release takes it away.
LiveClaimIsKept == [][OnlyOwnCallsClose]_vars

\* Why SQLite excludes: there is one open row at most, and a writer whose
\* snapshot is fresh has seen it and may replace it.
SqliteInv ==
    /\ \A i, j \in OpenRows : i = j
    /\ \A r \in Requests :
         req[r].pc = "write" /\ req[r].fresh =>
             \A i \in OpenRows : req[r].seen = i /\ ~Blocked(i, req[r])
    /\ \A r \in Requests : req[r].now <= clock /\ req[r].pc # "lock"
=============================================================================
