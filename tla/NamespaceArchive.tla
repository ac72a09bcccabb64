-------------------------- MODULE NamespaceArchive --------------------------
(* Consolidating a namespace into an archive and back: the consolidate tool
   (internal/mcpserver/consolidate.go), the store behind it
   (internal/memory/consolidate_ns.go, consolidate.go, tasks.go), the mail of the
   namespace (internal/region/consolidate.go) and punk archive-restore
   (cmd/punk/main.go).

   A fact is its revisions: rows with a key, a time that orders them and an action.
   Five keys stand for the kinds the code tells apart: the status and the summary
   under /consolidated/, a plain fact, an open or done task, and the marker
   /archive/source of an archive.  Links move with the rows of their key and are
   left out.  Each call of the store is one step; the calls of an apply or of a
   restore interleave with those of others and may stop after any of them.     *)
EXTENDS Integers, Sequences, FiniteSets, FiniteSetsExt

CONSTANTS Appliers,   \* callers of consolidate apply
          Archives,   \* the number of archive names of the day: <ns>-archive-<day>, -2, ...
          PageSize,   \* facts on a digest page
          ArchEdits,  \* bound: writes and deletions by other agents
          ArchFaults, \* bound: calls of an apply or a restore that never come
          Restores,   \* bound: archive-restore commands
          Compacts    \* bound: manual compactions

ASSUME ArchConstants == /\ Archives \in Nat \ {0} /\ PageSize \in Nat \ {0}
                        /\ {ArchEdits, ArchFaults, Restores, Compacts} \subseteq Nat

VARIABLES rows,     \* memories: the revisions of the namespace and of its archives
          mail,     \* agent_messages: where each message is, and whether it is acknowledged
          apply,    \* the apply under way of each caller
          restore,  \* the restore under way
          page,     \* a reader that pages the digest of the facts
          left      \* what remains of each bound

archVars == <<rows, mail, apply, restore, page, left>>

\* The live namespace is place 0, the archives are 1..Archives in the order ArchiveName tries them.
Places == 0 .. Archives
\* The order in which pages list the keys.
FactKeys == <<"status", "summary", "fact", "task">>
Letter == {"letter"}
NoApply == [pc |-> "idle", keep |-> {}, arch |-> 0]
NoRestore == [pc |-> "idle", arch |-> 0]
NoPage == [pc |-> "idle", cursor |-> 0, seen |-> {}, steady |-> {}]
\* val: the archive a status names; of a task, whether it is open (1) or done (0)
Row(p, k, t, act, val) == [in |-> p, key |-> k, at |-> t, act |-> act, val |-> val]

ArchInit ==
    /\ rows = {Row(0, "fact", 1, "write", 0), Row(0, "task", 1, "write", 0)}
    /\ mail = [x \in Letter |-> [in |-> 0, acked |-> FALSE]]
    /\ apply = [c \in Appliers |-> NoApply]
    /\ restore = NoRestore
    /\ page = NoPage
    /\ left = [edits |-> ArchEdits, faults |-> ArchFaults, restores |-> Restores, compacts |-> Compacts]

\* The newest revision of a key is the fact, unless it is a tombstone.
Chain(R, p, k) == {r \in R : r.in = p /\ r.key = k}
NewestRow(R, p, k) == {r \in Chain(R, p, k) : \A q \in Chain(R, p, k) : q.at <= r.at}
Alive(R, p, k) == {r \in NewestRow(R, p, k) : r.act = "write"}
\* Times order the revisions of a key, and those of the summary and the status between them.
Together(k) == IF k \in {"summary", "status"} THEN {"summary", "status"} ELSE {k}
Now(k) == Max({0} \cup {r.at : r \in {x \in rows : x.key \in Together(k)}}) + 1
Store(p, k, act, val) == rows \cup {Row(p, k, Now(k), act, val)}
ForgetKey(p, k) == IF Alive(rows, p, k) = {} THEN rows ELSE Store(p, k, "tombstone", 0)
ArchSpend(b) == left[b] > 0 /\ left' = [left EXCEPT ![b] = @ - 1]

-----------------------------------------------------------------------------
\* Other agents write and delete facts, open and finish tasks.
AgentWrites == /\ ArchSpend("edits")
               /\ \/ rows' = Store(0, "fact", "write", 0)
                  \/ \E s \in {0, 1} : rows' = Store(0, "task", "write", s)
                  \/ Alive(rows, 0, "fact") # {} /\ rows' = ForgetKey(0, "fact")
               /\ UNCHANGED <<mail, apply, restore, page>>
AgentAcks == /\ \E x \in Letter : ~mail[x].acked /\ mail' = [mail EXCEPT ![x].acked = TRUE]
             /\ UNCHANGED <<rows, apply, restore, page, left>>

\* Consolidate without a summarizer and with horizon 0: superseded revisions go, then the tombstones that are newest.
Superseded(p) == {r \in rows : r.in = p /\ \E q \in Chain(rows, p, r.key) : q.at > r.at}
DeadEnds(R, p) == {r \in R : r.in = p /\ r.act = "tombstone" /\ r \in NewestRow(R, p, r.key)}
Compact == /\ ArchSpend("compacts")
           /\ \E p \in Places : LET R == rows \ Superseded(p) IN rows' = R \ DeadEnds(R, p)
           /\ UNCHANGED <<mail, apply, restore, page>>

-----------------------------------------------------------------------------
\* ListTasks: a task is open while the latest state it was given is not done.
OpenTask == \E r \in Alive(rows, 0, "task") : r.val = 1
\* keepKey over the keys that have any revision.
KeepKeys == {k \in {r.key : r \in {x \in rows : x.in = 0}} : k \in {"status", "summary"} \/ (k = "task" /\ OpenTask)}
Unused(R) == {a \in 1 .. Archives : \A r \in R : r.in # a}

ApplyAt(c, from) == apply[c].pc = from
ApplyGoes(c, to) == apply' = [apply EXCEPT ![c].pc = to]

\* PlanConsolidation reads the keys to keep, and then the name of the archive.
PlanKeys(c) == /\ ApplyAt(c, "idle")
               /\ apply' = [apply EXCEPT ![c] = [pc |-> "keys", keep |-> KeepKeys, arch |-> 0]]
               /\ UNCHANGED <<rows, mail, restore, page, left>>
PlanName(c) == /\ ApplyAt(c, "keys")
               /\ apply' = [apply EXCEPT ![c] = IF Unused(rows) = {} THEN [NoApply EXCEPT !.pc = "end"]
                                                ELSE [@ EXCEPT !.pc = "named", !.arch = Min(Unused(rows))]]
               /\ UNCHANGED <<rows, mail, restore, page, left>>
WriteSummary(c) == /\ ApplyAt(c, "named") /\ ApplyGoes(c, "summed")
                   /\ rows' = Store(0, "summary", "write", 0)
                   /\ UNCHANGED <<mail, restore, page, left>>
\* The keep list of the move: the plan's, and the summary whether the plan saw one or not.
KeepList(c) == apply[c].keep \cup {"summary"}
\* ArchiveNamespace: refused when the archive holds facts, else everything but the kept keys moves at once.
MoveRows(c) == {IF r.in = 0 /\ r.key \notin KeepList(c) THEN [r EXCEPT !.in = apply[c].arch] ELSE r : r \in rows}
ArchiveNamespace(c) ==
    /\ ApplyAt(c, "summed")
    /\ IF apply[c].arch \in Unused(rows) THEN rows' = MoveRows(c) /\ ApplyGoes(c, "moved")
                                         ELSE rows' = rows /\ ApplyGoes(c, "end")
    /\ UNCHANGED <<mail, restore, page, left>>
\* ArchiveReadMessages: what is acknowledged moves, unread mail stays.
ArchiveReadMessages(c) ==
    /\ ApplyAt(c, "moved") /\ ApplyGoes(c, "mailed")
    /\ mail' = [x \in Letter |-> IF mail[x].in = 0 /\ mail[x].acked THEN [mail[x] EXCEPT !.in = apply[c].arch] ELSE mail[x]]
    /\ UNCHANGED <<rows, restore, page, left>>
\* Mutant: the status first.
RecordSwapped(c) ==
    /\ \/ ApplyAt(c, "mailed") /\ ApplyGoes(c, "marked") /\ rows' = Store(0, "status", "write", apply[c].arch)
       \/ ApplyAt(c, "marked") /\ ApplyGoes(c, "end") /\ rows' = Store(apply[c].arch, "marker", "write", 0)
    /\ UNCHANGED <<mail, restore, page, left>>
\* RecordConsolidation: the marker of the archive, then the status of the namespace.
RecordConsolidation(c) ==
    /\ \/ ApplyAt(c, "mailed") /\ ApplyGoes(c, "marked") /\ rows' = Store(apply[c].arch, "marker", "write", 0)
       \/ ApplyAt(c, "marked") /\ ApplyGoes(c, "end") /\ rows' = Store(0, "status", "write", apply[c].arch)
    /\ UNCHANGED <<mail, restore, page, left>>
\* A call fails or the server dies: what was done stays done and the tool returns an error.
ApplyStops(c) == /\ apply[c].pc \notin {"idle", "end"} /\ ArchSpend("faults") /\ ApplyGoes(c, "end")
                 /\ UNCHANGED <<rows, mail, restore, page>>

-----------------------------------------------------------------------------
\* RestoreArchive reads the marker of the archive; without one it refuses.
RestoreReads == /\ restore.pc = "idle" /\ ArchSpend("restores")
                /\ \E a \in 1 .. Archives : /\ Alive(rows, a, "marker") # {}
                                            /\ restore' = [pc |-> "read", arch |-> a]
                /\ UNCHANGED <<rows, mail, apply, page>>
RestoreGoes(from, to) == restore.pc = from /\ restore' = [restore EXCEPT !.pc = to]
RestoreMoves ==
    /\ RestoreGoes("read", "moved")
    /\ rows' = {IF r.in = restore.arch /\ r.key # "marker" THEN [r EXCEPT !.in = 0] ELSE r : r \in rows}
    /\ UNCHANGED <<mail, apply, page, left>>
RestoreUnmarks == /\ RestoreGoes("moved", "unmarked")
                  /\ rows' = ForgetKey(restore.arch, "marker")
                  /\ UNCHANGED <<mail, apply, page, left>>
\* The status is cleared if it names this archive; it is read before it is deleted.
RestoreChecks == /\ \E named \in {\E r \in Alive(rows, 0, "status") : r.val = restore.arch} :
                       RestoreGoes("unmarked", IF named THEN "ours" ELSE "cleared")
                 /\ UNCHANGED <<rows, mail, apply, page, left>>
RestoreClears == /\ RestoreGoes("ours", "cleared")
                 /\ rows' = ForgetKey(0, "status")
                 /\ UNCHANGED <<mail, apply, page, left>>
\* RestoreArchivedMessages: every message of the archive comes back.
RestoreMail == /\ RestoreGoes("cleared", "idle")
               /\ mail' = [x \in Letter |-> IF mail[x].in = restore.arch THEN [mail[x] EXCEPT !.in = 0] ELSE mail[x]]
               /\ UNCHANGED <<rows, apply, page, left>>
RestoreStops == /\ restore.pc # "idle" /\ ArchSpend("faults") /\ restore' = NoRestore
                /\ UNCHANGED <<rows, mail, apply, page>>

-----------------------------------------------------------------------------
\* consolidate digest, section facts: LiveFactsPage lists the live keys after the cursor; one more row than
\* the page holds says that there is a next page, which starts after the last key shown.
LiveIndexes == {i \in DOMAIN FactKeys : Alive(rows, 0, FactKeys[i]) # {}}
After(c) == {i \in LiveIndexes : i > c}
Shown(c) == {i \in After(c) : Cardinality({j \in After(c) : j < i}) < PageSize}
NextCursor(c) == Max(Shown(c))
DigestStarts == /\ page.pc = "idle"
                /\ page' = [pc |-> "open", cursor |-> 0, seen |-> {}, steady |-> LiveIndexes]
                /\ UNCHANGED <<rows, mail, apply, restore, left>>
DigestPage == LET c == page.cursor IN
    /\ page.pc = "open"
    /\ page' = [page EXCEPT !.seen = @ \cup Shown(c),
                            !.steady = @ \cap LiveIndexes,
                            !.pc = IF After(c) = Shown(c) THEN "end" ELSE "open",
                            !.cursor = IF After(c) = Shown(c) THEN c ELSE NextCursor(c)]
    /\ UNCHANGED <<rows, mail, apply, restore, left>>

ApplyStep(c) == \/ PlanKeys(c) \/ PlanName(c) \/ WriteSummary(c) \/ ArchiveNamespace(c)
                \/ ArchiveReadMessages(c) \/ RecordConsolidation(c) \/ ApplyStops(c)
RestoreStep == RestoreReads \/ RestoreMoves \/ RestoreUnmarks \/ RestoreChecks \/ RestoreClears \/ RestoreMail \/ RestoreStops
ArchNext == \/ AgentWrites \/ AgentAcks \/ Compact
            \/ \E c \in Appliers : ApplyStep(c)
            \/ RestoreStep
            \/ DigestStarts \/ DigestPage
ArchSpec == ArchInit /\ [][ArchNext]_archVars

-----------------------------------------------------------------------------
\* The rows of the namespace, the archive and the marker have the shape the
\* calls of an apply and of a restore write.
ArchTypeOK ==
    /\ \A r \in rows : /\ r.in \in Places /\ r.key \in {"status", "summary", "fact", "task", "marker"}
                       /\ r.at \in Nat /\ r.act \in {"write", "tombstone"}
    /\ mail \in [Letter -> [in : Places, acked : BOOLEAN]]
    /\ \A c \in Appliers : apply[c].arch \in Places /\ apply[c].keep \subseteq {"status", "summary", "task", "fact"}
    /\ restore.arch \in Places
    /\ page.seen \subseteq DOMAIN FactKeys

\* The namespace reads as consolidated only when the record is complete: while its status is that of its newest
\* summary, the archive it names can be restored or is already empty, and the summary stays live in any case,
\* whatever call of an apply or of a restore was the last one made (consolidateApply: "only reads as
\* consolidated once RecordConsolidation succeeds").
ConsolidatedIsRestorable ==
    \A r \in Alive(rows, 0, "status") :
        \E u \in Alive(rows, 0, "summary") :
            \/ u.at > r.at
            \/ Alive(rows, r.val, "marker") # {}
            \/ \A q \in rows : q.in = r.val => q.key = "marker"

\* A digest paged to its end shows every fact that was live at each page, whatever was written, moved
\* and restored between the pages (LiveFactsPage: "next is the cursor for the following page").
DigestIsComplete == page.pc = "end" => page.steady \subseteq page.seen

\* The status that marks a namespace as consolidated leaves it only for a newer revision of the status
\* (consolidate_ns.go, on /consolidated/: "always kept live: the summary and status").
StatusStaysLive == [][\A r \in Alive(rows, 0, "status") : \E q \in NewestRow(rows', 0, "status") : q.at >= r.at]_rows

\* A consolidated namespace can be restored, and a digest misses no fact that stays.
ArchiveSafety == ConsolidatedIsRestorable /\ DigestIsComplete
=============================================================================
