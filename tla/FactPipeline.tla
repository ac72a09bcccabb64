----------------------------- MODULE FactPipeline ---------------------------
(* The fact store and its enrichment pipeline (internal/memory): revisions of a
   key with their validity windows, forgetting, expiry and retention (memory.go),
   the outbox (outbox.go), the durable stage runs (pipeline_runs.go) and the
   entity stage that works them off (enrich.go).

   A revision is the number of the clock reading that writePrepare took: it is
   created_at, and orders revisions.  Transactions are serial, as on SQLite; what
   is read outside a transaction is a step of its own.  Every source mentions the
   one entity by one name; its fact is kept as a version with its content, which is
   a mention count, the revisions it cites and what other writers made of it.
   Typed extraction and extraction of names write entities of different keys.   *)
EXTENDS Integers, FiniteSets, FiniteSetsExt, Sequences

CONSTANTS Sources,     \* keys of ordinary facts
          Clients,     \* callers of Write and Forget
          Texts,       \* contents; the hash of a content is itself
          Fleeting,    \* contents that are written with an expiration date
          Enrichers,   \* servers, each with an enricher; the first drains the outbox
          Drainer,     \* the enricher in the process that drains the outbox
          Revs,        \* bound: clock readings
          Overlap,     \* whether a write may be prepared while another one is
          Typed,       \* whether the entity's extractor returns types and sources: yes, no or either
          RunAttempts, \* pipelineMaxAttempts
          PipeFaults   \* bound: crashes, failing models, slow workers, full buses, merges, expiries

ASSUME PipeConstants ==
    /\ {Revs, PipeFaults} \subseteq Nat /\ RunAttempts \in Nat \ {0}
    /\ Drainer \in Enrichers /\ Fleeting \subseteq Texts /\ Overlap \in BOOLEAN /\ Typed \subseteq BOOLEAN
    /\ "" \notin Sources

VARIABLES mem,     \* memories
          clk,     \* clock readings so far
          plan,    \* the prepared write of each client
          outbox,  \* undelivered rows of memory_outbox
          drain,   \* the event that is being drained
          runs,    \* memory_pipeline_runs, by source revision
          queue,   \* the keys an enricher has heard of
          work,    \* the run an enricher works on
          entity,  \* the entity's fact
          links,   \* the sources linked to the entity
          pipeMishaps  \* faults so far

pipeVars == <<mem, clk, plan, outbox, drain, runs, queue, work, entity, links, pipeMishaps>>
factVars == <<mem, clk, plan, outbox>>
stageVars == <<runs, queue, work, entity, links>>

Rev == 1..Revs
FactRow == [key : Sources \cup {""}, action : {"none", "add", "update", "tombstone"}, text : Texts \cup {""},
            invalid : BOOLEAN, expires : {"never", "later", "past"}]
WritePlan == [rev : 0..Revs, key : Sources \cup {""}, text : Texts \cup {""}]
OutboxEvent == [key : Sources, tombstone : BOOLEAN]
StageRun == [key : Sources \cup {""}, attempts : Nat, stale : BOOLEAN,
             st : {"none", "pending", "running", "succeeded", "failed", "superseded"}]
StageWork == [pc : {"idle", "claim", "claimtx", "extract", "plan", "apply", "finish"}, key : Sources \cup {""},
              rev : 0..Revs, attempt : Nat, pin : Nat, write : BOOLEAN, count : Nat,
              cites : SUBSET Rev, lineage : Nat,
              outcome : {"", "succeeded", "failed", "superseded"}]
EntityHead == [version : Nat, mentions : Nat, sources : SUBSET Rev, lineage : Nat, typed : BOOLEAN]

NoRow == [key |-> "", action |-> "none", text |-> "", invalid |-> FALSE, expires |-> "never"]
NoPlan == [rev |-> 0, key |-> "", text |-> ""]
NoRun == [key |-> "", st |-> "none", attempts |-> 0, stale |-> FALSE]
NoWork == [pc |-> "idle", key |-> "", rev |-> 0, attempt |-> 0, pin |-> 0, write |-> FALSE, count |-> 0,
           cites |-> {}, lineage |-> 0, outcome |-> ""]
NoDrain == [pc |-> "idle", live |-> 0]

PipeInit ==
    /\ mem = [r \in Rev |-> NoRow]
    /\ clk = 0
    /\ plan = [c \in Clients |-> NoPlan]
    /\ outbox = <<>>
    /\ drain = NoDrain
    /\ runs = [r \in Rev |-> NoRun]
    /\ queue = [w \in Enrichers |-> {}]
    /\ work = [w \in Enrichers |-> NoWork]
    /\ \E t \in Typed : entity = [version |-> 0, mentions |-> 0, sources |-> {}, lineage |-> 0, typed |-> t]
    /\ links = {}
    /\ pipeMishaps = 0

PipeMishap == pipeMishaps < PipeFaults /\ pipeMishaps' = pipeMishaps + 1

-----------------------------------------------------------------------------
(* memory.go *)

RowsOf(k) == {r \in Rev : mem[r].key = k}
Newest(S) == IF S = {} THEN 0 ELSE Max(S)
Visible(r) == r # 0 /\ mem[r].action # "tombstone" /\ mem[r].expires # "past"

\* liveByKeys, Recall, Search: the newest revision unless it is a tombstone or
\* expired; 0 for none.
LiveByKey(k) == LET r == Newest(RowsOf(k)) IN IF Visible(r) THEN r ELSE 0

\* liveRevisionTx: the row that was never invalidated.
LiveRevision(k) == LET r == Newest({q \in RowsOf(k) : ~mem[q].invalid}) IN IF Visible(r) THEN r ELSE 0

\* liveAction
HasLive(k) == LET r == Newest(RowsOf(k)) IN r # 0 /\ mem[r].action # "tombstone"

\* Invalidation of the key's open rows, and the insert.
ReplaceRow(k, r, row) ==
    mem' = [q \in Rev |-> IF q = r THEN row
                          ELSE IF mem[q].key = k THEN [mem[q] EXCEPT !.invalid = TRUE] ELSE mem[q]]

\* writePrepare reads the clock, then waits for the embedding.
WritePrepare(c, k, t) ==
    /\ plan[c].rev = 0 /\ clk < Revs
    /\ Overlap \/ \A d \in Clients : plan[d].rev = 0
    /\ clk' = clk + 1
    /\ plan' = [plan EXCEPT ![c] = [rev |-> clk + 1, key |-> k, text |-> t]]
    /\ UNCHANGED <<mem, outbox, drain, stageVars, pipeMishaps>>

\* The newest row has this content: only its reinforcements change.
Duplicate(k, t) == HasLive(k) /\ mem[Newest(RowsOf(k))].text = t

\* writeTx, with its outbox row.
WriteTx(c) ==
    LET p == plan[c] IN
    /\ p.rev # 0
    /\ plan' = [plan EXCEPT ![c] = NoPlan]
    /\ IF Duplicate(p.key, p.text) THEN UNCHANGED <<mem, outbox>>
       ELSE /\ ReplaceRow(p.key, p.rev,
                 [key |-> p.key, action |-> IF HasLive(p.key) THEN "update" ELSE "add", text |-> p.text,
                  invalid |-> FALSE, expires |-> IF p.text \in Fleeting THEN "later" ELSE "never"])
            /\ outbox' = Append(outbox, [key |-> p.key, tombstone |-> FALSE])
    /\ UNCHANGED <<clk, drain, stageVars, pipeMishaps>>

Forget(k) ==
    /\ clk < Revs
    /\ Overlap \/ \A d \in Clients : plan[d].rev = 0
    /\ HasLive(k)
    /\ clk' = clk + 1
    /\ ReplaceRow(k, clk + 1, [NoRow EXCEPT !.key = k, !.action = "tombstone"])
    /\ outbox' = Append(outbox, [key |-> k, tombstone |-> TRUE])
    /\ UNCHANGED <<plan, drain, stageVars, pipeMishaps>>

Expire(r) ==
    /\ mem[r].expires = "later" /\ PipeMishap
    /\ mem' = [mem EXCEPT ![r].expires = "past"]
    /\ UNCHANGED <<clk, plan, outbox, drain, stageVars>>

\* SweepRetention: superseded rows and final tombstones before the cutoff, and
\* every expired row.
SweepRetention(cutoff) ==
    LET older(r) == r < cutoff
        superseded == {r \in Rev : older(r) /\ \E q \in Rev : q > r /\ mem[q].key = mem[r].key}
        dead == {r \in Rev : older(r) /\ mem[r].action = "tombstone" /\ r = Newest(RowsOf(mem[r].key))}
        expired == {r \in Rev : mem[r].expires = "past"}
        gone == {r \in superseded \cup dead \cup expired : mem[r].action # "none"}
    IN /\ gone # {}
       /\ mem' = [r \in Rev |-> IF r \in gone THEN NoRow ELSE mem[r]]
       /\ UNCHANGED <<clk, plan, outbox, drain, stageVars, pipeMishaps>>

-----------------------------------------------------------------------------
(* outbox.go: persist the stage work, publish, mark as delivered *)

PendingRuns(k) == {r \in Rev : runs[r].st = "pending" /\ runs[r].key = k}
Retire(S) == [r \in Rev |-> IF r \in S THEN [runs[r] EXCEPT !.st = "superseded"] ELSE runs[r]]
EnsureRun(r, k) == IF r # 0 /\ runs[r].st = "none" THEN [runs EXCEPT ![r] = [@ EXCEPT !.st = "pending", !.key = k]] ELSE runs

\* persistStageWork looks at the live revision ...
DrainRead ==
    /\ drain.pc = "idle" /\ outbox # <<>>
    /\ drain' = [pc |-> "persist", live |-> LiveByKey(Head(outbox).key)]
    /\ UNCHANGED <<factVars, stageVars, pipeMishaps>>

\* Mutant: the event is published without its durable work.
DrainPersistNothing ==
    /\ drain.pc = "persist"
    /\ drain' = [drain EXCEPT !.pc = "publish"]
    /\ UNCHANGED <<factVars, stageVars, pipeMishaps>>

\* ... and records pending work for it, or retires the pending work of others.
DrainPersist ==
    /\ drain.pc = "persist"
    /\ LET e == Head(outbox) IN
       runs' = IF e.tombstone THEN Retire(PendingRuns(e.key) \ {drain.live}) ELSE EnsureRun(drain.live, e.key)
    /\ drain' = [drain EXCEPT !.pc = "publish"]
    /\ UNCHANGED <<factVars, queue, work, entity, links, pipeMishaps>>

\* The bus is in memory; a full subscriber misses the event.
DrainPublish ==
    /\ drain.pc = "publish"
    /\ LET e == Head(outbox) IN
       \/ /\ queue' = IF e.tombstone THEN queue ELSE [queue EXCEPT ![Drainer] = @ \cup {e.key}]
          /\ UNCHANGED pipeMishaps
       \/ ~e.tombstone /\ PipeMishap /\ UNCHANGED queue
    /\ drain' = [drain EXCEPT !.pc = "mark"]
    /\ UNCHANGED <<factVars, runs, work, entity, links>>

DrainMark ==
    /\ drain.pc = "mark"
    /\ outbox' = Tail(outbox)
    /\ drain' = NoDrain
    /\ UNCHANGED <<mem, clk, plan, stageVars, pipeMishaps>>

-----------------------------------------------------------------------------
(* pipeline_runs.go and flushEntityStage *)

WorkStep(w, rec) == work' = [work EXCEPT ![w] = rec]

TakeKey(w, k) ==
    /\ work[w].pc = "idle" /\ k \in queue[w]
    /\ queue' = [queue EXCEPT ![w] = @ \ {k}]
    /\ WorkStep(w, [NoWork EXCEPT !.pc = "claim", !.key = k])
    /\ UNCHANGED <<factVars, drain, runs, entity, links, pipeMishaps>>

\* claimPipelineWork resolves the live revision ...
ClaimRead(w) ==
    /\ work[w].pc = "claim"
    /\ LET r == LiveByKey(work[w].key) IN
       WorkStep(w, IF r = 0 THEN NoWork ELSE [work[w] EXCEPT !.pc = "claimtx", !.rev = r])
    /\ UNCHANGED <<factVars, drain, runs, queue, entity, links, pipeMishaps>>

\* ... and retires pending runs of every other one, ensures its run and takes it.
ClaimTx(w) ==
    /\ work[w].pc = "claimtx"
    /\ LET k == work[w].key
           r == work[w].rev
           mine == runs[r].st \in {"none", "pending"}
           taken == [key |-> k, st |-> "running", attempts |-> runs[r].attempts + 1, stale |-> FALSE]
       IN /\ runs' = [q \in Rev |-> IF q = r /\ mine THEN taken
                                    ELSE IF q \in PendingRuns(k) THEN [runs[q] EXCEPT !.st = "superseded"]
                                    ELSE runs[q]]
          /\ WorkStep(w, IF mine THEN [work[w] EXCEPT !.pc = "extract", !.attempt = runs[r].attempts + 1] ELSE NoWork)
    /\ UNCHANGED <<factVars, drain, queue, entity, links, pipeMishaps>>

\* The batch reads the live facts once more before the model is asked.
Extract(w) ==
    /\ work[w].pc = "extract"
    /\ \/ /\ LiveByKey(work[w].key) # work[w].rev
          /\ WorkStep(w, [work[w] EXCEPT !.pc = "finish", !.outcome = "superseded"])
          /\ UNCHANGED pipeMishaps
       \/ /\ LiveByKey(work[w].key) = work[w].rev
          /\ \/ WorkStep(w, [work[w] EXCEPT !.pc = "plan"]) /\ UNCHANGED pipeMishaps
             \/ PipeMishap /\ WorkStep(w, [work[w] EXCEPT !.pc = "finish", !.outcome = "failed"])
    /\ UNCHANGED <<factVars, drain, runs, queue, entity, links>>

\* The plan is pinned to the entity's head.  (The links are read before the head;
\* only a merge of entities could come in between, see EntityMerge.)
Planned(w, write, count) ==
    /\ work[w].pc = "plan"
    /\ WorkStep(w, [work[w] EXCEPT !.pc = "apply", !.pin = entity.version, !.write = write, !.count = count,
                                   !.cites = entity.sources \cup IF entity.typed THEN {work[w].rev} ELSE {},
                                   !.lineage = entity.lineage])
    /\ UNCHANGED <<factVars, drain, runs, queue, entity, links, pipeMishaps>>
\* Names alone: a source that is linked already changes nothing.
planEntityApply(w) == ~entity.typed /\ Planned(w, work[w].key \notin links, entity.mentions + 1)
\* A source that is not linked yet is counted; another revision of a linked one only
\* adds its id to the entity's sources.
planTypedSourceApply(w) ==
    LET new == work[w].key \notin links IN
    entity.typed /\ Planned(w, new \/ work[w].rev \notin entity.sources, entity.mentions + IF new THEN 1 ELSE 0)

\* fencedStageTx: the claim is still held, and the revision is still the live one.
FenceHolds(w) ==
    /\ runs[work[w].rev].st = "running" /\ runs[work[w].rev].attempts = work[w].attempt
    /\ LiveRevision(work[w].key) = work[w].rev

\* writeTx: the newest revision has the planned content, which is asked before ...
SameContent(w) ==
    /\ entity.version > 0
    /\ entity.mentions = work[w].count /\ entity.sources = work[w].cites /\ entity.lineage = work[w].lineage

\* ... expectPrevID and expectAbsent, else ErrEntityApplyStaleTarget.
PinHolds(w) == entity.version = work[w].pin

\* execEntityApplyTx under the fence: the fact, unless its content is there already,
\* and the link.  The content was computed by the plan.
Apply(w) ==
    /\ work[w].pc = "apply"
    /\ LET ok == FenceHolds(w) /\ (work[w].write => SameContent(w) \/ PinHolds(w)) IN
       /\ entity' = IF ok /\ work[w].write /\ ~SameContent(w)
                      THEN [version |-> entity.version + 1, mentions |-> work[w].count, sources |-> work[w].cites,
                            lineage |-> work[w].lineage, typed |-> entity.typed]
                      ELSE entity
       /\ links' = IF ok /\ work[w].write THEN links \cup {work[w].key} ELSE links
       /\ WorkStep(w, [work[w] EXCEPT !.pc = "finish",
                    !.outcome = IF ok THEN "succeeded" ELSE IF FenceHolds(w) THEN "failed" ELSE "superseded"])
    /\ UNCHANGED <<factVars, drain, runs, queue, pipeMishaps>>

\* finishPipelineRun: a late finish of a run that was claimed again does nothing.
FinishRun(w) ==
    /\ work[w].pc = "finish"
    /\ LET r == work[w].rev IN
       runs' = IF runs[r].st = "running" /\ runs[r].attempts = work[w].attempt
                 THEN [runs EXCEPT ![r].st = work[w].outcome] ELSE runs
    /\ WorkStep(w, NoWork)
    /\ UNCHANGED <<factVars, drain, queue, entity, links, pipeMishaps>>

\* recoverPipelineRuns, at start and on its tick: runs whose lease is over, failed
\* ones with attempts left, and all that is pending.
Recover(w) ==
    /\ work[w].pc = "idle"
    /\ LET again == {r \in Rev : \/ runs[r].st = "running" /\ runs[r].stale
                                 \/ runs[r].st = "failed" /\ runs[r].attempts < RunAttempts}
           todo == again \cup {r \in Rev : runs[r].st = "pending"}
           keys == {runs[r].key : r \in todo}
       IN /\ again # {} \/ ~(keys \subseteq queue[w])
          /\ runs' = [r \in Rev |-> IF r \in again THEN [runs[r] EXCEPT !.st = "pending"] ELSE runs[r]]
          /\ queue' = [queue EXCEPT ![w] = @ \cup keys]
    /\ UNCHANGED <<factVars, drain, work, entity, links, pipeMishaps>>

Holder(r) == {w \in Enrichers : work[w].rev = r /\ work[w].attempt = runs[r].attempts}

\* pipelineRunLease passes: of a dead worker's run, or of a slow one's.
LeaseOver(r) ==
    /\ runs[r].st = "running" /\ ~runs[r].stale
    /\ IF Holder(r) # {} THEN PipeMishap ELSE UNCHANGED pipeMishaps
    /\ runs' = [runs EXCEPT ![r].stale = TRUE]
    /\ UNCHANGED <<factVars, drain, queue, work, entity, links>>

\* A server stops between any two steps.
CrashEnricher(w) ==
    /\ PipeMishap
    /\ WorkStep(w, NoWork)
    /\ queue' = [queue EXCEPT ![w] = {}]
    /\ drain' = IF w = Drainer THEN NoDrain ELSE drain
    /\ UNCHANGED <<factVars, runs, entity, links>>

\* Another writer, such as a merge of entities, replaces the entity's fact.
RewriteEntity ==
    /\ entity.version > 0 /\ PipeMishap
    /\ entity' = [entity EXCEPT !.version = @ + 1, !.lineage = @ + 1]
    /\ UNCHANGED <<factVars, drain, runs, queue, work, links>>

EnricherStep(w) == \/ \E k \in Sources : TakeKey(w, k)
                   \/ ClaimRead(w) \/ ClaimTx(w) \/ Extract(w) \/ planEntityApply(w) \/ planTypedSourceApply(w)
                   \/ Apply(w) \/ FinishRun(w)
TailerStep == DrainRead \/ DrainPersist \/ DrainPublish \/ DrainMark

PipeNext ==
    \/ \E c \in Clients : WriteTx(c) \/ \E k \in Sources, t \in Texts : WritePrepare(c, k, t)
    \/ \E k \in Sources : Forget(k)
    \/ \E r \in Rev : Expire(r) \/ LeaseOver(r) \/ SweepRetention(r)
    \/ TailerStep
    \/ \E w \in Enrichers : EnricherStep(w) \/ Recover(w) \/ CrashEnricher(w)
    \/ RewriteEntity

PipeSpec == PipeInit /\ [][PipeNext]_pipeVars

\* The tailer and the enrichers keep running, leases run out, and a pass of the
\* enricher takes all keys it has heard of in turn.
PipeRecurs(i, w, k) == \/ i = 1 /\ Recover(w)
                       \/ i = 2 /\ TakeKey(w, k)

PipeProceeds(i, w) == \/ i = 1 /\ TailerStep
                      \/ i = 2 /\ EnricherStep(w)
                      \/ i - 2 \in Rev /\ LeaseOver(i - 2)

PipeFairness == \A w \in Enrichers : /\ \A i \in 1..2 + Revs : WF_pipeVars(PipeProceeds(i, w))
                                    /\ \A i \in 1..2, k \in Sources : SF_pipeVars(PipeRecurs(i, w, k))

PipeFairSpec == PipeSpec /\ PipeFairness

-----------------------------------------------------------------------------
(* Properties *)

\* Type correctness of the facts, the events, the runs and the workers.
PipeTypeOK ==
    /\ mem \in [Rev -> FactRow] /\ clk \in 0..Revs /\ plan \in [Clients -> WritePlan]
    /\ outbox \in Seq(OutboxEvent) /\ drain \in [pc : {"idle", "persist", "publish", "mark"}, live : 0..Revs]
    /\ runs \in [Rev -> StageRun] /\ queue \in [Enrichers -> SUBSET Sources] /\ work \in [Enrichers -> StageWork]
    /\ entity \in EntityHead /\ links \subseteq Sources
    /\ pipeMishaps \in 0..PipeFaults

\* Two servers, reclaimed runs, retries and crashes: the mention count never counts a
\* source twice, and with typed extraction, where an entity cites its revisions, it
\* counts every linked source.  (Two plans for names alone may have the same content:
\* the second one is a duplicate, whose source is linked and not counted.)
MentionsAreCounted ==
    /\ entity.mentions <= Cardinality(links)
    /\ entity.typed => entity.mentions = Cardinality(links)

\* "The persisted row, not the ephemeral publish, is the delivery boundary": once
\* all events of a key are delivered, its live revision has a run.
DeliveredHasWork ==
    \A k \in Sources :
        LET r == LiveByKey(k) IN
        r # 0 /\ ~mem[r].invalid /\ (\A i \in 1..Len(outbox) : outbox[i].key # k) => runs[r].st # "none"

\* "A newer revision's run does the work": the run of the live revision is never
\* the one that is retired.
LiveRunIsKept == \A k \in Sources : LET r == LiveByKey(k) IN r # 0 /\ ~mem[r].invalid => runs[r].st # "superseded"

\* liveRevisionTx has "liveByKeys' revision rule": what readers see is the row
\* that was never invalidated.
ReadsFollowHead == \A k \in Sources : LiveByKey(k) = LiveRevision(k)

\* A fact that stays gets a run and the run comes to its end: it succeeds, fails as
\* often as it may, or is retired (LiveRunIsKept is about that), although events are
\* lost and servers crash.  (A revision waits once and there are finitely many: that
\* none waits recurs if each stops waiting.)
Underived(r) ==
    /\ mem[r].action \in {"add", "update"} /\ ~mem[r].invalid /\ mem[r].expires # "past"
    /\ runs[r].st \notin {"succeeded", "superseded"}
    /\ ~(runs[r].st = "failed" /\ runs[r].attempts = RunAttempts)
LiveFactsAreDerived == []<>(\A r \in Rev : ~Underived(r))

\* No source of an entity is counted twice and no live fact is without its work, from
\* its write to its derivation.
PipeSafety == MentionsAreCounted /\ DeliveredHasWork
=============================================================================
