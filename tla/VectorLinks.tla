----------------------------- MODULE VectorLinks ----------------------------
(***************************************************************************)
(* Vectors of facts, what is derived from them, and the search over them    *)
(* (internal/memory: enrich.go, embed.go, ivf.go, links.go, consolidate.go):*)
(* the embed-link stage under its claimed run, the backfill and re-embed    *)
(* tools, the creative pass, the user who closes links, and VectorSearch    *)
(* with an index that was built at another time.                            *)
(*                                                                          *)
(* A vector is the body it was made from and the model that made it; two    *)
(* vectors are near when both agree.  Beside it stands its form: with the   *)
(* key before the body (embedText), or bare, as the enricher makes it.      *)
(* Which centroids a query probes is left open.  What is read outside a     *)
(* transaction is a step of its own.                                        *)
(***************************************************************************)
EXTENDS Naturals, FiniteSets

CONSTANTS VecKeys,         \* keys of facts, the default order among them being any
          Enriched,        \* those the embed-link stage hears of
          Bodies,          \* texts; facts with the same text are near
          VecWorkers,      \* enrichers
          Legacy,          \* whether the vectors at start are another model's
          TopN,            \* links a run may add
          MaxLinks,        \* links a creative pass may add
          VecRevs,         \* bound on the revisions of a fact
          VecEdits,        \* bound on what users do
          Passes,          \* bound on creative passes, tools and searches
          VecFaults        \* bound on failed embeddings, crashes, late leases

ASSUME VecConstants ==
    /\ {TopN, MaxLinks, VecEdits, Passes, VecFaults} \subseteq Nat /\ VecRevs \in Nat \ {0}
    /\ Enriched \subseteq VecKeys /\ Bodies # {} /\ Legacy \in BOOLEAN

VARIABLES vecFacts,        \* the newest revision of each key
          linkRows,        \* similar_to rows
          stageRuns,       \* embed_link runs, by key and revision
          worker,          \* the run an enricher works on
          pass,            \* the creative pass
          tool,            \* embed-backfill
          index,           \* ivf, by key; id 0 where the key was not indexed
          search,          \* one VectorSearch
          vecEdits, passes, vecFaults

vecVars == <<vecFacts, linkRows, stageRuns, worker, pass, tool, index, search, vecEdits, passes, vecFaults>>

NoVec == <<"none", "none">>
Embedded(t) == <<t, "present">>          \* with the configured embedder
NoFact == [id |-> 0, live |-> FALSE, text |-> "none", vec |-> NoVec, form |-> "none"]
Keyed(v) == IF v = NoVec THEN "none" ELSE "keyed"
NoFacts == [k \in VecKeys |-> NoFact]
NoWorker == [pc |-> "idle", key |-> "none", rev |-> 0, attempt |-> 0, seen |-> NoFacts, except |-> {}, added |-> 0, fresh |-> 0, quiet |-> FALSE]
NoPass == [pc |-> "idle", seen |-> NoFacts, except |-> {}, added |-> 0, fresh |-> 0, quiet |-> FALSE]
NoTool == [pc |-> "idle", todo |-> {}]
NoEntry == [id |-> 0, vec |-> NoVec]
NoSearch == [pc |-> "idle", seen |-> NoFacts, hits |-> {}, used |-> [k \in VecKeys |-> NoEntry]]

\* Written before this began: what is to be enriched has no vector yet, unless the
\* embedder was another one then.
VecInit ==
    /\ LET t == CHOOSE x \in Bodies : TRUE
           v(k) == IF Legacy THEN <<t, "former">> ELSE IF k \in Enriched THEN NoVec ELSE Embedded(t) IN
       vecFacts = [k \in VecKeys |-> [id |-> 1, live |-> TRUE, text |-> t, vec |-> v(k), form |-> Keyed(v(k))]]
    /\ linkRows = [e \in VecKeys \X VecKeys |-> "none"]
    /\ stageRuns = [r \in VecKeys \X (1..VecRevs) |-> [st |-> "none", attempts |-> 0]]
    /\ worker = [w \in VecWorkers |-> NoWorker]
    /\ pass = NoPass /\ tool = NoTool /\ search = NoSearch
    /\ index = [k \in VecKeys |-> NoEntry]
    /\ vecEdits = 0 /\ passes = 0 /\ vecFaults = 0

VecEdit == vecEdits < VecEdits /\ vecEdits' = vecEdits + 1 /\ UNCHANGED passes
VecPass == passes < Passes /\ passes' = passes + 1 /\ UNCHANGED vecEdits
VecMishap == vecFaults < VecFaults /\ vecFaults' = vecFaults + 1
\* cosine >= threshold; vectors of different lengths have no cosine.
Near(u, v) == u # NoVec /\ u = v
StillLive(k, rev) == vecFacts[k].live /\ vecFacts[k].id = rev
StillSeen(seen, k) == seen[k].live /\ seen[k].vec # NoVec

-----------------------------------------------------------------------------
(* Facts and links change under everyone's feet *)

Write(k, t) ==
    /\ VecEdit /\ vecFacts[k].id < VecRevs /\ ~(vecFacts[k].live /\ vecFacts[k].text = t)
    /\ \E v \in {NoVec, Embedded(t)} :
         vecFacts' = [vecFacts EXCEPT ![k] = [id |-> @.id + 1, live |-> TRUE, text |-> t, vec |-> v, form |-> Keyed(v)]]
    /\ UNCHANGED <<linkRows, stageRuns, worker, pass, tool, index, search, vecFaults>>
ForgetFact(k) ==
    /\ VecEdit /\ vecFacts[k].live
    /\ vecFacts' = [vecFacts EXCEPT ![k].live = FALSE]
    /\ UNCHANGED <<linkRows, stageRuns, worker, pass, tool, index, search, vecFaults>>

\* Whoever else has read the links no longer has them right.
Disturbed(f) == [w \in DOMAIN f |-> [f[w] EXCEPT !.quiet = FALSE]]
InvalidateLink(e) ==
    /\ VecEdit /\ linkRows[e] = "live"
    /\ linkRows' = [linkRows EXCEPT ![e] = "closed"]
    /\ worker' = Disturbed(worker) /\ pass' = [pass EXCEPT !.quiet = FALSE]
    /\ UNCHANGED <<vecFacts, stageRuns, tool, index, search, vecFaults>>

\* ON CONFLICT DO NOTHING.
addLinkTx(e) == IF linkRows[e] = "none" THEN [linkRows EXCEPT ![e] = "live"] ELSE linkRows
Fresh(e) == IF linkRows[e] = "none" THEN 1 ELSE 0

-----------------------------------------------------------------------------
(* runEmbedLinkStage and enrichKey *)

WorkerAt(w, rec) == worker' = [worker EXCEPT ![w] = rec]
WorkerPc(w, pc) == WorkerAt(w, [worker[w] EXCEPT !.pc = pc])
Run(w) == stageRuns[<<worker[w].key, worker[w].rev>>]
OthersKept == UNCHANGED <<pass, tool, index, search>>

StageClaim(w, k) ==
    /\ worker[w].pc = "idle" /\ vecFacts[k].live
    /\ LET r == <<k, vecFacts[k].id>> IN
       /\ stageRuns[r].st \in {"none", "pending"}
       /\ stageRuns' = [stageRuns EXCEPT ![r] = [st |-> "running", attempts |-> @.attempts + 1]]
       /\ WorkerAt(w, [NoWorker EXCEPT !.pc = "read", !.key = k, !.rev = r[2], !.attempt = stageRuns[r].attempts + 1])
    /\ OthersKept /\ UNCHANGED <<vecFacts, linkRows, vecEdits, passes, vecFaults>>
\* liveWithVectors.  A fact that is gone ends the pass.
EnrichRead(w) ==
    /\ worker[w].pc = "read"
    /\ LET f == vecFacts[worker[w].key]
           next == IF ~f.live THEN "finish" ELSE IF f.vec = NoVec THEN "embed" ELSE "targets"
       IN  WorkerAt(w, [worker[w] EXCEPT !.seen = vecFacts, !.pc = next])
    /\ OthersKept /\ UNCHANGED <<vecFacts, linkRows, stageRuns, vecEdits, passes, vecFaults>>

\* Mutant: only that the revision is the live one is asked.
FenceOnRevision(w) == StillLive(worker[w].key, worker[w].rev)
\* fencedStageTx: the claim is held, and its revision is the live one.
RunFence(w) == Run(w).st = "running" /\ Run(w).attempts = worker[w].attempt /\ StillLive(worker[w].key, worker[w].rev)

\* The vector is computed from the bare body that was read, and stored with the revision that was read.
EnrichEmbeds(w) ==
    /\ worker[w].pc = "embed"
    /\ LET k == worker[w].key
           f == worker[w].seen[k]
       IN  \/ /\ ~StillLive(k, f.id)
              /\ WorkerPc(w, "finish") /\ UNCHANGED vecFaults
           \/ /\ StillLive(k, f.id)
              /\ WorkerAt(w, [worker[w] EXCEPT !.pc = "store", !.seen[k] = [f EXCEPT !.vec = Embedded(f.text), !.form = "bare"]])
              /\ UNCHANGED vecFaults
           \/ StillLive(k, f.id) /\ VecMishap /\ WorkerPc(w, "failed")
    /\ OthersKept /\ UNCHANGED <<vecFacts, linkRows, stageRuns, vecEdits, passes>>
StoredOn(k, f) == IF vecFacts[k].id = f.id THEN [vecFacts EXCEPT ![k].vec = f.vec, ![k].form = f.form] ELSE vecFacts
EnrichStores(w) ==
    /\ worker[w].pc = "store"
    /\ LET k == worker[w].key IN
       IF RunFence(w) THEN vecFacts' = StoredOn(k, worker[w].seen[k]) /\ WorkerPc(w, "targets")
       ELSE WorkerPc(w, "finish") /\ UNCHANGED vecFacts
    /\ OthersKept /\ UNCHANGED <<linkRows, stageRuns, vecEdits, passes, vecFaults>>

linkTargetsAll(k) == {j \in VecKeys : linkRows[<<k, j>>] # "none"}
EnrichTargets(w) ==
    /\ worker[w].pc = "targets"
    /\ WorkerAt(w, [worker[w] EXCEPT !.pc = "link", !.except = linkTargetsAll(worker[w].key) \cup {worker[w].key}, !.quiet = TRUE])
    /\ OthersKept /\ UNCHANGED <<vecFacts, linkRows, stageRuns, vecEdits, passes, vecFaults>>
Candidates(s, k) == {j \in VecKeys \ s.except : StillSeen(s.seen, j) /\ Near(s.seen[k].vec, s.seen[j].vec)}
\* The next candidate, in no particular order: all of them are as near.
EnrichLinks(w) ==
    /\ worker[w].pc = "link"
    /\ LET k == worker[w].key
           left == IF worker[w].added < TopN THEN Candidates(worker[w], k) ELSE {}
       IN  IF left = {} \/ ~RunFence(w) THEN WorkerPc(w, "finish") /\ UNCHANGED <<linkRows, pass>>
           ELSE \E j \in left :
                  /\ linkRows' = addLinkTx(<<k, j>>)
                  /\ worker' = [Disturbed(worker) EXCEPT ![w] =
                         [worker[w] EXCEPT !.except = @ \cup {j}, !.added = @ + 1, !.fresh = @ + Fresh(<<k, j>>)]]
                  /\ pass' = [pass EXCEPT !.quiet = FALSE]
    /\ UNCHANGED <<vecFacts, stageRuns, tool, index, search, vecEdits, passes, vecFaults>>
\* finishPipelineRun, by whoever still holds the claim.
StageFinish(w) ==
    /\ worker[w].pc \in {"finish", "failed"}
    /\ LET r == <<worker[w].key, worker[w].rev>>
           st == IF worker[w].pc = "failed" THEN "failed" ELSE IF StillLive(r[1], r[2]) THEN "succeeded" ELSE "superseded"
       IN  stageRuns' = IF Run(w).st = "running" /\ Run(w).attempts = worker[w].attempt
                        THEN [stageRuns EXCEPT ![r].st = st] ELSE stageRuns
    /\ WorkerAt(w, NoWorker)
    /\ OthersKept /\ UNCHANGED <<vecFacts, linkRows, vecEdits, passes, vecFaults>>
StageRequeue(r) ==
    /\ stageRuns[r].st \in {"running", "failed"} /\ VecMishap
    /\ stageRuns' = [stageRuns EXCEPT ![r].st = "pending"]
    /\ UNCHANGED <<vecFacts, linkRows, worker, pass, tool, index, search, vecEdits, passes>>
WorkerCrash(w) ==
    /\ worker[w].pc # "idle" /\ VecMishap /\ WorkerAt(w, NoWorker)
    /\ OthersKept /\ UNCHANGED <<vecFacts, linkRows, stageRuns, vecEdits, passes>>

-----------------------------------------------------------------------------
(* CreativePass: pairs in both orientations count as seen, nothing is fenced *)

CreativeRead ==
    /\ pass.pc = "idle" /\ VecPass
    /\ pass' = [NoPass EXCEPT !.pc = "pairs", !.seen = vecFacts]
    /\ UNCHANGED <<vecFacts, linkRows, stageRuns, worker, tool, index, search, vecFaults>>
CreativePairs ==
    /\ pass.pc = "pairs"
    /\ pass' = [pass EXCEPT !.pc = "link", !.quiet = TRUE,
                !.except = {e \in VecKeys \X VecKeys : linkRows[e] # "none" \/ linkRows[<<e[2], e[1]>>] # "none"}]
    /\ UNCHANGED <<vecFacts, linkRows, stageRuns, worker, tool, index, search, vecEdits, passes, vecFaults>>
CreativeLinks ==
    /\ pass.pc = "link"
    /\ LET pairs == {e \in (VecKeys \X VecKeys) \ pass.except :
                       /\ e[1] # e[2] /\ StillSeen(pass.seen, e[1]) /\ StillSeen(pass.seen, e[2])
                       /\ Near(pass.seen[e[1]].vec, pass.seen[e[2]].vec)}
       IN  IF pairs = {} \/ pass.added = MaxLinks THEN pass' = NoPass /\ UNCHANGED <<linkRows, worker>>
           ELSE LET e == CHOOSE x \in pairs : TRUE IN
                /\ linkRows' = addLinkTx(e)
                /\ pass' = [pass EXCEPT !.except = @ \cup {e, <<e[2], e[1]>>}, !.added = @ + 1, !.fresh = @ + Fresh(e)]
                /\ worker' = Disturbed(worker)
    /\ UNCHANGED <<vecFacts, stageRuns, tool, index, search, vecEdits, passes, vecFaults>>

-----------------------------------------------------------------------------
(* BackfillEmbeddings, and ReembedAll with --force *)

ToolRead ==
    /\ tool.pc = "idle" /\ VecPass
    /\ \E force \in BOOLEAN :
         tool' = [pc |-> "embed", todo |-> {<<k, vecFacts[k]>> : k \in {j \in VecKeys : vecFacts[j].live /\ (force \/ vecFacts[j].vec = NoVec)}}]
    /\ UNCHANGED <<vecFacts, linkRows, stageRuns, worker, pass, index, search, vecFaults>>
\* Row by row, outside of any transaction.
ToolStores ==
    /\ tool.pc = "embed"
    /\ IF tool.todo = {} THEN tool' = NoTool /\ UNCHANGED vecFacts
       ELSE LET x == CHOOSE y \in tool.todo : TRUE IN
            /\ vecFacts' = StoredOn(x[1], [x[2] EXCEPT !.vec = Embedded(x[2].text), !.form = "keyed"])
            /\ tool' = [tool EXCEPT !.todo = @ \ {x}]
    /\ UNCHANGED <<linkRows, stageRuns, worker, pass, index, search, vecEdits, passes, vecFaults>>

-----------------------------------------------------------------------------
(* BuildIVF and VectorSearch *)

Indexed(facts) == [k \in VecKeys |-> IF StillSeen(facts, k) THEN [id |-> facts[k].id, vec |-> facts[k].vec] ELSE NoEntry]
BuildIVF ==
    /\ index' = Indexed(vecFacts) /\ index' # index
    /\ UNCHANGED <<vecFacts, linkRows, stageRuns, worker, pass, tool, search, vecEdits, passes, vecFaults>>

\* Which posting lists a query reaches: k-means and nearestCentroids may put any keys there.
ProbedKeys == SUBSET VecKeys
\* The live facts are read, then the index is taken.
SearchRead ==
    /\ search.pc = "idle" /\ VecPass
    /\ search' = [NoSearch EXCEPT !.pc = "score", !.seen = vecFacts]
    /\ UNCHANGED <<vecFacts, linkRows, stageRuns, worker, pass, tool, index, vecFaults>>
\* The postings of the probed centroids, as far as they are current ...
ProbeHits(probed) == {[key |-> k, id |-> index[k].id, vec |-> index[k].vec] :
                        k \in {j \in probed : index[j].id # 0 /\ search.seen[j].live /\ search.seen[j].id = index[j].id}}
\* ... and what the index has no current entry for.
ScanTail == {k \in VecKeys : StillSeen(search.seen, k) /\ index[k].id # search.seen[k].id}
VectorSearch(probed) ==
    /\ search.pc = "score"
    /\ LET hits == ProbeHits(probed) \cup {[key |-> k, id |-> search.seen[k].id, vec |-> search.seen[k].vec] : k \in ScanTail}
       IN  search' = [search EXCEPT !.pc = "done", !.used = index, !.hits = {h \in hits : h.vec[2] = "present"}]
    /\ UNCHANGED <<vecFacts, linkRows, stageRuns, worker, pass, tool, index, vecEdits, passes, vecFaults>>
SearchReturns ==
    /\ search.pc = "done" /\ search' = NoSearch
    /\ UNCHANGED <<vecFacts, linkRows, stageRuns, worker, pass, tool, index, vecEdits, passes, vecFaults>>

-----------------------------------------------------------------------------
VecWorkerStep(w) ==
    \/ \E k \in Enriched : StageClaim(w, k)
    \/ EnrichRead(w) \/ EnrichEmbeds(w) \/ EnrichStores(w) \/ EnrichTargets(w) \/ EnrichLinks(w) \/ StageFinish(w) \/ WorkerCrash(w)
VecNext ==
    \/ \E k \in VecKeys : ForgetFact(k) \/ \E t \in Bodies : Write(k, t)
    \/ \E e \in VecKeys \X VecKeys : InvalidateLink(e)
    \/ \E w \in VecWorkers : VecWorkerStep(w)
    \/ \E r \in DOMAIN stageRuns : StageRequeue(r)
    \/ CreativeRead \/ CreativePairs \/ CreativeLinks \/ ToolRead \/ ToolStores
    \/ BuildIVF \/ SearchRead \/ SearchReturns \/ \E probed \in ProbedKeys : VectorSearch(probed)
VecSpec == VecInit /\ [][VecNext]_vecVars

-----------------------------------------------------------------------------
\* Facts, rows, runs and passes have their types.
VecTypeOK ==
    /\ \A k \in VecKeys : vecFacts[k].id \in 0..VecRevs /\ vecFacts[k].live \in BOOLEAN
    /\ \A e \in VecKeys \X VecKeys : linkRows[e] \in {"none", "live", "closed"}
    /\ \A r \in DOMAIN stageRuns : stageRuns[r].st \in {"none", "pending", "running", "failed", "succeeded", "superseded"}
    /\ \A w \in VecWorkers : worker[w].added <= TopN
    /\ pass.added <= MaxLinks

\* enrichKey, BackfillEmbeddings, ReembedAll: however long the embedder took and whoever wrote meanwhile, the
\* vector of a revision is of that revision's own body; and only a run that was claimed for this very revision may
\* have left one without the key in it.
VectorsAreTheirOwn ==
    \A k \in VecKeys :
        /\ vecFacts[k].vec[1] \in {vecFacts[k].text, "none"}
        /\ vecFacts[k].form = "bare" => stageRuns[<<k, vecFacts[k].id>>].attempts > 0

\* "A user invalidation is final: no resurrection, no budget burn": unless someone changed the links meanwhile,
\* every link that a run or a creative pass has counted is a new one.
BudgetIsSpentOnNew ==
    /\ \A w \in VecWorkers : worker[w].quiet => worker[w].added = worker[w].fresh
    /\ pass.quiet => pass.added = pass.fresh

\* fencedStageTx: a run that lost its claim or its revision derives nothing, so one revision's claim holders
\* never add more than one run may.
ReclaimedDerivesNothing ==
    [][\A w \in VecWorkers : worker[w].pc = "link" /\ worker'[w].added > worker[w].added =>
         /\ StillLive(worker[w].key, worker[w].rev)
         /\ \A x \in VecWorkers \ {w} : worker[x].key = worker[w].key /\ worker[x].rev = worker[w].rev
                                         => worker[x].attempt < worker[w].attempt]_vecVars

\* "The tail brute force guarantees every live vector is always reachable": a fact that a search misses is in a
\* posting list that was not probed, with a vector of the body that it has (in either form).
VectorsAreReachable ==
    search.pc = "done" =>
        \A k \in VecKeys : StillSeen(search.seen, k) /\ search.seen[k].vec[2] = "present" =>
             \/ \E h \in search.hits : h.key = k
             \/ search.used[k] = [id |-> search.seen[k].id, vec |-> search.seen[k].vec]
\* VectorSearch, with an index that was built before or after the facts were read: what it returns is what was live
\* when it read the facts, with a vector of the body that was stored; what it misses was indexed with one.
SearchIsSound ==
    /\ VectorsAreReachable
    /\ search.pc = "done" => \A h \in search.hits :
         search.seen[h.key].live /\ search.seen[h.key].id = h.id /\ search.seen[h.key].vec \in {h.vec, NoVec}

\* Vectors belong to the body of their revision, searches miss nothing by accident, link budgets are
\* spent on new links, and a run without its claim derives nothing.
VectorSafety == [](VectorsAreTheirOwn /\ BudgetIsSpentOnNew /\ SearchIsSound) /\ ReclaimedDerivesNothing
=============================================================================
