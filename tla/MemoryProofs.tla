---------------------------- MODULE MemoryProofs ----------------------------
(***************************************************************************)
(* What EntityMerge promises, for any number of entities, sources and      *)
(* mergers, what FactPipeline promises, for any number of facts, clients,  *)
(* revisions and servers, what SkillStore promises, for any contents,      *)
(* executions, recorders and failures, what NamespaceArchive promises, for *)
(* any number of callers, archives and faults and every page size, and     *)
(* what VectorLinks promises, for any keys, texts, enrichers and budgets.  *)
(***************************************************************************)
EXTENDS FactPipeline, EntityMerge, SkillStore, NamespaceArchive, VectorLinks, FiniteSetTheorems, SequenceTheorems, WellFoundedInduction, TLAPS

-----------------------------------------------------------------------------
(* Entity merges *)

\* A planned merge or undo names two entities, and while their revisions are
\* the ones it read, what it read of them still holds.
Pinned(j) ==
    /\ j.alias \in Entities /\ j.canon \in Entities /\ j.alias # j.canon
    /\ j.aliasRev <= ent[j.alias].rev /\ j.canonRev <= ent[j.canon].rev
    /\ j.op = "applytx" =>
          /\ j.aliasRev = ent[j.alias].rev => ent[j.alias].into = NoEntity
          /\ j.canonRev = ent[j.canon].rev => ent[j.canon].into = NoEntity /\ j.linked = LinkSourcesAll(j.canon)
    /\ j.op = "reverttx" => (j.aliasRev = ent[j.alias].rev => ent[j.alias].into = j.canon)
JobsArePinned == \A m \in Mergers : job[m].op # "none" => Pinned(job[m])

\* The enricher's plan is about an entity and a source.
PlanIsAimed == entPlan.pc # "idle" => entPlan.target \in Entities /\ entPlan.src \in Mentioning

\* A fact that is gone, or was never there, is not part of a merge.
GoneIsBlank == \A e \in Entities : ~ent[e].live => ent[e].into = NoEntity /\ ent[e].recs = {}

\* What a merge added to its canonical the canonical did not have before.
RecordsSplit == \A e \in Entities : \A r \in ent[e].recs : r.added \cap r.protected = {}

MergeInv == MergeTypeOK /\ JobsArePinned /\ PlanIsAimed /\ GoneIsBlank /\ RecordsSplit /\ MergeSafety
LEMMA MergeInitInv == MergeInit => MergeInv
<1> SUFFICES ASSUME MergeInit PROVE MergeInv
  OBVIOUS
<1>1. \A e \in Entities : ent[e] = Fact(0, TRUE, NoAttrs) \/ ent[e] = Fact(0, FALSE, NoAttrs)
  <2> SUFFICES ASSUME NEW e \in Entities PROVE ent[e] = Fact(0, TRUE, NoAttrs) \/ ent[e] = Fact(0, FALSE, NoAttrs)
    OBVIOUS
  <2>1. ent[e] = Fact(0, e \in Written, NoAttrs)
    BY Zenon DEF MergeInit
  <2>2. CASE e \in Written
    BY <2>1, <2>2, Zenon
  <2>3. CASE e \notin Written
    <3>1. (e \in Written) = FALSE
      BY <2>3
    <3> QED
      BY <2>1, <3>1, Zenon
  <2> QED
    BY <2>2, <2>3
<1>2. \A e \in Entities : ent[e] \in EntityFact /\ ent[e].recs = {} /\ ent[e].into = NoEntity /\ ent[e].rev = 0
  <2> DEFINE f == Fact(0, FALSE, NoAttrs)
             t == Fact(0, TRUE, NoAttrs)
  <2>1. 0 \in 0..MergeRevs
    BY MergeConstants
  <2>2. f \in EntityFact /\ t \in EntityFact
    BY <2>1 DEF Fact, NoAttrs, EntityFact
  <2>3. f.recs = {} /\ f.into = NoEntity /\ f.rev = 0 /\ t.recs = {} /\ t.into = NoEntity /\ t.rev = 0
    BY DEF Fact, NoAttrs
  <2> QED
    BY <1>1, <2>2, <2>3, Zenon
<1>3. NoJob \in MergeJob /\ NoJob.op = "none" /\ NoEntPlan \in EntityPlan /\ NoEntPlan.pc = "idle"
  BY MergeConstants DEF NoJob, MergeJob, NoEntPlan, EntityPlan
<1>4. MergeTypeOK
  BY <1>1, <1>2, <1>3, MergeConstants DEF MergeInit, MergeTypeOK
<1>5. JobsArePinned /\ PlanIsAimed
  BY <1>3 DEF MergeInit, JobsArePinned, PlanIsAimed
<1>6. GoneIsBlank /\ RecordsSplit
  BY <1>2 DEF GoneIsBlank, RecordsSplit
<1>7. LineageEnds
  BY <1>2, MergeConstants DEF LineageEnds, NextKey
<1>8. LineageOnBothSides /\ SharedMentionsSurvive
  BY <1>2, MergeConstants DEF LineageOnBothSides, SharedMentionsSurvive
<1> QED
  BY <1>4, <1>5, <1>6, <1>7, <1>8 DEF MergeInv, MergeSafety

\* Every revision of an entity has a number of its own, and the edges of an
\* entity are inserted only with a revision: so a plan that is not stale
\* still knows what it read.
LEMMA PinsStay ==
    ASSUME MergeTypeOK, MergeTypeOK', JobsArePinned,
           \A e \in Entities : \/ ent'[e] = ent[e] /\ LinkSourcesAll(e)' = LinkSourcesAll(e)
                               \/ ent'[e].rev = ent[e].rev + 1,
           \A m \in Mergers : job'[m] \in {job[m], NoJob}
    PROVE  JobsArePinned'
<1> SUFFICES ASSUME NEW m \in Mergers, job'[m].op # "none"
             PROVE  Pinned(job[m])'
  BY DEF JobsArePinned
<1>1. job'[m] = job[m] /\ job[m].op # "none"
  BY DEF NoJob
<1>2. PICK j \in MergeJob : j = job[m]
  BY DEF MergeTypeOK
<1>3. Pinned(j)
  BY <1>1, <1>2 DEF JobsArePinned
<1>4. \A e \in Entities : ent[e].rev \in Int /\ ent'[e].rev \in Int
  BY DEF MergeTypeOK, EntityFact
<1>5. j.aliasRev \in Int /\ j.canonRev \in Int
  BY DEF MergeJob
<1>6. Pinned(j)'
  BY <1>3, <1>4, <1>5 DEF Pinned
<1> QED
  BY <1>1, <1>2, <1>6

\* merged_into leads nowhere new, except that one entity points to another
\* that itself points nowhere: no ring is closed.
LEMMA NoRingCloses ==
    ASSUME LineageEnds, NEW a \in Entities, NEW c \in Entities,
           \A e \in Entities : e # a => NextKey(e)' \in {NextKey(e), NoEntity},
           \/ NextKey(a)' \in {NextKey(a), NoEntity}
           \/ NextKey(a)' = c /\ NextKey(c)' = NoEntity
    PROVE  LineageEnds'
<1> SUFFICES ASSUME NEW S \in SUBSET Entities, S # {}
             PROVE  \E e \in S : NextKey(e)' \notin S
  BY DEF LineageEnds
<1>1. PICK e \in S : NextKey(e) \notin S
  BY DEF LineageEnds
<1>2. NoEntity \notin S
  BY MergeConstants
<1> QED
  BY <1>1, <1>2

EntityAttrs == [into : Entities \cup {NoEntity}, recs : SUBSET MergeRecord, base : SUBSET Mentioning, count : Nat]

LEMMA AttrsTyped ==
    ASSUME MergeTypeOK, NEW e \in Entities
    PROVE  /\ Attrs(e) \in EntityAttrs
           /\ Attrs(e).into = ent[e].into /\ Attrs(e).recs = ent[e].recs
           /\ Attrs(e).base = ent[e].base /\ Attrs(e).count = ent[e].count
           /\ NoAttrs \in EntityAttrs /\ NoAttrs.into = NoEntity /\ NoAttrs.recs = {}
<1>1. ent[e] \in EntityFact
  BY DEF MergeTypeOK
<1> QED
  BY <1>1 DEF Attrs, EntityAttrs, EntityFact, NoAttrs

LEMMA RevisionTyped ==
    ASSUME MergeTypeOK, NEW e \in Entities, Room(e), NEW a \in EntityAttrs
    PROVE  /\ Revise(e, a) \in EntityFact
           /\ Revise(e, a).rev = ent[e].rev + 1 /\ Revise(e, a).live = TRUE
           /\ Revise(e, a).into = a.into /\ Revise(e, a).recs = a.recs
<1>1. ent[e] \in EntityFact
  BY DEF MergeTypeOK
<1>2. PICK n \in 0..MergeRevs : n = ent[e].rev + 1
  BY <1>1, MergeConstants DEF EntityFact, Room
<1>3. Revise(e, a) = Fact(n, TRUE, a)
  BY <1>2 DEF Revise
<1> QED
  BY <1>2, <1>3 DEF Fact, EntityFact, EntityAttrs

\* What AddLinks and CloseLinks do to the edges of an entity.
LEMMA LinksTyped ==
    ASSUME MergeTypeOK, NEW S \in SUBSET Mentioning, NEW e \in Entities
    PROVE  /\ AddLinks(S, e) \in [Mentioning \X Entities -> {"none", "live", "closed"}]
           /\ CloseLinks(S, e) \in [Mentioning \X Entities -> {"none", "live", "closed"}]
           /\ \A s \in Mentioning, f \in Entities :
                 /\ AddLinks(S, e)[<<s, f>>] = IF f = e /\ s \in S /\ edge[<<s, f>>] = "none" THEN "live" ELSE edge[<<s, f>>]
                 /\ CloseLinks(S, e)[<<s, f>>] = IF f = e /\ s \in S /\ edge[<<s, f>>] = "live" THEN "closed" ELSE edge[<<s, f>>]
BY DEF MergeTypeOK, AddLinks, CloseLinks

LEMMA RestStays ==
    ASSUME MergeInv, UNCHANGED <<ent, edge, edits, rewritten>>
    PROVE  (GoneIsBlank /\ RecordsSplit /\ MergeSafety)'
BY DEF MergeInv, GoneIsBlank, RecordsSplit, MergeSafety, LineageEnds, NextKey, LineageOnBothSides, SharedMentionsSurvive

LEMMA ReadersKeep ==
    ASSUME MergeInv, UNCHANGED <<ent, edge, edits, rewritten>>,
           job' \in [Mergers -> MergeJob], entPlan' \in EntityPlan,
           JobsArePinned', PlanIsAimed'
    PROVE  MergeInv'
<1>1. MergeTypeOK'
  BY DEF MergeInv, MergeTypeOK
<1> QED
  BY <1>1, RestStays DEF MergeInv

\* Reading for a merge or an undo pins what is true now.
LEMMA ApplyReadStep ==
    ASSUME MergeInv, NEW m \in Mergers, NEW a \in Entities, NEW c \in Entities, ApplyRead(m, a, c)
    PROVE  MergeInv'
<1> DEFINE j == job'[m]
<1>0. ent[a] \in EntityFact /\ ent[c] \in EntityFact /\ job \in [Mergers -> MergeJob]
  BY DEF MergeInv, MergeTypeOK
<1>1. /\ j.op = "applytx" /\ j.alias = a /\ j.canon = c /\ j.aliasRev = ent[a].rev /\ j.canonRev = ent[c].rev
      /\ j.linked = LinkSourcesAll(c) /\ j.incoming = Incoming(a)
      /\ \A k \in Mergers : k # m => job'[k] = job[k]
      /\ UNCHANGED <<ent, edge, entPlan, edits, rewritten>>
  BY <1>0 DEF ApplyRead
<1>2. job' \in [Mergers -> MergeJob]
  <2>1. Incoming(a) \in SUBSET Mentioning /\ LinkSourcesAll(c) \in SUBSET Mentioning
    BY DEF Incoming, LinkSourcesAll
  <2>2. ent[a].rev \in 0..MergeRevs /\ ent[c].rev \in 0..MergeRevs
    BY <1>0 DEF EntityFact
  <2> QED
    BY <1>0, <2>1, <2>2 DEF ApplyRead, MergeJob
<1>3. JobsArePinned'
  <2> SUFFICES ASSUME NEW k \in Mergers, job'[k].op # "none" PROVE Pinned(job[k])'
    BY DEF JobsArePinned
  <2>1. CASE k = m
    <3>1. a # c /\ ent[a].into = NoEntity /\ ent[c].into = NoEntity /\ ent[a].rev \in Int /\ ent[c].rev \in Int
      BY <1>0 DEF ApplyRead, EntityFact
    <3>2. LinkSourcesAll(c)' = LinkSourcesAll(c)
      BY <1>1 DEF LinkSourcesAll
    <3> QED
      BY <1>1, <2>1, <3>1, <3>2 DEF Pinned
  <2>2. CASE k # m
    <3>1. job'[k] = job[k] /\ Pinned(job[k])
      BY <1>1, <2>2 DEF MergeInv, JobsArePinned
    <3> QED
      BY <1>1, <3>1 DEF Pinned, LinkSourcesAll
  <2> QED
    BY <2>1, <2>2
<1> QED
  BY <1>1, <1>2, <1>3, ReadersKeep DEF MergeInv, MergeTypeOK, PlanIsAimed

LEMMA RevertReadStep ==
    ASSUME MergeInv, NEW m \in Mergers, NEW a \in Entities, RevertRead(m, a)
    PROVE  MergeInv'
<1> DEFINE j == job'[m]
<1>0. ent[a] \in EntityFact /\ job \in [Mergers -> MergeJob] /\ NoEntity \notin Entities
  BY MergeConstants DEF MergeInv, MergeTypeOK
<1>c. PICK c \in Entities : c = ent[a].into /\ c # a
  <2>1. ent[a].live /\ ent[a].into # NoEntity
    BY DEF RevertRead
  <2>2. NextKey(a) \notin {a}
    BY DEF MergeInv, MergeSafety, LineageEnds
  <2> QED
    BY <1>0, <2>1, <2>2 DEF EntityFact, NextKey
<1>1. /\ j.op = "reverttx" /\ j.alias = a /\ j.canon = c /\ j.aliasRev = ent[a].rev /\ j.canonRev = ent[c].rev
      /\ \A k \in Mergers : k # m => job'[k] = job[k]
      /\ UNCHANGED <<ent, edge, entPlan, edits, rewritten>>
  BY <1>0, <1>c DEF RevertRead, NoJob
<1>2. job' \in [Mergers -> MergeJob]
  <2>1. ent[c] \in EntityFact
    BY DEF MergeInv, MergeTypeOK
  <2>2. ent[a].rev \in 0..MergeRevs /\ ent[c].rev \in 0..MergeRevs
    BY <1>0, <2>1 DEF EntityFact
  <2> QED
    BY <1>0, <1>c, <2>2 DEF RevertRead, MergeJob, NoJob
<1>3. JobsArePinned'
  <2> SUFFICES ASSUME NEW k \in Mergers, job'[k].op # "none" PROVE Pinned(job[k])'
    BY DEF JobsArePinned
  <2>1. CASE k = m
    <3>1. ent[c] \in EntityFact
      BY DEF MergeInv, MergeTypeOK
    <3>2. ent[a].rev \in Int /\ ent[c].rev \in Int
      BY <1>0, <3>1 DEF EntityFact
    <3> QED
      BY <1>1, <1>c, <2>1, <3>2 DEF Pinned
  <2>2. CASE k # m
    <3>1. job'[k] = job[k] /\ Pinned(job[k])
      BY <1>1, <2>2 DEF MergeInv, JobsArePinned
    <3> QED
      BY <1>1, <3>1 DEF Pinned, LinkSourcesAll
  <2> QED
    BY <2>1, <2>2
<1> QED
  BY <1>1, <1>2, <1>3, ReadersKeep DEF MergeInv, MergeTypeOK, PlanIsAimed

\* The enricher reads, and a plan without its head writes nothing.
LEMMA PlannersStep ==
    ASSUME MergeInv,
           \/ \E s \in Mentioning, e \in Entities : PlanLinks(s, e)
           \/ PlanHead
    PROVE  MergeInv'
<1>0. entPlan \in EntityPlan /\ \A e \in Entities : ent[e] \in EntityFact
  BY DEF MergeInv, MergeTypeOK
<1>1. UNCHANGED <<ent, edge, job, edits, rewritten>>
  BY DEF PlanLinks, PlanHead
<1>2. JobsArePinned'
  BY <1>1 DEF MergeInv, JobsArePinned, Pinned, LinkSourcesAll
<1>3. entPlan' \in EntityPlan /\ PlanIsAimed'
  <2>1. NoEntPlan \in EntityPlan /\ NoEntPlan.pc = "idle"
    BY MergeConstants DEF NoEntPlan, EntityPlan
  <2>2. ASSUME NEW s \in Mentioning, NEW e \in Entities, PlanLinks(s, e)
        PROVE  entPlan' \in EntityPlan /\ PlanIsAimed'
    <3> DEFINE drafted(b) == [NoEntPlan EXCEPT !.pc = "head", !.src = s, !.target = e, !.fresh = b]
    <3>1. (edge[<<s, e>>] = "none") = TRUE \/ (edge[<<s, e>>] = "none") = FALSE
      OBVIOUS
    <3>2. entPlan' = drafted(edge[<<s, e>>] = "none")
      BY <2>2 DEF PlanLinks
    <3> HIDE DEF drafted
    <3>3. entPlan' = drafted(TRUE) \/ entPlan' = drafted(FALSE)
      BY <3>1, <3>2, Zenon
    <3>4. 0 \in 0..MergeRevs
      BY MergeConstants
    <3>5. \A b \in {TRUE, FALSE} : drafted(b).target = e /\ drafted(b).src = s /\ drafted(b) \in EntityPlan
      BY <3>4 DEF drafted, NoEntPlan, EntityPlan
    <3> QED
      BY <3>3, <3>5 DEF PlanIsAimed
  <2>3. CASE PlanHead
    <3>1. entPlan.target \in Entities /\ entPlan.src \in Mentioning
      BY <2>3 DEF PlanHead, MergeInv, PlanIsAimed
    <3>2. ent[entPlan.target].rev \in 0..MergeRevs
      BY <1>0, <3>1 DEF EntityFact
    <3> QED
      BY <1>0, <2>1, <2>3, <3>1, <3>2 DEF PlanHead, EntityPlan, PlanIsAimed
  <2> QED
    BY <2>2, <2>3
<1> QED
  BY <1>1, <1>2, <1>3, ReadersKeep DEF MergeInv, MergeTypeOK

\* The record of a merge, and what it makes of the canonical.
LEMMA RecordTyped ==
    ASSUME MergeInv, NEW j \in MergeJob, j.alias \in Entities, j.canon \in Entities
    PROVE  /\ NewRecord(j) \in MergeRecord /\ NewRecord(j).alias = j.alias
           /\ NewRecord(j).contributed = j.incoming /\ NewRecord(j).added = j.incoming \ j.linked
           /\ NewRecord(j).protected \subseteq j.incoming \cap j.linked
           /\ \A s \in j.incoming \cap j.linked :
                 s \in NewRecord(j).protected \/ \E r \in ent[j.canon].recs : s \in r.added
           /\ Merged(j) \in EntityAttrs /\ Merged(j).into = ent[j.canon].into
           /\ \/ Merged(j).recs = ent[j.canon].recs \cup {NewRecord(j)}
              \/ Merged(j).recs = ent[j.canon].recs /\ \E r \in ent[j.canon].recs : r.alias = j.alias
<1> DEFINE rec == NewRecord(j)
<1>1. j.incoming \in SUBSET Mentioning /\ j.linked \in SUBSET Mentioning
  BY DEF MergeJob
<1>2. /\ rec \in MergeRecord /\ rec.alias = j.alias
      /\ rec.contributed = j.incoming /\ rec.added = j.incoming \ j.linked
      /\ rec.protected = (j.incoming \cap j.linked) \ UNION {r.added : r \in ent[j.canon].recs}
  BY <1>1 DEF NewRecord, MergeRecord
<1>3. Attrs(j.canon) \in EntityAttrs /\ Attrs(j.canon).into = ent[j.canon].into /\ Attrs(j.canon).recs = ent[j.canon].recs
  BY AttrsTyped DEF MergeInv
<1>4. Cardinality(rec.added) \in Nat
  <2>1. rec.added \subseteq Mentioning
    BY <1>1, <1>2
  <2> QED
    BY <2>1, FS_Subset, FS_CardinalityType, MergeConstants
<1> HIDE DEF rec
<1>m. PICK n \in Nat, base \in SUBSET Mentioning, recs \in SUBSET MergeRecord :
         /\ Merged(j) = [Attrs(j.canon) EXCEPT !.count = n, !.recs = recs, !.base = base]
         /\ recs = IF RecordOf(j.canon, j.alias) # {} THEN ent[j.canon].recs ELSE ent[j.canon].recs \cup {rec}
  <2>1. Attrs(j.canon).count + Cardinality(rec.added) \in Nat
    BY <1>3, <1>4 DEF EntityAttrs
  <2>2. Attrs(j.canon).recs \in SUBSET MergeRecord /\ Attrs(j.canon).recs \cup {rec} \in SUBSET MergeRecord
    BY <1>2, <1>3 DEF EntityAttrs
  <2>3. Attrs(j.canon).base \in SUBSET Mentioning
    BY <1>3 DEF EntityAttrs
  <2> QED
    BY <1>1, <1>3, <2>1, <2>2, <2>3 DEF Merged, rec
<1>5. Merged(j) \in EntityAttrs /\ Merged(j).into = ent[j.canon].into /\ Merged(j).recs = recs
  BY <1>m, <1>3 DEF EntityAttrs
<1>6. Merged(j).recs = IF RecordOf(j.canon, j.alias) # {} THEN ent[j.canon].recs ELSE ent[j.canon].recs \cup {rec}
  BY <1>m, <1>5
<1>7. RecordOf(j.canon, j.alias) # {} => \E r \in ent[j.canon].recs : r.alias = j.alias
  BY DEF RecordOf
<1> QED
  BY <1>2, <1>5, <1>6, <1>7 DEF rec

\* A transaction that lost one of its heads writes nothing.
LEMMA StaleTx ==
    ASSUME MergeInv, NEW m \in Mergers, job' = [job EXCEPT ![m] = NoJob],
           UNCHANGED <<ent, edge, entPlan, edits, rewritten>>
    PROVE  MergeInv'
<1>1. NoJob \in MergeJob
  BY MergeConstants DEF NoJob, MergeJob
<1>2. job' \in [Mergers -> MergeJob] /\ \A k \in Mergers : job'[k] \in {job[k], NoJob}
  BY <1>1 DEF MergeInv, MergeTypeOK
<1>3. MergeTypeOK'
  BY <1>2 DEF MergeInv, MergeTypeOK
<1>4. \A e \in Entities : ent'[e] = ent[e] /\ LinkSourcesAll(e)' = LinkSourcesAll(e)
  BY DEF LinkSourcesAll
<1>5. JobsArePinned'
  BY <1>2, <1>3, <1>4, PinsStay DEF MergeInv
<1> QED
  BY <1>2, <1>5, ReadersKeep DEF MergeInv, MergeTypeOK, PlanIsAimed

\* A merge that commits.
LEMMA ApplyTxStep ==
    ASSUME MergeInv, NEW m \in Mergers, ApplyTx(m), HeadsHold(job[m])
    PROVE  MergeInv'
<1>j. PICK j \in MergeJob : j = job[m]
  BY DEF MergeInv, MergeTypeOK
<1>p. Pinned(j) /\ j.op = "applytx"
  BY <1>j DEF MergeInv, JobsArePinned, ApplyTx
<1>a. PICK a \in Entities : a = j.alias
  BY <1>p DEF Pinned
<1>c. PICK c \in Entities : c = j.canon
  BY <1>p DEF Pinned
<1>0. /\ a # c /\ ent[a].into = NoEntity /\ ent[c].into = NoEntity /\ j.linked = LinkSourcesAll(c)
      /\ j.incoming \in SUBSET Mentioning /\ j.linked \in SUBSET Mentioning
      /\ ent[a].live /\ ent[c].live /\ Room(a) /\ Room(c)
  BY <1>j, <1>p, <1>a, <1>c DEF Pinned, HeadsHold, ApplyTx, MergeJob
<1> DEFINE rec == NewRecord(j)
<1>1. /\ rec \in MergeRecord /\ rec.alias = a
      /\ rec.contributed = j.incoming /\ rec.added = j.incoming \ j.linked
      /\ rec.protected \subseteq j.incoming \cap j.linked
      /\ \A s \in j.incoming \cap j.linked : s \in rec.protected \/ \E r \in ent[c].recs : s \in r.added
      /\ Merged(j) \in EntityAttrs /\ Merged(j).into = NoEntity
      /\ \/ Merged(j).recs = ent[c].recs \cup {rec}
         \/ Merged(j).recs = ent[c].recs /\ \E r \in ent[c].recs : r.alias = a
  BY <1>a, <1>c, <1>0, RecordTyped
<1> HIDE DEF rec
<1>2. PICK at \in EntityAttrs : at = [Attrs(a) EXCEPT !.into = c] /\ at.into = c /\ at.recs = ent[a].recs
  <2>1. Attrs(a) \in EntityAttrs /\ Attrs(a).recs = ent[a].recs
    BY AttrsTyped DEF MergeInv
  <2>2. [Attrs(a) EXCEPT !.into = c] \in EntityAttrs
    BY <2>1 DEF EntityAttrs
  <2> QED
    BY <2>1, <2>2 DEF EntityAttrs
<1>3. /\ ent' = [ent EXCEPT ![c] = Revise(c, Merged(j)), ![a] = Revise(a, at)]
      /\ edge' = AddLinks(j.incoming \ j.linked, c)
      /\ job' = [job EXCEPT ![m] = NoJob] /\ UNCHANGED <<entPlan, edits, rewritten>>
  BY <1>j, <1>a, <1>c, <1>2 DEF ApplyTx
<1>4. /\ Revise(c, Merged(j)) \in EntityFact /\ Revise(a, at) \in EntityFact
      /\ Revise(c, Merged(j)).rev = ent[c].rev + 1 /\ Revise(c, Merged(j)).live = TRUE
      /\ Revise(c, Merged(j)).into = NoEntity /\ Revise(c, Merged(j)).recs = Merged(j).recs
      /\ Revise(a, at).rev = ent[a].rev + 1 /\ Revise(a, at).live = TRUE
      /\ Revise(a, at).into = c /\ Revise(a, at).recs = ent[a].recs
  BY <1>0, <1>1, <1>2, RevisionTyped DEF MergeInv
<1>5. /\ ent' \in [Entities -> EntityFact]
      /\ ent'[c].rev = ent[c].rev + 1 /\ ent'[c].live /\ ent'[c].into = NoEntity /\ ent'[c].recs = Merged(j).recs
      /\ ent'[a].rev = ent[a].rev + 1 /\ ent'[a].live /\ ent'[a].into = c /\ ent'[a].recs = ent[a].recs
      /\ \A e \in Entities : e # a /\ e # c => ent'[e] = ent[e]
  <2>1. ent \in [Entities -> EntityFact]
    BY DEF MergeInv, MergeTypeOK
  <2>2. ent' \in [Entities -> EntityFact]
    BY <1>3, <1>4, <2>1
  <2>3. ent'[c] = Revise(c, Merged(j)) /\ ent'[a] = Revise(a, at)
    BY <1>0, <1>3, <2>1
  <2>4. \A e \in Entities : e # a /\ e # c => ent'[e] = ent[e]
    BY <1>3, <2>1
  <2> QED
    BY <1>4, <2>2, <2>3, <2>4
<1>6. /\ edge' \in [Mentioning \X Entities -> {"none", "live", "closed"}]
      /\ \A s \in Mentioning, f \in Entities :
            edge'[<<s, f>>] = IF f = c /\ s \in j.incoming \ j.linked /\ edge[<<s, f>>] = "none"
                                THEN "live" ELSE edge[<<s, f>>]
  <2>1. PICK S \in SUBSET Mentioning : S = j.incoming \ j.linked
    BY <1>0
  <2>2. edge' = AddLinks(S, c)
    BY <1>3, <2>1
  <2>3. MergeTypeOK
    BY DEF MergeInv
  <2>4. /\ AddLinks(S, c) \in [Mentioning \X Entities -> {"none", "live", "closed"}]
        /\ \A s \in Mentioning, f \in Entities :
              AddLinks(S, c)[<<s, f>>] = IF f = c /\ s \in S /\ edge[<<s, f>>] = "none" THEN "live" ELSE edge[<<s, f>>]
    BY <2>3, LinksTyped, Zenon
  <2> QED
    BY <2>1, <2>2, <2>4
<1>7. MergeTypeOK'
  <2>1. NoJob \in MergeJob
    BY MergeConstants DEF NoJob, MergeJob
  <2>2. \A e \in Entities : \A r \in ent'[e].recs : r.alias # e /\ r.added \cup r.protected \subseteq r.contributed
    BY <1>0, <1>1, <1>5 DEF MergeInv, MergeTypeOK
  <2> QED
    BY <1>3, <1>5, <1>6, <2>1, <2>2 DEF MergeInv, MergeTypeOK
<1>8. JobsArePinned'
  <2>1. \A e \in Entities : e # c => LinkSourcesAll(e)' = LinkSourcesAll(e)
    BY <1>6 DEF LinkSourcesAll
  <2>2. \A k \in Mergers : job'[k] \in {job[k], NoJob}
    BY <1>3 DEF MergeInv, MergeTypeOK
  <2> QED
    BY <1>5, <1>7, <2>1, <2>2, PinsStay DEF MergeInv
<1>9. GoneIsBlank' /\ RecordsSplit' /\ PlanIsAimed'
  BY <1>1, <1>3, <1>5 DEF MergeInv, GoneIsBlank, RecordsSplit, PlanIsAimed
<1>10. LineageEnds'
  BY <1>0, <1>5, NoRingCloses DEF MergeInv, MergeSafety, NextKey
<1>11. LineageOnBothSides'
  BY <1>0, <1>1, <1>3, <1>5, MergeConstants DEF MergeInv, MergeSafety, LineageOnBothSides
<1>12. SharedMentionsSurvive'
  <2> SUFFICES ASSUME edits = 0, NEW e \in Entities, NEW r \in ent'[e].recs, NEW s \in r.contributed \ r.protected
               PROVE  edge'[<<s, e>>] = "live"
    BY <1>3 DEF SharedMentionsSurvive
  <2>1. s \in Mentioning
    BY <1>5 DEF EntityFact, MergeRecord
  <2>2. ASSUME NEW f \in Entities, NEW q \in ent[f].recs, NEW t \in q.contributed \ q.protected, t \in Mentioning
        PROVE  edge[<<t, f>>] = "live" /\ edge'[<<t, f>>] = "live"
    <3>1. edge[<<t, f>>] = "live"
      BY <2>2 DEF MergeInv, MergeSafety, SharedMentionsSurvive
    <3> QED
      BY <1>6, <2>2, <3>1
  <2>3. CASE r \in ent[e].recs
    BY <2>1, <2>2, <2>3
  <2>4. CASE r \notin ent[e].recs
    <3>1. e = c /\ r = rec /\ s \in j.incoming
      BY <1>1, <1>5, <2>4
    <3>2. CASE s \notin j.linked
      <4>1. edge[<<s, c>>] = "none"
        BY <1>0, <2>1, <3>2 DEF LinkSourcesAll
      <4> QED
        BY <1>6, <2>1, <3>1, <3>2, <4>1
    <3>3. CASE s \in j.linked
      <4>1. PICK q \in ent[c].recs : s \in q.added
        BY <1>1, <3>1, <3>3
      <4>2. s \in q.contributed \ q.protected
        BY <4>1 DEF MergeInv, MergeTypeOK, RecordsSplit
      <4> QED
        BY <2>1, <2>2, <3>1, <4>2
    <3> QED
      BY <3>2, <3>3
  <2> QED
    BY <2>3, <2>4
<1> QED
  BY <1>7, <1>8, <1>9, <1>10, <1>11, <1>12 DEF MergeInv, MergeSafety

LEMMA MaxWithZero == ASSUME NEW n \in Int PROVE Max({0, n}) \in Nat
<1>1. \E x \in {0, n} : \A y \in {0, n} : x >= y
  <2>1. CASE n >= 0
    BY <2>1
  <2>2. CASE ~(n >= 0)
    BY <2>2
  <2> QED
    BY <2>1, <2>2
<1>2. Max({0, n}) \in {0, n} /\ Max({0, n}) >= 0
  BY <1>1, Zenon DEF Max
<1> QED
  BY <1>2

\* What an undo closes, and what it makes of the canonical.
LEMMA UndoTyped ==
    ASSUME MergeInv, NEW a \in Entities, NEW c \in Entities
    PROVE  /\ ClosedBy(c, a) \in SUBSET Mentioning
           /\ \A r \in ent[c].recs : r.alias # a => ClosedBy(c, a) \cap r.contributed = {}
           /\ Reverted(c, a) \in EntityAttrs /\ Reverted(c, a).into = ent[c].into
           /\ Reverted(c, a).recs = {r \in ent[c].recs : r.alias # a}
<1>1. Attrs(c) \in EntityAttrs /\ Attrs(c).into = ent[c].into /\ Attrs(c).recs = ent[c].recs
  BY AttrsTyped DEF MergeInv
<1>2. ent[c].recs \in SUBSET MergeRecord
  BY <1>1 DEF EntityAttrs
<1>3. ClosedBy(c, a) \in SUBSET Mentioning
  BY <1>2 DEF ClosedBy, RecordOf, MergeRecord
<1>4. ASSUME NEW r \in ent[c].recs, r.alias # a
      PROVE  ClosedBy(c, a) \cap r.contributed = {}
  <2>1. r \in ent[c].recs \ RecordOf(c, a)
    BY <1>4 DEF RecordOf
  <2> DEFINE mine == UNION {q.contributed : q \in RecordOf(c, a)}
             theirs == UNION {q.contributed : q \in ent[c].recs \ RecordOf(c, a)}
             owned == UNION {q.protected : q \in RecordOf(c, a)}
  <2>2. r.contributed \subseteq theirs
    BY <2>1
  <2>3. ClosedBy(c, a) = mine \ (theirs \cup ent[c].base \cup owned)
    BY DEF ClosedBy
  <2> HIDE DEF mine, theirs, owned
  <2> QED
    BY <2>2, <2>3
<1>5. ent[c].recs \ RecordOf(c, a) = {r \in ent[c].recs : r.alias # a}
  BY DEF RecordOf
<1>6. Cardinality(ClosedBy(c, a)) \in Nat
  <2>1. IsFiniteSet(ClosedBy(c, a))
    BY <1>3, FS_Subset, MergeConstants, Zenon
  <2> QED
    BY <2>1, FS_CardinalityType
<1>m. PICK n \in Nat, base \in SUBSET Mentioning :
         Reverted(c, a) = [Attrs(c) EXCEPT !.count = n, !.recs = ent[c].recs \ RecordOf(c, a), !.base = base]
  <2>1. Attrs(c).count \in Nat /\ Attrs(c).base \in SUBSET Mentioning
    BY <1>1 DEF EntityAttrs
  <2>2. Attrs(c).count - Cardinality(ClosedBy(c, a)) \in Int
    BY <1>6, <2>1
  <2>3. Max({0, Attrs(c).count - Cardinality(ClosedBy(c, a))}) \in Nat
    BY <2>2, MaxWithZero
  <2> QED
    BY <2>1, <2>3 DEF Reverted
<1>7. /\ Reverted(c, a) \in EntityAttrs /\ Reverted(c, a).into = ent[c].into
      /\ Reverted(c, a).recs = ent[c].recs \ RecordOf(c, a)
  BY <1>m, <1>1, <1>2 DEF EntityAttrs
<1> QED
  BY <1>3, <1>4, <1>5, <1>7

\* An undo that commits.
LEMMA RevertTxStep ==
    ASSUME MergeInv, NEW m \in Mergers, RevertTx(m), HeadsHold(job[m])
    PROVE  MergeInv'
<1>j. PICK j \in MergeJob : j = job[m]
  BY DEF MergeInv, MergeTypeOK
<1>p. Pinned(j) /\ j.op = "reverttx"
  BY <1>j DEF MergeInv, JobsArePinned, RevertTx
<1>a. PICK a \in Entities : a = j.alias
  BY <1>p DEF Pinned
<1>c. PICK c \in Entities : c = j.canon
  BY <1>p DEF Pinned
<1>0. a # c /\ ent[a].into = c /\ ent[a].live /\ ent[c].live /\ Room(a) /\ Room(c)
  BY <1>j, <1>p, <1>a, <1>c DEF Pinned, HeadsHold, RevertTx, MergeJob
<1>1. /\ ClosedBy(c, a) \in SUBSET Mentioning
      /\ \A r \in ent[c].recs : r.alias # a => ClosedBy(c, a) \cap r.contributed = {}
      /\ Reverted(c, a) \in EntityAttrs /\ Reverted(c, a).into = ent[c].into
      /\ Reverted(c, a).recs = {r \in ent[c].recs : r.alias # a}
  BY UndoTyped
<1>2. PICK at \in EntityAttrs : at = [Attrs(a) EXCEPT !.into = NoEntity] /\ at.into = NoEntity /\ at.recs = ent[a].recs
  <2>1. Attrs(a) \in EntityAttrs /\ Attrs(a).recs = ent[a].recs
    BY AttrsTyped DEF MergeInv
  <2>2. [Attrs(a) EXCEPT !.into = NoEntity] \in EntityAttrs
    BY <2>1 DEF EntityAttrs
  <2> QED
    BY <2>1, <2>2 DEF EntityAttrs
<1>3. /\ ent' = [ent EXCEPT ![c] = Revise(c, Reverted(c, a)), ![a] = Revise(a, at)]
      /\ edge' = CloseLinks(ClosedBy(c, a), c)
      /\ job' = [job EXCEPT ![m] = NoJob] /\ UNCHANGED <<entPlan, edits, rewritten>>
  BY <1>j, <1>a, <1>c, <1>2 DEF RevertTx
<1>4. /\ Revise(c, Reverted(c, a)) \in EntityFact /\ Revise(a, at) \in EntityFact
      /\ Revise(c, Reverted(c, a)).rev = ent[c].rev + 1 /\ Revise(c, Reverted(c, a)).live = TRUE
      /\ Revise(c, Reverted(c, a)).into = ent[c].into /\ Revise(c, Reverted(c, a)).recs = Reverted(c, a).recs
      /\ Revise(a, at).rev = ent[a].rev + 1 /\ Revise(a, at).live = TRUE
      /\ Revise(a, at).into = NoEntity /\ Revise(a, at).recs = ent[a].recs
  BY <1>0, <1>1, <1>2, RevisionTyped DEF MergeInv
<1>5. /\ ent' \in [Entities -> EntityFact]
      /\ ent'[c].rev = ent[c].rev + 1 /\ ent'[c].live /\ ent'[c].into = ent[c].into
      /\ ent'[c].recs = {r \in ent[c].recs : r.alias # a}
      /\ ent'[a].rev = ent[a].rev + 1 /\ ent'[a].live /\ ent'[a].into = NoEntity /\ ent'[a].recs = ent[a].recs
      /\ \A e \in Entities : e # a /\ e # c => ent'[e] = ent[e]
  <2>1. ent \in [Entities -> EntityFact]
    BY DEF MergeInv, MergeTypeOK
  <2>2. ent' \in [Entities -> EntityFact]
    BY <1>3, <1>4, <2>1
  <2>3. ent'[c] = Revise(c, Reverted(c, a)) /\ ent'[a] = Revise(a, at)
    BY <1>0, <1>3, <2>1
  <2>4. \A e \in Entities : e # a /\ e # c => ent'[e] = ent[e]
    BY <1>3, <2>1
  <2> QED
    BY <1>1, <1>4, <2>2, <2>3, <2>4
<1>6. /\ edge' \in [Mentioning \X Entities -> {"none", "live", "closed"}]
      /\ \A s \in Mentioning, f \in Entities :
            edge'[<<s, f>>] = IF f = c /\ s \in ClosedBy(c, a) /\ edge[<<s, f>>] = "live"
                                THEN "closed" ELSE edge[<<s, f>>]
  <2>1. PICK S \in SUBSET Mentioning : S = ClosedBy(c, a)
    BY <1>1
  <2>2. edge' = CloseLinks(S, c)
    BY <1>3, <2>1
  <2>3. MergeTypeOK
    BY DEF MergeInv
  <2>4. /\ CloseLinks(S, c) \in [Mentioning \X Entities -> {"none", "live", "closed"}]
        /\ \A s \in Mentioning, f \in Entities :
              CloseLinks(S, c)[<<s, f>>] = IF f = c /\ s \in S /\ edge[<<s, f>>] = "live" THEN "closed" ELSE edge[<<s, f>>]
    BY <2>3, LinksTyped, Zenon
  <2> QED
    BY <2>1, <2>2, <2>4
<1>7. MergeTypeOK'
  <2>1. NoJob \in MergeJob
    BY MergeConstants DEF NoJob, MergeJob
  <2>2. \A e \in Entities : \A r \in ent'[e].recs : r.alias # e /\ r.added \cup r.protected \subseteq r.contributed
    BY <1>0, <1>5 DEF MergeInv, MergeTypeOK
  <2> QED
    BY <1>3, <1>5, <1>6, <2>1, <2>2 DEF MergeInv, MergeTypeOK
<1>8. JobsArePinned'
  <2>1. \A e \in Entities : e # c => LinkSourcesAll(e)' = LinkSourcesAll(e)
    BY <1>6 DEF LinkSourcesAll
  <2>2. \A k \in Mergers : job'[k] \in {job[k], NoJob}
    BY <1>3 DEF MergeInv, MergeTypeOK
  <2> QED
    BY <1>5, <1>7, <2>1, <2>2, PinsStay DEF MergeInv
<1>9. GoneIsBlank' /\ RecordsSplit' /\ PlanIsAimed'
  BY <1>3, <1>5 DEF MergeInv, GoneIsBlank, RecordsSplit, PlanIsAimed
<1>10. LineageEnds'
  <2>1. \A e \in Entities : NextKey(e)' \in {NextKey(e), NoEntity}
    BY <1>0, <1>5 DEF NextKey
  <2> QED
    BY <2>1, NoRingCloses DEF MergeInv, MergeSafety
<1>11. LineageOnBothSides'
  <2> SUFFICES ASSUME NEW x \in Entities, NEW y \in Entities, x \notin rewritten, y \notin rewritten
               PROVE  ent'[x].into = y <=> \E r \in ent'[y].recs : r.alias = x
    BY <1>3 DEF LineageOnBothSides
  <2>1. ent[x].into = y <=> \E r \in ent[y].recs : r.alias = x
    BY DEF MergeInv, MergeSafety, LineageOnBothSides
  <2>2. CASE x = a
    BY <1>0, <1>5, <2>1, <2>2, MergeConstants
  <2>3. CASE x # a
    BY <1>0, <1>5, <2>1, <2>3
  <2> QED
    BY <2>2, <2>3
<1>12. SharedMentionsSurvive'
  <2> SUFFICES ASSUME edits = 0, NEW e \in Entities, NEW r \in ent'[e].recs, NEW s \in r.contributed \ r.protected
               PROVE  edge'[<<s, e>>] = "live"
    BY <1>3 DEF SharedMentionsSurvive
  <2>1. r \in ent[e].recs /\ (e = c => r.alias # a)
    BY <1>0, <1>5
  <2>2. s \in Mentioning
    BY <1>5 DEF EntityFact, MergeRecord
  <2>3. edge[<<s, e>>] = "live"
    BY <2>1 DEF MergeInv, MergeSafety, SharedMentionsSurvive
  <2>4. e = c => s \notin ClosedBy(c, a)
    BY <1>1, <2>1
  <2> QED
    BY <1>6, <2>2, <2>3, <2>4
<1> QED
  BY <1>7, <1>8, <1>9, <1>10, <1>11, <1>12 DEF MergeInv, MergeSafety

\* A revision of one entity that keeps its part in merges, or drops it and
\* says so in "rewritten", with edges of that entity inserted at most.
LEMMA RevisionKeeps ==
    ASSUME MergeInv, NEW e \in Entities,
           ent' \in [Entities -> EntityFact], edge' \in [Mentioning \X Entities -> {"none", "live", "closed"}],
           \A f \in Entities : f # e => ent'[f] = ent[f],
           ent'[e].rev = ent[e].rev + 1,
           \/ /\ ent'[e].into = ent[e].into /\ ent'[e].recs = ent[e].recs /\ (ent[e].live => ent'[e].live)
              /\ UNCHANGED <<edits, rewritten>>
           \/ /\ ent'[e].into = NoEntity /\ ent'[e].recs = {}
              /\ edits' = edits + 1 /\ edits' \in 0..UserEdits /\ rewritten' = rewritten \cup {e},
           \A s \in Mentioning, f \in Entities :
              edge'[<<s, f>>] = edge[<<s, f>>] \/ (f = e /\ edge'[<<s, f>>] = "live"),
           UNCHANGED job, entPlan' \in EntityPlan, PlanIsAimed'
    PROVE  MergeInv'
<1>0. edits \in Nat
  BY MergeConstants DEF MergeInv, MergeTypeOK
<1>1. MergeTypeOK'
  <2>1. \A f \in Entities : \A r \in ent'[f].recs : r.alias # f /\ r.added \cup r.protected \subseteq r.contributed
    BY DEF MergeInv, MergeTypeOK
  <2> QED
    BY <2>1 DEF MergeInv, MergeTypeOK
<1>2. JobsArePinned'
  <2>1. \A f \in Entities : f # e => LinkSourcesAll(f)' = LinkSourcesAll(f)
    BY DEF LinkSourcesAll
  <2> QED
    BY <1>1, <2>1, PinsStay DEF MergeInv
<1>3. GoneIsBlank' /\ RecordsSplit'
  BY DEF MergeInv, GoneIsBlank, RecordsSplit
<1>4. LineageEnds'
  <2>1. \A f \in Entities : NextKey(f)' \in {NextKey(f), NoEntity}
    BY DEF NextKey, MergeInv, GoneIsBlank
  <2> QED
    BY <2>1, NoRingCloses DEF MergeInv, MergeSafety
<1>5. LineageOnBothSides'
  BY DEF MergeInv, MergeSafety, LineageOnBothSides
<1>6. SharedMentionsSurvive'
  <2> SUFFICES ASSUME edits' = 0, NEW c \in Entities, NEW r \in ent'[c].recs, NEW s \in r.contributed \ r.protected
               PROVE  edge'[<<s, c>>] = "live"
    BY DEF SharedMentionsSurvive
  <2>1. r \in ent[c].recs /\ edits = 0
    BY <1>0
  <2>2. s \in Mentioning
    BY DEF EntityFact, MergeRecord
  <2>3. edge[<<s, c>>] = "live"
    BY <2>1 DEF MergeInv, MergeSafety, SharedMentionsSurvive
  <2> QED
    BY <2>2, <2>3
<1> QED
  BY <1>1, <1>2, <1>3, <1>4, <1>5, <1>6 DEF MergeInv, MergeSafety

LEMMA UserEditTyped == MergeInv /\ UserEdit => edits \in Nat /\ edits' = edits + 1 /\ edits' \in 0..UserEdits
BY MergeConstants DEF MergeInv, MergeTypeOK, UserEdit

LEMMA UsersStep ==
    ASSUME MergeInv, NEW e \in Entities,
           UserWrites(e) \/ UserForgets(e) \/ \E s \in Mentioning : UserCloses(s, e)
    PROVE  MergeInv'
<1>0. /\ ent \in [Entities -> EntityFact] /\ ent[e] \in EntityFact
      /\ edge \in [Mentioning \X Entities -> {"none", "live", "closed"}]
      /\ entPlan \in EntityPlan /\ PlanIsAimed /\ MergeTypeOK
  BY DEF MergeInv, MergeTypeOK
<1>n. NoAttrs \in EntityAttrs /\ NoAttrs.into = NoEntity /\ NoAttrs.recs = {}
  BY <1>0, AttrsTyped
<1>1. CASE UserWrites(e)
  <2>1. Revise(e, NoAttrs) \in EntityFact /\ Revise(e, NoAttrs).rev = ent[e].rev + 1
        /\ Revise(e, NoAttrs).into = NoEntity /\ Revise(e, NoAttrs).recs = {}
    BY <1>0, <1>1, <1>n, RevisionTyped DEF UserWrites
  <2>2. ent' = [ent EXCEPT ![e] = Revise(e, NoAttrs)] /\ UNCHANGED <<edge, job, entPlan>>
        /\ rewritten' = rewritten \cup {e} /\ edits' = edits + 1 /\ edits' \in 0..UserEdits
    BY <1>1, UserEditTyped DEF UserWrites
  <2>3. ent' \in [Entities -> EntityFact] /\ ent'[e] = Revise(e, NoAttrs) /\ \A f \in Entities : f # e => ent'[f] = ent[f]
    BY <1>0, <2>1, <2>2
  <2>4. PlanIsAimed'
    BY <1>0, <2>2 DEF PlanIsAimed
  <2> QED
    BY <1>0, <2>1, <2>2, <2>3, <2>4, RevisionKeeps
<1>2. CASE UserForgets(e)
  <2>0. PICK n \in 0..MergeRevs : n = ent[e].rev + 1
    BY <1>0, <1>2, MergeConstants DEF EntityFact, UserForgets, Room
  <2>1. Fact(n, FALSE, NoAttrs) \in EntityFact /\ Fact(n, FALSE, NoAttrs).rev = ent[e].rev + 1
        /\ Fact(n, FALSE, NoAttrs).into = NoEntity /\ Fact(n, FALSE, NoAttrs).recs = {}
    BY <2>0, <1>n DEF Fact, EntityAttrs, EntityFact
  <2>2. ent' = [ent EXCEPT ![e] = Fact(n, FALSE, NoAttrs)] /\ UNCHANGED <<edge, job, entPlan>>
        /\ rewritten' = rewritten \cup {e} /\ edits' = edits + 1 /\ edits' \in 0..UserEdits
    BY <1>2, <2>0, UserEditTyped DEF UserForgets
  <2>3. ent' \in [Entities -> EntityFact] /\ ent'[e] = Fact(n, FALSE, NoAttrs) /\ \A f \in Entities : f # e => ent'[f] = ent[f]
    BY <1>0, <2>1, <2>2
  <2>4. PlanIsAimed'
    BY <1>0, <2>2 DEF PlanIsAimed
  <2> QED
    BY <1>0, <2>1, <2>2, <2>3, <2>4, RevisionKeeps
<1>3. ASSUME NEW s \in Mentioning, UserCloses(s, e) PROVE MergeInv'
  <2>1. /\ edge' = CloseLinks({s}, e) /\ UNCHANGED <<ent, job, entPlan, rewritten>>
        /\ edits \in Nat /\ edits' = edits + 1 /\ edits' \in 0..UserEdits
    BY <1>3, UserEditTyped DEF UserCloses
  <2>2. PICK S \in SUBSET Mentioning : S = {s}
    OBVIOUS
  <2>3. /\ CloseLinks(S, e) \in [Mentioning \X Entities -> {"none", "live", "closed"}]
        /\ \A t \in Mentioning, f \in Entities :
              CloseLinks(S, e)[<<t, f>>] = IF f = e /\ t \in S /\ edge[<<t, f>>] = "live" THEN "closed" ELSE edge[<<t, f>>]
    <3>1. MergeTypeOK
      BY DEF MergeInv
    <3> QED
      BY <3>1, LinksTyped, Zenon
  <2>4. \A f \in Entities : LinkSourcesAll(f)' = LinkSourcesAll(f)
    BY <2>1, <2>2, <2>3 DEF LinkSourcesAll
  <2>5. MergeTypeOK'
    BY <1>0, <2>1, <2>2, <2>3 DEF MergeTypeOK
  <2>6. JobsArePinned'
    BY <1>0, <2>1, <2>4, <2>5, PinsStay DEF MergeInv
  <2>7. SharedMentionsSurvive'
    BY <2>1 DEF SharedMentionsSurvive
  <2> QED
    BY <2>1, <2>5, <2>6, <2>7 DEF MergeInv, PlanIsAimed, GoneIsBlank, RecordsSplit, MergeSafety,
                                   LineageEnds, NextKey, LineageOnBothSides
<1> QED
  BY <1>1, <1>2, <1>3

\* The enricher's transaction, with its head or without.
LEMMA PlanApplyStep ==
    ASSUME MergeInv, PlanApplyTx
    PROVE  MergeInv'
<1>0. /\ ent \in [Entities -> EntityFact] /\ MergeTypeOK
      /\ edge \in [Mentioning \X Entities -> {"none", "live", "closed"}] /\ entPlan \in EntityPlan
  BY DEF MergeInv, MergeTypeOK
<1>e. PICK e \in Entities, s \in Mentioning : e = entPlan.target /\ s = entPlan.src
  BY DEF MergeInv, PlanIsAimed, PlanApplyTx
<1>p. entPlan' = NoEntPlan /\ entPlan' \in EntityPlan /\ PlanIsAimed' /\ UNCHANGED <<job, edits, rewritten>>
  <2>1. NoEntPlan \in EntityPlan /\ NoEntPlan.pc = "idle"
    BY MergeConstants DEF NoEntPlan, EntityPlan
  <2> QED
    BY <2>1 DEF PlanApplyTx, PlanIsAimed
<1>1. CASE ent[e].rev = entPlan.rev
  <2> DEFINE bump == IF entPlan.fresh THEN 1 ELSE 0
             at == Carried(e, bump)
  <2>1. bump \in Nat
    OBVIOUS
  <2>2. Attrs(e) \in EntityAttrs /\ Attrs(e).into = ent[e].into /\ Attrs(e).recs = ent[e].recs
        /\ NoAttrs \in EntityAttrs /\ NoAttrs.into = NoEntity /\ NoAttrs.recs = {}
    BY <1>0, AttrsTyped
  <2> HIDE DEF bump
  <2>3. at \in EntityAttrs /\ at.into = ent[e].into /\ at.recs = ent[e].recs
    <3>1. CASE ent[e].live
      BY <2>1, <2>2, <3>1 DEF Carried, EntityAttrs
    <3>2. CASE ~ent[e].live
      <4>1. ent[e].into = NoEntity /\ ent[e].recs = {}
        BY <3>2 DEF MergeInv, GoneIsBlank
      <4> QED
        BY <2>1, <2>2, <3>2, <4>1 DEF Carried, EntityAttrs
    <3> QED
      BY <3>1, <3>2
  <2>4. ent' = [ent EXCEPT ![e] = Revise(e, at)] /\ Room(e)
    BY <1>e, <1>1 DEF PlanApplyTx, bump
  <2> HIDE DEF at
  <2>5. Revise(e, at) \in EntityFact /\ Revise(e, at).rev = ent[e].rev + 1 /\ Revise(e, at).live
        /\ Revise(e, at).into = ent[e].into /\ Revise(e, at).recs = ent[e].recs
    BY <1>0, <2>3, <2>4, RevisionTyped
  <2>6. ent' \in [Entities -> EntityFact] /\ ent'[e] = Revise(e, at) /\ \A f \in Entities : f # e => ent'[f] = ent[f]
    BY <1>0, <2>4, <2>5
  <2>7. /\ edge' \in [Mentioning \X Entities -> {"none", "live", "closed"}]
        /\ \A t \in Mentioning, f \in Entities :
              edge'[<<t, f>>] = edge[<<t, f>>] \/ (f = e /\ edge'[<<t, f>>] = "live")
    <3>1. PICK S \in SUBSET Mentioning : S = {s}
      OBVIOUS
    <3>2. edge' = edge \/ edge' = AddLinks(S, e)
      BY <1>e, <1>1, <3>1 DEF PlanApplyTx
    <3>3. /\ AddLinks(S, e) \in [Mentioning \X Entities -> {"none", "live", "closed"}]
          /\ \A t \in Mentioning, f \in Entities :
                AddLinks(S, e)[<<t, f>>] = IF f = e /\ t \in S /\ edge[<<t, f>>] = "none" THEN "live" ELSE edge[<<t, f>>]
      <4>1. MergeTypeOK
        BY DEF MergeInv
      <4> QED
        BY <4>1, LinksTyped, Zenon
    <3> QED
      BY <1>0, <3>2, <3>3
  <2> QED
    BY <1>p, <2>5, <2>6, <2>7, RevisionKeeps
<1>2. CASE ent[e].rev # entPlan.rev
  <2>1. UNCHANGED <<ent, edge>>
    BY <1>e, <1>2 DEF PlanApplyTx
  <2>2. JobsArePinned'
    BY <1>p, <2>1 DEF MergeInv, JobsArePinned, Pinned, LinkSourcesAll
  <2> QED
    BY <1>0, <1>p, <2>1, <2>2, ReadersKeep DEF MergeTypeOK
<1> QED
  BY <1>1, <1>2

LEMMA MergeNextInv == MergeInv /\ [MergeNext]_mergeVars => MergeInv'
<1> SUFFICES ASSUME MergeInv, [MergeNext]_mergeVars PROVE MergeInv'
  OBVIOUS
<1>1. ASSUME NEW m \in Mergers, ApplyTx(m) PROVE MergeInv'
  <2>1. CASE HeadsHold(job[m])
    BY <1>1, <2>1, ApplyTxStep
  <2>2. CASE ~HeadsHold(job[m])
    BY <1>1, <2>2, StaleTx DEF ApplyTx
  <2> QED
    BY <2>1, <2>2
<1>2. ASSUME NEW m \in Mergers, RevertTx(m) PROVE MergeInv'
  <2>1. CASE HeadsHold(job[m])
    BY <1>2, <2>1, RevertTxStep
  <2>2. CASE ~HeadsHold(job[m])
    BY <1>2, <2>2, StaleTx DEF RevertTx
  <2> QED
    BY <2>1, <2>2
<1>3. CASE UNCHANGED mergeVars
  <2>1. JobsArePinned'
    BY <1>3 DEF mergeVars, MergeInv, JobsArePinned, Pinned, LinkSourcesAll
  <2> QED
    BY <1>3, <2>1, ReadersKeep DEF mergeVars, MergeInv, MergeTypeOK, PlanIsAimed
<1> QED
  BY <1>1, <1>2, <1>3, ApplyReadStep, RevertReadStep, PlannersStep, UsersStep, PlanApplyStep DEF MergeNext

\* Entities, edges, plans and records keep their types.
THEOREM MergeTypeCorrect == MergeSpec => []MergeTypeOK
<1>1. MergeInv => MergeTypeOK
  BY DEF MergeInv
<1> QED
  BY <1>1, MergeInitInv, MergeNextInv, PTL DEF MergeSpec

\* However merges, undos, the enricher and users interleave, and for any
\* number of entities, sources and mergers: merged_into has no cycle
\* (ResolveEntityKey), a merge is known on both sides or on neither, and an undo
\* leaves the mentions that other merges and the canonical itself brought.
THEOREM MergesAreSafe == MergeSpec => []MergeSafety
<1>1. MergeInv => MergeSafety
  BY DEF MergeInv
<1> QED
  BY <1>1, MergeInitInv, MergeNextInv, PTL DEF MergeSpec

-----------------------------------------------------------------------------
(* The fact pipeline *)

\* A revision is in the future, in the hands of the one client that drew it,
\* or written.
PlansAreFresh ==
    /\ \A r \in Rev : r > clk => mem[r].key = ""
    /\ \A r \in Rev : mem[r].action = "none" => mem[r].key = ""
    /\ \A c \in Clients : plan[c].rev # 0 =>
          /\ plan[c].rev <= clk /\ mem[plan[c].rev].key = "" /\ plan[c].key \in Sources
          /\ \A d \in Clients : plan[d].rev = plan[c].rev => c = d

\* Writes that do not overlap commit in the order of their revisions: only the
\* newest row of a key is open.
SerialWrites ==
    ~Overlap =>
        /\ \A c, d \in Clients : plan[c].rev # 0 /\ plan[d].rev # 0 => c = d
        /\ \A c \in Clients, q \in Rev : plan[c].rev # 0 /\ q >= plan[c].rev => mem[q].key = ""
        /\ \A q, r \in Rev : q < r /\ mem[q].key = mem[r].key /\ mem[q].key \in Sources => mem[q].invalid

\* Without expiration dates no row expires.
NothingFleets == Fleeting = {} => \A r \in Rev : mem[r].expires = "never"

\* A worker beyond its claim has a revision, and ends with an outcome.
WorkIsAimed ==
    \A w \in Enrichers :
        /\ work[w].pc \in {"claimtx", "extract", "plan", "apply", "finish"} => work[w].rev \in Rev
        /\ work[w].pc # "idle" => work[w].key \in Sources
        /\ work[w].pc = "finish" => work[w].outcome # ""

\* A run that exists is of a source.
RunsKeyed == \A r \in Rev : runs[r].st # "none" => runs[r].key \in Sources

\* The event that is drained stays in the outbox until it is marked.
DrainHasEvent == drain.pc # "idle" => outbox # <<>>

\* No plan counts more than the links and its own; and a typed plan cites its
\* revision and, when its head is still the entity's, has counted what is linked now.
PinHas(rec, e, l) ==
    rec.pc = "apply" /\ rec.write =>
        /\ rec.count <= Cardinality(l \cup {rec.key})
        /\ e.typed => /\ rec.rev \in rec.cites /\ rec.pin <= e.version
                      /\ rec.pin = e.version => rec.count = e.mentions + IF rec.key \in l THEN 0 ELSE 1

CountsArePinned ==
    /\ IsFiniteSet(links) /\ MentionsAreCounted
    /\ \A w \in Enrichers : PinHas(work[w], entity, links)

\* The key of a revision, from its write to its last use, even after retention has
\* removed its row: o is the key each revision was written under, if it was.  What
\* the entity cites is linked, and so is all that a plan cites, but for its own source.
Claimed == {"claimtx", "extract", "plan", "apply", "finish"}
OwnedBy(o) ==
    /\ \A r \in Rev : mem[r].key \in {"", o[r]} /\ (r > clk => o[r] = "")
    /\ \A c \in Clients : plan[c].rev # 0 => o[plan[c].rev] = ""
    /\ \A w \in Enrichers : work[w].pc \in Claimed => work[w].key = o[work[w].rev]
    /\ \A r \in entity.sources : o[r] \in links
    /\ \A w \in Enrichers : work[w].pc = "apply" => \A r \in work[w].cites : o[r] \in links \cup {work[w].key}
RevisionsAreOwned == \E o \in [Rev -> Sources \cup {""}] : OwnedBy(o)

IsNewest(r, k) == mem[r].key = k /\ \A q \in Rev : mem[q].key = k => q <= r
Awaited(k) == \E i \in 1..Len(outbox) : outbox[i].key = k /\ ~outbox[i].tombstone /\ (i > 1 \/ drain.pc = "idle")
Persisting(r, k) == drain.pc = "persist" /\ drain.live = r /\ Head(outbox).key = k /\ ~Head(outbox).tombstone

\* The live revision of a key has its run, or an event of the key that the
\* tailer has not looked at yet, or the tailer is about to record its run.
WorkIsOwed ==
    \A k \in Sources, r \in Rev :
        IsNewest(r, k) /\ Visible(r) /\ ~mem[r].invalid => runs[r].st # "none" \/ Awaited(k) \/ Persisting(r, k)

FactsInv == PlansAreFresh /\ SerialWrites /\ NothingFleets
PipeInv == PipeTypeOK /\ FactsInv /\ WorkIsAimed /\ RunsKeyed /\ DrainHasEvent /\ CountsArePinned /\ RevisionsAreOwned

LEMMA NewestExists ==
    ASSUME NEW S \in SUBSET Rev, S # {}
    PROVE  Newest(S) \in S /\ \A q \in S : q <= Newest(S)
<1> DEFINE T == {n \in Nat : Revs - n \in S}
<1>0. Revs \in Nat
  BY PipeConstants
<1>1. T \subseteq Nat /\ T # {}
  <2>1. PICK q \in S : TRUE
    OBVIOUS
  <2>2. Revs - q \in Nat /\ Revs - (Revs - q) = q
    BY <1>0, <2>1 DEF Rev
  <2> QED
    BY <2>1, <2>2
<1>2. PICK x \in T : \A y \in T : ~(<<y, x>> \in OpToRel(<, Nat))
  BY <1>1, WFMin, NatLessThanWellFounded, Zenon
<1>3. \A y \in T : ~(y < x)
  BY <1>2 DEF OpToRel
<1>4. \A q \in S : q <= Revs - x
  <2> SUFFICES ASSUME NEW q \in S PROVE q <= Revs - x
    OBVIOUS
  <2>1. Revs - q \in T
    BY <1>0 DEF Rev
  <2> QED
    BY <1>0, <1>3, <2>1 DEF Rev
<1>5. \E m \in S : \A q \in S : m >= q
  BY <1>0, <1>2, <1>4 DEF Rev
<1>6. Max(S) \in S /\ \A q \in S : Max(S) >= q
  BY <1>5, Zenon DEF Max
<1> QED
  BY <1>6 DEF Newest, Rev

LEMMA NewestIs ==
    ASSUME NEW k, NEW r \in Rev, IsNewest(r, k)
    PROVE  Newest(RowsOf(k)) = r
<1>1. RowsOf(k) \in SUBSET Rev /\ r \in RowsOf(k) /\ \A q \in RowsOf(k) : q <= r
  BY DEF RowsOf, IsNewest
<1>2. Newest(RowsOf(k)) \in RowsOf(k) /\ \A q \in RowsOf(k) : q <= Newest(RowsOf(k))
  BY <1>1, NewestExists
<1> QED
  BY <1>1, <1>2 DEF Rev

\* liveByKeys returns the newest revision, when that can be seen.
LEMMA LiveIsNewest ==
    ASSUME NEW k, LiveByKey(k) # 0
    PROVE  LiveByKey(k) \in Rev /\ IsNewest(LiveByKey(k), k) /\ Visible(LiveByKey(k))
<1>1. LiveByKey(k) = Newest(RowsOf(k)) /\ Visible(Newest(RowsOf(k)))
  BY DEF LiveByKey
<1>2. RowsOf(k) \in SUBSET Rev
  BY DEF RowsOf
<1>3. RowsOf(k) # {}
  BY <1>1 DEF Newest
<1>4. Newest(RowsOf(k)) \in RowsOf(k) /\ \A q \in RowsOf(k) : q <= Newest(RowsOf(k))
  BY <1>2, <1>3, NewestExists
<1> QED
  BY <1>1, <1>4 DEF RowsOf, IsNewest

LEMMA LiveTyped == ASSUME NEW k PROVE LiveByKey(k) \in 0..Revs
<1>0. Revs \in Nat
  BY PipeConstants
<1>1. LiveByKey(k) # 0 => LiveByKey(k) \in 1..Revs
  BY LiveIsNewest DEF Rev
<1> QED
  BY <1>0, <1>1

\* What is owed for the live revision is visible in the outbox or done.
LEMMA OwedSuffices ==
    ASSUME WorkIsOwed, DrainHasEvent, outbox \in Seq(OutboxEvent)
    PROVE  DeliveredHasWork
<1> SUFFICES ASSUME NEW k \in Sources, NEW r, r = LiveByKey(k), r # 0, ~mem[r].invalid,
                    \A i \in 1..Len(outbox) : outbox[i].key # k
             PROVE  runs[r].st # "none"
  BY DEF DeliveredHasWork
<1>1. r \in Rev /\ IsNewest(r, k) /\ Visible(r)
  BY LiveIsNewest
<1>2. runs[r].st # "none" \/ Awaited(k) \/ Persisting(r, k)
  BY <1>1, Zenon DEF WorkIsOwed
<1>3. ~Awaited(k)
  BY DEF Awaited
<1>4. ~Persisting(r, k)
  <2> SUFFICES ASSUME Persisting(r, k) PROVE FALSE
    OBVIOUS
  <2>1. outbox # <<>>
    BY DEF Persisting, DrainHasEvent
  <2>2. Head(outbox) = outbox[1] /\ 1 \in 1..Len(outbox)
    BY <2>1
  <2> QED
    BY <2>2 DEF Persisting
<1> QED
  BY <1>2, <1>3, <1>4

-----------------------------------------------------------------------------

LEMMA PipeBlank ==
    /\ Revs \in Nat /\ PipeFaults \in Nat /\ 0 \in 0..Revs /\ Rev \subseteq 0..Revs
    /\ NoRow \in FactRow /\ NoPlan \in WritePlan /\ NoRun \in StageRun /\ NoWork \in StageWork
<1>1. Revs \in Nat /\ PipeFaults \in Nat
  BY PipeConstants
<1>2. 0 \in 0..Revs /\ Rev \subseteq 0..Revs
  BY <1>1 DEF Rev
<1>3. NoRow \in FactRow
  BY DEF NoRow, FactRow
<1>4. NoPlan \in WritePlan
  BY <1>2 DEF NoPlan, WritePlan
<1>5. NoRun \in StageRun
  BY DEF NoRun, StageRun
<1>6. NoWork \in StageWork
  BY <1>2 DEF NoWork, StageWork
<1> QED
  BY <1>1, <1>2, <1>3, <1>4, <1>5, <1>6

LEMMA PipeInitInv == PipeInit => PipeInv /\ WorkIsOwed
<1> SUFFICES ASSUME PipeInit PROVE PipeInv /\ WorkIsOwed
  OBVIOUS
<1>1. PipeTypeOK
  <2>1. drain \in [pc : {"idle", "persist", "publish", "mark"}, live : 0..Revs]
    BY PipeBlank DEF PipeInit, NoDrain
  <2>2. mem \in [Rev -> FactRow] /\ plan \in [Clients -> WritePlan] /\ runs \in [Rev -> StageRun]
          /\ work \in [Enrichers -> StageWork] /\ queue \in [Enrichers -> SUBSET Sources]
    BY PipeBlank DEF PipeInit
  <2>3. entity \in EntityHead
    <3>1. PICK t \in BOOLEAN : entity = [version |-> 0, mentions |-> 0, sources |-> {}, lineage |-> 0, typed |-> t]
      BY PipeConstants DEF PipeInit
    <3>2. {} \in SUBSET Rev /\ 0 \in Nat
      OBVIOUS
    <3> QED
      BY <3>1, <3>2 DEF EntityHead
  <2>4. outbox \in Seq(OutboxEvent) /\ links \subseteq Sources /\ clk \in 0..Revs /\ pipeMishaps \in 0..PipeFaults
    BY PipeBlank DEF PipeInit
  <2> QED
    BY <2>1, <2>2, <2>3, <2>4 DEF PipeTypeOK
<1>2. FactsInv
  BY PipeConstants DEF PipeInit, FactsInv, PlansAreFresh, SerialWrites, NothingFleets, NoRow, NoPlan
<1>3. WorkIsAimed /\ DrainHasEvent /\ RunsKeyed
  BY DEF PipeInit, WorkIsAimed, DrainHasEvent, RunsKeyed, NoWork, NoDrain, NoRun
<1>4. CountsArePinned
  <2>1. IsFiniteSet({}) /\ Cardinality({}) = 0
    BY FS_EmptySet
  <2>2. entity.mentions = 0 /\ links = {}
    BY DEF PipeInit
  <2>3. \A w \in Enrichers : work[w].pc = "idle"
    BY DEF PipeInit, NoWork
  <2> QED
    BY <2>1, <2>2, <2>3 DEF CountsArePinned, MentionsAreCounted, PinHas
<1>6. RevisionsAreOwned
  <2> DEFINE o == [r \in Rev |-> ""]
  <2>1. o \in [Rev -> Sources \cup {""}] /\ \A r \in Rev : o[r] = ""
    OBVIOUS
  <2>2. /\ \A r \in Rev : mem[r].key = ""
        /\ \A c \in Clients : plan[c].rev = 0
        /\ \A w \in Enrichers : work[w].pc = "idle"
    BY DEF PipeInit, NoRow, NoPlan, NoWork
  <2>3. entity.sources = {}
    BY DEF PipeInit
  <2> HIDE DEF o
  <2>4. OwnedBy(o)
    BY <2>1, <2>2, <2>3 DEF OwnedBy, Claimed
  <2> QED
    BY <2>1, <2>4 DEF RevisionsAreOwned
<1>5. WorkIsOwed
  BY PipeConstants DEF PipeInit, WorkIsOwed, IsNewest, NoRow
<1> QED
  BY <1>1, <1>2, <1>3, <1>4, <1>5, <1>6 DEF PipeInv

-----------------------------------------------------------------------------
(* The fact store *)

LEMMA ClockTyped ==
    ASSUME PipeTypeOK
    PROVE  /\ Revs \in Nat /\ Rev = 1..Revs /\ clk \in Nat /\ clk <= Revs
           /\ clk + 1 > clk /\ clk + 1 # 0 /\ \A r \in Rev : (r > clk + 1 => r > clk) /\ (r >= clk + 1 => r > clk)
           /\ \A d \in Clients : plan[d].rev <= clk => plan[d].rev <= clk + 1 /\ plan[d].rev # clk + 1
           /\ \A d \in Clients : plan[d].rev \in Nat /\ (plan[d].rev # 0 => plan[d].rev \in Rev)
<1>1. Revs \in Nat /\ clk \in 0..Revs
  BY PipeBlank DEF PipeTypeOK
<1>2. \A d \in Clients : plan[d].rev \in 0..Revs
  BY DEF PipeTypeOK, WritePlan
<1> QED
  BY <1>1, <1>2 DEF Rev

\* What the insert of a revision does to every row.
LEMMA ReplaceRowEffect ==
    ASSUME mem \in [Rev -> FactRow], NEW k \in Sources, NEW r \in Rev, NEW row \in FactRow, ReplaceRow(k, r, row)
    PROVE  /\ mem' \in [Rev -> FactRow]
           /\ mem'[r] = row
           /\ \A q \in Rev \ {r} : /\ mem'[q].key = mem[q].key /\ mem'[q].action = mem[q].action
                                   /\ mem'[q].expires = mem[q].expires
                                   /\ mem'[q].invalid = (mem[q].invalid \/ mem[q].key = k)
                                   /\ mem[q].key # k => mem'[q] = mem[q]
<1>1. \A q \in Rev : mem[q] \in FactRow
  OBVIOUS
<1>2. \A q \in Rev : [mem[q] EXCEPT !.invalid = TRUE] \in FactRow
  BY <1>1 DEF FactRow
<1>3. mem' \in [Rev -> FactRow] /\ mem'[r] = row
  BY <1>1, <1>2 DEF ReplaceRow
<1>4. ASSUME NEW q \in Rev \ {r}
      PROVE  /\ mem'[q].key = mem[q].key /\ mem'[q].action = mem[q].action
             /\ mem'[q].expires = mem[q].expires
             /\ mem'[q].invalid = (mem[q].invalid \/ mem[q].key = k)
             /\ mem[q].key # k => mem'[q] = mem[q]
  <2>0. mem[q].invalid \in BOOLEAN
    BY <1>1 DEF FactRow
  <2>1. CASE mem[q].key = k
    <3>1. mem'[q] = [mem[q] EXCEPT !.invalid = TRUE]
      BY <2>1 DEF ReplaceRow
    <3> QED
      BY <1>1, <2>0, <2>1, <3>1 DEF FactRow
  <2>2. CASE mem[q].key # k
    <3>1. mem'[q] = mem[q]
      BY <2>2 DEF ReplaceRow
    <3> QED
      BY <2>0, <2>2, <3>1
  <2> QED
    BY <2>1, <2>2
<1> QED
  BY <1>3, <1>4

\* A write that changes something: the revision the client drew becomes the row.
LEMMA WriteTxEffect ==
    ASSUME PipeTypeOK, PlansAreFresh, NEW c \in Clients, WriteTx(c), ~Duplicate(plan[c].key, plan[c].text)
    PROVE  \E row \in FactRow :
              /\ row.key = plan[c].key /\ row.action # "none" /\ (Fleeting = {} => row.expires = "never")
              /\ ReplaceRow(plan[c].key, plan[c].rev, row)
              /\ plan[c].rev \in Rev /\ plan[c].key \in Sources
<1>1. plan[c] \in WritePlan /\ plan[c].rev # 0 /\ plan[c].key \in Sources
  BY DEF PipeTypeOK, PlansAreFresh, WriteTx
<1>2. plan[c].rev \in Rev
  <2>1. plan[c].rev \in 0..Revs /\ Revs \in Nat
    BY <1>1, PipeBlank DEF WritePlan
  <2> QED
    BY <1>1, <2>1 DEF Rev
<1> DEFINE row == [key |-> plan[c].key, action |-> IF HasLive(plan[c].key) THEN "update" ELSE "add",
                   text |-> plan[c].text, invalid |-> FALSE,
                   expires |-> IF plan[c].text \in Fleeting THEN "later" ELSE "never"]
<1>3. row \in FactRow /\ row.key = plan[c].key /\ row.action # "none" /\ (Fleeting = {} => row.expires = "never")
  BY <1>1 DEF FactRow, WritePlan
<1>4. ReplaceRow(plan[c].key, plan[c].rev, row)
  BY DEF WriteTx
<1> HIDE DEF row
<1> QED
  BY <1>1, <1>2, <1>3, <1>4

\* Forgetting: the next revision becomes a tombstone.
LEMMA ForgetEffect ==
    ASSUME PipeTypeOK, NEW k \in Sources, Forget(k)
    PROVE  \E row \in FactRow :
              /\ row.key = k /\ row.action = "tombstone" /\ row.expires = "never"
              /\ ReplaceRow(k, clk + 1, row)
              /\ clk + 1 \in Rev
<1>1. clk + 1 \in Rev
  BY PipeBlank DEF PipeTypeOK, Forget, Rev
<1> DEFINE row == [NoRow EXCEPT !.key = k, !.action = "tombstone"]
<1>2. row \in FactRow /\ row.key = k /\ row.action = "tombstone" /\ row.expires = "never"
  BY DEF NoRow, FactRow
<1>3. ReplaceRow(k, clk + 1, row)
  BY DEF Forget
<1> HIDE DEF row
<1> QED
  BY <1>1, <1>2, <1>3

\* Retention only blanks rows; one that is blanked was superseded before the
\* cutoff, a final tombstone before the cutoff, or expired.
LEMMA SweepEffect ==
    ASSUME mem \in [Rev -> FactRow], NEW cutoff \in Rev, SweepRetention(cutoff)
    PROVE  /\ mem' \in [Rev -> FactRow]
           /\ \A r \in Rev :
                \/ mem'[r] = mem[r] /\ (r < cutoff /\ mem[r].action # "none" =>
                                           \A q \in Rev : q > r => mem[q].key # mem[r].key)
                \/ mem'[r] = NoRow /\ (\/ \E q \in Rev : q > r /\ mem[q].key = mem[r].key
                                       \/ r < cutoff
                                       \/ mem[r].expires = "past")
<1>1. mem' \in [Rev -> FactRow]
  BY PipeBlank DEF SweepRetention
<1>2. ASSUME NEW r \in Rev
      PROVE \/ mem'[r] = mem[r] /\ (r < cutoff /\ mem[r].action # "none" =>
                                           \A q \in Rev : q > r => mem[q].key # mem[r].key)
            \/ mem'[r] = NoRow /\ (\/ \E q \in Rev : q > r /\ mem[q].key = mem[r].key
                                   \/ r < cutoff
                                   \/ mem[r].expires = "past")
  <2> DEFINE superseded == {x \in Rev : x < cutoff /\ \E q \in Rev : q > x /\ mem[q].key = mem[x].key}
             dead == {x \in Rev : x < cutoff /\ mem[x].action = "tombstone" /\ x = Newest(RowsOf(mem[x].key))}
             expired == {x \in Rev : mem[x].expires = "past"}
             gone == {x \in superseded \cup dead \cup expired : mem[x].action # "none"}
  <2>1. mem' = [x \in Rev |-> IF x \in gone THEN NoRow ELSE mem[x]]
    BY DEF SweepRetention
  <2>2. CASE r \in gone
    <3>1. mem'[r] = NoRow
      BY <2>1, <2>2
    <3>2. r \in superseded \/ r \in dead \/ r \in expired
      BY <2>2
    <3> QED
      BY <3>1, <3>2
  <2>3. CASE r \notin gone
    <3>1. mem'[r] = mem[r]
      BY <2>1, <2>3
    <3>2. mem[r].action # "none" => r \notin superseded
      BY <2>3
    <3> QED
      BY <3>1, <3>2
  <2> QED
    BY <2>2, <2>3
<1> QED
  BY <1>1, <1>2

\* Expiry changes the expiration of one row that had a date.
LEMMA ExpireEffect ==
    ASSUME mem \in [Rev -> FactRow], NEW x \in Rev, Expire(x)
    PROVE  /\ mem' \in [Rev -> FactRow] /\ mem[x].expires = "later" /\ mem'[x].expires = "past"
           /\ \A q \in Rev : /\ mem'[q].key = mem[q].key /\ mem'[q].action = mem[q].action
                             /\ mem'[q].invalid = mem[q].invalid
                             /\ q # x => mem'[q] = mem[q]
<1>1. mem[x] \in FactRow
  OBVIOUS
<1>2. [mem[x] EXCEPT !.expires = "past"] \in FactRow
  BY <1>1 DEF FactRow
<1>3. mem' = [mem EXCEPT ![x] = [mem[x] EXCEPT !.expires = "past"]]
  BY DEF Expire
<1>4. mem' \in [Rev -> FactRow] /\ mem'[x] = [mem[x] EXCEPT !.expires = "past"] /\ \A q \in Rev : q # x => mem'[q] = mem[q]
  BY <1>2, <1>3, Zenon
<1>5. /\ mem'[x].key = mem[x].key /\ mem'[x].action = mem[x].action
      /\ mem'[x].invalid = mem[x].invalid /\ mem'[x].expires = "past"
  BY <1>1, <1>4 DEF FactRow
<1>6. mem[x].expires = "later"
  BY DEF Expire
<1> QED
  BY <1>4, <1>5, <1>6

\* Steps that leave the rows, the clock and the prepared writes alone.
LEMMA FactsUnchanged == ASSUME FactsInv, UNCHANGED <<mem, clk, plan>> PROVE FactsInv'
  BY DEF FactsInv, PlansAreFresh, SerialWrites, NothingFleets

LEMMA FactsWritePrepare ==
    ASSUME PipeTypeOK, FactsInv, NEW c \in Clients, NEW k \in Sources, NEW t \in Texts, WritePrepare(c, k, t)
    PROVE  FactsInv'
<1>1. clk \in Nat /\ clk < Revs /\ clk + 1 \in Rev /\ clk' = clk + 1 /\ mem' = mem
  BY PipeBlank DEF PipeTypeOK, WritePrepare, Rev
<1>2. /\ plan'[c].rev = clk + 1 /\ plan'[c].key = k
      /\ \A d \in Clients : d # c => plan'[d] = plan[d]
  BY DEF WritePrepare, PipeTypeOK
<1>3. \A d \in Clients : plan[d].rev \in Nat
  BY ClockTyped DEF WritePlan
<1>4. PlansAreFresh'
  <2>1. \A r \in Rev : r > clk' => mem'[r].key = ""
    BY ClockTyped, <1>1 DEF FactsInv, PlansAreFresh
  <2>2. ASSUME NEW d \in Clients, plan'[d].rev # 0
        PROVE  /\ plan'[d].rev <= clk' /\ mem'[plan'[d].rev].key = "" /\ plan'[d].key \in Sources
               /\ \A e \in Clients : plan'[e].rev = plan'[d].rev => d = e
    <3>1. CASE d = c
      <4>1. mem[clk + 1].key = ""
        BY ClockTyped, <1>1 DEF FactsInv, PlansAreFresh
      <4>2. \A e \in Clients : e # c => plan[e].rev # clk + 1
        BY ClockTyped, <1>1, <1>3 DEF FactsInv, PlansAreFresh
      <4>3. clk + 1 <= clk'
        BY <1>1
      <4> QED
        BY <1>1, <1>2, <3>1, <4>1, <4>2, <4>3, Zenon
    <3>2. CASE d # c
      <4>1. plan'[d] = plan[d]
        BY <1>2, <3>2
      <4>2. plan[d].rev <= clk /\ mem[plan[d].rev].key = "" /\ plan[d].key \in Sources
               /\ \A e \in Clients : plan[e].rev = plan[d].rev => d = e
        BY <2>2, <4>1 DEF FactsInv, PlansAreFresh
      <4> QED
        BY ClockTyped, <1>1, <1>2, <1>3, <4>1, <4>2
    <3> QED
      BY <3>1, <3>2
  <2>3. \A r \in Rev : mem'[r].action = "none" => mem'[r].key = ""
    BY <1>1 DEF FactsInv, PlansAreFresh
  <2> QED
    BY <2>1, <2>2, <2>3 DEF PlansAreFresh
<1>5. SerialWrites'
  <2> SUFFICES ASSUME ~Overlap PROVE SerialWrites'
    BY DEF SerialWrites
  <2>1. \A d \in Clients : plan[d].rev = 0
    BY DEF WritePrepare
  <2>2. \A d \in Clients : plan'[d].rev # 0 => d = c
    BY <1>2, <2>1
  <2>3. \A q \in Rev : q >= clk + 1 => mem[q].key = ""
    BY ClockTyped, <1>1 DEF FactsInv, PlansAreFresh
  <2>4. \A q, r \in Rev : q < r /\ mem[q].key = mem[r].key /\ mem[q].key \in Sources => mem[q].invalid
    BY DEF FactsInv, SerialWrites
  <2> QED
    BY <1>1, <1>2, <2>2, <2>3, <2>4 DEF SerialWrites
<1>6. NothingFleets'
  BY <1>1 DEF FactsInv, NothingFleets
<1> QED
  BY <1>4, <1>5, <1>6 DEF FactsInv

LEMMA FactsWriteTx ==
    ASSUME PipeTypeOK, FactsInv, NEW c \in Clients, WriteTx(c)
    PROVE  FactsInv'
<1>1. clk \in Nat /\ clk' = clk /\ PlansAreFresh /\ plan[c].rev # 0
  BY PipeBlank DEF PipeTypeOK, WriteTx, FactsInv
<1>2. plan'[c].rev = 0 /\ \A d \in Clients : d # c => plan'[d] = plan[d]
  BY DEF WriteTx, PipeTypeOK, NoPlan
<1>3. CASE Duplicate(plan[c].key, plan[c].text)
  <2>1. mem' = mem
    BY <1>3 DEF WriteTx
  <2>2. PlansAreFresh'
    BY <1>1, <1>2, <2>1 DEF PlansAreFresh
  <2>3. SerialWrites'
    BY <1>1, <1>2, <2>1 DEF SerialWrites, FactsInv
  <2>4. NothingFleets'
    BY <2>1 DEF NothingFleets, FactsInv
  <2> QED
    BY <2>2, <2>3, <2>4 DEF FactsInv
<1>4. CASE ~Duplicate(plan[c].key, plan[c].text)
  <2>1. PICK row \in FactRow :
              /\ row.key = plan[c].key /\ row.action # "none" /\ (Fleeting = {} => row.expires = "never")
              /\ ReplaceRow(plan[c].key, plan[c].rev, row)
              /\ plan[c].rev \in Rev /\ plan[c].key \in Sources
    BY <1>1, <1>4, WriteTxEffect
  <2>2. PICK k \in Sources, p \in Rev : k = plan[c].key /\ p = plan[c].rev
    BY <2>1
  <2>3. /\ mem'[p] = row
        /\ \A q \in Rev \ {p} : /\ mem'[q].key = mem[q].key /\ mem'[q].action = mem[q].action
                                /\ mem'[q].expires = mem[q].expires
                                /\ mem'[q].invalid = (mem[q].invalid \/ mem[q].key = k)
    BY <2>1, <2>2, ReplaceRowEffect DEF PipeTypeOK
  <2>4. p <= clk /\ mem[p].key = "" /\ \A d \in Clients : plan[d].rev = p => c = d
    BY <1>1, <2>2 DEF PlansAreFresh
  <2>5. PlansAreFresh'
    <3>1. \A r \in Rev : r > clk' => mem'[r].key = ""
      <4>1. \A r \in Rev : r > clk => r # p
        <5>0. Revs \in Nat /\ Rev = 1..Revs /\ clk \in Nat
          BY ClockTyped, Zenon
        <5>1. p <= clk
          BY <2>4, Zenon
        <5>2. \A r \in Rev : r > clk => r # p
          BY <5>0, <5>1
        <5> QED
          BY <5>2
      <4>2. \A r \in Rev : r > clk => mem[r].key = ""
        BY <1>1 DEF PlansAreFresh
      <4>3. \A r \in Rev : r # p => mem'[r].key = mem[r].key
        BY <2>3
      <4> QED
        BY <1>1, <4>1, <4>2, <4>3, Zenon
    <3>2. \A r \in Rev : mem'[r].action = "none" => mem'[r].key = ""
      BY <1>1, <2>1, <2>3 DEF PlansAreFresh
    <3>3. ASSUME NEW d \in Clients, plan'[d].rev # 0
          PROVE  /\ plan'[d].rev <= clk' /\ mem'[plan'[d].rev].key = "" /\ plan'[d].key \in Sources
                 /\ \A e \in Clients : plan'[e].rev = plan'[d].rev => d = e
      <4>1. d # c /\ plan'[d] = plan[d]
        BY <1>2, <3>3
      <4>2. plan[d].rev <= clk /\ mem[plan[d].rev].key = "" /\ plan[d].key \in Sources
               /\ \A e \in Clients : plan[e].rev = plan[d].rev => d = e
        BY <1>1, <3>3, <4>1 DEF PlansAreFresh
      <4>3. plan[d].rev \in Rev \ {p}
        <5>1. plan[d].rev \in 0..Revs /\ Revs \in Nat
          BY PipeBlank DEF PipeTypeOK, WritePlan
        <5> QED
          BY ClockTyped, <2>4, <3>3, <4>1, <5>1
      <4>4. mem'[plan[d].rev].key = ""
        BY <2>3, <4>2, <4>3
      <4>5. \A e \in Clients : plan'[e].rev = plan'[d].rev => d = e
        BY <1>2, <3>3, <4>1, <4>2
      <4> QED
        BY <1>1, <4>1, <4>2, <4>4, <4>5
    <3> QED
      BY <3>1, <3>2, <3>3 DEF PlansAreFresh
  <2>6. SerialWrites'
    <3> SUFFICES ASSUME ~Overlap PROVE SerialWrites'
      BY DEF SerialWrites
    <3>1. \A d \in Clients : plan'[d].rev = 0
      BY <1>1, <1>2 DEF FactsInv, SerialWrites
    <3>2. ASSUME NEW q \in Rev, NEW r \in Rev, q < r, mem'[q].key = mem'[r].key, mem'[q].key \in Sources
          PROVE  mem'[q].invalid
      <4>1. CASE q = p
        <5>0. r # p /\ r >= plan[c].rev
          BY ClockTyped, <2>2, <3>2, <4>1
        <5>1. r # p /\ mem[r].key = ""
          BY <1>1, <5>0 DEF FactsInv, SerialWrites
        <5>2. mem'[r].key = ""
          BY <2>3, <5>1
        <5> QED
          BY <3>2, <5>2, PipeConstants
      <4>2. CASE r = p
        <5>1. q \in Rev \ {p} /\ mem'[r].key = k
          BY <2>1, <2>2, <2>3, <3>2, <4>2 DEF Rev
        <5> QED
          BY <2>3, <3>2, <5>1
      <4>3. CASE q # p /\ r # p
        <5>1. mem[q].key = mem[r].key /\ mem[q].key \in Sources
          BY <2>3, <3>2, <4>3
        <5>2. mem[q].invalid
          BY <3>2, <5>1 DEF FactsInv, SerialWrites
        <5> QED
          BY <2>3, <4>3, <5>2
      <4> QED
        BY <4>1, <4>2, <4>3
    <3> QED
      BY <3>1, <3>2 DEF SerialWrites
  <2>7. NothingFleets'
    BY <2>1, <2>3 DEF FactsInv, NothingFleets
  <2> QED
    BY <2>5, <2>6, <2>7 DEF FactsInv
<1> QED
  BY <1>3, <1>4

LEMMA FactsForget ==
    ASSUME PipeTypeOK, FactsInv, NEW k \in Sources, Forget(k)
    PROVE  FactsInv'
<1>1. clk \in Nat /\ clk' = clk + 1 /\ PlansAreFresh /\ plan' = plan
  BY PipeBlank DEF PipeTypeOK, Forget, FactsInv
<1>2. PICK row \in FactRow :
              /\ row.key = k /\ row.action = "tombstone" /\ row.expires = "never"
              /\ ReplaceRow(k, clk + 1, row)
              /\ clk + 1 \in Rev
  BY ForgetEffect
<1>3. PICK p \in Rev : p = clk + 1
  BY <1>2
<1>4. /\ mem'[p] = row
      /\ \A q \in Rev \ {p} : /\ mem'[q].key = mem[q].key /\ mem'[q].action = mem[q].action
                              /\ mem'[q].expires = mem[q].expires
                              /\ mem'[q].invalid = (mem[q].invalid \/ mem[q].key = k)
  BY <1>2, <1>3, ReplaceRowEffect DEF PipeTypeOK
<1>5. PlansAreFresh'
  <2>1. \A r \in Rev : r > clk' => mem'[r].key = ""
    <3>1. \A r \in Rev : r > clk' => r > clk /\ r # p
      BY <1>1, <1>3, ClockTyped
    <3> QED
      BY <1>1, <1>4, <3>1 DEF PlansAreFresh
  <2>2. \A r \in Rev : mem'[r].action = "none" => mem'[r].key = ""
    BY <1>1, <1>2, <1>4 DEF PlansAreFresh
  <2>3. ASSUME NEW d \in Clients, plan[d].rev # 0
        PROVE  plan[d].rev <= clk' /\ mem'[plan[d].rev].key = ""
    <3>1. plan[d].rev \in 0..Revs /\ Revs \in Nat /\ plan[d].rev <= clk /\ mem[plan[d].rev].key = ""
      BY <1>1, <2>3, PipeBlank DEF PipeTypeOK, WritePlan, PlansAreFresh
    <3>2. plan[d].rev \in Rev \ {p}
      BY ClockTyped, <1>1, <1>3, <2>3, <3>1
    <3> QED
      BY ClockTyped, <1>1, <1>4, <3>1, <3>2
  <2> QED
    BY <1>1, <2>1, <2>2, <2>3 DEF PlansAreFresh
<1>6. SerialWrites'
  <2> SUFFICES ASSUME ~Overlap PROVE SerialWrites'
    BY DEF SerialWrites
  <2>1. \A d \in Clients : plan'[d].rev = 0
    BY <1>1 DEF Forget
  <2>2. ASSUME NEW q \in Rev, NEW r \in Rev, q < r, mem'[q].key = mem'[r].key, mem'[q].key \in Sources
        PROVE  mem'[q].invalid
    <3>1. CASE q = p
      <4>0. r # p /\ r > clk
        BY ClockTyped, <1>3, <2>2, <3>1
      <4>1. r # p /\ mem[r].key = ""
        BY <1>1, <4>0 DEF PlansAreFresh
      <4>2. mem'[r].key = ""
        BY <1>4, <4>1
      <4> QED
        BY <2>2, <4>2, PipeConstants
    <3>2. CASE r = p
      <4>1. q \in Rev \ {p} /\ mem'[r].key = k
        BY <1>2, <1>4, <2>2, <3>2 DEF Rev
      <4> QED
        BY <1>4, <2>2, <4>1
    <3>3. CASE q # p /\ r # p
      <4>1. mem[q].key = mem[r].key /\ mem[q].key \in Sources
        BY <1>4, <2>2, <3>3
      <4>2. mem[q].invalid
        BY <2>2, <4>1 DEF FactsInv, SerialWrites
      <4> QED
        BY <1>4, <3>3, <4>2
    <3> QED
      BY <3>1, <3>2, <3>3
  <2> QED
    BY <2>1, <2>2 DEF SerialWrites
<1>7. NothingFleets'
  BY <1>2, <1>4 DEF FactsInv, NothingFleets
<1> QED
  BY <1>5, <1>6, <1>7 DEF FactsInv

LEMMA FactsExpire ==
    ASSUME PipeTypeOK, FactsInv, NEW x \in Rev, Expire(x)
    PROVE  FactsInv'
<1>1. clk' = clk /\ plan' = plan
  BY DEF Expire
<1>2. /\ mem[x].expires = "later"
      /\ \A q \in Rev : /\ mem'[q].key = mem[q].key /\ mem'[q].action = mem[q].action
                        /\ mem'[q].invalid = mem[q].invalid
  BY ExpireEffect DEF PipeTypeOK
<1>3. \A d \in Clients : plan[d].rev # 0 => plan[d].rev \in Rev
  <2>1. \A d \in Clients : plan[d].rev \in 0..Revs
    BY DEF PipeTypeOK, WritePlan
  <2> QED
    BY <2>1, PipeBlank DEF Rev
<1>4. PlansAreFresh'
  BY <1>1, <1>2, <1>3 DEF FactsInv, PlansAreFresh
<1>5. SerialWrites'
  BY <1>1, <1>2 DEF FactsInv, SerialWrites
<1>6. NothingFleets'
  BY <1>2 DEF FactsInv, NothingFleets
<1> QED
  BY <1>4, <1>5, <1>6 DEF FactsInv

LEMMA FactsSweep ==
    ASSUME PipeTypeOK, FactsInv, NEW x \in Rev, SweepRetention(x)
    PROVE  FactsInv'
<1>1. clk' = clk /\ plan' = plan
  BY DEF SweepRetention
<1>2. \A q \in Rev : mem'[q] = mem[q] \/ mem'[q] = NoRow
  BY SweepEffect DEF PipeTypeOK
<1>3. NoRow.key = "" /\ NoRow.expires = "never" /\ "" \notin Sources
  BY PipeConstants DEF NoRow
<1>4. \A d \in Clients : plan[d].rev # 0 => plan[d].rev \in Rev
  <2>1. \A d \in Clients : plan[d].rev \in 0..Revs
    BY DEF PipeTypeOK, WritePlan
  <2> QED
    BY <2>1, PipeBlank DEF Rev
<1>5. PlansAreFresh'
  BY <1>1, <1>2, <1>3, <1>4 DEF FactsInv, PlansAreFresh
<1>6. SerialWrites'
  BY <1>1, <1>2, <1>3 DEF FactsInv, SerialWrites
<1>7. NothingFleets'
  BY <1>2, <1>3 DEF FactsInv, NothingFleets
<1> QED
  BY <1>5, <1>6, <1>7 DEF FactsInv

LEMMA FactsStep == ASSUME PipeTypeOK, FactsInv, PipeNext PROVE FactsInv'
<1>1. ASSUME NEW c \in Clients, WriteTx(c) PROVE FactsInv'
  BY <1>1, FactsWriteTx
<1>2. ASSUME NEW c \in Clients, NEW k \in Sources, NEW t \in Texts, WritePrepare(c, k, t) PROVE FactsInv'
  BY <1>2, FactsWritePrepare
<1>3. ASSUME NEW k \in Sources, Forget(k) PROVE FactsInv'
  BY <1>3, FactsForget
<1>4. ASSUME NEW r \in Rev, Expire(r) PROVE FactsInv'
  BY <1>4, FactsExpire
<1>5. ASSUME NEW r \in Rev, SweepRetention(r) PROVE FactsInv'
  BY <1>5, FactsSweep
<1>6. ASSUME NEW r \in Rev, LeaseOver(r) PROVE FactsInv'
  BY <1>6, FactsUnchanged DEF LeaseOver, factVars
<1>7. CASE TailerStep
  BY <1>7, FactsUnchanged DEF TailerStep, DrainRead, DrainPersist, DrainPublish, DrainMark, factVars
<1>8. ASSUME NEW w \in Enrichers, EnricherStep(w) \/ Recover(w) \/ CrashEnricher(w) PROVE FactsInv'
  <2>1. UNCHANGED factVars
    BY <1>8 DEF EnricherStep, TakeKey, ClaimRead, ClaimTx, Extract, planEntityApply, planTypedSourceApply, Planned,
                Apply, FinishRun, Recover, CrashEnricher
  <2> QED
    BY <2>1, FactsUnchanged DEF factVars
<1>9. CASE RewriteEntity
  BY <1>9, FactsUnchanged DEF RewriteEntity, factVars
<1> QED
  BY <1>1, <1>2, <1>3, <1>4, <1>5, <1>6, <1>7, <1>8, <1>9 DEF PipeNext

-----------------------------------------------------------------------------
(* The workers *)

\* What a step of one worker does to the table of workers.
LEMMA WorkStepEffect ==
    ASSUME work \in [Enrichers -> StageWork], NEW w \in Enrichers, NEW rec \in StageWork, WorkStep(w, rec)
    PROVE  work' \in [Enrichers -> StageWork] /\ work'[w] = rec /\ \A v \in Enrichers \ {w} : work'[v] = work[v]
  BY DEF WorkStep

\* What a worker may write about itself.
AimedRec(rec) ==
    /\ rec.pc \in {"claimtx", "extract", "plan", "apply", "finish"} => rec.rev \in Rev
    /\ rec.pc # "idle" => rec.key \in Sources
    /\ rec.pc = "finish" => rec.outcome # ""

\* A plan that writes counts a source that is not linked yet, on top of the head
\* it is pinned to, and cites what that head cites, and its revision when typed.
PinnedRec(rec) ==
    rec.pc = "apply" => /\ rec.pin = entity.version
                        /\ rec.write => rec.count = entity.mentions + IF rec.key \in links THEN 0 ELSE 1
                        /\ rec.cites \subseteq entity.sources \cup {rec.rev}
                        /\ entity.typed => rec.rev \in rec.cites

\* A worker keeps its key and its revision, which it takes from a row of the key.
SteadyRec(w, rec) ==
    rec.pc \in Claimed => \/ rec.key = work[w].key /\ rec.rev = work[w].rev /\ work[w].pc \in Claimed
                          \/ rec.rev \in Rev /\ mem[rec.rev].key = rec.key

MovedRec(w, rec) == AimedRec(rec) /\ PinnedRec(rec) /\ SteadyRec(w, rec)

LEMMA PlannedMoves ==
    ASSUME PipeTypeOK, WorkIsAimed, NEW w \in Enrichers, NEW b \in BOOLEAN, NEW n \in Nat, Planned(w, b, n),
           b => n = entity.mentions + IF work[w].key \in links THEN 0 ELSE 1
    PROVE  \E rec \in StageWork : WorkStep(w, rec) /\ MovedRec(w, rec)
<1>0. work[w] \in StageWork /\ work[w].pc = "plan" /\ entity \in EntityHead
  BY DEF PipeTypeOK, Planned
<1>1. work[w].rev \in Rev /\ work[w].key \in Sources
  BY <1>0 DEF WorkIsAimed
<1> DEFINE cites == entity.sources \cup IF entity.typed THEN {work[w].rev} ELSE {}
           rec == [work[w] EXCEPT !.pc = "apply", !.pin = entity.version, !.write = b, !.count = n,
                                  !.cites = cites, !.lineage = entity.lineage]
<1>a. WorkStep(w, rec)
  BY DEF Planned
<1>b. /\ cites \subseteq entity.sources \cup {work[w].rev} /\ cites \in SUBSET Rev
      /\ entity.typed => work[w].rev \in cites
      /\ entity.version \in Nat /\ entity.lineage \in Nat
  BY <1>0, <1>1 DEF EntityHead
<1> HIDE DEF cites
<1>2. rec \in StageWork
  BY <1>0, <1>b DEF StageWork
<1>3. /\ rec.pc = "apply" /\ rec.pin = entity.version /\ rec.write = b /\ rec.count = n /\ rec.cites = cites
      /\ rec.rev = work[w].rev /\ rec.key = work[w].key
  BY <1>0 DEF StageWork
<1> HIDE DEF rec
<1>5. AimedRec(rec) /\ PinnedRec(rec) /\ SteadyRec(w, rec)
  BY <1>0, <1>1, <1>3, <1>b DEF AimedRec, PinnedRec, SteadyRec, Claimed
<1> QED
  BY <1>2, <1>5, <1>a DEF MovedRec

\* Each step of a worker leaves a record that is typed, aimed, pinned and steady.
LEMMA WorkerMoves ==
    ASSUME PipeTypeOK, WorkIsAimed, NEW w \in Enrichers, EnricherStep(w) \/ CrashEnricher(w)
    PROVE  \E rec \in StageWork : WorkStep(w, rec) /\ MovedRec(w, rec)
<1> DEFINE Goal == \E rec \in StageWork : WorkStep(w, rec) /\ MovedRec(w, rec)
<1>0. work[w] \in StageWork /\ NoWork \in StageWork
  BY PipeBlank DEF PipeTypeOK
<1>1. MovedRec(w, NoWork)
  BY DEF MovedRec, AimedRec, PinnedRec, SteadyRec, Claimed, NoWork
<1>2. /\ work[w].pc \in {"claimtx", "extract", "plan", "apply", "finish"} => work[w].rev \in Rev
      /\ work[w].pc # "idle" => work[w].key \in Sources
  BY DEF WorkIsAimed
<1>3. WorkStep(w, NoWork) => Goal
  BY <1>0, <1>1, Zenon
<1>4. ASSUME NEW k \in Sources, TakeKey(w, k) PROVE Goal
  <2> DEFINE rec == [NoWork EXCEPT !.pc = "claim", !.key = k]
  <2>1. rec \in StageWork
    BY <1>0 DEF StageWork
  <2>2. MovedRec(w, rec)
    BY DEF MovedRec, AimedRec, PinnedRec, SteadyRec, Claimed, NoWork
  <2>3. WorkStep(w, rec)
    BY <1>4 DEF TakeKey
  <2> QED
    BY <2>1, <2>2, <2>3, Zenon
<1>5. CASE ClaimRead(w)
  <2>1. PICK r : r = LiveByKey(work[w].key)
    OBVIOUS
  <2>2. CASE r = 0
    BY <1>3, <1>5, <2>1, <2>2 DEF ClaimRead
  <2>3. CASE r # 0
    <3> DEFINE rec == [work[w] EXCEPT !.pc = "claimtx", !.rev = r]
    <3>1. r \in Rev /\ r \in 0..Revs
      BY <2>1, <2>3, LiveIsNewest, LiveTyped
    <3>2. rec \in StageWork
      BY <1>0, <3>1 DEF StageWork
    <3>3. rec.pc = "claimtx" /\ rec.rev = r /\ rec.key = work[w].key
      BY <1>0 DEF StageWork
    <3>4. WorkStep(w, rec) /\ work[w].pc = "claim"
      BY <1>5, <2>1, <2>3 DEF ClaimRead
    <3>6. mem[rec.rev].key = rec.key
      BY <2>1, <2>3, <3>3, LiveIsNewest DEF IsNewest
    <3> HIDE DEF rec
    <3>5. MovedRec(w, rec)
      BY <1>2, <3>1, <3>3, <3>4, <3>6 DEF MovedRec, AimedRec, PinnedRec, SteadyRec, Claimed
    <3> QED
      BY <3>2, <3>4, <3>5, Zenon
  <2> QED
    BY <2>2, <2>3
<1>6. CASE ClaimTx(w)
  <2>0. work[w].pc = "claimtx" /\ work[w].rev \in Rev /\ work[w].key \in Sources
    BY <1>2, <1>6 DEF ClaimTx
  <2>1. CASE runs[work[w].rev].st \in {"none", "pending"}
    <3> DEFINE rec == [work[w] EXCEPT !.pc = "extract", !.attempt = runs[work[w].rev].attempts + 1]
    <3>0. PICK run \in StageRun : run = runs[work[w].rev]
      BY <2>0 DEF PipeTypeOK
    <3>a. run.attempts \in Nat
      BY DEF StageRun
    <3>b. runs[work[w].rev].attempts \in Nat
      BY <3>0, <3>a, Zenon
    <3>1. runs[work[w].rev].attempts + 1 \in Nat
      BY <3>b
    <3>2. rec \in StageWork
      BY <1>0, <3>1 DEF StageWork
    <3>3. rec.pc = "extract" /\ rec.rev = work[w].rev /\ rec.key = work[w].key
      BY <1>0 DEF StageWork
    <3>4. WorkStep(w, rec)
      BY <1>6, <2>1 DEF ClaimTx
    <3> HIDE DEF rec
    <3>5. MovedRec(w, rec)
      BY <2>0, <3>3 DEF MovedRec, AimedRec, PinnedRec, SteadyRec, Claimed
    <3> QED
      BY <3>2, <3>4, <3>5, Zenon
  <2>2. CASE runs[work[w].rev].st \notin {"none", "pending"}
    BY <1>3, <1>6, <2>2 DEF ClaimTx
  <2> QED
    BY <2>1, <2>2
<1>f. ASSUME NEW o \in {"succeeded", "failed", "superseded"}, work[w].pc \in {"extract", "apply"},
             WorkStep(w, [work[w] EXCEPT !.pc = "finish", !.outcome = o])
      PROVE  Goal
  <2> DEFINE rec == [work[w] EXCEPT !.pc = "finish", !.outcome = o]
  <2>1. rec \in StageWork
    BY <1>0 DEF StageWork
  <2>2. rec.pc = "finish" /\ rec.outcome = o /\ rec.rev = work[w].rev /\ rec.key = work[w].key
    BY <1>0 DEF StageWork
  <2>3. WorkStep(w, rec)
    BY <1>f
  <2> HIDE DEF rec
  <2>4. MovedRec(w, rec)
    BY <1>2, <1>f, <2>2 DEF MovedRec, AimedRec, PinnedRec, SteadyRec, Claimed
  <2> QED
    BY <2>1, <2>3, <2>4, Zenon
<1>7. CASE Extract(w)
  <2>0. work[w].pc = "extract"
    BY <1>7 DEF Extract
  <2>1. CASE WorkStep(w, [work[w] EXCEPT !.pc = "finish", !.outcome = "superseded"])
    BY <1>f, <2>0, <2>1
  <2>2. CASE WorkStep(w, [work[w] EXCEPT !.pc = "finish", !.outcome = "failed"])
    BY <1>f, <2>0, <2>2
  <2>3. CASE WorkStep(w, [work[w] EXCEPT !.pc = "plan"])
    <3> DEFINE rec == [work[w] EXCEPT !.pc = "plan"]
    <3>1. rec \in StageWork
      BY <1>0 DEF StageWork
    <3>2. rec.pc = "plan" /\ rec.rev = work[w].rev /\ rec.key = work[w].key
      BY <1>0 DEF StageWork
    <3>3. WorkStep(w, rec)
      BY <2>3
    <3> HIDE DEF rec
    <3>4. MovedRec(w, rec)
      BY <1>2, <2>0, <3>2 DEF MovedRec, AimedRec, PinnedRec, SteadyRec, Claimed
    <3> QED
      BY <3>1, <3>3, <3>4, Zenon
  <2> QED
    BY <1>7, <2>1, <2>2, <2>3 DEF Extract
<1>8. CASE planEntityApply(w)
  <2>0. entity.mentions \in Nat /\ entity.mentions + 1 \in Nat
    BY DEF PipeTypeOK, EntityHead
  <2>1. CASE work[w].key \in links
    <3>1. (work[w].key \notin links) = FALSE
      BY <2>1
    <3>2. Planned(w, FALSE, entity.mentions + 1)
      BY <1>8, <3>1, Zenon DEF planEntityApply
    <3> QED
      BY <2>0, <3>2, PlannedMoves
  <2>2. CASE work[w].key \notin links
    <3>1. (work[w].key \notin links) = TRUE
      BY <2>2
    <3>2. Planned(w, TRUE, entity.mentions + 1)
      BY <1>8, <3>1, Zenon DEF planEntityApply
    <3> QED
      BY <2>0, <2>2, <3>2, PlannedMoves
  <2> QED
    BY <2>1, <2>2
<1>9. CASE planTypedSourceApply(w)
  <2> DEFINE b == work[w].key \notin links \/ work[w].rev \notin entity.sources
             n == entity.mentions + IF work[w].key \notin links THEN 1 ELSE 0
  <2>0. n \in Nat /\ n = entity.mentions + IF work[w].key \in links THEN 0 ELSE 1
    BY DEF PipeTypeOK, EntityHead
  <2>1. Planned(w, b, n)
    BY <1>9, Zenon DEF planTypedSourceApply
  <2> HIDE DEF n
  <2>2. b = TRUE \/ b = FALSE
    OBVIOUS
  <2> HIDE DEF b
  <2>3. Planned(w, TRUE, n) \/ Planned(w, FALSE, n)
    BY <2>1, <2>2, Zenon
  <2> QED
    BY <2>0, <2>3, PlannedMoves
<1>10. CASE Apply(w)
  <2>1. PICK o \in {"succeeded", "failed", "superseded"} : WorkStep(w, [work[w] EXCEPT !.pc = "finish", !.outcome = o])
    BY <1>10 DEF Apply
  <2>2. work[w].pc = "apply"
    BY <1>10 DEF Apply
  <2> QED
    BY <1>f, <2>1, <2>2
<1>11. CASE FinishRun(w) \/ CrashEnricher(w)
  BY <1>3, <1>11 DEF FinishRun, CrashEnricher
<1> QED
  BY <1>4, <1>5, <1>6, <1>7, <1>8, <1>9, <1>10, <1>11 DEF EnricherStep

-----------------------------------------------------------------------------
(* The stage runs *)

\* A run that exists never becomes absent again.
RunsStay == /\ runs' \in [Rev -> StageRun] /\ RunsKeyed'
            /\ \A r \in Rev : runs[r].st # "none" => runs'[r].st # "none"

\* A run may change its status, its owner's mark and its attempts.
LEMMA RunVariants ==
    ASSUME NEW run \in StageRun
    PROVE  /\ \A s \in {"pending", "superseded", "succeeded", "failed"} :
                 [run EXCEPT !.st = s] \in StageRun /\ [run EXCEPT !.st = s].st = s /\ [run EXCEPT !.st = s].key = run.key
           /\ [run EXCEPT !.stale = TRUE] \in StageRun /\ [run EXCEPT !.stale = TRUE].st = run.st /\ [run EXCEPT !.stale = TRUE].key = run.key
           /\ \A k \in Sources : /\ [run EXCEPT !.st = "pending", !.key = k] \in StageRun
                                 /\ [run EXCEPT !.st = "pending", !.key = k].st = "pending"
                                 /\ [key |-> k, st |-> "running", attempts |-> run.attempts + 1, stale |-> FALSE] \in StageRun
<1>1. ASSUME NEW s \in {"pending", "superseded", "succeeded", "failed"}
      PROVE  [run EXCEPT !.st = s] \in StageRun /\ [run EXCEPT !.st = s].st = s /\ [run EXCEPT !.st = s].key = run.key
  BY DEF StageRun
<1>2. [run EXCEPT !.stale = TRUE] \in StageRun /\ [run EXCEPT !.stale = TRUE].st = run.st /\ [run EXCEPT !.stale = TRUE].key = run.key
  BY DEF StageRun
<1>3. ASSUME NEW k \in Sources
      PROVE  /\ [run EXCEPT !.st = "pending", !.key = k] \in StageRun
             /\ [run EXCEPT !.st = "pending", !.key = k].st = "pending"
  BY DEF StageRun
<1>4. run.attempts + 1 \in Nat
  <2>1. run.attempts \in Nat
    BY DEF StageRun
  <2> QED
    BY <2>1
<1>5. ASSUME NEW k \in Sources, NEW n \in Nat
      PROVE  [key |-> k, st |-> "running", attempts |-> n, stale |-> FALSE] \in StageRun
  BY DEF StageRun
<1> QED
  BY <1>1, <1>2, <1>3, <1>4, <1>5, Zenon

LEMMA HeadIsEvent ==
    ASSUME PipeTypeOK, DrainHasEvent, drain.pc # "idle"
    PROVE  Head(outbox) \in OutboxEvent /\ Head(outbox) = outbox[1] /\ 1 \in 1..Len(outbox)
<1>1. outbox # <<>> /\ outbox \in Seq(OutboxEvent)
  BY DEF DrainHasEvent, PipeTypeOK
<1> QED
  BY <1>1

LEMMA EnsuredRun ==
    ASSUME runs \in [Rev -> StageRun], RunsKeyed, NEW r \in Rev, NEW k \in Sources, runs' = EnsureRun(r, k)
    PROVE  RunsStay /\ runs'[r].st # "none"
<1>1. runs[r] \in StageRun
  OBVIOUS
<1>2. CASE runs[r].st = "none"
  <2>1. runs' = [runs EXCEPT ![r] = [runs[r] EXCEPT !.st = "pending", !.key = k]]
    <3>1. r # 0
      BY DEF Rev
    <3> QED
      BY <1>2, <3>1 DEF EnsureRun
  <2>2. [runs[r] EXCEPT !.st = "pending", !.key = k] \in StageRun /\ [runs[r] EXCEPT !.st = "pending", !.key = k].st = "pending"
          /\ [runs[r] EXCEPT !.st = "pending", !.key = k].key = k
    <3>1. PICK run \in StageRun : run = runs[r]
      BY <1>1
    <3>2. [run EXCEPT !.st = "pending", !.key = k] \in StageRun /\ [run EXCEPT !.st = "pending", !.key = k].st = "pending"
            /\ [run EXCEPT !.st = "pending", !.key = k].key = k
      BY DEF StageRun
    <3> QED
      BY <3>1, <3>2, Zenon
  <2> QED
    BY <2>1, <2>2 DEF RunsStay, RunsKeyed
<1>3. CASE runs[r].st # "none"
  <2>1. runs' = runs
    BY <1>3 DEF EnsureRun
  <2> QED
    BY <1>3, <2>1 DEF RunsStay, RunsKeyed
<1> QED
  BY <1>2, <1>3

LEMMA RunsDrainPersist == ASSUME PipeTypeOK, RunsKeyed, DrainHasEvent, DrainPersist PROVE RunsStay
<1>0. runs \in [Rev -> StageRun] /\ \A r \in Rev : runs[r] \in StageRun
  BY DEF PipeTypeOK
<1>1. PICK e \in OutboxEvent : e = Head(outbox)
  BY HeadIsEvent DEF DrainPersist
<1>2. e.key \in Sources /\ drain.live \in 0..Revs
  BY DEF OutboxEvent, PipeTypeOK
<1>3. CASE e.tombstone
  <2>1. PICK S : runs' = Retire(S) /\ \A r \in S : runs[r].st = "pending"
    <3>1. runs' = Retire(PendingRuns(e.key) \ {drain.live})
      BY <1>1, <1>3 DEF DrainPersist
    <3>2. \A r \in PendingRuns(e.key) \ {drain.live} : runs[r].st = "pending"
      BY DEF PendingRuns
    <3> QED
      BY <3>1, <3>2
  <2>2. \A r \in Rev : [runs[r] EXCEPT !.st = "superseded"] \in StageRun /\ [runs[r] EXCEPT !.st = "superseded"].st = "superseded"
                       /\ [runs[r] EXCEPT !.st = "superseded"].key = runs[r].key
    BY <1>0, RunVariants
  <2> QED
    BY <1>0, <2>1, <2>2 DEF Retire, RunsStay, RunsKeyed
<1>4. CASE ~e.tombstone
  <2>1. runs' = EnsureRun(drain.live, e.key)
    BY <1>1, <1>4 DEF DrainPersist
  <2>2. CASE drain.live = 0
    BY <1>0, <2>1, <2>2 DEF EnsureRun, RunsStay, RunsKeyed
  <2>3. CASE drain.live # 0
    <3>1. drain.live \in Rev
      BY <1>2, <2>3, PipeBlank DEF Rev
    <3> QED
      BY <1>0, <1>2, <2>1, <3>1, EnsuredRun
  <2> QED
    BY <2>2, <2>3
<1> QED
  BY <1>3, <1>4

LEMMA RunsClaim == ASSUME PipeTypeOK, RunsKeyed, WorkIsAimed, NEW w \in Enrichers, ClaimTx(w) PROVE RunsStay
<1>0. runs \in [Rev -> StageRun] /\ \A r \in Rev : runs[r] \in StageRun
  BY DEF PipeTypeOK
<1>1. PICK r \in Rev, k \in Sources : r = work[w].rev /\ k = work[w].key
  BY DEF ClaimTx, WorkIsAimed
<1> DEFINE mine == runs[r].st \in {"none", "pending"}
           taken == [key |-> k, st |-> "running", attempts |-> runs[r].attempts + 1, stale |-> FALSE]
<1>2. runs' = [q \in Rev |-> IF q = r /\ mine THEN taken
                             ELSE IF q \in PendingRuns(k) THEN [runs[q] EXCEPT !.st = "superseded"]
                             ELSE runs[q]]
  BY <1>1 DEF ClaimTx
<1>3. taken \in StageRun /\ taken.st = "running" /\ taken.key = k
  BY <1>0, RunVariants
<1>4. \A q \in Rev : [runs[q] EXCEPT !.st = "superseded"] \in StageRun /\ [runs[q] EXCEPT !.st = "superseded"].st = "superseded"
                     /\ [runs[q] EXCEPT !.st = "superseded"].key = runs[q].key
  BY <1>0, RunVariants
<1> HIDE DEF taken, mine
<1> QED
  BY <1>0, <1>2, <1>3, <1>4 DEF RunsStay, RunsKeyed, PendingRuns

LEMMA RunsFinish == ASSUME PipeTypeOK, RunsKeyed, WorkIsAimed, NEW w \in Enrichers, FinishRun(w) PROVE RunsStay
<1>0. runs \in [Rev -> StageRun] /\ \A r \in Rev : runs[r] \in StageRun
  BY DEF PipeTypeOK
<1>1. PICK r \in Rev : r = work[w].rev
  BY DEF FinishRun, WorkIsAimed
<1>2. work[w].outcome \in {"succeeded", "failed", "superseded"}
  <2>1. work[w] \in StageWork /\ work[w].outcome # ""
    BY DEF PipeTypeOK, FinishRun, WorkIsAimed
  <2> QED
    BY <2>1 DEF StageWork
<1>a. PICK o \in {"succeeded", "failed", "superseded"} : o = work[w].outcome
  BY <1>2
<1>3. runs' = runs \/ (runs[r].st # "none" /\ runs' = [runs EXCEPT ![r] = [runs[r] EXCEPT !.st = o]])
  BY <1>1, <1>a DEF FinishRun
<1>4. [runs[r] EXCEPT !.st = o] \in StageRun /\ [runs[r] EXCEPT !.st = o].st # "none"
        /\ [runs[r] EXCEPT !.st = o].key = runs[r].key
  <2>1. PICK run \in StageRun : run = runs[r]
    BY <1>0
  <2>2. [run EXCEPT !.st = o] \in StageRun /\ [run EXCEPT !.st = o].st = o /\ [run EXCEPT !.st = o].key = run.key
    BY DEF StageRun
  <2>3. o # "none"
    OBVIOUS
  <2> QED
    BY <2>1, <2>2, <2>3, Zenon
<1> QED
  BY <1>0, <1>3, <1>4 DEF RunsStay, RunsKeyed

LEMMA RunsRecover == ASSUME PipeTypeOK, RunsKeyed, NEW w \in Enrichers, Recover(w) PROVE RunsStay
<1>0. runs \in [Rev -> StageRun] /\ \A r \in Rev : runs[r] \in StageRun
  BY DEF PipeTypeOK
<1>1. PICK again : /\ runs' = [r \in Rev |-> IF r \in again THEN [runs[r] EXCEPT !.st = "pending"] ELSE runs[r]]
                   /\ \A r \in again : runs[r].st # "none"
  BY DEF Recover
<1>2. \A r \in Rev : [runs[r] EXCEPT !.st = "pending"] \in StageRun /\ [runs[r] EXCEPT !.st = "pending"].st = "pending"
                     /\ [runs[r] EXCEPT !.st = "pending"].key = runs[r].key
  BY <1>0, RunVariants
<1> QED
  BY <1>0, <1>1, <1>2 DEF RunsStay, RunsKeyed

LEMMA RunsLease == ASSUME PipeTypeOK, RunsKeyed, NEW r \in Rev, LeaseOver(r) PROVE RunsStay
<1>0. runs \in [Rev -> StageRun] /\ \A q \in Rev : runs[q] \in StageRun
  BY DEF PipeTypeOK
<1>1. runs' = [runs EXCEPT ![r] = [runs[r] EXCEPT !.stale = TRUE]]
  BY DEF LeaseOver
<1>2. [runs[r] EXCEPT !.stale = TRUE] \in StageRun /\ [runs[r] EXCEPT !.stale = TRUE].st = runs[r].st
        /\ [runs[r] EXCEPT !.stale = TRUE].key = runs[r].key
  BY <1>0, RunVariants
<1> QED
  BY <1>0, <1>1, <1>2 DEF RunsStay, RunsKeyed

LEMMA RunsUnchanged == ASSUME PipeTypeOK, RunsKeyed, runs' = runs PROVE RunsStay
  BY DEF PipeTypeOK, RunsStay, RunsKeyed

LEMMA RunsStep == ASSUME PipeTypeOK, RunsKeyed, WorkIsAimed, DrainHasEvent, PipeNext PROVE RunsStay
<1>1. ASSUME NEW c \in Clients, WriteTx(c) \/ \E k \in Sources, t \in Texts : WritePrepare(c, k, t) PROVE runs' = runs
  BY <1>1 DEF WriteTx, WritePrepare, stageVars
<1>2. ASSUME NEW k \in Sources, Forget(k) PROVE runs' = runs
  BY <1>2 DEF Forget, stageVars
<1>3. ASSUME NEW r \in Rev, Expire(r) \/ SweepRetention(r) PROVE runs' = runs
  BY <1>3 DEF Expire, SweepRetention, stageVars
<1>4. CASE DrainRead \/ DrainPublish \/ DrainMark
  BY <1>4, RunsUnchanged DEF DrainRead, DrainPublish, DrainMark, stageVars
<1>5. ASSUME NEW w \in Enrichers, EnricherStep(w) \/ CrashEnricher(w), ~ClaimTx(w), ~FinishRun(w) PROVE runs' = runs
  BY <1>5 DEF EnricherStep, TakeKey, ClaimRead, Extract, planEntityApply, planTypedSourceApply, Planned, Apply, CrashEnricher
<1>6. CASE RewriteEntity
  BY <1>6, RunsUnchanged DEF RewriteEntity
<1>7. ASSUME NEW w \in Enrichers, EnricherStep(w) \/ Recover(w) \/ CrashEnricher(w) PROVE RunsStay
  BY <1>5, <1>7, RunsClaim, RunsFinish, RunsRecover, RunsUnchanged
<1>8. ASSUME NEW r \in Rev, LeaseOver(r) PROVE RunsStay
  BY <1>8, RunsLease
<1> QED
  BY <1>1, <1>2, <1>3, <1>4, <1>6, <1>7, <1>8, RunsUnchanged, RunsDrainPersist DEF PipeNext, TailerStep

-----------------------------------------------------------------------------
(* Types *)

\* The types of what clients write, of the tailer's state, of the workers' state.
FactTypes == /\ mem \in [Rev -> FactRow] /\ clk \in 0..Revs /\ plan \in [Clients -> WritePlan]
             /\ outbox \in Seq(OutboxEvent)
DrainTypes == drain \in [pc : {"idle", "persist", "publish", "mark"}, live : 0..Revs]
StageTypes == /\ runs \in [Rev -> StageRun] /\ queue \in [Enrichers -> SUBSET Sources] /\ work \in [Enrichers -> StageWork]
              /\ entity \in EntityHead /\ links \subseteq Sources
MishapTypes == pipeMishaps \in 0..PipeFaults

LEMMA PipeTypesSplit == PipeTypeOK <=> FactTypes /\ DrainTypes /\ StageTypes /\ MishapTypes
  BY DEF PipeTypeOK, FactTypes, DrainTypes, StageTypes, MishapTypes

LEMMA MishapTyped == ASSUME MishapTypes, PipeMishap \/ UNCHANGED pipeMishaps PROVE MishapTypes'
  BY PipeBlank DEF MishapTypes, PipeMishap

LEMMA FactTypesStep ==
    ASSUME PipeTypeOK, PlansAreFresh, DrainHasEvent, PipeNext
    PROVE  FactTypes'
<1>0. /\ mem \in [Rev -> FactRow] /\ clk \in 0..Revs /\ plan \in [Clients -> WritePlan]
      /\ outbox \in Seq(OutboxEvent) /\ Revs \in Nat /\ NoPlan \in WritePlan
  BY PipeBlank DEF PipeTypeOK
<1>1. ASSUME NEW c \in Clients, WriteTx(c) PROVE FactTypes'
  <2>1. plan' \in [Clients -> WritePlan] /\ clk' = clk
    BY <1>0, <1>1 DEF WriteTx
  <2>2. CASE Duplicate(plan[c].key, plan[c].text)
    BY <1>0, <1>1, <2>1, <2>2 DEF WriteTx, FactTypes
  <2>3. CASE ~Duplicate(plan[c].key, plan[c].text)
    <3>1. PICK row \in FactRow : /\ ReplaceRow(plan[c].key, plan[c].rev, row)
                                 /\ plan[c].rev \in Rev /\ plan[c].key \in Sources
      BY <1>1, <2>3, WriteTxEffect
    <3>2. mem' \in [Rev -> FactRow]
      BY <1>0, <3>1, ReplaceRowEffect
    <3>3. [key |-> plan[c].key, tombstone |-> FALSE] \in OutboxEvent
      BY <3>1 DEF OutboxEvent
    <3>4. outbox' \in Seq(OutboxEvent)
      <4>1. PICK e \in OutboxEvent : outbox' = Append(outbox, e)
        BY <1>1, <2>3, <3>3, Zenon DEF WriteTx
      <4> QED
        BY <1>0, <4>1
    <3> QED
      BY <1>0, <2>1, <3>2, <3>4 DEF FactTypes
  <2> QED
    BY <2>2, <2>3
<1>2. ASSUME NEW c \in Clients, NEW k \in Sources, NEW t \in Texts, WritePrepare(c, k, t) PROVE FactTypes'
  <2>1. clk + 1 \in 0..Revs /\ clk' = clk + 1
    BY <1>0, <1>2 DEF WritePrepare
  <2>2. [rev |-> clk + 1, key |-> k, text |-> t] \in WritePlan
    BY <2>1 DEF WritePlan
  <2> QED
    BY <1>0, <1>2, <2>1, <2>2 DEF WritePrepare, FactTypes
<1>3. ASSUME NEW k \in Sources, Forget(k) PROVE FactTypes'
  <2>1. PICK row \in FactRow : ReplaceRow(k, clk + 1, row) /\ clk + 1 \in Rev
    BY <1>3, ForgetEffect
  <2>2. mem' \in [Rev -> FactRow]
    BY <1>0, <2>1, ReplaceRowEffect
  <2>3. [key |-> k, tombstone |-> TRUE] \in OutboxEvent
    BY DEF OutboxEvent
  <2>4. outbox' \in Seq(OutboxEvent)
    BY <1>0, <1>3, <2>3 DEF Forget
  <2>5. clk' \in 0..Revs
    BY <1>0, <1>3 DEF Forget
  <2> QED
    BY <1>0, <1>3, <2>2, <2>4, <2>5 DEF Forget, FactTypes
<1>4. ASSUME NEW r \in Rev, Expire(r) PROVE FactTypes'
  BY <1>0, <1>4, ExpireEffect DEF Expire, FactTypes
<1>5. ASSUME NEW r \in Rev, SweepRetention(r) PROVE FactTypes'
  BY <1>0, <1>5, SweepEffect DEF SweepRetention, FactTypes
<1>u. UNCHANGED factVars => FactTypes'
  BY <1>0 DEF factVars, FactTypes
<1>6. ASSUME NEW r \in Rev, LeaseOver(r) PROVE FactTypes'
  BY <1>6, <1>u DEF LeaseOver
<1>7. CASE DrainRead \/ DrainPersist \/ DrainPublish
  BY <1>7, <1>u DEF DrainRead, DrainPersist, DrainPublish
<1>8. CASE DrainMark
  <2>0. outbox # <<>>
    BY <1>8 DEF DrainMark, DrainHasEvent
  <2>1. Tail(outbox) \in Seq(OutboxEvent)
    BY <1>0, <2>0
  <2> QED
    BY <1>0, <1>8, <2>1 DEF DrainMark, FactTypes
<1>9. ASSUME NEW w \in Enrichers, EnricherStep(w) \/ Recover(w) \/ CrashEnricher(w) PROVE FactTypes'
  BY <1>9, <1>u DEF EnricherStep, TakeKey, ClaimRead, ClaimTx, Extract, planEntityApply, planTypedSourceApply, Planned,
                Apply, FinishRun, Recover, CrashEnricher
<1>10. CASE RewriteEntity
  BY <1>10, <1>u DEF RewriteEntity
<1> QED
  BY <1>1, <1>2, <1>3, <1>4, <1>5, <1>6, <1>7, <1>8, <1>9, <1>10 DEF PipeNext, TailerStep

\* Only the tailer and the crash of its server move the drain, and only the
\* tailer takes an event out of the outbox.
LEMMA DrainMoves ==
    ASSUME PipeTypeOK, DrainHasEvent, PipeNext
    PROVE  DrainTypes' /\ DrainHasEvent'
<1>0. DrainTypes /\ NoDrain \in [pc : {"idle", "persist", "publish", "mark"}, live : 0..Revs] /\ NoDrain.pc = "idle"
  BY PipeBlank, PipeTypesSplit DEF NoDrain
<1>1. ASSUME drain' = drain, outbox' = outbox \/ \E e : outbox' = Append(outbox, e) PROVE DrainTypes' /\ DrainHasEvent'
  <2>1. outbox' # <<>> \/ outbox = <<>>
    BY <1>1 DEF PipeTypeOK
  <2> QED
    BY <1>0, <1>1, <2>1 DEF DrainTypes, DrainHasEvent
<1>2. ASSUME drain' = NoDrain PROVE DrainTypes' /\ DrainHasEvent'
  BY <1>0, <1>2 DEF DrainTypes, DrainHasEvent
<1>3. ASSUME NEW c \in Clients, WriteTx(c) \/ \E k \in Sources, t \in Texts : WritePrepare(c, k, t)
      PROVE  drain' = drain /\ (outbox' = outbox \/ \E e : outbox' = Append(outbox, e))
  BY <1>3 DEF WriteTx, WritePrepare
<1>4. ASSUME NEW k \in Sources, Forget(k) PROVE drain' = drain /\ (outbox' = outbox \/ \E e : outbox' = Append(outbox, e))
  BY <1>4 DEF Forget
<1>5. ASSUME NEW r \in Rev, Expire(r) \/ SweepRetention(r) \/ LeaseOver(r) PROVE drain' = drain /\ outbox' = outbox
  BY <1>5 DEF Expire, SweepRetention, LeaseOver, factVars
<1>6. CASE DrainRead
  <2>1. LiveByKey(Head(outbox).key) \in 0..Revs
    BY LiveTyped
  <2> QED
    BY <1>6, <2>1 DEF DrainRead, DrainTypes, DrainHasEvent, factVars
<1>7. CASE DrainPersist \/ DrainPublish
  <2>1. drain \in [pc : {"idle", "persist", "publish", "mark"}, live : 0..Revs] /\ outbox' = outbox /\ outbox # <<>>
    BY <1>0, <1>7 DEF DrainTypes, DrainPersist, DrainPublish, factVars, DrainHasEvent
  <2>2. \E s \in {"publish", "mark"} : drain' = [drain EXCEPT !.pc = s]
    BY <1>7 DEF DrainPersist, DrainPublish
  <2> QED
    BY <2>1, <2>2 DEF DrainTypes, DrainHasEvent
<1>8. CASE DrainMark
  BY <1>2, <1>8 DEF DrainMark
<1>9. ASSUME NEW w \in Enrichers, EnricherStep(w) \/ Recover(w) PROVE drain' = drain /\ outbox' = outbox
  BY <1>9 DEF EnricherStep, TakeKey, ClaimRead, ClaimTx, Extract, planEntityApply, planTypedSourceApply, Planned,
              Apply, FinishRun, Recover, factVars
<1>10. ASSUME NEW w \in Enrichers, CrashEnricher(w) PROVE DrainTypes' /\ DrainHasEvent'
  BY <1>1, <1>2, <1>10 DEF CrashEnricher, factVars
<1>11. CASE RewriteEntity
  BY <1>1, <1>11 DEF RewriteEntity, factVars
<1> QED
  BY <1>1, <1>3, <1>4, <1>5, <1>6, <1>7, <1>8, <1>9, <1>10, <1>11 DEF PipeNext, TailerStep

\* The workers' table changes only by a worker's step or the crash of its server.
LEMMA WorkMoves ==
    ASSUME PipeTypeOK, WorkIsAimed, PipeNext
    PROVE  /\ work' \in [Enrichers -> StageWork]
           /\ \A v \in Enrichers : AimedRec(work'[v]) /\ (MovedRec(v, work'[v]) \/ work'[v] = work[v])
<1>0. work \in [Enrichers -> StageWork] /\ \A v \in Enrichers : AimedRec(work[v])
  BY DEF PipeTypeOK, WorkIsAimed, AimedRec
<1>1. ASSUME NEW w \in Enrichers, EnricherStep(w) \/ CrashEnricher(w)
      PROVE  /\ work' \in [Enrichers -> StageWork]
             /\ \A v \in Enrichers : AimedRec(work'[v]) /\ (MovedRec(v, work'[v]) \/ work'[v] = work[v])
  <2>1. PICK rec \in StageWork : WorkStep(w, rec) /\ MovedRec(w, rec)
    BY <1>1, WorkerMoves
  <2>2. work' \in [Enrichers -> StageWork] /\ work'[w] = rec /\ \A v \in Enrichers \ {w} : work'[v] = work[v]
    BY <1>0, <2>1, WorkStepEffect
  <2>3. AimedRec(rec)
    BY <2>1 DEF MovedRec
  <2> QED
    BY <1>0, <2>1, <2>2, <2>3, Zenon
<1>2. CASE ~\E w \in Enrichers : EnricherStep(w) \/ CrashEnricher(w)
  <2>1. ASSUME NEW c \in Clients, WriteTx(c) \/ \E k \in Sources, t \in Texts : WritePrepare(c, k, t) PROVE work' = work
    BY <2>1 DEF WriteTx, WritePrepare, stageVars
  <2>2. ASSUME NEW k \in Sources, Forget(k) PROVE work' = work
    BY <2>2 DEF Forget, stageVars
  <2>3. ASSUME NEW r \in Rev, Expire(r) \/ SweepRetention(r) \/ LeaseOver(r) PROVE work' = work
    BY <2>3 DEF Expire, SweepRetention, LeaseOver, stageVars
  <2>4. ASSUME TailerStep PROVE work' = work
    BY <2>4 DEF TailerStep, DrainRead, DrainPersist, DrainPublish, DrainMark, stageVars
  <2>5. ASSUME NEW w \in Enrichers, Recover(w) PROVE work' = work
    BY <2>5 DEF Recover
  <2>6. ASSUME RewriteEntity PROVE work' = work
    BY <2>6 DEF RewriteEntity
  <2>7. work' = work
    BY <1>2, <2>1, <2>2, <2>3, <2>4, <2>5, <2>6 DEF PipeNext
  <2> QED
    BY <1>0, <2>7, Zenon
<1> QED
  BY <1>1, <1>2

LEMMA AimedStep == ASSUME PipeTypeOK, WorkIsAimed, PipeNext PROVE WorkIsAimed'
<1>1. \A v \in Enrichers : AimedRec(work'[v])
  BY WorkMoves, Zenon
<1> QED
  BY <1>1 DEF AimedRec, WorkIsAimed

LEMMA QueueTyped == ASSUME PipeTypeOK, RunsKeyed, DrainHasEvent, PipeNext PROVE queue' \in [Enrichers -> SUBSET Sources]
<1>0. queue \in [Enrichers -> SUBSET Sources] /\ Drainer \in Enrichers
  BY PipeConstants DEF PipeTypeOK
<1>1. ASSUME NEW c \in Clients, WriteTx(c) \/ \E k \in Sources, t \in Texts : WritePrepare(c, k, t) PROVE queue' = queue
  BY <1>1 DEF WriteTx, WritePrepare, stageVars
<1>2. ASSUME NEW k \in Sources, Forget(k) PROVE queue' = queue
  BY <1>2 DEF Forget, stageVars
<1>3. ASSUME NEW r \in Rev, Expire(r) \/ SweepRetention(r) \/ LeaseOver(r) PROVE queue' = queue
  BY <1>3 DEF Expire, SweepRetention, LeaseOver, stageVars
<1>4. CASE DrainRead \/ DrainPersist \/ DrainMark
  BY <1>0, <1>4 DEF DrainRead, DrainPersist, DrainMark, stageVars
<1>5. CASE DrainPublish
  <2>1. PICK e \in OutboxEvent : e = Head(outbox)
    BY <1>5, HeadIsEvent DEF DrainPublish
  <2>2. e.key \in Sources
    BY DEF OutboxEvent
  <2>3. queue' = queue \/ queue' = [queue EXCEPT ![Drainer] = @ \cup {e.key}]
    BY <1>5, <2>1 DEF DrainPublish
  <2> QED
    BY <1>0, <2>2, <2>3
<1>6. ASSUME NEW w \in Enrichers, EnricherStep(w), ~\E k \in Sources : TakeKey(w, k) PROVE queue' = queue
  BY <1>6 DEF EnricherStep, ClaimRead, ClaimTx, Extract, planEntityApply, planTypedSourceApply, Planned, Apply, FinishRun
<1>7. ASSUME NEW w \in Enrichers, NEW k \in Sources, TakeKey(w, k) PROVE queue' \in [Enrichers -> SUBSET Sources]
  BY <1>0, <1>7 DEF TakeKey
<1>8. ASSUME NEW w \in Enrichers, CrashEnricher(w) PROVE queue' \in [Enrichers -> SUBSET Sources]
  BY <1>0, <1>8 DEF CrashEnricher
<1>9. ASSUME NEW w \in Enrichers, Recover(w) PROVE queue' \in [Enrichers -> SUBSET Sources]
  <2> DEFINE again == {r \in Rev : \/ runs[r].st = "running" /\ runs[r].stale
                                   \/ runs[r].st = "failed" /\ runs[r].attempts < RunAttempts}
             todo == again \cup {r \in Rev : runs[r].st = "pending"}
             keys == {runs[r].key : r \in todo}
  <2>1. \A r \in todo : r \in Rev /\ runs[r].st # "none"
    OBVIOUS
  <2>2. keys \in SUBSET Sources
    <3> HIDE DEF todo
    <3> QED
      BY <2>1 DEF RunsKeyed
  <2>3. queue' = [queue EXCEPT ![w] = queue[w] \cup keys]
    BY <1>9 DEF Recover
  <2> HIDE DEF keys
  <2> QED
    BY <1>0, <2>2, <2>3
<1>10. CASE RewriteEntity
  BY <1>0, <1>10 DEF RewriteEntity
<1> QED
  BY <1>0, <1>1, <1>2, <1>3, <1>4, <1>5, <1>6, <1>7, <1>8, <1>9, <1>10 DEF PipeNext, TailerStep

-----------------------------------------------------------------------------
(* The counts *)

\* Only a worker under its pin, or another writer of the entity, replaces the
\* entity's fact; only the worker counts.  A worker whose content is there already
\* only links.
EntityStays == UNCHANGED <<entity, links>>
EntityRewritten ==
    /\ entity'.version = entity.version + 1 /\ entity'.mentions = entity.mentions
    /\ entity'.sources = entity.sources /\ entity'.typed = entity.typed /\ links' = links
EntityApplied(w) ==
    /\ work[w].pc = "apply" /\ work[w].write /\ work[w].pin = entity.version
    /\ entity'.version = entity.version + 1 /\ entity'.mentions = work[w].count
    /\ entity'.sources = work[w].cites /\ entity'.typed = entity.typed
    /\ links' = links \cup {work[w].key} /\ work'[w].pc # "apply"
EntityLinked(w) ==
    /\ work[w].pc = "apply" /\ work[w].write /\ entity.sources = work[w].cites
    /\ entity' = entity /\ links' = links \cup {work[w].key}

LEMMA EntityMoves ==
    ASSUME PipeTypeOK, WorkIsAimed, PipeNext
    PROVE  /\ entity' \in EntityHead /\ links' \subseteq Sources
           /\ EntityStays \/ EntityRewritten \/ \E w \in Enrichers : EntityApplied(w) \/ EntityLinked(w)
<1>0. entity \in EntityHead /\ links \subseteq Sources
  BY DEF PipeTypeOK
<1>1. ASSUME NEW c \in Clients, WriteTx(c) \/ \E k \in Sources, t \in Texts : WritePrepare(c, k, t) PROVE EntityStays
  BY <1>1 DEF WriteTx, WritePrepare, stageVars, EntityStays
<1>2. ASSUME NEW k \in Sources, Forget(k) PROVE EntityStays
  BY <1>2 DEF Forget, stageVars, EntityStays
<1>3. ASSUME NEW r \in Rev, Expire(r) \/ SweepRetention(r) \/ LeaseOver(r) PROVE EntityStays
  BY <1>3 DEF Expire, SweepRetention, LeaseOver, stageVars, EntityStays
<1>4. CASE TailerStep
  <2>1. EntityStays
    BY <1>4 DEF TailerStep, DrainRead, DrainPersist, DrainPublish, DrainMark, stageVars, EntityStays
  <2> QED
    BY <1>0, <2>1 DEF EntityStays
<1>5. ASSUME NEW w \in Enrichers, EnricherStep(w) \/ Recover(w) \/ CrashEnricher(w), ~Apply(w) PROVE EntityStays
  BY <1>5 DEF EnricherStep, TakeKey, ClaimRead, ClaimTx, Extract, planEntityApply, planTypedSourceApply, Planned,
              FinishRun, Recover, CrashEnricher, EntityStays
<1>6. ASSUME NEW w \in Enrichers, Apply(w)
      PROVE  /\ entity' \in EntityHead /\ links' \subseteq Sources
             /\ EntityStays \/ EntityApplied(w) \/ EntityLinked(w)
  <2>0. work[w] \in StageWork /\ work[w].pc = "apply" /\ work[w].rev \in Rev /\ work[w].key \in Sources
    BY <1>6 DEF Apply, PipeTypeOK, WorkIsAimed
  <2>1. work[w].count \in Nat /\ work[w].lineage \in Nat /\ work[w].cites \in SUBSET Rev
    BY <2>0 DEF StageWork
  <2>a. entity.version \in Nat /\ entity.typed \in BOOLEAN
    BY <1>0 DEF EntityHead
  <2> DEFINE ok == FenceHolds(w) /\ (work[w].write => SameContent(w) \/ PinHolds(w))
  <2>2. CASE ok /\ work[w].write /\ ~SameContent(w)
    <3>1. entity' = [version |-> entity.version + 1, mentions |-> work[w].count, sources |-> work[w].cites,
                     lineage |-> work[w].lineage, typed |-> entity.typed]
            /\ links' = links \cup {work[w].key}
      BY <1>6, <2>2 DEF Apply
    <3>2. work[w].pin = entity.version
      BY <2>2 DEF PinHolds
    <3>3. entity.version + 1 \in Nat
      BY <2>a
    <3>4. entity' \in EntityHead
      BY <2>1, <2>a, <3>1, <3>3 DEF EntityHead
    <3>5. /\ entity'.version = entity.version + 1 /\ entity'.mentions = work[w].count
          /\ entity'.sources = work[w].cites /\ entity'.typed = entity.typed
      BY <3>1
    <3>6. links' \subseteq Sources
      BY <1>0, <2>0, <3>1
    <3>7. work'[w].pc # "apply"
      <4>1. PICK o : WorkStep(w, [work[w] EXCEPT !.pc = "finish", !.outcome = o])
        BY <1>6 DEF Apply
      <4>2. [work[w] EXCEPT !.pc = "finish", !.outcome = o].pc = "finish"
        BY <2>0 DEF StageWork
      <4> QED
        BY <4>1, <4>2 DEF WorkStep, PipeTypeOK
    <3> QED
      BY <2>0, <2>2, <3>1, <3>2, <3>4, <3>5, <3>6, <3>7 DEF EntityApplied
  <2>3. CASE ok /\ work[w].write /\ SameContent(w)
    <3>1. entity' = entity /\ links' = links \cup {work[w].key}
      BY <1>6, <2>3 DEF Apply
    <3>2. entity.sources = work[w].cites
      BY <2>3 DEF SameContent
    <3> QED
      BY <1>0, <2>0, <2>3, <3>1, <3>2 DEF EntityLinked
  <2>4. CASE ~(ok /\ work[w].write)
    <3>1. EntityStays
      BY <1>6, <2>4 DEF Apply, EntityStays
    <3> QED
      BY <1>0, <3>1 DEF EntityStays
  <2> QED
    BY <2>2, <2>3, <2>4
<1>7. CASE RewriteEntity
  <2>0. entity.version \in Nat /\ entity.lineage \in Nat
    BY <1>0 DEF EntityHead
  <2>1. entity' = [entity EXCEPT !.version = entity.version + 1, !.lineage = entity.lineage + 1] /\ links' = links
    BY <1>7 DEF RewriteEntity
  <2>2. entity' \in EntityHead
    <3>1. entity.version + 1 \in Nat /\ entity.lineage + 1 \in Nat
      BY <2>0
    <3> QED
      BY <1>0, <2>1, <3>1 DEF EntityHead
  <2>3. EntityRewritten
    BY <1>0, <2>1 DEF EntityRewritten, EntityHead
  <2> QED
    BY <1>0, <2>1, <2>2, <2>3
<1>8. EntityStays => entity' \in EntityHead /\ links' \subseteq Sources
  BY <1>0 DEF EntityStays
<1> QED
  BY <1>1, <1>2, <1>3, <1>4, <1>5, <1>6, <1>7, <1>8, Zenon DEF PipeNext

\* What a worker's plan may be after a step: its own of now, or what it was.
LEMMA PinMoves ==
    ASSUME PipeTypeOK, CountsArePinned, NEW rec, PinnedRec(rec) \/ \E v \in Enrichers : rec = work[v]
    PROVE  /\ PinHas(rec, entity, links)
           /\ entity.typed /\ rec.pc = "apply" /\ rec.write => rec.pin <= entity.version /\ rec.pin \in Nat
<1>0. entity.version \in Nat /\ entity.mentions \in Nat /\ IsFiniteSet(links) /\ entity.mentions <= Cardinality(links)
  BY DEF PipeTypeOK, EntityHead, CountsArePinned, MentionsAreCounted
<1>1. CASE PinnedRec(rec)
  <2>1. Cardinality(links) \in Nat /\ (rec.key \in links => Cardinality(links \cup {rec.key}) = Cardinality(links))
          /\ (rec.key \notin links => Cardinality(links \cup {rec.key}) = Cardinality(links) + 1)
    BY <1>0, FS_AddElement, FS_CardinalityType
  <2>2. CASE rec.pc = "apply" /\ rec.write
    <3>1. /\ rec.pin = entity.version /\ rec.count = entity.mentions + IF rec.key \in links THEN 0 ELSE 1
          /\ entity.typed => rec.rev \in rec.cites
      BY <1>1, <2>2 DEF PinnedRec
    <3>2. rec.count <= Cardinality(links \cup {rec.key})
      BY <1>0, <2>1, <3>1
    <3> QED
      BY <1>0, <3>1, <3>2 DEF PinHas
  <2> QED
    BY <2>2 DEF PinHas
<1>2. ASSUME NEW v \in Enrichers, rec = work[v]
      PROVE  /\ PinHas(rec, entity, links)
             /\ entity.typed /\ rec.pc = "apply" /\ rec.write => rec.pin <= entity.version /\ rec.pin \in Nat
  <2>1. PinHas(rec, entity, links) /\ rec.pin \in Nat
    BY <1>2 DEF CountsArePinned, PipeTypeOK, StageWork
  <2> QED
    BY <2>1 DEF PinHas
<1> QED
  BY <1>1, <1>2

\* A source more is linked, and the head has moved on or the plan is not typed: the
\* plan stays.
LEMMA PinOutlives ==
    ASSUME NEW rec, NEW e, NEW f, NEW l, NEW m, IsFiniteSet(m), l \subseteq m, PinHas(rec, e, l),
           rec.count \in Nat, e.version \in Nat, f.version = e.version + 1, f.typed = e.typed,
           e.typed /\ rec.pc = "apply" /\ rec.write => rec.pin \in Nat
    PROVE  PinHas(rec, f, m)
<1> SUFFICES ASSUME rec.pc = "apply", rec.write PROVE PinHas(rec, f, m)
  BY DEF PinHas
<1>1. /\ IsFiniteSet(m \cup {rec.key}) /\ IsFiniteSet(l \cup {rec.key}) /\ l \cup {rec.key} \subseteq m \cup {rec.key}
  BY FS_AddElement, FS_Subset
<1>2. /\ Cardinality(l \cup {rec.key}) <= Cardinality(m \cup {rec.key})
      /\ Cardinality(l \cup {rec.key}) \in Nat /\ Cardinality(m \cup {rec.key}) \in Nat
  BY <1>1, FS_Subset, FS_CardinalityType
<1>3. rec.count <= Cardinality(l \cup {rec.key})
  BY DEF PinHas
<1>4. rec.count <= Cardinality(m \cup {rec.key})
  BY <1>2, <1>3
<1>5. f.typed => rec.rev \in rec.cites /\ rec.pin <= f.version /\ rec.pin # f.version
  BY DEF PinHas
<1> QED
  BY <1>4, <1>5 DEF PinHas

\* An entity that is typed cites its writer's revision: content that is there already
\* has its source linked.
LEMMA TypedIsLinked ==
    ASSUME PipeTypeOK, WorkIsAimed, CountsArePinned, RevisionsAreOwned, NEW w \in Enrichers, EntityLinked(w), entity.typed
    PROVE  work[w].key \in links
<1>1. PICK o : OwnedBy(o)
  BY DEF RevisionsAreOwned
<1>2. work[w].pc = "apply" /\ work[w].write /\ entity.sources = work[w].cites
  BY DEF EntityLinked
<1>3. work[w].rev \in work[w].cites
  BY <1>2 DEF CountsArePinned, PinHas
<1>4. work[w].key = o[work[w].rev] /\ \A r \in entity.sources : o[r] \in links
  BY <1>1, <1>2 DEF OwnedBy, Claimed
<1> QED
  BY <1>2, <1>3, <1>4

LEMMA CountsStep == ASSUME PipeTypeOK, WorkIsAimed, CountsArePinned, RevisionsAreOwned, PipeNext PROVE CountsArePinned'
<1>0. /\ entity \in EntityHead /\ IsFiniteSet(links) /\ MentionsAreCounted
      /\ \A v \in Enrichers : PinHas(work[v], entity, links)
  BY DEF PipeTypeOK, CountsArePinned
<1>1. work' \in [Enrichers -> StageWork] /\ \A v \in Enrichers : PinnedRec(work'[v]) \/ work'[v] = work[v]
  BY WorkMoves DEF MovedRec
<1>2. /\ entity.version \in Nat /\ entity.mentions \in Nat /\ Cardinality(links) \in Nat
      /\ \A v \in Enrichers : work'[v].count \in Nat /\ work[v].count \in Nat
  BY <1>0, <1>1, FS_CardinalityType DEF PipeTypeOK, StageWork, EntityHead
<1>3. \A v \in Enrichers : /\ PinHas(work'[v], entity, links)
                           /\ entity.typed /\ work'[v].pc = "apply" /\ work'[v].write =>
                                work'[v].pin <= entity.version /\ work'[v].pin \in Nat
  BY <1>1, PinMoves
<1>4. SUFFICES IsFiniteSet(links') /\ MentionsAreCounted' /\ \A v \in Enrichers : PinHas(work'[v], entity', links')
  BY DEF CountsArePinned
<1>5. CASE EntityStays
  <2>1. entity' = entity /\ links' = links
    BY <1>5 DEF EntityStays
  <2> QED
    BY <1>0, <1>3, <2>1 DEF MentionsAreCounted
<1>6. CASE EntityRewritten
  <2>1. /\ entity'.version = entity.version + 1 /\ entity'.typed = entity.typed
        /\ entity'.mentions = entity.mentions /\ links' = links
    BY <1>6 DEF EntityRewritten
  <2>2. \A v \in Enrichers : PinHas(work'[v], entity', links)
    BY <1>0, <1>2, <1>3, <2>1, PinOutlives
  <2> QED
    BY <1>0, <2>1, <2>2 DEF MentionsAreCounted
<1>7. ASSUME NEW w \in Enrichers, EntityApplied(w)
      PROVE  IsFiniteSet(links') /\ MentionsAreCounted' /\ \A v \in Enrichers : PinHas(work'[v], entity', links')
  <2>1. /\ work[w].pc = "apply" /\ work[w].write /\ work[w].pin = entity.version
        /\ entity'.version = entity.version + 1 /\ entity'.mentions = work[w].count /\ entity'.typed = entity.typed
        /\ links' = links \cup {work[w].key}
    BY <1>7 DEF EntityApplied
  <2>2. /\ IsFiniteSet(links') /\ links \subseteq links'
        /\ (work[w].key \in links => Cardinality(links') = Cardinality(links))
        /\ (work[w].key \notin links => Cardinality(links') = Cardinality(links) + 1)
    <3>1. PICK k : k = work[w].key
      OBVIOUS
    <3> QED
      BY <1>0, <2>1, <3>1, FS_AddElement
  <2>3. MentionsAreCounted'
    <3>1. work[w].count <= Cardinality(links')
      BY <1>0, <2>1 DEF PinHas
    <3>2. entity.typed => work[w].count = entity.mentions + (IF work[w].key \in links THEN 0 ELSE 1)
      BY <1>0, <2>1 DEF PinHas
    <3>3. entity.typed => entity.mentions = Cardinality(links)
      BY <1>0 DEF MentionsAreCounted
    <3>4. entity.typed => work[w].count = Cardinality(links')
      BY <1>2, <2>2, <3>2, <3>3
    <3> QED
      BY <2>1, <3>1, <3>4 DEF MentionsAreCounted
  <2>4. \A v \in Enrichers : PinHas(work'[v], entity', links')
    BY <1>2, <1>3, <2>1, <2>2, PinOutlives
  <2> QED
    BY <2>2, <2>3, <2>4
<1>8. ASSUME NEW w \in Enrichers, EntityLinked(w)
      PROVE  IsFiniteSet(links') /\ MentionsAreCounted' /\ \A v \in Enrichers : PinHas(work'[v], entity', links')
  <2>1. /\ work[w].pc = "apply" /\ work[w].write /\ entity' = entity /\ links' = links \cup {work[w].key}
    BY <1>8 DEF EntityLinked
  <2>2. entity.typed => links' = links
    BY <1>8, <2>1, TypedIsLinked
  <2>3. CASE entity.typed
    BY <1>0, <1>3, <2>1, <2>2, <2>3 DEF MentionsAreCounted
  <2>4. CASE ~entity.typed
    <3>1. PICK m : m = links'
      OBVIOUS
    <3>2. IsFiniteSet(m) /\ links \subseteq m
      BY <1>0, <2>1, <3>1, FS_AddElement
    <3>3. Cardinality(m) \in Nat /\ Cardinality(links) <= Cardinality(m)
      BY <3>2, FS_Subset, FS_CardinalityType
    <3>4. MentionsAreCounted'
      BY <1>0, <1>2, <2>1, <2>4, <3>1, <3>3 DEF MentionsAreCounted
    <3>5. ASSUME NEW v \in Enrichers PROVE PinHas(work'[v], entity, m)
      <4>1. PICK rec : rec = work'[v]
        OBVIOUS
      <4>2. PinHas(rec, entity, links) /\ rec.count \in Nat
        BY <1>2, <1>3, <4>1
      <4>3. /\ IsFiniteSet(m \cup {rec.key}) /\ IsFiniteSet(links \cup {rec.key}) /\ links \cup {rec.key} \subseteq m \cup {rec.key}
        BY <1>0, <3>2, FS_AddElement
      <4>4. /\ Cardinality(links \cup {rec.key}) <= Cardinality(m \cup {rec.key})
            /\ Cardinality(links \cup {rec.key}) \in Nat /\ Cardinality(m \cup {rec.key}) \in Nat
        BY <4>3, FS_Subset, FS_CardinalityType
      <4>5. PinHas(rec, entity, m)
        BY <2>4, <4>2, <4>4 DEF PinHas
      <4> QED
        BY <4>1, <4>5
    <3> QED
      BY <2>1, <3>1, <3>2, <3>4, <3>5
  <2> QED
    BY <2>3, <2>4
<1> QED
  BY <1>5, <1>6, <1>7, <1>8, EntityMoves, Zenon

-----------------------------------------------------------------------------
(* The keys of the revisions *)

\* The next reading is a revision that no row has.
LEMMA ClockNat ==
    ASSUME PipeTypeOK
    PROVE  /\ clk < Revs => clk + 1 \in Rev /\ clk + 1 > clk
           /\ \A n, r \in Rev : n <= clk /\ r > clk => r # n
           /\ \A r \in Rev : r > clk + 1 => r > clk /\ r # clk + 1
<1>1. PICK c \in Nat : c = clk
  BY ClockTyped
<1>2. Revs \in Nat /\ Rev = 1..Revs
  BY ClockTyped
<1>3. /\ c < Revs => c + 1 \in Rev /\ c + 1 > c
      /\ \A n, r \in Rev : n <= c /\ r > c => r # n
      /\ \A r \in Rev : r > c + 1 => r > c /\ r # c + 1
  BY <1>2
<1> QED
  BY <1>1, <1>3

LEMMA ReplacedKeys ==
    ASSUME PipeTypeOK, NEW k \in Sources, NEW r \in Rev, NEW row \in FactRow, row.key = k, ReplaceRow(k, r, row)
    PROVE  \A q \in Rev : mem'[q].key = IF q = r THEN k ELSE mem[q].key
<1> SUFFICES ASSUME NEW q \in Rev PROVE mem'[q].key = IF q = r THEN k ELSE mem[q].key
  OBVIOUS
<1>1. mem[q] \in FactRow
  BY DEF PipeTypeOK
<1>2. mem'[q] = IF q = r THEN row ELSE IF mem[q].key = k THEN [mem[q] EXCEPT !.invalid = TRUE] ELSE mem[q]
  BY DEF ReplaceRow
<1>3. [mem[q] EXCEPT !.invalid = TRUE].key = mem[q].key
  BY <1>1 DEF FactRow
<1> QED
  BY <1>2, <1>3

\* However the rows move, every revision keeps the key it was written under.
LEMMA RowsMove ==
    ASSUME PipeTypeOK, PlansAreFresh, PipeNext, NEW o \in [Rev -> Sources \cup {""}], OwnedBy(o)
    PROVE  \E u \in [Rev -> Sources \cup {""}] :
              /\ \A r \in Rev : o[r] # "" => u[r] = o[r]
              /\ \A r \in Rev : mem'[r].key \in {"", u[r]} /\ (r > clk' => u[r] = "")
              /\ \A c \in Clients : plan'[c].rev # 0 => u[plan'[c].rev] = ""
<1> DEFINE Goal == \E u \in [Rev -> Sources \cup {""}] :
              /\ \A r \in Rev : o[r] # "" => u[r] = o[r]
              /\ \A r \in Rev : mem'[r].key \in {"", u[r]} /\ (r > clk' => u[r] = "")
              /\ \A c \in Clients : plan'[c].rev # 0 => u[plan'[c].rev] = ""
<1>0. /\ mem \in [Rev -> FactRow] /\ plan \in [Clients -> WritePlan]
      /\ \A r \in Rev : mem[r].key \in {"", o[r]} /\ (r > clk => o[r] = "")
      /\ \A c \in Clients : plan[c].rev # 0 => o[plan[c].rev] = ""
  BY DEF PipeTypeOK, OwnedBy
<1>1. ASSUME \A r \in Rev : mem'[r].key \in {"", mem[r].key}, clk' = clk, plan' = plan PROVE Goal
  BY <1>0, <1>1
<1>2. ASSUME NEW c \in Clients, WriteTx(c) PROVE Goal
  <2>1. /\ clk' = clk /\ plan[c].rev # 0 /\ plan' = [plan EXCEPT ![c] = NoPlan]
    BY <1>2 DEF WriteTx
  <2>2. \A d \in Clients : plan'[d].rev # 0 => plan'[d] = plan[d] /\ d # c
    BY <1>0, <2>1 DEF NoPlan
  <2>3. CASE Duplicate(plan[c].key, plan[c].text)
    <3>1. mem' = mem
      BY <1>2, <2>3 DEF WriteTx
    <3> QED
      BY <1>0, <2>1, <2>2, <3>1
  <2>4. CASE ~Duplicate(plan[c].key, plan[c].text)
    <3>1. PICK row \in FactRow : /\ ReplaceRow(plan[c].key, plan[c].rev, row) /\ row.key = plan[c].key
                                 /\ plan[c].rev \in Rev /\ plan[c].key \in Sources
      BY <1>2, <2>4, WriteTxEffect
    <3>2. \A q \in Rev : mem'[q].key = IF q = plan[c].rev THEN plan[c].key ELSE mem[q].key
      BY <3>1, ReplacedKeys
    <3>3. /\ o[plan[c].rev] = "" /\ plan[c].rev <= clk
          /\ \A d \in Clients : plan[d].rev = plan[c].rev => c = d
      BY <1>0, <2>1 DEF PlansAreFresh
    <3> DEFINE u == [o EXCEPT ![plan[c].rev] = plan[c].key]
    <3>4. /\ u \in [Rev -> Sources \cup {""}] /\ u[plan[c].rev] = plan[c].key
          /\ \A r \in Rev : r # plan[c].rev => u[r] = o[r]
      BY <3>1
    <3> HIDE DEF u
    <3>5. \A r \in Rev : o[r] # "" => u[r] = o[r]
      BY <3>3, <3>4
    <3>6. \A r \in Rev : mem'[r].key \in {"", u[r]}
      BY <1>0, <3>2, <3>4
    <3>7. ASSUME NEW r \in Rev, r > clk' PROVE u[r] = ""
      <4>1. PICK n : n = plan[c].rev
        OBVIOUS
      <4>2. n \in Rev /\ n <= clk /\ r > clk
        BY <2>1, <3>1, <3>3, <3>7, <4>1
      <4>3. r # n
        BY <4>2, ClockNat, Zenon
      <4> QED
        BY <1>0, <3>4, <4>1, <4>2, <4>3
    <3>8. ASSUME NEW d \in Clients, plan'[d].rev # 0 PROVE u[plan'[d].rev] = ""
      <4>1. plan'[d] = plan[d] /\ d # c /\ plan[d].rev # plan[c].rev /\ plan[d].rev # 0
        BY <2>2, <3>3, <3>8
      <4>2. plan[d].rev \in Rev
        BY <4>1, ClockTyped
      <4> QED
        BY <1>0, <3>4, <4>1, <4>2
    <3> QED
      BY <3>4, <3>5, <3>6, <3>7, <3>8
  <2> QED
    BY <2>3, <2>4
<1>3. ASSUME NEW c \in Clients, NEW k \in Sources, NEW t \in Texts, WritePrepare(c, k, t) PROVE Goal
  <2>1. /\ clk' = clk + 1 /\ mem' = mem /\ plan' = [plan EXCEPT ![c] = [rev |-> clk + 1, key |-> k, text |-> t]] /\ clk < Revs
    BY <1>3 DEF WritePrepare
  <2>2. clk + 1 \in Rev /\ clk + 1 > clk
    BY <2>1, ClockNat, Zenon
  <2>3. \A d \in Clients : plan'[d].rev # 0 => o[plan'[d].rev] = ""
    BY <1>0, <2>1, <2>2
  <2>4. ASSUME NEW r \in Rev, r > clk' PROVE o[r] = ""
    <3>1. r > clk + 1
      BY <2>1, <2>4, Zenon
    <3>2. r > clk
      BY <3>1, ClockNat, Zenon
    <3> QED
      BY <1>0, <3>2, Zenon
  <2> QED
    BY <1>0, <2>1, <2>3, <2>4
<1>4. ASSUME NEW k \in Sources, Forget(k) PROVE Goal
  <2>1. PICK row \in FactRow : ReplaceRow(k, clk + 1, row) /\ row.key = k /\ clk + 1 \in Rev
    BY <1>4, ForgetEffect
  <2>2. \A q \in Rev : mem'[q].key = IF q = clk + 1 THEN k ELSE mem[q].key
    BY <2>1, ReplacedKeys
  <2>3. o[clk + 1] = "" /\ clk' = clk + 1 /\ plan' = plan
    BY <1>0, <1>4, <2>1, ClockTyped DEF Forget
  <2> DEFINE u == [o EXCEPT ![clk + 1] = k]
  <2>4. u \in [Rev -> Sources \cup {""}] /\ u[clk + 1] = k /\ \A r \in Rev : r # clk + 1 => u[r] = o[r]
    BY <2>1
  <2> HIDE DEF u
  <2>5. \A r \in Rev : mem'[r].key \in {"", u[r]} /\ (o[r] # "" => u[r] = o[r])
    BY <1>0, <2>2, <2>3, <2>4
  <2>6. \A r \in Rev : r > clk' => u[r] = ""
    <3> SUFFICES ASSUME NEW r \in Rev, r > clk' PROVE u[r] = ""
      OBVIOUS
    <3>a. r > clk + 1
      BY <2>3, Zenon
    <3>1. r # clk + 1 /\ r > clk
      BY <3>a, ClockNat, Zenon
    <3> QED
      BY <1>0, <2>4, <3>1
  <2>7. \A d \in Clients : plan'[d].rev # 0 => u[plan'[d].rev] = ""
    <3> SUFFICES ASSUME NEW d \in Clients, plan[d].rev # 0 PROVE u[plan[d].rev] = ""
      BY <2>3
    <3>1. plan[d].rev <= clk /\ plan[d].rev \in Rev
      BY ClockTyped DEF PlansAreFresh
    <3>2. plan[d].rev # clk + 1
      BY <3>1, ClockTyped
    <3> QED
      BY <1>0, <2>4, <3>1, <3>2
  <2> QED
    BY <2>4, <2>5, <2>6, <2>7
<1>5. ASSUME NEW r \in Rev, Expire(r) \/ SweepRetention(r) PROVE Goal
  <2>1. clk' = clk /\ plan' = plan
    BY <1>5 DEF Expire, SweepRetention
  <2>2. CASE Expire(r)
    <3>1. \A q \in Rev : mem'[q].key = mem[q].key
      BY <1>0, <2>2 DEF Expire, FactRow
    <3> QED
      BY <1>1, <2>1, <3>1
  <2>3. CASE SweepRetention(r)
    <3>1. \A q \in Rev : mem'[q] = NoRow \/ mem'[q] = mem[q]
      BY <2>3 DEF SweepRetention
    <3>a. NoRow.key = ""
      BY DEF NoRow
    <3>2. ASSUME NEW q \in Rev PROVE mem'[q].key \in {"", mem[q].key}
      BY <3>1, <3>a
    <3> QED
      BY <1>1, <2>1, <3>2
  <2> QED
    BY <1>5, <2>2, <2>3
<1>u. UNCHANGED factVars \/ UNCHANGED <<mem, clk, plan>> => Goal
  BY <1>1 DEF factVars
<1>6. ASSUME NEW r \in Rev, LeaseOver(r) PROVE Goal
  BY <1>6, <1>u DEF LeaseOver
<1>7. CASE TailerStep
  BY <1>7, <1>u DEF TailerStep, DrainRead, DrainPersist, DrainPublish, DrainMark
<1>8. ASSUME NEW w \in Enrichers, EnricherStep(w) \/ Recover(w) \/ CrashEnricher(w) PROVE Goal
  BY <1>8, <1>u DEF EnricherStep, TakeKey, ClaimRead, ClaimTx, Extract, planEntityApply, planTypedSourceApply, Planned,
                    Apply, FinishRun, Recover, CrashEnricher
<1>9. CASE RewriteEntity
  BY <1>9, <1>u DEF RewriteEntity
<1> QED
  BY <1>2, <1>3, <1>4, <1>5, <1>6, <1>7, <1>8, <1>9 DEF PipeNext

LEMMA OwnedStep ==
    ASSUME PipeTypeOK, PlansAreFresh, WorkIsAimed, CountsArePinned, RevisionsAreOwned, PipeNext
    PROVE  RevisionsAreOwned'
<1>1. PICK o \in [Rev -> Sources \cup {""}] : OwnedBy(o)
  BY DEF RevisionsAreOwned
<1>2. PICK u \in [Rev -> Sources \cup {""}] :
              /\ \A r \in Rev : o[r] # "" => u[r] = o[r]
              /\ \A r \in Rev : mem'[r].key \in {"", u[r]} /\ (r > clk' => u[r] = "")
              /\ \A c \in Clients : plan'[c].rev # 0 => u[plan'[c].rev] = ""
  BY <1>1, RowsMove
<1>3. /\ \A r \in Rev : mem[r].key \in {"", o[r]}
      /\ \A w \in Enrichers : work[w].pc \in Claimed => work[w].key = o[work[w].rev]
      /\ \A r \in entity.sources : o[r] \in links
      /\ \A w \in Enrichers : work[w].pc = "apply" => \A r \in work[w].cites : o[r] \in links \cup {work[w].key}
  BY <1>1 DEF OwnedBy
<1>4. /\ "" \notin Sources /\ links \subseteq Sources /\ entity.sources \subseteq Rev
      /\ \A w \in Enrichers : work[w].cites \subseteq Rev
      /\ \A w \in Enrichers : work[w].pc \in Claimed => work[w].rev \in Rev /\ work[w].key \in Sources
  BY PipeConstants DEF PipeTypeOK, EntityHead, StageWork, WorkIsAimed, Claimed
<1>5. /\ work' \in [Enrichers -> StageWork]
      /\ \A v \in Enrichers : AimedRec(work'[v]) /\ (MovedRec(v, work'[v]) \/ work'[v] = work[v])
  BY WorkMoves
<1>a. \A v \in Enrichers : work'[v].cites \subseteq Rev
  BY <1>5 DEF StageWork
<1>6. \A v \in Enrichers : work'[v].pc \in Claimed => work'[v].key = u[work'[v].rev]
  <2> SUFFICES ASSUME NEW v \in Enrichers, work'[v].pc \in Claimed PROVE work'[v].key = u[work'[v].rev]
    OBVIOUS
  <2>1. CASE work'[v].key = work[v].key /\ work'[v].rev = work[v].rev /\ work[v].pc \in Claimed
    <3>1. work[v].rev \in Rev /\ work[v].key \in Sources /\ work[v].key = o[work[v].rev]
      BY <1>3, <1>4, <2>1
    <3>a. o[work[v].rev] # ""
      BY <1>4, <3>1
    <3>2. u[work[v].rev] = o[work[v].rev]
      BY <1>2, <3>1, <3>a, Zenon
    <3> QED
      BY <2>1, <3>1, <3>2
  <2>2. CASE work'[v].rev \in Rev /\ mem[work'[v].rev].key = work'[v].key
    <3>1. work'[v].key \in Sources
      BY <1>5 DEF AimedRec, Claimed
    <3>2. o[work'[v].rev] = work'[v].key
      BY <1>3, <1>4, <2>2, <3>1
    <3> QED
      BY <1>2, <1>4, <2>2, <3>1, <3>2
  <2> QED
    BY <1>5, <2>1, <2>2 DEF MovedRec, SteadyRec
<1>b. links \subseteq links'
  BY EntityMoves DEF EntityStays, EntityRewritten, EntityApplied, EntityLinked
<1>7. \A r \in entity'.sources : u[r] \in links'
  <2>1. \A r \in entity.sources : u[r] \in links'
    BY <1>2, <1>3, <1>4, <1>b
  <2>2. CASE EntityStays \/ EntityRewritten
    BY <2>1, <2>2 DEF EntityStays, EntityRewritten
  <2>3. ASSUME NEW w \in Enrichers, EntityLinked(w) PROVE \A r \in entity'.sources : u[r] \in links'
    BY <2>1, <2>3 DEF EntityLinked
  <2>4. ASSUME NEW w \in Enrichers, EntityApplied(w) PROVE \A r \in entity'.sources : u[r] \in links'
    <3>1. work[w].pc = "apply" /\ entity'.sources = work[w].cites /\ links' = links \cup {work[w].key}
      BY <2>4 DEF EntityApplied
    <3>2. work[w].key \in Sources
      BY <1>4, <3>1 DEF Claimed
    <3>3. ASSUME NEW r \in entity'.sources PROVE u[r] \in links'
      <4>1. r \in Rev /\ o[r] \in links \cup {work[w].key}
        BY <1>3, <1>4, <3>1
      <4>2. u[r] = o[r]
        BY <1>2, <1>4, <3>2, <4>1
      <4> QED
        BY <3>1, <4>1, <4>2
    <3> QED
      BY <3>3
  <2> QED
    BY <2>2, <2>3, <2>4, EntityMoves
<1>8. ASSUME NEW v \in Enrichers, work'[v].pc = "apply", NEW r \in work'[v].cites
      PROVE  u[r] \in links' \cup {work'[v].key}
  <2>1. CASE work'[v] = work[v]
    <3>1. o[r] \in links \cup {work[v].key} /\ work[v].key \in Sources /\ r \in Rev
      BY <1>3, <1>4, <1>8, <2>1 DEF Claimed
    <3> QED
      BY <1>2, <1>4, <1>b, <2>1, <3>1
  <2>2. CASE MovedRec(v, work'[v])
    <3>1. r \in entity.sources \/ r = work'[v].rev
      BY <1>8, <2>2 DEF MovedRec, PinnedRec
    <3>2. r \in entity.sources => u[r] \in links'
      BY <1>2, <1>3, <1>4, <1>b
    <3>3. u[work'[v].rev] = work'[v].key
      BY <1>6, <1>8 DEF Claimed
    <3> QED
      BY <3>1, <3>2, <3>3
  <2> QED
    BY <1>5, <2>1, <2>2
<1>9. OwnedBy(u)'
  BY <1>2, <1>6, <1>7, <1>8 DEF OwnedBy
<1> QED
  BY <1>2, <1>9 DEF RevisionsAreOwned

-----------------------------------------------------------------------------
(* The invariant *)

LEMMA MishapStep == ASSUME PipeTypeOK, PipeNext PROVE MishapTypes'
<1>1. ASSUME NEW c \in Clients, WriteTx(c) \/ \E k \in Sources, t \in Texts : WritePrepare(c, k, t) PROVE UNCHANGED pipeMishaps
  BY <1>1 DEF WriteTx, WritePrepare
<1>2. ASSUME NEW k \in Sources, Forget(k) PROVE UNCHANGED pipeMishaps
  BY <1>2 DEF Forget
<1>3. ASSUME NEW r \in Rev, Expire(r) \/ SweepRetention(r) \/ LeaseOver(r) PROVE PipeMishap \/ UNCHANGED pipeMishaps
  BY <1>3 DEF Expire, SweepRetention, LeaseOver
<1>4. ASSUME TailerStep PROVE PipeMishap \/ UNCHANGED pipeMishaps
  BY <1>4 DEF TailerStep, DrainRead, DrainPersist, DrainPublish, DrainMark
<1>5. ASSUME NEW w \in Enrichers, EnricherStep(w) \/ Recover(w) \/ CrashEnricher(w) PROVE PipeMishap \/ UNCHANGED pipeMishaps
  BY <1>5 DEF EnricherStep, TakeKey, ClaimRead, ClaimTx, Extract, planEntityApply, planTypedSourceApply, Planned, Apply,
              FinishRun, Recover, CrashEnricher
<1>6. ASSUME RewriteEntity PROVE PipeMishap \/ UNCHANGED pipeMishaps
  BY <1>6 DEF RewriteEntity
<1>7. PipeMishap \/ UNCHANGED pipeMishaps
  BY <1>1, <1>2, <1>3, <1>4, <1>5, <1>6 DEF PipeNext
<1> QED
  BY <1>7, PipeTypesSplit, MishapTyped

LEMMA PipeNextInv == PipeInv /\ [PipeNext]_pipeVars => PipeInv'
<1> SUFFICES ASSUME PipeInv, [PipeNext]_pipeVars PROVE PipeInv'
  OBVIOUS
<1>1. CASE UNCHANGED pipeVars
  <2>1. PipeTypeOK'
    BY <1>1 DEF PipeInv, PipeTypeOK, pipeVars
  <2>2. FactsInv'
    BY <1>1, FactsUnchanged DEF PipeInv, pipeVars
  <2>3. WorkIsAimed' /\ RunsKeyed' /\ DrainHasEvent'
    BY <1>1 DEF PipeInv, pipeVars, WorkIsAimed, RunsKeyed, DrainHasEvent
  <2>4. CountsArePinned'
    BY <1>1 DEF PipeInv, pipeVars, CountsArePinned, MentionsAreCounted, PinHas
  <2>5. RevisionsAreOwned'
    BY <1>1 DEF PipeInv, pipeVars, RevisionsAreOwned, OwnedBy
  <2> QED
    BY <2>1, <2>2, <2>3, <2>4, <2>5 DEF PipeInv
<1>2. CASE PipeNext
  <2>0. PipeTypeOK /\ FactsInv /\ PlansAreFresh /\ WorkIsAimed /\ RunsKeyed /\ DrainHasEvent /\ CountsArePinned
          /\ RevisionsAreOwned
    BY DEF PipeInv, FactsInv
  <2>1. FactTypes' /\ DrainTypes' /\ DrainHasEvent' /\ MishapTypes'
    BY <1>2, <2>0, FactTypesStep, DrainMoves, MishapStep
  <2>2. RunsStay
    BY <1>2, <2>0, RunsStep
  <2>3. StageTypes'
    BY <1>2, <2>0, <2>2, QueueTyped, WorkMoves, EntityMoves DEF StageTypes, RunsStay
  <2>4. PipeTypeOK'
    BY <2>1, <2>3 DEF PipeTypeOK, FactTypes, DrainTypes, StageTypes, MishapTypes
  <2>5. FactsInv' /\ WorkIsAimed' /\ CountsArePinned' /\ RevisionsAreOwned' /\ RunsKeyed'
    BY <1>2, <2>0, <2>2, FactsStep, AimedStep, CountsStep, OwnedStep DEF RunsStay
  <2> QED
    BY <2>1, <2>4, <2>5 DEF PipeInv
<1> QED
  BY <1>1, <1>2

-----------------------------------------------------------------------------
(* The work that is owed *)

\* What is owed for a row that stays: nothing to do with its key is taken back.
LEMMA OwedStays ==
    ASSUME WorkIsOwed, NEW k \in Sources, NEW r \in Rev, IsNewest(r, k), Visible(r), ~mem[r].invalid,
           RunsStay, Awaited(k) => Awaited(k)', Persisting(r, k) => Persisting(r, k)'
    PROVE  runs'[r].st # "none" \/ Awaited(k)' \/ Persisting(r, k)'
<1>1. runs[r].st # "none" \/ Awaited(k) \/ Persisting(r, k)
  BY DEF WorkIsOwed
<1> QED
  BY <1>1 DEF RunsStay

\* The same for the steps that leave the rows alone.
LEMMA OwedByRuns ==
    ASSUME WorkIsOwed, RunsStay, UNCHANGED <<mem, outbox, drain>>
    PROVE  WorkIsOwed'
<1> SUFFICES ASSUME NEW k \in Sources, NEW r \in Rev, IsNewest(r, k)', Visible(r)', ~mem'[r].invalid
             PROVE  runs'[r].st # "none" \/ Awaited(k)' \/ Persisting(r, k)'
  BY DEF WorkIsOwed
<1>1. IsNewest(r, k) /\ Visible(r) /\ ~mem[r].invalid
  BY DEF IsNewest, Visible
<1>2. (Awaited(k) => Awaited(k)') /\ (Persisting(r, k) => Persisting(r, k)')
  BY DEF Awaited, Persisting
<1> QED
  BY <1>1, <1>2, OwedStays

\* A new event at the end takes back nothing.
LEMMA AppendKeeps ==
    ASSUME PipeTypeOK, DrainHasEvent, NEW e \in OutboxEvent, outbox' = Append(outbox, e), drain' = drain
    PROVE  /\ \A k : Awaited(k) => Awaited(k)'
           /\ \A k, r : Persisting(r, k) => Persisting(r, k)'
           /\ ~e.tombstone => Awaited(e.key)'
<1>0. outbox \in Seq(OutboxEvent) /\ Len(outbox) \in Nat /\ Len(outbox') = Len(outbox) + 1
      /\ outbox'[Len(outbox) + 1] = e /\ \A i \in 1..Len(outbox) : outbox'[i] = outbox[i]
  BY DEF PipeTypeOK
<1>1. ASSUME NEW k, Awaited(k) PROVE Awaited(k)'
  <2>1. PICK i \in 1..Len(outbox) : outbox[i].key = k /\ ~outbox[i].tombstone /\ (i > 1 \/ drain.pc = "idle")
    BY <1>1 DEF Awaited
  <2>2. i \in 1..Len(outbox') /\ outbox'[i] = outbox[i]
    BY <1>0
  <2> QED
    BY <2>1, <2>2 DEF Awaited
<1>2. ASSUME NEW k, NEW r, Persisting(r, k) PROVE Persisting(r, k)'
  <2>1. outbox # <<>>
    BY <1>2 DEF Persisting, DrainHasEvent
  <2>2. Head(outbox') = Head(outbox)
    BY <1>0, <2>1
  <2> QED
    BY <1>2, <2>2 DEF Persisting
<1>3. ASSUME ~e.tombstone PROVE Awaited(e.key)'
  <2>1. Len(outbox) + 1 \in 1..Len(outbox')
    BY <1>0
  <2>2. Len(outbox) + 1 > 1 \/ outbox = <<>>
    BY <1>0
  <2>3. Len(outbox) + 1 > 1 \/ drain'.pc = "idle"
    BY <2>2 DEF DrainHasEvent
  <2> QED
    BY <1>0, <1>3, <2>1, <2>3 DEF Awaited
<1> QED
  BY <1>1, <1>2, <1>3

\* A row that replaces a blank one, of another key, changes nothing for this key.
LEMMA OtherKey ==
    ASSUME NEW k \in Sources, NEW j \in Sources, j # k, NEW p \in Rev, mem[p].key = "", mem'[p].key = j,
           \A q \in Rev \ {p} : mem'[q].key = mem[q].key /\ (mem[q].key # j => mem'[q] = mem[q]),
           NEW r \in Rev, IsNewest(r, k)', Visible(r)', ~mem'[r].invalid
    PROVE  IsNewest(r, k) /\ Visible(r) /\ ~mem[r].invalid
<1>2. "" # k
  BY PipeConstants
<1>3. mem'[r].key = k /\ r # p
  BY DEF IsNewest
<1>4. mem'[r] = mem[r]
  BY <1>3
<1>5. ASSUME NEW q \in Rev, mem[q].key = k PROVE q <= r
  <2>1. q # p
    BY <1>2, <1>5
  <2>2. mem'[q].key = k
    BY <1>5, <2>1
  <2> QED
    BY <2>2 DEF IsNewest
<1> QED
  BY <1>3, <1>4, <1>5 DEF IsNewest, Visible

LEMMA OwedWriteTx ==
    ASSUME PipeInv, WorkIsOwed, RunsStay, NEW c \in Clients, WriteTx(c)
    PROVE  WorkIsOwed'
<1>0. PipeTypeOK /\ PlansAreFresh /\ DrainHasEvent /\ mem \in [Rev -> FactRow]
  BY DEF PipeInv, FactsInv, PipeTypeOK
<1>1. CASE Duplicate(plan[c].key, plan[c].text)
  BY <1>1, OwedByRuns DEF WriteTx
<1>2. CASE ~Duplicate(plan[c].key, plan[c].text)
  <2>1. PICK row \in FactRow :
              /\ row.key = plan[c].key /\ ReplaceRow(plan[c].key, plan[c].rev, row)
              /\ plan[c].rev \in Rev /\ plan[c].key \in Sources
    BY <1>0, <1>2, WriteTxEffect
  <2>2. PICK j \in Sources, p \in Rev : j = plan[c].key /\ p = plan[c].rev
    BY <2>1
  <2>3. mem[p].key = "" /\ drain' = drain
    <3>1. plan[c].rev # 0 /\ drain' = drain
      BY DEF WriteTx
    <3> QED
      BY <1>0, <2>2, <3>1 DEF PlansAreFresh
  <2>4. PICK e \in OutboxEvent : e.key = j /\ ~e.tombstone /\ outbox' = Append(outbox, e)
    <3> DEFINE e == [key |-> j, tombstone |-> FALSE]
    <3>1. e \in OutboxEvent /\ e.key = j /\ ~e.tombstone
      BY DEF OutboxEvent
    <3>2. outbox' = Append(outbox, e)
      BY <1>2, <2>2 DEF WriteTx
    <3> HIDE DEF e
    <3> QED
      BY <3>1, <3>2
  <2>5. /\ \A k : Awaited(k) => Awaited(k)'
        /\ \A k, r : Persisting(r, k) => Persisting(r, k)'
        /\ Awaited(j)'
    BY <1>0, <2>3, <2>4, AppendKeeps
  <2> SUFFICES ASSUME NEW k \in Sources, NEW r \in Rev, IsNewest(r, k)', Visible(r)', ~mem'[r].invalid
               PROVE  runs'[r].st # "none" \/ Awaited(k)' \/ Persisting(r, k)'
    BY DEF WorkIsOwed
  <2>6. CASE k = j
    BY <2>5, <2>6
  <2>7. CASE k # j
    <3>0. /\ mem'[p].key = j
          /\ \A q \in Rev \ {p} : mem'[q].key = mem[q].key /\ (mem[q].key # j => mem'[q] = mem[q])
      BY <1>0, <2>1, <2>2, ReplaceRowEffect
    <3>1. IsNewest(r, k) /\ Visible(r) /\ ~mem[r].invalid
      BY <2>3, <2>7, <3>0, OtherKey
    <3> QED
      BY <2>5, <3>1, OwedStays
  <2> QED
    BY <2>6, <2>7
<1> QED
  BY <1>1, <1>2

LEMMA OwedForget ==
    ASSUME PipeInv, WorkIsOwed, RunsStay, NEW j \in Sources, Forget(j)
    PROVE  WorkIsOwed'
<1>0. PipeTypeOK /\ PlansAreFresh /\ DrainHasEvent /\ mem \in [Rev -> FactRow]
  BY DEF PipeInv, FactsInv, PipeTypeOK
<1>1. PICK row \in FactRow : row.key = j /\ row.action = "tombstone" /\ ReplaceRow(j, clk + 1, row) /\ clk + 1 \in Rev
  BY <1>0, ForgetEffect
<1>2. PICK p \in Rev : p = clk + 1
  BY <1>1
<1>3. mem[p].key = "" /\ drain' = drain
  <2>1. clk + 1 > clk
    BY <1>0, ClockTyped
  <2> QED
    BY <1>0, <1>2, <2>1, Zenon DEF PlansAreFresh, Forget
<1>4. PICK e \in OutboxEvent : outbox' = Append(outbox, e)
  <2>1. [key |-> j, tombstone |-> TRUE] \in OutboxEvent
    BY DEF OutboxEvent
  <2> QED
    BY <2>1 DEF Forget
<1>5. /\ \A k : Awaited(k) => Awaited(k)'
      /\ \A k, r : Persisting(r, k) => Persisting(r, k)'
  BY <1>0, <1>3, <1>4, AppendKeeps
<1> SUFFICES ASSUME NEW k \in Sources, NEW r \in Rev, IsNewest(r, k)', Visible(r)', ~mem'[r].invalid
             PROVE  runs'[r].st # "none" \/ Awaited(k)' \/ Persisting(r, k)'
  BY DEF WorkIsOwed
<1>6. k # j
  <2> SUFFICES ASSUME k = j PROVE FALSE
    OBVIOUS
  <2>1. /\ mem'[p] = row
        /\ \A q \in Rev \ {p} : mem'[q].key = mem[q].key /\ mem'[q].invalid = (mem[q].invalid \/ mem[q].key = j)
    BY <1>0, <1>1, <1>2, ReplaceRowEffect
  <2>2. r # p
    BY <1>1, <2>1 DEF Visible
  <2> QED
    BY <2>1, <2>2 DEF IsNewest
<1>7. IsNewest(r, k) /\ Visible(r) /\ ~mem[r].invalid
  <2>1. /\ mem'[p].key = j
        /\ \A q \in Rev \ {p} : mem'[q].key = mem[q].key /\ (mem[q].key # j => mem'[q] = mem[q])
    BY <1>0, <1>1, <1>2, ReplaceRowEffect
  <2> QED
    BY <1>3, <1>6, <2>1, OtherKey
<1> QED
  BY <1>5, <1>7, OwedStays

LEMMA OwedExpire ==
    ASSUME PipeInv, WorkIsOwed, RunsStay, NEW x \in Rev, Expire(x)
    PROVE  WorkIsOwed'
<1>1. /\ mem'[x].expires = "past"
      /\ \A q \in Rev : mem'[q].key = mem[q].key /\ (q # x => mem'[q] = mem[q])
  BY ExpireEffect DEF PipeInv, PipeTypeOK
<1> SUFFICES ASSUME NEW k \in Sources, NEW r \in Rev, IsNewest(r, k)', Visible(r)', ~mem'[r].invalid
             PROVE  runs'[r].st # "none" \/ Awaited(k)' \/ Persisting(r, k)'
  BY DEF WorkIsOwed
<1>2. r # x /\ mem'[r] = mem[r]
  BY <1>1 DEF Visible
<1>3. IsNewest(r, k) /\ Visible(r) /\ ~mem[r].invalid
  BY <1>1, <1>2 DEF IsNewest, Visible
<1>4. (Awaited(k) => Awaited(k)') /\ (Persisting(r, k) => Persisting(r, k)')
  BY DEF Awaited, Persisting, Expire
<1> QED
  BY <1>3, <1>4, OwedStays

\* Retention uncovers an older row only when the newest one expired.  That one
\* was written later, and had the older one invalidated, unless writes overlap.
LEMMA OwedSweep ==
    ASSUME PipeInv, WorkIsOwed, RunsStay, NEW x \in Rev, SweepRetention(x), ~Overlap \/ Fleeting = {}
    PROVE  WorkIsOwed'
<1>0. PipeTypeOK /\ FactsInv /\ mem \in [Rev -> FactRow] /\ Revs \in Nat
  BY PipeBlank DEF PipeInv, PipeTypeOK
<1>1. \A r \in Rev :
        \/ mem'[r] = mem[r] /\ (r < x /\ mem[r].action # "none" => \A q \in Rev : q > r => mem[q].key # mem[r].key)
        \/ mem'[r] = NoRow /\ (\/ \E q \in Rev : q > r /\ mem[q].key = mem[r].key
                               \/ r < x
                               \/ mem[r].expires = "past")
  BY <1>0, SweepEffect
<1> SUFFICES ASSUME NEW k \in Sources, NEW r \in Rev, IsNewest(r, k)', Visible(r)', ~mem'[r].invalid
             PROVE  runs'[r].st # "none" \/ Awaited(k)' \/ Persisting(r, k)'
  BY DEF WorkIsOwed
<1>2. NoRow.key # k
  BY PipeConstants DEF NoRow
<1>3. mem'[r] = mem[r] /\ mem[r].key = k /\ mem[r].action # "none"
        /\ (r < x => \A q \in Rev : q > r => mem[q].key # mem[r].key)
  <2>1. mem'[r].key = k
    BY DEF IsNewest
  <2>2. mem'[r] = mem[r] /\ (r < x /\ mem[r].action # "none" => \A q \in Rev : q > r => mem[q].key # mem[r].key)
    BY <1>1, <1>2, <2>1
  <2>3. mem[r].action # "none"
    BY <1>0, <2>1, <2>2, PipeConstants DEF FactsInv, PlansAreFresh
  <2> QED
    BY <2>1, <2>2, <2>3
<1>4. IsNewest(r, k)
  <2>1. PICK n \in Rev : IsNewest(n, k)
    <3>1. RowsOf(k) \in SUBSET Rev /\ r \in RowsOf(k)
      BY <1>3 DEF RowsOf
    <3>2. Newest(RowsOf(k)) \in RowsOf(k) /\ \A q \in RowsOf(k) : q <= Newest(RowsOf(k))
      BY <3>1, NewestExists
    <3> QED
      BY <3>2 DEF RowsOf, IsNewest
  <2>2. r <= n /\ mem[n].key = k
    BY <1>3, <2>1 DEF IsNewest
  <2>3. CASE r = n
    BY <2>1, <2>3
  <2>4. CASE r # n
    <3>1. r < n /\ n > r
      BY <1>0, <2>2, <2>4 DEF Rev
    <3>2. mem'[n] # mem[n]
      <4> SUFFICES ASSUME mem'[n] = mem[n] PROVE FALSE
        OBVIOUS
      <4>1. n <= r
        BY <2>2 DEF IsNewest
      <4> QED
        BY <1>0, <3>1, <4>1 DEF Rev
    <3>3. ~\E q \in Rev : q > n /\ mem[q].key = mem[n].key
      BY <1>0, <2>1 DEF IsNewest, Rev
    <3>4. n < x \/ mem[n].expires = "past"
      BY <1>1, <3>2, <3>3
    <3>5. ~(n < x)
      <4> SUFFICES ASSUME n < x PROVE FALSE
        OBVIOUS
      <4>1. r < x
        BY <1>0, <3>1 DEF Rev
      <4> QED
        BY <1>3, <2>2, <3>1, <4>1
    <3>6. ~(Fleeting = {})
      BY <1>0, <3>4, <3>5 DEF FactsInv, NothingFleets
    <3>7. mem[r].invalid
      BY <1>0, <1>3, <2>2, <3>1, <3>6 DEF FactsInv, SerialWrites
    <3> QED
      BY <1>3, <3>7
  <2> QED
    BY <2>3, <2>4
<1>5. Visible(r) /\ ~mem[r].invalid
  BY <1>3 DEF Visible
<1>6. (Awaited(k) => Awaited(k)') /\ (Persisting(r, k) => Persisting(r, k)')
  BY DEF Awaited, Persisting, SweepRetention
<1> QED
  BY <1>4, <1>5, <1>6, OwedStays

\* The tailer looks at the live revision, and what it saw is what it records.
LEMMA OwedTailer ==
    ASSUME PipeInv, WorkIsOwed, RunsStay, TailerStep
    PROVE  WorkIsOwed'
<1>0. PipeTypeOK /\ DrainHasEvent /\ outbox \in Seq(OutboxEvent) /\ runs \in [Rev -> StageRun] /\ RunsKeyed
  BY DEF PipeInv, PipeTypeOK
<1>1. mem' = mem
  BY DEF TailerStep, DrainRead, DrainPersist, DrainPublish, DrainMark, factVars
<1> SUFFICES ASSUME NEW k \in Sources, NEW r \in Rev, IsNewest(r, k)', Visible(r)', ~mem'[r].invalid
             PROVE  runs'[r].st # "none" \/ Awaited(k)' \/ Persisting(r, k)'
  BY DEF WorkIsOwed
<1>2. IsNewest(r, k) /\ Visible(r)
  BY <1>1 DEF IsNewest, Visible
<1>3. runs[r].st # "none" \/ Awaited(k) \/ Persisting(r, k)
  BY <1>1, <1>2 DEF WorkIsOwed
<1>4. CASE runs[r].st # "none"
  BY <1>4 DEF RunsStay
<1>5. CASE Awaited(k)
  <2>1. PICK i \in 1..Len(outbox) : outbox[i].key = k /\ ~outbox[i].tombstone /\ (i > 1 \/ drain.pc = "idle")
    BY <1>5 DEF Awaited
  <2>2. CASE DrainRead
    <3>1. drain'.pc = "persist" /\ drain'.live = LiveByKey(Head(outbox).key) /\ outbox' = outbox
      BY <2>2 DEF DrainRead, factVars
    <3>2. CASE i > 1
      BY <2>1, <3>1, <3>2 DEF Awaited
    <3>3. CASE ~(i > 1)
      <4>1. i = 1 /\ outbox # <<>>
        BY <1>0, <3>3
      <4>2. Head(outbox) = outbox[1]
        BY <1>0, <4>1
      <4>3. LiveByKey(k) = r
        BY <1>2, NewestIs DEF LiveByKey
      <4> QED
        BY <2>1, <3>1, <4>1, <4>2, <4>3 DEF Persisting
    <3> QED
      BY <3>2, <3>3
  <2>3. CASE DrainPersist \/ DrainPublish
    <3>1. i > 1 /\ outbox' = outbox
      BY <2>1, <2>3 DEF DrainPersist, DrainPublish, factVars
    <3> QED
      BY <2>1, <3>1 DEF Awaited
  <2>4. CASE DrainMark
    <3>1. i > 1 /\ outbox' = Tail(outbox) /\ drain'.pc = "idle" /\ outbox # <<>>
      BY <1>0, <2>1, <2>4 DEF DrainMark, NoDrain, DrainHasEvent
    <3>2. Len(outbox') = Len(outbox) - 1 /\ \A n \in 1..Len(outbox) - 1 : outbox'[n] = outbox[n + 1]
      BY <1>0, <3>1
    <3>3. i - 1 \in 1..Len(outbox') /\ outbox'[i - 1] = outbox[i]
      BY <1>0, <3>1, <3>2
    <3> QED
      BY <2>1, <3>1, <3>3 DEF Awaited
  <2> QED
    BY <2>2, <2>3, <2>4 DEF TailerStep
<1>6. CASE Persisting(r, k)
  <2>1. drain.pc = "persist" /\ drain.live = r /\ Head(outbox).key = k /\ ~Head(outbox).tombstone
    BY <1>6 DEF Persisting
  <2>2. DrainPersist
    BY <2>1 DEF TailerStep, DrainRead, DrainPublish, DrainMark
  <2>3. runs' = EnsureRun(r, k)
    BY <2>1, <2>2 DEF DrainPersist
  <2> QED
    BY <1>0, <2>3, EnsuredRun
<1> QED
  BY <1>3, <1>4, <1>5, <1>6

\* A crash of the tailer's server: the event is drained again.
LEMMA OwedCrash ==
    ASSUME PipeInv, WorkIsOwed, RunsStay, NEW w \in Enrichers, CrashEnricher(w)
    PROVE  WorkIsOwed'
<1>0. PipeTypeOK /\ DrainHasEvent /\ mem' = mem /\ outbox' = outbox
  BY DEF PipeInv, CrashEnricher, factVars
<1>1. CASE drain' = drain
  BY <1>0, <1>1, OwedByRuns
<1>2. CASE drain' = NoDrain
  <2>0. drain'.pc = "idle"
    BY <1>2 DEF NoDrain
  <2> SUFFICES ASSUME NEW k \in Sources, NEW r \in Rev, IsNewest(r, k)', Visible(r)', ~mem'[r].invalid
               PROVE  runs'[r].st # "none" \/ Awaited(k)' \/ Persisting(r, k)'
    BY DEF WorkIsOwed
  <2>1. runs[r].st # "none" \/ Awaited(k) \/ Persisting(r, k)
    BY <1>0 DEF WorkIsOwed, IsNewest, Visible
  <2>2. CASE runs[r].st # "none"
    BY <2>2 DEF RunsStay
  <2>3. CASE Awaited(k)
    BY <1>0, <2>0, <2>3 DEF Awaited
  <2>4. CASE Persisting(r, k)
    <3>1. Head(outbox) = outbox[1] /\ 1 \in 1..Len(outbox)
      BY <1>0, <2>4, HeadIsEvent DEF Persisting
    <3> QED
      BY <1>0, <2>0, <2>4, <3>1 DEF Awaited, Persisting
  <2> QED
    BY <2>1, <2>2, <2>3, <2>4
<1> QED
  BY <1>1, <1>2 DEF CrashEnricher

LEMMA OwedStep ==
    ASSUME ~Overlap \/ Fleeting = {}, PipeInv, WorkIsOwed, [PipeNext]_pipeVars
    PROVE  WorkIsOwed'
<1>0. CASE UNCHANGED pipeVars
  BY <1>0 DEF pipeVars, WorkIsOwed, IsNewest, Visible, Awaited, Persisting
<1>a. CASE PipeNext
  <2>0. RunsStay
    BY <1>a, RunsStep DEF PipeInv
  <2>1. ASSUME NEW c \in Clients, WriteTx(c) PROVE WorkIsOwed'
    BY <2>0, <2>1, OwedWriteTx
  <2>2. ASSUME NEW c \in Clients, NEW k \in Sources, NEW t \in Texts, WritePrepare(c, k, t) PROVE WorkIsOwed'
    BY <2>0, <2>2, OwedByRuns DEF WritePrepare
  <2>3. ASSUME NEW k \in Sources, Forget(k) PROVE WorkIsOwed'
    BY <2>0, <2>3, OwedForget
  <2>4. ASSUME NEW r \in Rev, Expire(r) PROVE WorkIsOwed'
    BY <2>0, <2>4, OwedExpire
  <2>5. ASSUME NEW r \in Rev, SweepRetention(r) PROVE WorkIsOwed'
    BY <2>0, <2>5, OwedSweep
  <2>6. ASSUME NEW r \in Rev, LeaseOver(r) PROVE WorkIsOwed'
    BY <2>0, <2>6, OwedByRuns DEF LeaseOver, factVars
  <2>7. CASE TailerStep
    BY <2>0, <2>7, OwedTailer
  <2>8. ASSUME NEW w \in Enrichers, EnricherStep(w) \/ Recover(w) PROVE WorkIsOwed'
    <3>1. UNCHANGED <<mem, outbox, drain>>
      BY <2>8 DEF EnricherStep, TakeKey, ClaimRead, ClaimTx, Extract, planEntityApply, planTypedSourceApply, Planned,
                  Apply, FinishRun, Recover, factVars
    <3> QED
      BY <2>0, <3>1, OwedByRuns
  <2>9. ASSUME NEW w \in Enrichers, CrashEnricher(w) PROVE WorkIsOwed'
    BY <2>0, <2>9, OwedCrash
  <2>10. CASE RewriteEntity
    BY <2>0, <2>10, OwedByRuns DEF RewriteEntity, factVars
  <2> QED
    BY <1>a, <2>1, <2>2, <2>3, <2>4, <2>5, <2>6, <2>7, <2>8, <2>9, <2>10 DEF PipeNext
<1> QED
  BY <1>0, <1>a

-----------------------------------------------------------------------------

\* Type correctness of the fact store, its outbox, its stage runs and workers.
THEOREM PipeTypeCorrect == PipeSpec => []PipeTypeOK
<1>1. PipeInv => PipeTypeOK
  BY DEF PipeInv
<1> QED
  BY <1>1, PipeInitInv, PipeNextInv, PTL DEF PipeSpec

\* However many servers work on a source, and however often its run is taken
\* over, retried or lost in a crash, the entity's mention count (applied in
\* execEntityApplyTx) is at most the number of its links; with typed extraction,
\* where no plan's content is there before its source is, it is that number.
THEOREM MentionsCounted == PipeSpec => []MentionsAreCounted
<1>1. PipeInv => MentionsAreCounted
  BY DEF PipeInv, CountsArePinned
<1> QED
  BY <1>1, PipeInitInv, PipeNextInv, PTL DEF PipeSpec

\* Where writes of a key do not overlap, or nothing expires, a live fact whose
\* events are all delivered has its run (persistStageWork in the tailer); no source
\* is counted twice, and none is left out with typed extraction.
THEOREM NothingOwedIsLost == ASSUME ~Overlap \/ Fleeting = {} PROVE PipeSpec => []PipeSafety
<1>1. PipeInv /\ WorkIsOwed => PipeSafety
  BY OwedSuffices DEF PipeInv, CountsArePinned, PipeSafety, PipeTypeOK
<1>2. PipeInv /\ WorkIsOwed /\ [PipeNext]_pipeVars => (PipeInv /\ WorkIsOwed)'
  BY PipeNextInv, OwedStep
<1> QED
  BY <1>1, <1>2, PipeInitInv, PTL DEF PipeSpec

-----------------------------------------------------------------------------
(* The skill index *)

\* A call in progress.  Only the sync indexes and removes the base version, only
\* the applier indexes the new one, and with the approved content; whoever
\* publishes has found no other content advertised before; the sync takes a
\* version down only when its identity is pinned; an operator writes back what
\* was advertised.
CallFits(p, x) ==
    /\ x.pc \in {"index", "body", "digest", "identity"} =>
          x.content # "" /\ IF x.ver = "base" THEN p = "sync" ELSE p = "apply" /\ x.content = Approved
    /\ x.pc \in {"body", "digest"} /\ x.ver = "base" => shipped["base"] \in {"", x.content}
    /\ x.pc = "digest" /\ x.ver = "base" => bod["base"] = x.content
    /\ x.pc = "identity" => shipped[x.ver] = x.content
    /\ x.pc \in {"sweep", "pin", "forget", "forgetbody"} => p = "sync"
    /\ x.pc \in {"forget", "forgetbody"} /\ x.ver = "base" => idn["base"] # "" \/ shipped["base"] = ""
    /\ x.pc = "flipwrite" => x.content # "" /\ x.content = shipped[x.ver]

\* A call that waits for its turn.
WaitFits(p, x) == x.pc \in {"sweep", "flip", "mark"} /\ (x.pc = "sweep" => p = "sync")

ProcFits(p) == CallFits(p, proc[p]) /\ \A i \in DOMAIN proc[p].then : WaitFits(p, proc[p].then[i])
CallsFit == \A p \in Process : ProcFits(p)

\* The rows of a version are those of the content it was advertised with, and an
\* advertised base version without an identity is complete.
RowsFit ==
    /\ \A v \in Version : /\ doc[v].content \in {"", shipped[v]} /\ idn[v] \in {"", shipped[v]}
                          /\ shipped[v] # "" => bod[v] \in {"", shipped[v]}
    /\ shipped["base"] # "" /\ idn["base"] = "" =>
          doc["base"].content = shipped["base"] /\ bod["base"] = shipped["base"]
    /\ bod["new"] \in {"", Approved} /\ shipped["new"] \in {"", Approved}

\* A recorder that pins an outcome found it in the ledger.
RunsFit == /\ RunsMatchEvents
           /\ \A r \in Recorders : /\ recorder[r].pc # "idle" => recorder[r].exec \in Executions /\ recorder[r].out # ""
                                   /\ recorder[r].pc = "pin" => ran[recorder[r].exec].event = recorder[r].out

SkillInv == SkillTypeOK /\ CallsFit /\ RowsFit /\ RunsFit

Calls == SkillCall(Seq(SkillCall({<<>>})))
Later == {"sweep", "flip", "mark"}
RestTypeOK ==
    /\ tree \in Authored \cup {""} /\ draft \in Drafted \cup {""}
    /\ prop \in [st : {"none", "proposed", "approved", "denied"}, applied : BOOLEAN, base : SkillContent]
    /\ grade \in [eval : {"none", "failed", "ungraded", "passed"}, fixture : SUBSET Drafted]
    /\ spent \in [SkillBounds -> Nat]
RunTypeOK ==
    /\ ran \in [Executions -> [event : RunOutcome, record : RunOutcome]]
    /\ recorder \in [Recorders -> [pc : {"idle", "append", "pin"}, exec : Executions \cup {""}, out : RunOutcome]]
RowTypeOK == doc \in [Version -> Digest] /\ {bod, idn, shipped} \subseteq [Version -> SkillContent]

LEMMA SkillTypeParts == SkillTypeOK <=> RestTypeOK /\ RunTypeOK /\ RowTypeOK /\ proc \in [Process -> Calls]
BY DEF SkillTypeOK, RestTypeOK, RunTypeOK, RowTypeOK, Calls
LEMMA SkillTypeNext ==
  ASSUME RestTypeOK', RunTypeOK', RowTypeOK', proc' \in [Process -> Calls]
  PROVE  SkillTypeOK'
BY DEF SkillTypeOK, RestTypeOK, RunTypeOK, RowTypeOK, Calls

\* Calls field by field.
LEMMA CallFields ==
    /\ \A x \in Calls : /\ x.pc \in SkillPc /\ x.ver \in Version /\ x.content \in SkillContent
                        /\ x.source \in Origin /\ x.active \in BOOLEAN
                        /\ x.then \in Seq(SkillCall({<<>>}))
    /\ \A x \in SkillCall({<<>>}) : /\ x.pc \in SkillPc /\ x.ver \in Version /\ x.content \in SkillContent
                                    /\ x.source \in Origin /\ x.active \in BOOLEAN /\ x.then = <<>>
    /\ \A x \in Calls, pc \in SkillPc : [x EXCEPT !.pc = pc] \in Calls
    /\ Idle \in Calls
<1>1. Idle \in Calls
  <2>1. <<>> \in Seq(SkillCall({<<>>}))
    OBVIOUS
  <2> QED
    BY <2>1 DEF Calls, SkillCall, Idle, SkillPc, Version, SkillContent, Origin
<1>2. \A x \in Calls : /\ x.pc \in SkillPc /\ x.ver \in Version /\ x.content \in SkillContent
                         /\ x.source \in Origin /\ x.active \in BOOLEAN
                         /\ x.then \in Seq(SkillCall({<<>>}))
  BY DEF Calls, SkillCall
<1>3. \A x \in SkillCall({<<>>}) : /\ x.pc \in SkillPc /\ x.ver \in Version /\ x.content \in SkillContent
                                    /\ x.source \in Origin /\ x.active \in BOOLEAN /\ x.then = <<>>
  BY DEF SkillCall
<1>4. \A x \in Calls, pc \in SkillPc : [x EXCEPT !.pc = pc] \in Calls
  BY DEF Calls, SkillCall
<1> QED
  BY <1>1, <1>2, <1>3, <1>4

\* Return goes on with a call that waited, or ends.
LEMMA ReturnFits ==
  ASSUME SkillTypeOK, CallsFit, NEW p \in Process
  PROVE  /\ Return(p) \in Calls
         /\ Return(p).pc \in {"idle"} \cup Later
         /\ Return(p).pc = "sweep" => p = "sync"
         /\ \A i \in DOMAIN Return(p).then : WaitFits(p, Return(p).then[i])
<1>1. proc[p] \in Calls /\ proc[p].then \in Seq(SkillCall({<<>>}))
  BY SkillTypeParts, CallFields
<1>2. \A i \in DOMAIN proc[p].then : WaitFits(p, proc[p].then[i])
  BY DEF CallsFit, ProcFits
<1>3. CASE proc[p].then = <<>>
  <2>1. Return(p) = Idle
    BY <1>3 DEF Return
  <2>2. Idle.pc = "idle" /\ Idle.then = <<>>
    BY DEF Idle
  <2> QED
    BY <2>1, <2>2, CallFields DEF Later
<1>4. CASE proc[p].then # <<>>
  <2> DEFINE s == proc[p].then
  <2>1. /\ Head(s) = s[1] /\ 1 \in DOMAIN s /\ s[1] \in SkillCall({<<>>})
        /\ Tail(s) \in Seq(SkillCall({<<>>}))
        /\ \A i \in DOMAIN Tail(s) : i + 1 \in DOMAIN s /\ Tail(s)[i] = s[i + 1]
    BY <1>1, <1>4
  <2>2. WaitFits(p, s[1])
    BY <1>2, <2>1
  <2> HIDE DEF s
  <2>3. Return(p) = [s[1] EXCEPT !.then = Tail(s)]
    BY <1>4, <2>1 DEF Return, s
  <2>4. Return(p) \in Calls /\ Return(p).pc = s[1].pc /\ Return(p).then = Tail(s)
    BY <2>1, <2>3 DEF Calls, SkillCall
  <2>5. \A i \in DOMAIN Tail(s) : WaitFits(p, Tail(s)[i])
    BY <1>2, <2>1 DEF s
  <2> QED
    BY <2>2, <2>4, <2>5 DEF WaitFits, Later
<1> QED
  BY <1>3, <1>4

\* A call that has not begun to read or write, or is over, fits.
LEMMA CalmFits ==
  ASSUME NEW p, NEW x, x.pc \in {"idle", "return"} \cup Later, x.pc = "sweep" => p = "sync"
  PROVE  CallFits(p, x) /\ CallFits(p, x)'
BY DEF CallFits, Later

\* What a step of p leaves alone, so that the calls of others still fit.
Steady(p) ==
    /\ \A v \in Version : /\ shipped[v] # "" => shipped'[v] = shipped[v]
                          /\ idn[v] # "" => idn'[v] = idn[v]
    /\ p # "sync" => bod'["base"] = bod["base"] /\ shipped'["base"] = shipped["base"]

LEMMA SkillMove ==
  ASSUME SkillTypeOK, CallsFit, NEW p \in Process, NEW r \in Calls, Go(p, r), Steady(p),
         CallFits(p, r)', \A i \in DOMAIN r.then : WaitFits(p, r.then[i])
  PROVE  CallsFit' /\ proc' \in [Process -> Calls]
<1>1. proc \in [Process -> Calls] /\ proc' = [proc EXCEPT ![p] = r]
  BY SkillTypeParts DEF Go
<1>2. proc' \in [Process -> Calls] /\ proc'[p] = r /\ \A q \in Process : q # p => proc'[q] = proc[q]
  BY <1>1
<1>3. ASSUME NEW q \in Process, q # p
      PROVE  ProcFits(q)'
  <2>1. proc'[q] = proc[q] /\ CallFits(q, proc[q]) /\ \A i \in DOMAIN proc[q].then : WaitFits(q, proc[q].then[i])
    BY <1>2, <1>3 DEF CallsFit, ProcFits
  <2>2. proc[q] \in Calls /\ proc[q].ver \in Version
    BY <1>1, CallFields
  <2> PICK x \in Calls : x = proc[q]
    BY <2>2
  <2>3. CallFits(q, x)'
    <3>1. CallFits(q, x) /\ x.ver \in Version
      BY <2>1, <2>2
    <3>2. q = "sync" => bod'["base"] = bod["base"] /\ shipped'["base"] = shipped["base"]
      BY <1>3 DEF Steady
    <3>3. "base" \in Version /\ (idn["base"] # "" => idn'["base"] = idn["base"])
      BY DEF Version, Steady
    <3>4. shipped[x.ver] # "" => shipped'[x.ver] = shipped[x.ver]
      BY <3>1 DEF Steady
    <3>5. /\ x.pc \in {"body", "digest"} /\ x.ver = "base" => q = "sync"
          /\ x.pc = "identity" => x.content # ""
      BY <3>1 DEF CallFits
    <3> QED
      BY <3>1, <3>2, <3>3, <3>4, <3>5 DEF CallFits
  <2> QED
    BY <2>1, <2>3 DEF ProcFits
<1>4. ProcFits(p)'
  BY <1>2 DEF ProcFits
<1> QED
  BY <1>2, <1>3, <1>4 DEF CallsFit

LEMMA RecordsStay ==
  ASSUME SkillInv, UNCHANGED runVars
  PROVE  RunTypeOK' /\ RunsFit'
BY SkillTypeParts DEF SkillInv, runVars, RunTypeOK, RunsFit, RunsMatchEvents

LEMMA SkillParts ==
  ASSUME SkillInv
  PROVE  /\ SkillTypeOK /\ CallsFit /\ RowsFit /\ RunsFit /\ RestTypeOK /\ RowTypeOK
         /\ doc \in [Version -> Digest] /\ bod \in [Version -> SkillContent]
         /\ idn \in [Version -> SkillContent] /\ shipped \in [Version -> SkillContent]
         /\ \A p \in Process : /\ proc[p] \in Calls /\ CallFits(p, proc[p])
                               /\ \A i \in DOMAIN proc[p].then : WaitFits(p, proc[p].then[i])
BY SkillTypeParts DEF SkillInv, RowTypeOK, CallsFit, ProcFits

\* A step that only moves a process on.
LEMMA SkillQuiet ==
  ASSUME SkillInv, NEW p \in Process, NEW r \in Calls, Go(p, r), UNCHANGED <<rowVars, shipped, runVars>>,
         RestTypeOK', CallFits(p, r), \A i \in DOMAIN r.then : WaitFits(p, r.then[i])
  PROVE  SkillInv'
<1>1. UNCHANGED <<doc, bod, idn, shipped>>
  BY DEF rowVars
<1>2. Steady(p) /\ RowsFit' /\ RowTypeOK'
  BY <1>1, SkillParts DEF Steady, RowsFit, RowTypeOK
<1>3. CallFits(p, r)'
  BY <1>1 DEF CallFits
<1>4. CallsFit' /\ proc' \in [Process -> Calls]
  BY <1>2, <1>3, SkillParts, SkillMove
<1> QED
  BY <1>2, <1>4, RecordsStay, SkillTypeNext DEF SkillInv

LEMMA IndexReadFits ==
  ASSUME SkillInv, NEW p \in Process, IndexRead(p)
  PROVE  SkillInv'
<1> PICK me \in Calls : me = proc[p]
  BY SkillParts
<1>0. me.pc = "index" /\ me.ver \in Version /\ me.content # "" /\ CallFits(p, me)
  BY SkillParts, CallFields DEF IndexRead, At, CallFits
<1>1. UNCHANGED <<rowVars, shipped, runVars>> /\ RestTypeOK'
  BY SkillParts DEF IndexRead, RestTypeOK, gateVars
<1>2. CASE Conflict(me.ver, me.content) \/ doc[me.ver].source \notin {"", me.source}
  <2>1. PICK r \in Calls : /\ Go(p, r) /\ r.pc \in {"idle"} \cup Later /\ (r.pc = "sweep" => p = "sync")
                           /\ \A i \in DOMAIN r.then : WaitFits(p, r.then[i])
    <3>1. Go(p, Return(p)) \/ Go(p, Idle)
      BY <1>2 DEF IndexRead
    <3>2. Idle.pc = "idle" /\ Idle.then = <<>>
      BY DEF Idle
    <3> QED
      BY <3>1, <3>2, ReturnFits, CallFields, SkillParts
  <2> QED
    BY <1>1, <2>1, CalmFits, SkillQuiet
<1>3. CASE ~(Conflict(me.ver, me.content) \/ doc[me.ver].source \notin {"", me.source})
  <2>1. PICK pc \in {"body", "digest", "identity", "return"} :
           /\ Go(p, [me EXCEPT !.pc = pc])
           /\ pc # "body" => bod[me.ver] = me.content
           /\ pc = "identity" => doc[me.ver].content # ""
    BY <1>3 DEF IndexRead
  <2> PICK r \in Calls : r = [me EXCEPT !.pc = pc]
    BY CallFields DEF SkillPc
  <2>2. r.pc = pc /\ r.ver = me.ver /\ r.content = me.content /\ r.then = me.then
    BY DEF Calls, SkillCall
  <2>3. /\ idn[me.ver] \in {"", me.content}
        /\ doc[me.ver].content # "" => doc[me.ver].content = me.content
    BY <1>3 DEF Conflict
  <2>4. /\ doc[me.ver].content \in {"", shipped[me.ver]} /\ idn[me.ver] \in {"", shipped[me.ver]}
        /\ me.ver = "base" /\ shipped["base"] # "" /\ idn["base"] = "" => doc["base"].content = shipped["base"]
    BY <1>0, SkillParts DEF RowsFit
  <2>5. me.ver = "base" => shipped["base"] \in {"", me.content}
    BY <1>0, <2>3, <2>4
  <2>6. pc = "identity" => shipped[me.ver] = me.content
    BY <2>1, <2>3, <2>4
  <2>7. CallFits(p, r)
    BY <1>0, <2>1, <2>2, <2>5, <2>6 DEF CallFits
  <2>8. \A i \in DOMAIN r.then : WaitFits(p, r.then[i])
    BY <2>2, SkillParts
  <2> QED
    BY <1>1, <2>1, <2>7, <2>8, SkillQuiet
<1> QED
  BY <1>2, <1>3

LEMMA IndexBodyFits ==
  ASSUME SkillInv, NEW p \in Process, IndexBody(p)
  PROVE  SkillInv'
<1> PICK me \in Calls : me = proc[p]
  BY SkillParts
<1>0. me.pc = "body" /\ me.ver \in Version /\ me.content \in SkillContent /\ me.content # "" /\ CallFits(p, me)
  BY SkillParts, CallFields DEF IndexBody, At, CallFits
<1>1. UNCHANGED <<doc, idn, shipped, runVars>> /\ RestTypeOK' /\ bod' = [bod EXCEPT ![me.ver] = me.content]
  BY SkillParts DEF IndexBody, RestTypeOK, gateVars
<1>2. /\ me.ver = "base" => p = "sync" /\ shipped["base"] \in {"", me.content}
      /\ me.ver = "new" => me.content = Approved
  BY <1>0 DEF CallFits
<1>3. RowTypeOK'
  BY <1>0, <1>1, SkillParts DEF RowTypeOK
<1>4. bod'[me.ver] = me.content /\ \A v \in Version : v # me.ver => bod'[v] = bod[v]
  BY <1>0, <1>1, SkillParts
<1>5. RowsFit'
  <2>1. \A v \in Version : shipped[v] # "" => bod'[v] \in {"", shipped[v]}
    BY <1>0, <1>2, <1>4, SkillParts DEF RowsFit, Version
  <2>2. shipped["base"] # "" /\ idn["base"] = "" => bod'["base"] = shipped["base"]
    BY <1>0, <1>2, <1>4, SkillParts DEF RowsFit, Version
  <2>3. bod'["new"] \in {"", Approved}
    BY <1>0, <1>2, <1>4, SkillParts DEF RowsFit, Version
  <2> QED
    BY <1>1, <2>1, <2>2, <2>3, SkillParts DEF RowsFit
<1>6. Steady(p)
  BY <1>0, <1>1, <1>2, <1>4 DEF Steady, Version
<1>7. PICK pc \in {"digest", "identity"} :
         Go(p, [me EXCEPT !.pc = pc]) /\ (pc = "identity" => doc[me.ver].content # "")
  BY DEF IndexBody
<1> PICK r \in Calls : r = [me EXCEPT !.pc = pc]
  BY CallFields DEF SkillPc
<1>8. r.pc = pc /\ r.ver = me.ver /\ r.content = me.content /\ r.then = me.then
  BY DEF Calls, SkillCall
<1>9. pc = "identity" => shipped[me.ver] = me.content
  BY <1>0, <1>2, <1>7, SkillParts DEF RowsFit, Version
<1>10. CallFits(p, r)'
  BY <1>0, <1>1, <1>2, <1>4, <1>8, <1>9 DEF CallFits
<1>11. CallsFit' /\ proc' \in [Process -> Calls]
  BY <1>6, <1>7, <1>8, <1>10, SkillParts, SkillMove
<1> QED
  BY <1>1, <1>3, <1>5, <1>11, RecordsStay, SkillTypeNext DEF SkillInv

LEMMA IndexDigestFits ==
  ASSUME SkillInv, NEW p \in Process, IndexDigest(p)
  PROVE  SkillInv'
<1> PICK me \in Calls : me = proc[p]
  BY SkillParts
<1>0. /\ me.pc = "digest" /\ me.ver \in Version /\ me.content \in SkillContent /\ me.content # ""
      /\ me.source \in Origin /\ CallFits(p, me)
  BY SkillParts, CallFields DEF IndexDigest, At, CallFits
<1> PICK d \in Digest : d = [content |-> me.content, source |-> me.source, active |-> TRUE]
  BY <1>0 DEF Digest
<1>1. /\ UNCHANGED <<bod, idn, runVars>> /\ RestTypeOK' /\ doc' = [doc EXCEPT ![me.ver] = d]
      /\ shipped' = [shipped EXCEPT ![me.ver] = IF @ = "" THEN me.content ELSE @]
      /\ Go(p, [me EXCEPT !.pc = "identity"])
  BY SkillParts DEF IndexDigest, RestTypeOK, gateVars
<1>2. /\ me.ver = "base" => p = "sync" /\ shipped["base"] \in {"", me.content} /\ bod["base"] = me.content
      /\ me.ver = "new" => p = "apply" /\ me.content = Approved
  BY <1>0 DEF CallFits, Version
<1>3. shipped[me.ver] \in {"", me.content}
  BY <1>0, <1>2, SkillParts DEF RowsFit, Version
<1>4. /\ doc'[me.ver].content = me.content /\ shipped'[me.ver] = me.content
      /\ \A v \in Version : v # me.ver => doc'[v] = doc[v] /\ shipped'[v] = shipped[v]
  BY <1>0, <1>1, <1>3, SkillParts
<1>5. RowTypeOK'
  <2>1. doc' \in [Version -> Digest]
    BY <1>1, SkillParts
  <2>2. shipped' \in [Version -> SkillContent]
    BY <1>0, <1>1, SkillParts
  <2> QED
    BY <1>1, <2>1, <2>2, SkillParts DEF RowTypeOK
<1>6. RowsFit'
  <2>1. ASSUME NEW v \in Version
        PROVE  /\ doc'[v].content \in {"", shipped'[v]} /\ idn[v] \in {"", shipped'[v]}
               /\ shipped'[v] # "" => bod[v] \in {"", shipped'[v]}
    <3>1. v # me.ver => doc'[v] = doc[v] /\ shipped'[v] = shipped[v]
      BY <1>4
    <3>2. v = me.ver => doc'[v].content = me.content /\ shipped'[v] = me.content
      BY <1>4
    <3>3. /\ doc[v].content \in {"", shipped[v]} /\ idn[v] \in {"", shipped[v]}
          /\ shipped[v] # "" => bod[v] \in {"", shipped[v]}
          /\ bod["new"] \in {"", Approved}
      BY SkillParts DEF RowsFit
    <3> QED
      BY <1>0, <1>2, <1>3, <3>1, <3>2, <3>3 DEF Version
  <2>2. shipped'["base"] # "" /\ idn["base"] = "" =>
          doc'["base"].content = shipped'["base"] /\ bod["base"] = shipped'["base"]
    BY <1>2, <1>4, SkillParts DEF RowsFit, Version
  <2>3. bod["new"] \in {"", Approved} /\ shipped'["new"] \in {"", Approved}
    BY <1>0, <1>2, <1>4, SkillParts DEF RowsFit, Version
  <2> QED
    BY <1>1, <2>1, <2>2, <2>3 DEF RowsFit
<1>7. Steady(p)
  BY <1>0, <1>1, <1>2, <1>3, <1>4 DEF Steady, Version
<1> PICK r \in Calls : r = [me EXCEPT !.pc = "identity"]
  BY CallFields DEF SkillPc
<1>8. r.pc = "identity" /\ r.ver = me.ver /\ r.content = me.content /\ r.then = me.then
  BY DEF Calls, SkillCall
<1>9. CallFits(p, r)'
  BY <1>0, <1>2, <1>4, <1>8 DEF CallFits, Version
<1>10. CallsFit' /\ proc' \in [Process -> Calls]
  BY <1>1, <1>7, <1>8, <1>9, SkillParts, SkillMove
<1> QED
  BY <1>1, <1>5, <1>6, <1>10, RecordsStay, SkillTypeNext DEF SkillInv

\* An identity that is written is of the advertised content.
LEMMA IdentityFits ==
  ASSUME SkillInv, UNCHANGED <<doc, bod, shipped>>,
         \A v \in Version : idn'[v] \in {"", shipped[v]} /\ (idn[v] # "" => idn'[v] # "")
  PROVE  RowsFit'
<1>1. \A v \in Version : /\ doc[v].content \in {"", shipped[v]}
                         /\ shipped[v] # "" => bod[v] \in {"", shipped[v]}
  BY SkillParts DEF RowsFit
<1>2. shipped["base"] # "" /\ idn'["base"] = "" =>
         doc["base"].content = shipped["base"] /\ bod["base"] = shipped["base"]
  BY SkillParts DEF RowsFit, Version
<1>3. bod["new"] \in {"", Approved} /\ shipped["new"] \in {"", Approved}
  BY SkillParts DEF RowsFit
<1> QED
  BY <1>1, <1>2, <1>3 DEF RowsFit

LEMMA IndexIdentityFits ==
  ASSUME SkillInv, NEW p \in Process, IndexIdentity(p)
  PROVE  SkillInv'
<1> PICK me \in Calls : me = proc[p]
  BY SkillParts
<1>0. /\ me.pc = "identity" /\ me.ver \in Version /\ me.content \in SkillContent /\ me.content # ""
      /\ shipped[me.ver] = me.content
  BY SkillParts, CallFields DEF IndexIdentity, At, CallFits
<1>1. /\ UNCHANGED <<doc, bod, shipped, runVars>> /\ RestTypeOK'
      /\ idn' = [idn EXCEPT ![me.ver] = IF @ = "" THEN me.content ELSE @]
      /\ Go(p, [me EXCEPT !.pc = "return"])
  BY SkillParts DEF IndexIdentity, RestTypeOK, gateVars
<1>2. /\ idn'[me.ver] = IF idn[me.ver] = "" THEN me.content ELSE idn[me.ver]
      /\ \A v \in Version : v # me.ver => idn'[v] = idn[v]
      /\ idn' \in [Version -> SkillContent]
  BY <1>0, <1>1, SkillParts
<1>3. RowTypeOK'
  BY <1>1, <1>2, SkillParts DEF RowTypeOK
<1>4. RowsFit'
  <2>1. \A v \in Version : idn[v] \in {"", shipped[v]}
    BY SkillParts DEF RowsFit
  <2> QED
    BY <1>0, <1>1, <1>2, <2>1, IdentityFits
<1>5. Steady(p)
  BY <1>1, <1>2 DEF Steady
<1> PICK r \in Calls : r = [me EXCEPT !.pc = "return"]
  BY CallFields DEF SkillPc
<1>6. r.pc = "return" /\ r.then = me.then
  BY DEF Calls, SkillCall
<1>7. CallsFit' /\ proc' \in [Process -> Calls]
  BY <1>1, <1>5, <1>6, CalmFits, SkillParts, SkillMove
<1> QED
  BY <1>1, <1>3, <1>4, <1>7, RecordsStay, SkillTypeNext DEF SkillInv

LEMMA ReturnsFits ==
  ASSUME SkillInv, NEW p \in Process, Returns(p)
  PROVE  SkillInv'
<1>1. UNCHANGED <<rowVars, shipped, runVars>> /\ RestTypeOK' /\ Go(p, Return(p))
  BY SkillParts DEF Returns, RestTypeOK, gateVars
<1> QED
  BY <1>1, ReturnFits, CalmFits, SkillParts, SkillQuiet

LEMMA UnpublishPinFits ==
  ASSUME SkillInv, NEW p \in Process, UnpublishPin(p)
  PROVE  SkillInv'
<1> PICK me \in Calls : me = proc[p]
  BY SkillParts
<1>0. me.pc = "pin" /\ me.ver \in Version /\ p = "sync"
  BY SkillParts, CallFields DEF UnpublishPin, At, CallFits
<1>1. /\ UNCHANGED <<doc, bod, shipped, runVars>> /\ RestTypeOK' /\ idn' = PinIdentity(me.ver)
      /\ Go(p, [me EXCEPT !.pc = "forget"])
  BY SkillParts DEF UnpublishPin, RestTypeOK, gateVars
<1>2. /\ idn'[me.ver] = IF idn[me.ver] = "" /\ doc[me.ver].content # "" /\ bod[me.ver] # "" THEN bod[me.ver] ELSE idn[me.ver]
      /\ \A v \in Version : v # me.ver => idn'[v] = idn[v]
      /\ idn' \in [Version -> SkillContent]
  BY <1>0, <1>1, SkillParts DEF PinIdentity
<1>3. /\ doc[me.ver].content \in {"", shipped[me.ver]}
      /\ shipped[me.ver] # "" => bod[me.ver] \in {"", shipped[me.ver]}
  BY <1>0, SkillParts DEF RowsFit
<1>4. RowTypeOK'
  BY <1>1, <1>2, SkillParts DEF RowTypeOK
<1>5. RowsFit'
  <2>1. \A v \in Version : idn[v] \in {"", shipped[v]}
    BY SkillParts DEF RowsFit
  <2>2. idn'[me.ver] \in {"", shipped[me.ver]} /\ (idn[me.ver] # "" => idn'[me.ver] # "")
    BY <1>0, <1>2, <1>3, <2>1
  <2> QED
    BY <1>1, <1>2, <2>1, <2>2, IdentityFits
<1>6. Steady(p)
  BY <1>1, <1>2 DEF Steady
<1> PICK r \in Calls : r = [me EXCEPT !.pc = "forget"]
  BY CallFields DEF SkillPc
<1>7. r.pc = "forget" /\ r.then = me.then /\ r.ver = me.ver
  BY DEF Calls, SkillCall
<1>8. me.ver = "base" => idn'["base"] # "" \/ shipped["base"] = ""
  BY <1>2, <1>3, SkillParts DEF RowsFit
<1>9. CallFits(p, r)'
  BY <1>0, <1>1, <1>7, <1>8 DEF CallFits
<1>10. CallsFit' /\ proc' \in [Process -> Calls]
  BY <1>1, <1>6, <1>7, <1>9, SkillParts, SkillMove
<1> QED
  BY <1>1, <1>4, <1>5, <1>10, RecordsStay, SkillTypeNext DEF SkillInv

LEMMA UnpublishDocFits ==
  ASSUME SkillInv, NEW p \in Process, UnpublishDoc(p)
  PROVE  SkillInv'
<1> PICK me \in Calls : me = proc[p]
  BY SkillParts
<1>0. me.pc = "forget" /\ me.ver \in Version /\ CallFits(p, me)
  BY SkillParts, CallFields DEF UnpublishDoc, At
<1>1. /\ UNCHANGED <<idn, bod, shipped, runVars>> /\ RestTypeOK' /\ doc' = [doc EXCEPT ![me.ver] = NoDoc]
      /\ Go(p, [me EXCEPT !.pc = "forgetbody"])
  BY SkillParts DEF UnpublishDoc, RestTypeOK, gateVars
<1>2. NoDoc \in Digest /\ NoDoc.content = ""
  BY DEF NoDoc, Digest, SkillContent, Origin
<1>3. /\ doc'[me.ver] = NoDoc /\ \A v \in Version : v # me.ver => doc'[v] = doc[v]
      /\ doc' \in [Version -> Digest]
  BY <1>0, <1>1, <1>2, SkillParts
<1>4. RowTypeOK'
  BY <1>1, <1>3, SkillParts DEF RowTypeOK
<1>5. me.ver = "base" => idn["base"] # "" \/ shipped["base"] = ""
  BY <1>0 DEF CallFits
<1>6. RowsFit'
  BY <1>0, <1>1, <1>2, <1>3, <1>5, SkillParts DEF RowsFit, Version
<1>7. Steady(p)
  BY <1>1 DEF Steady
<1> PICK r \in Calls : r = [me EXCEPT !.pc = "forgetbody"]
  BY CallFields DEF SkillPc
<1>8. r.pc = "forgetbody" /\ r.then = me.then /\ r.ver = me.ver
  BY DEF Calls, SkillCall
<1>9. CallFits(p, r)'
  BY <1>0, <1>1, <1>5, <1>8 DEF CallFits
<1>10. CallsFit' /\ proc' \in [Process -> Calls]
  BY <1>1, <1>7, <1>8, <1>9, SkillParts, SkillMove
<1> QED
  BY <1>1, <1>4, <1>6, <1>10, RecordsStay, SkillTypeNext DEF SkillInv

LEMMA UnpublishBodyFits ==
  ASSUME SkillInv, NEW p \in Process, UnpublishBody(p)
  PROVE  SkillInv'
<1> PICK me \in Calls : me = proc[p]
  BY SkillParts
<1>0. me.pc = "forgetbody" /\ me.ver \in Version /\ CallFits(p, me)
  BY SkillParts, CallFields DEF UnpublishBody, At
<1>1. /\ UNCHANGED <<idn, doc, shipped, runVars>> /\ RestTypeOK' /\ bod' = [bod EXCEPT ![me.ver] = ""]
      /\ Go(p, Return(p))
  BY SkillParts DEF UnpublishBody, RestTypeOK, gateVars
<1>2. /\ bod'[me.ver] = "" /\ \A v \in Version : v # me.ver => bod'[v] = bod[v]
      /\ bod' \in [Version -> SkillContent]
  <2>1. "" \in SkillContent
    BY DEF SkillContent
  <2> QED
    BY <1>0, <1>1, <2>1, SkillParts
<1>3. RowTypeOK'
  BY <1>1, <1>2, SkillParts DEF RowTypeOK
<1>4. p = "sync" /\ (me.ver = "base" => idn["base"] # "" \/ shipped["base"] = "")
  BY <1>0 DEF CallFits
<1>5. RowsFit'
  BY <1>0, <1>1, <1>2, <1>4, SkillParts DEF RowsFit, Version
<1>6. Steady(p)
  BY <1>1, <1>4 DEF Steady
<1>7. CallsFit' /\ proc' \in [Process -> Calls]
  BY <1>1, <1>6, ReturnFits, CalmFits, SkillParts, SkillMove
<1> QED
  BY <1>1, <1>3, <1>5, <1>7, RecordsStay, SkillTypeNext DEF SkillInv

LEMMA FlipReadFits ==
  ASSUME SkillInv, NEW p \in Process, FlipRead(p)
  PROVE  SkillInv'
<1> PICK me \in Calls : me = proc[p]
  BY SkillParts
<1>0. me.ver \in Version
  BY CallFields
<1>1. UNCHANGED <<rowVars, shipped, runVars>> /\ RestTypeOK'
  BY SkillParts DEF FlipRead, RestTypeOK, gateVars
<1>2. CASE doc[me.ver].content = ""
  <2>1. Go(p, Idle)
    BY <1>2 DEF FlipRead
  <2>2. Idle.pc = "idle" /\ Idle.then = <<>>
    BY DEF Idle
  <2> QED
    BY <1>1, <2>1, <2>2, CallFields, CalmFits, SkillQuiet
<1>3. CASE doc[me.ver].content # ""
  <2> DEFINE d == doc[me.ver]
  <2>1. d \in Digest /\ d.content = shipped[me.ver]
    BY <1>0, <1>3, SkillParts DEF RowsFit
  <2>2. Go(p, [me EXCEPT !.pc = "flipwrite", !.content = d.content, !.source = d.source])
    BY <1>3 DEF FlipRead
  <2>3. d.content \in SkillContent /\ d.source \in Origin
    BY <2>1 DEF Digest
  <2> HIDE DEF d
  <2> PICK r \in Calls : r = [me EXCEPT !.pc = "flipwrite", !.content = d.content, !.source = d.source]
    BY <2>3 DEF Calls, SkillCall, SkillPc
  <2>4. r.pc = "flipwrite" /\ r.content = d.content /\ r.ver = me.ver /\ r.then = me.then
    BY DEF Calls, SkillCall
  <2>5. CallFits(p, r)
    BY <1>3, <2>1, <2>4 DEF CallFits, d
  <2> QED
    BY <1>1, <2>2, <2>4, <2>5, SkillParts, SkillQuiet
<1> QED
  BY <1>2, <1>3

LEMMA FlipWriteFits ==
  ASSUME SkillInv, NEW p \in Process, FlipWrite(p)
  PROVE  SkillInv'
<1> PICK me \in Calls : me = proc[p]
  BY SkillParts
<1>0. /\ me.ver \in Version /\ me.content \in SkillContent /\ me.source \in Origin /\ me.active \in BOOLEAN
      /\ me.content = shipped[me.ver]
  BY SkillParts, CallFields DEF FlipWrite, At, CallFits
<1> PICK d \in Digest : d = [content |-> me.content, source |-> me.source, active |-> me.active]
  BY <1>0 DEF Digest
<1>1. /\ UNCHANGED <<idn, bod, shipped, runVars>> /\ RestTypeOK' /\ doc' = [doc EXCEPT ![me.ver] = d]
      /\ Go(p, Return(p))
  BY SkillParts DEF FlipWrite, RestTypeOK, gateVars
<1>2. /\ doc'[me.ver].content = shipped[me.ver] /\ \A v \in Version : v # me.ver => doc'[v] = doc[v]
      /\ doc' \in [Version -> Digest]
  BY <1>0, <1>1, SkillParts
<1>3. RowTypeOK'
  BY <1>1, <1>2, SkillParts DEF RowTypeOK
<1>4. RowsFit'
  <2>1. \A v \in Version : /\ doc'[v].content \in {"", shipped[v]} /\ idn[v] \in {"", shipped[v]}
                           /\ shipped[v] # "" => bod[v] \in {"", shipped[v]}
    BY <1>2, SkillParts DEF RowsFit
  <2>2. shipped["base"] # "" /\ idn["base"] = "" => doc'["base"].content = shipped["base"] /\ bod["base"] = shipped["base"]
    BY <1>2, SkillParts DEF RowsFit, Version
  <2> QED
    BY <1>1, <2>1, <2>2, SkillParts DEF RowsFit
<1>5. Steady(p)
  BY <1>1 DEF Steady
<1>6. CallsFit' /\ proc' \in [Process -> Calls]
  BY <1>1, <1>5, ReturnFits, CalmFits, SkillParts, SkillMove
<1> QED
  BY <1>1, <1>3, <1>4, <1>6, RecordsStay, SkillTypeNext DEF SkillInv

LEMMA NoCalls == <<>> \in Seq(SkillCall({<<>>})) /\ <<>> \in {<<>>}
OBVIOUS

LEMMA NobodyWaits == ASSUME NEW s, s = <<>>, NEW p PROVE \A i \in DOMAIN s : WaitFits(p, s[i])
<1>1. DOMAIN s = {}
  OBVIOUS
<1> QED
  BY <1>1

LEMMA OneOrTwo ==
  ASSUME NEW S, NEW x \in S, NEW y \in S
  PROVE  /\ <<x>> \in Seq(S) /\ \A i \in DOMAIN <<x>> : <<x>>[i] = x
         /\ <<x, y>> \in Seq(S) /\ \A i \in DOMAIN <<x, y>> : <<x, y>>[i] \in {x, y}
OBVIOUS

\* A bound counter that is spent.
LEMMA SpendFits ==
  ASSUME RestTypeOK, NEW what \in SkillBounds, NEW max, SkillSpend(what, max)
  PROVE  spent' \in [SkillBounds -> Nat]
<1>1. spent \in [SkillBounds -> Nat]
  BY DEF RestTypeOK
<1>2. spent' = [spent EXCEPT ![what] = spent[what] + 1]
  BY DEF SkillSpend
<1> QED
  BY <1>1, <1>2

LEMMA OperatorFits ==
  ASSUME SkillInv, NEW v \in Version, NEW w \in Version, NEW a \in BOOLEAN,
         SetSkillActive(v, a) \/ RevertSkillVersion(v, w)
  PROVE  SkillInv'
<1>1. UNCHANGED <<rowVars, shipped, runVars>> /\ RestTypeOK'
  <2>1. UNCHANGED <<rowVars, tree, gateVars, runVars, shipped>> /\ SkillSpend("edits", SkillEdits)
    BY Zenon DEF SetSkillActive, RevertSkillVersion
  <2>2. spent' \in [SkillBounds -> Nat]
    BY <2>1, SkillParts, SpendFits DEF SkillBounds
  <2> QED
    BY <2>1, <2>2, SkillParts DEF RestTypeOK, gateVars
<1>2. "flip" \in SkillPc /\ "" \in SkillContent /\ "" \in Origin /\ "op" \in Process /\ TRUE \in BOOLEAN /\ FALSE \in BOOLEAN
  BY DEF SkillPc, SkillContent, Origin, Process
<1>3. CASE SetSkillActive(v, a)
  <2> PICK r : r = Call("flip", v, "", "", a)
    OBVIOUS
  <2>1. r \in Calls /\ r.pc = "flip" /\ r.then = <<>>
    BY <1>2, NoCalls DEF Call, Calls, SkillCall
  <2>2. Go("op", r)
    BY <1>3 DEF SetSkillActive
  <2>3. CallFits("op", r)
    BY <2>1, CalmFits DEF Later
  <2>4. \A i \in DOMAIN r.then : WaitFits("op", r.then[i])
    BY <2>1, NobodyWaits, Zenon
  <2> QED
    BY <1>1, <1>2, <2>1, <2>2, <2>3, <2>4, SkillQuiet
<1>4. CASE RevertSkillVersion(v, w)
  <2> PICK x, z : x = Call("flip", w, "", "", TRUE) /\ z = Call("flip", v, "", "", FALSE)
    OBVIOUS
  <2>0. x \in SkillCall({<<>>}) /\ x.pc = "flip" /\ z \in SkillCall({<<>>}) /\ z.pc = "flip"
    BY <1>2, NoCalls DEF Call, Calls, SkillCall
  <2> PICK t : t = <<x>>
    OBVIOUS
  <2> PICK r : r = [z EXCEPT !.then = t]
    OBVIOUS
  <2>t. t \in Seq(SkillCall({<<>>})) /\ \A i \in DOMAIN t : t[i] = x
    BY <2>0, OneOrTwo
  <2>r. r \in Calls /\ r.pc = "flip" /\ r.then = t
    BY <2>0, <2>t DEF Calls, SkillCall
  <2>2. Go("op", r)
    BY <1>4 DEF RevertSkillVersion
  <2>3. CallFits("op", r) /\ \A i \in DOMAIN r.then : WaitFits("op", r.then[i])
    BY <2>0, <2>t, <2>r, CalmFits DEF Later, WaitFits
  <2> QED
    BY <1>1, <1>2, <2>r, <2>2, <2>3, SkillQuiet
<1> QED
  BY <1>3, <1>4

LEMMA SyncBundleFits == ASSUME SkillInv, SyncBundle PROVE SkillInv'
<1>1. UNCHANGED <<rowVars, shipped, runVars>> /\ RestTypeOK' /\ tree \in SkillContent
  <2>1. UNCHANGED <<rowVars, tree, gateVars, runVars, shipped>> /\ SkillSpend("syncs", Runnings)
    BY Zenon DEF SyncBundle
  <2>2. spent' \in [SkillBounds -> Nat]
    BY <2>1, SkillParts, SpendFits DEF SkillBounds
  <2> QED
    BY <2>1, <2>2, SkillParts DEF RestTypeOK, gateVars, SkillContent
<1>2. /\ "index" \in SkillPc /\ "sweep" \in SkillPc /\ "" \in SkillContent /\ "authored" \in Origin
      /\ "base" \in Version /\ "sync" \in Process /\ TRUE \in BOOLEAN
  BY DEF SkillPc, SkillContent, Origin, Process, Version
<1>3. CASE tree # ""
  <2> PICK x, z : x = Call("sweep", "base", tree, "authored", TRUE) /\ z = Call("index", "base", tree, "authored", TRUE)
    OBVIOUS
  <2>0. /\ x \in SkillCall({<<>>}) /\ x.pc = "sweep"
        /\ z \in SkillCall({<<>>}) /\ z.pc = "index" /\ z.ver = "base" /\ z.content = tree
    BY <1>1, <1>2, NoCalls DEF Call, Calls, SkillCall
  <2> PICK t : t = <<x>>
    OBVIOUS
  <2> PICK r : r = [z EXCEPT !.then = t]
    OBVIOUS
  <2>t. t \in Seq(SkillCall({<<>>})) /\ \A i \in DOMAIN t : t[i] = x
    BY <2>0, OneOrTwo
  <2>r. r \in Calls /\ r.pc = "index" /\ r.ver = "base" /\ r.content = tree /\ r.then = t
    BY <2>0, <2>t DEF Calls, SkillCall
  <2>2. Go("sync", r)
    BY <1>3 DEF SyncBundle
  <2>3. CallFits("sync", r) /\ \A i \in DOMAIN r.then : WaitFits("sync", r.then[i])
    BY <1>3, <2>0, <2>t, <2>r DEF CallFits, WaitFits
  <2> QED
    BY <1>1, <1>2, <2>r, <2>2, <2>3, SkillQuiet
<1>4. CASE tree = ""
  <2> PICK r : r = Call("sweep", "base", "", "authored", TRUE)
    OBVIOUS
  <2>0. r \in Calls /\ r.pc = "sweep" /\ r.then = <<>>
    BY <1>2, NoCalls DEF Call, Calls, SkillCall
  <2>1. Go("sync", r)
    BY <1>4 DEF SyncBundle
  <2>2. CallFits("sync", r)
    BY <2>0, CalmFits DEF Later
  <2>3. \A i \in DOMAIN r.then : WaitFits("sync", r.then[i])
    BY <2>0, NobodyWaits, Zenon
  <2> QED
    BY <1>1, <1>2, <2>0, <2>1, <2>2, <2>3, SkillQuiet
<1> QED
  BY <1>3, <1>4

LEMMA SyncDraftsFits == ASSUME SkillInv, SyncDrafts PROVE SkillInv'
<1>1. UNCHANGED <<rowVars, shipped, runVars>> /\ RestTypeOK'
  <2>1. UNCHANGED <<rowVars, tree, gateVars, runVars, shipped>> /\ SkillSpend("syncs", Runnings)
    BY Zenon DEF SyncDrafts
  <2>2. spent' \in [SkillBounds -> Nat]
    BY <2>1, SkillParts, SpendFits DEF SkillBounds
  <2> QED
    BY <2>1, <2>2, SkillParts DEF RestTypeOK, gateVars
<1>2. /\ "sweep" \in SkillPc /\ "" \in SkillContent /\ "mined" \in Origin
      /\ "new" \in Version /\ "sync" \in Process /\ TRUE \in BOOLEAN
  BY DEF SkillPc, SkillContent, Origin, Process, Version
<1> PICK r : r = Call("sweep", "new", "", "mined", TRUE)
  OBVIOUS
<1>0. r \in Calls /\ r.pc = "sweep" /\ r.then = <<>>
  BY <1>2, NoCalls DEF Call, Calls, SkillCall
<1>3. Go("sync", r)
  BY DEF SyncDrafts
<1>4. CallFits("sync", r)
  BY <1>0, CalmFits DEF Later
<1>5. \A i \in DOMAIN r.then : WaitFits("sync", r.then[i])
  BY <1>0, NobodyWaits, Zenon
<1> QED
  BY <1>0, <1>1, <1>2, <1>3, <1>4, <1>5, SkillQuiet

LEMMA SweepFits ==
  ASSUME SkillInv, NEW p \in Process, Sweep(p)
  PROVE  SkillInv'
<1> PICK me \in Calls : me = proc[p]
  BY SkillParts
<1>1. UNCHANGED <<rowVars, shipped, runVars>> /\ RestTypeOK'
  BY SkillParts DEF Sweep, RestTypeOK, gateVars
<1>2. p = "sync"
  BY SkillParts DEF Sweep, At, CallFits
<1>3. CASE Go(p, Return(p))
  BY <1>1, <1>3, ReturnFits, CalmFits, SkillParts, SkillQuiet
<1>4. CASE Go(p, [me EXCEPT !.pc = "pin"])
  <2> PICK r \in Calls : r = [me EXCEPT !.pc = "pin"]
    BY CallFields DEF SkillPc
  <2>1. r.pc = "pin" /\ r.then = me.then
    BY DEF Calls, SkillCall
  <2>2. CallFits(p, r)
    BY <1>2, <2>1 DEF CallFits
  <2> QED
    BY <1>1, <1>4, <2>1, <2>2, SkillParts, SkillQuiet
<1> QED
  BY <1>3, <1>4 DEF Sweep

\* A step that changes neither the rows nor a process.
LEMMA SkillAside ==
  ASSUME SkillInv, UNCHANGED <<rowVars, shipped, proc>>, RestTypeOK', RunTypeOK', RunsFit'
  PROVE  SkillInv'
<1>1. UNCHANGED <<doc, bod, idn, shipped, proc>>
  BY DEF rowVars
<1>2. RowsFit' /\ RowTypeOK' /\ proc' \in [Process -> Calls]
  BY <1>1, SkillParts, SkillTypeParts DEF RowsFit, RowTypeOK
<1>3. CallsFit'
  <2> SUFFICES ASSUME NEW q \in Process PROVE ProcFits(q)'
    BY DEF CallsFit
  <2> PICK x \in Calls : x = proc[q]
    BY SkillParts
  <2>1. CallFits(q, x) /\ \A i \in DOMAIN x.then : WaitFits(q, x.then[i])
    BY SkillParts
  <2>2. CallFits(q, x)'
    BY <1>1, <2>1 DEF CallFits
  <2> QED
    BY <1>1, <2>1, <2>2 DEF ProcFits
<1> QED
  BY <1>2, <1>3, SkillTypeNext DEF SkillInv

\* Edits of the tree, and what happens to a proposal before it is applied.
ProposalStep ==
    \/ \E c \in Authored \cup {""} : EditTree(c)
    \/ ProposeDraft \/ ProposeRow \/ Evaluate
    \/ \E s \in {"approved", "denied"} : Decide(s)
    \/ \E c \in Drafted : SwapDraft(c) \/ Accept({c})

LEMMA ProposalFits == ASSUME SkillInv, ProposalStep PROVE SkillInv'
<1>0. RestTypeOK /\ idn["base"] \in SkillContent
  BY SkillParts DEF Version
<1>1. UNCHANGED <<rowVars, shipped, proc, runVars>>
  BY Zenon DEF ProposalStep, EditTree, ProposeDraft, ProposeRow, Evaluate, Decide, SwapDraft, Accept
<1>2. RestTypeOK'
  <2>1. ASSUME NEW c \in Authored \cup {""}, EditTree(c)
        PROVE  RestTypeOK'
    <3>1. spent' \in [SkillBounds -> Nat]
      BY <1>0, <2>1, SpendFits DEF EditTree, SkillBounds
    <3> QED
      BY <1>0, <2>1, <3>1 DEF EditTree, RestTypeOK, gateVars
  <2>2. CASE ProposeDraft
    BY <1>0, <2>2, SkillConstants DEF ProposeDraft, RestTypeOK
  <2>3. CASE ProposeRow
    BY <1>0, <2>3 DEF ProposeRow, RestTypeOK
  <2>4. CASE Evaluate
    BY <1>0, <2>4 DEF Evaluate, RestTypeOK
  <2>5. ASSUME NEW s \in {"approved", "denied"}, Decide(s)
        PROVE  RestTypeOK'
    BY <1>0, <2>5 DEF Decide, RestTypeOK
  <2>6. ASSUME NEW c \in Drafted, SwapDraft(c)
        PROVE  RestTypeOK'
    <3>1. spent' \in [SkillBounds -> Nat]
      BY <1>0, <2>6, SpendFits DEF SwapDraft, SkillBounds
    <3> QED
      BY <1>0, <2>6, <3>1 DEF SwapDraft, RestTypeOK
  <2>7. ASSUME NEW c \in Drafted, Accept({c})
        PROVE  RestTypeOK'
    BY <1>0, <2>7 DEF Accept, RestTypeOK
  <2> QED
    BY <2>1, <2>2, <2>3, <2>4, <2>5, <2>6, <2>7 DEF ProposalStep
<1> QED
  BY <1>1, <1>2, RecordsStay, SkillAside

LEMMA ApplyFits == ASSUME SkillInv, ApplySkillProposal PROVE SkillInv'
<1>1. UNCHANGED <<rowVars, shipped, runVars>> /\ RestTypeOK' /\ draft = Approved
  BY SkillParts DEF ApplySkillProposal, Gate, RestTypeOK, gateVars
<1>2. /\ {"index", "flip", "mark"} \subseteq SkillPc /\ {"", "mined"} \subseteq Origin
      /\ Version = {"base", "new"} /\ "apply" \in Process /\ TRUE \in BOOLEAN /\ FALSE \in BOOLEAN
      /\ draft \in SkillContent /\ "" \in SkillContent /\ draft # ""
  BY <1>1, SkillConstants DEF SkillPc, SkillContent, Origin, Process, Version
<1> PICK z, x, y : /\ z = Call("index", "new", draft, "mined", TRUE)
                   /\ x = Call("flip", "base", "", "", FALSE) /\ y = Call("mark", "new", "", "", TRUE)
  OBVIOUS
<1>3. /\ z \in SkillCall({<<>>}) /\ z.pc = "index" /\ z.ver = "new" /\ z.content = draft
      /\ x \in SkillCall({<<>>}) /\ x.pc = "flip" /\ y \in SkillCall({<<>>}) /\ y.pc = "mark"
  BY <1>2, NoCalls DEF Call, Calls, SkillCall
<1> PICK t : t = <<x, y>>
  OBVIOUS
<1>4. t \in Seq(SkillCall({<<>>})) /\ \A i \in DOMAIN t : t[i] \in {x, y}
  BY <1>3, OneOrTwo
<1> PICK r : r = [z EXCEPT !.then = t]
  OBVIOUS
<1>5. r \in Calls /\ r.pc = "index" /\ r.ver = "new" /\ r.content = draft /\ r.then = t
  BY <1>3, <1>4 DEF Calls, SkillCall
<1>6. Go("apply", r)
  BY DEF ApplySkillProposal
<1>7. CallFits("apply", r)
  BY <1>1, <1>2, <1>5 DEF CallFits
<1>8. \A i \in DOMAIN r.then : WaitFits("apply", r.then[i])
  <2>1. WaitFits("apply", x) /\ WaitFits("apply", y)
    BY <1>3 DEF WaitFits
  <2> QED
    BY <1>4, <1>5, <2>1
<1> QED
  BY <1>1, <1>2, <1>5, <1>6, <1>7, <1>8, SkillQuiet

LEMMA MarkFits == ASSUME SkillInv, MarkApplied PROVE SkillInv'
<1>1. UNCHANGED <<rowVars, shipped, runVars>> /\ RestTypeOK' /\ Go("apply", Idle) /\ "apply" \in Process
  BY SkillParts DEF MarkApplied, RestTypeOK, Process
<1>2. Idle \in Calls /\ Idle.pc = "idle" /\ Idle.then = <<>>
  BY CallFields DEF Idle
<1> QED
  BY <1>1, <1>2, CalmFits, SkillQuiet, NobodyWaits

LEMMA StopFits == ASSUME SkillInv, NEW p \in Process, StopProcess(p) PROVE SkillInv'
<1>1. spent' \in [SkillBounds -> Nat]
  BY SkillParts, SpendFits DEF StopProcess, SkillBounds
<1>2. UNCHANGED <<rowVars, shipped, runVars>> /\ RestTypeOK' /\ Go(p, Idle)
  BY <1>1, SkillParts DEF StopProcess, RestTypeOK, gateVars
<1>3. Idle \in Calls /\ Idle.pc = "idle" /\ Idle.then = <<>>
  BY CallFields DEF Idle
<1> QED
  BY <1>2, <1>3, CalmFits, SkillQuiet, NobodyWaits

\* The recorders.
LEMMA RecorderFits ==
  ASSUME SkillInv, NEW r \in Recorders,
         \/ RecordAppend(r) \/ RecordPin(r) \/ StopRecorder(r)
         \/ \E e \in Executions, o \in {"failed", "success"} : RecordRead(r, e, o)
  PROVE  SkillInv'
<1>0. RestTypeOK /\ RunTypeOK /\ RunsFit
  BY SkillParts, SkillTypeParts
<1>1. /\ ran \in [Executions -> [event : RunOutcome, record : RunOutcome]]
      /\ recorder \in [Recorders -> [pc : {"idle", "append", "pin"}, exec : Executions \cup {""}, out : RunOutcome]]
      /\ NoRecord \in [pc : {"idle", "append", "pin"}, exec : Executions \cup {""}, out : RunOutcome]
      /\ NoRecord.pc = "idle"
      /\ \A e \in Executions : ran[e].record # "" => ran[e].record = ran[e].event
      /\ \A q \in Recorders : /\ recorder[q].pc # "idle" => recorder[q].exec \in Executions /\ recorder[q].out # ""
                              /\ recorder[q].pc = "pin" => ran[recorder[q].exec].event = recorder[q].out
  BY <1>0 DEF RunTypeOK, RunsFit, RunsMatchEvents, NoRecord, RunOutcome
<1> DEFINE me == recorder[r]
<1>2. CASE RecordAppend(r)
  <2> PICK e \in Executions, o \in RunOutcome \ {""} : e = recorder[r].exec /\ o = recorder[r].out
    BY <1>1, <1>2 DEF RecordAppend
  <2>1. /\ ran' = IF ran[e].event = "" THEN [ran EXCEPT ![e].event = o] ELSE ran
        /\ recorder' = [recorder EXCEPT ![r] = IF AnchorHolds(e, o) THEN [@ EXCEPT !.pc = "pin"] ELSE NoRecord]
        /\ UNCHANGED <<rowVars, tree, proc, gateVars, shipped, spent>>
    BY <1>2 DEF RecordAppend
  <2>2. /\ ran' \in [Executions -> [event : RunOutcome, record : RunOutcome]]
        /\ \A d \in Executions : /\ ran'[d].record = ran[d].record
                                 /\ ran[d].event # "" => ran'[d].event = ran[d].event
        /\ AnchorHolds(e, o) => ran'[e].event = o
    <3> PICK y \in [event : RunOutcome, record : RunOutcome] : y = ran[e]
      BY <1>1
    <3> PICK x : x = [y EXCEPT !.event = o]
      OBVIOUS
    <3>1. x \in [event : RunOutcome, record : RunOutcome] /\ x.event = o /\ x.record = ran[e].record
      OBVIOUS
    <3>2. CASE ran[e].event = ""
      <4>1. ran' = [ran EXCEPT ![e] = x]
        BY <2>1, <3>2
      <4> QED
        BY <1>1, <3>1, <3>2, <4>1
    <3>3. CASE ran[e].event # ""
      <4>1. ran' = ran
        BY <2>1, <3>3
      <4> QED
        BY <1>1, <3>3, <4>1 DEF AnchorHolds
    <3> QED
      BY <3>2, <3>3
  <2>3. /\ recorder' \in [Recorders -> [pc : {"idle", "append", "pin"}, exec : Executions \cup {""}, out : RunOutcome]]
        /\ \A q \in Recorders : q # r => recorder'[q] = recorder[q]
        /\ recorder'[r].pc = "pin" => AnchorHolds(e, o)
        /\ recorder'[r].pc # "idle" => recorder'[r].exec = e /\ recorder'[r].out = o
    BY <1>1, <2>1
  <2>4. RunTypeOK' /\ RunsFit'
    <3>1. RunTypeOK'
      BY <2>2, <2>3 DEF RunTypeOK
    <3>2. \A d \in Executions : ran'[d].record # "" => ran'[d].record = ran'[d].event
      BY <1>1, <2>2
    <3>3. ASSUME NEW q \in Recorders
          PROVE  /\ recorder'[q].pc # "idle" => recorder'[q].exec \in Executions /\ recorder'[q].out # ""
                 /\ recorder'[q].pc = "pin" => ran'[recorder'[q].exec].event = recorder'[q].out
      <4>1. CASE q = r
        BY <2>2, <2>3, <4>1
      <4>2. CASE q # r
        <5>1. recorder'[q] = recorder[q]
          BY <2>3, <4>2
        <5>2. /\ recorder[q].pc # "idle" => recorder[q].exec \in Executions /\ recorder[q].out # ""
              /\ recorder[q].pc = "pin" => recorder[q].exec \in Executions /\ ran[recorder[q].exec].event = recorder[q].out /\ recorder[q].out # ""
          BY <1>1
        <5> QED
          BY <2>2, <5>1, <5>2
      <4> QED
        BY <4>1, <4>2
    <3> QED
      BY <3>1, <3>2, <3>3 DEF RunsFit, RunsMatchEvents
  <2>5. RestTypeOK'
    BY <1>0, <2>1 DEF RestTypeOK, gateVars
  <2> QED
    BY <2>1, <2>4, <2>5, SkillAside
<1>3. CASE RecordPin(r)
  <2> PICK e \in Executions, o \in RunOutcome \ {""} : e = recorder[r].exec /\ o = recorder[r].out /\ ran[e].event = o
    BY <1>1, <1>3 DEF RecordPin
  <2>1. /\ ran' = [ran EXCEPT ![e].record = o] /\ recorder' = [recorder EXCEPT ![r] = NoRecord]
        /\ UNCHANGED <<rowVars, tree, proc, gateVars, shipped, spent>>
    BY <1>3 DEF RecordPin
  <2>2. /\ ran' \in [Executions -> [event : RunOutcome, record : RunOutcome]]
        /\ \A d \in Executions : /\ ran'[d].event = ran[d].event
                                 /\ ran'[d].record = IF d = e THEN o ELSE ran[d].record
    <3> PICK y \in [event : RunOutcome, record : RunOutcome] : y = ran[e]
      BY <1>1
    <3> PICK x : x = [y EXCEPT !.record = o]
      OBVIOUS
    <3>1. x \in [event : RunOutcome, record : RunOutcome] /\ x.record = o /\ x.event = ran[e].event
      OBVIOUS
    <3>2. ran' = [ran EXCEPT ![e] = x]
      BY <2>1
    <3> QED
      BY <1>1, <3>1, <3>2
  <2>3. /\ recorder' \in [Recorders -> [pc : {"idle", "append", "pin"}, exec : Executions \cup {""}, out : RunOutcome]]
        /\ \A q \in Recorders : q # r => recorder'[q] = recorder[q]
        /\ recorder'[r].pc = "idle"
    BY <1>1, <2>1
  <2>4. RunTypeOK' /\ RunsFit'
    <3>1. RunTypeOK'
      BY <2>2, <2>3 DEF RunTypeOK
    <3>2. \A d \in Executions : ran'[d].record # "" => ran'[d].record = ran'[d].event
      BY <1>1, <2>2
    <3>3. ASSUME NEW q \in Recorders
          PROVE  /\ recorder'[q].pc # "idle" => recorder'[q].exec \in Executions /\ recorder'[q].out # ""
                 /\ recorder'[q].pc = "pin" => ran'[recorder'[q].exec].event = recorder'[q].out
      <4>1. CASE q = r
        BY <2>2, <2>3, <4>1
      <4>2. CASE q # r
        <5>1. recorder'[q] = recorder[q]
          BY <2>3, <4>2
        <5>2. /\ recorder[q].pc # "idle" => recorder[q].exec \in Executions /\ recorder[q].out # ""
              /\ recorder[q].pc = "pin" => recorder[q].exec \in Executions /\ ran[recorder[q].exec].event = recorder[q].out /\ recorder[q].out # ""
          BY <1>1
        <5> QED
          BY <2>2, <5>1, <5>2
      <4> QED
        BY <4>1, <4>2
    <3> QED
      BY <3>1, <3>2, <3>3 DEF RunsFit, RunsMatchEvents
  <2>5. RestTypeOK'
    BY <1>0, <2>1 DEF RestTypeOK, gateVars
  <2> QED
    BY <2>1, <2>4, <2>5, SkillAside
<1>4. CASE StopRecorder(r) \/ \E e \in Executions, o \in {"failed", "success"} : RecordRead(r, e, o)
  <2>1. UNCHANGED <<rowVars, tree, proc, gateVars, ran, shipped>>
    BY <1>4, Zenon DEF StopRecorder, RecordRead
  <2>2. spent' \in [SkillBounds -> Nat]
    BY <1>0, <1>4, SpendFits DEF StopRecorder, RecordRead, SkillBounds
  <2>3. \E x \in [pc : {"idle", "append", "pin"}, exec : Executions \cup {""}, out : RunOutcome] :
           /\ recorder' = [recorder EXCEPT ![r] = x]
           /\ x.pc # "pin" /\ (x.pc # "idle" => x.exec \in Executions /\ x.out # "")
    <3>1. CASE StopRecorder(r)
      BY <1>1, <3>1 DEF StopRecorder
    <3>2. ASSUME NEW e \in Executions, NEW o \in {"failed", "success"}, RecordRead(r, e, o)
          PROVE  \E x \in [pc : {"idle", "append", "pin"}, exec : Executions \cup {""}, out : RunOutcome] :
                    /\ recorder' = [recorder EXCEPT ![r] = x]
                    /\ x.pc # "pin" /\ (x.pc # "idle" => x.exec \in Executions /\ x.out # "")
      <4> PICK x : x = [pc |-> "append", exec |-> e, out |-> o]
        OBVIOUS
      <4>1. /\ x \in [pc : {"idle", "append", "pin"}, exec : Executions \cup {""}, out : RunOutcome]
            /\ x.pc = "append" /\ x.exec = e /\ x.out = o
        BY DEF RunOutcome
      <4>2. recorder' = [recorder EXCEPT ![r] = x]
        BY <3>2 DEF RecordRead
      <4> QED
        BY <4>1, <4>2
    <3> QED
      BY <1>4, <3>1, <3>2
  <2>4. /\ recorder' \in [Recorders -> [pc : {"idle", "append", "pin"}, exec : Executions \cup {""}, out : RunOutcome]]
        /\ \A q \in Recorders : q # r => recorder'[q] = recorder[q]
        /\ recorder'[r].pc # "pin" /\ (recorder'[r].pc # "idle" => recorder'[r].exec \in Executions /\ recorder'[r].out # "")
    BY <1>1, <2>3
  <2>5. RunTypeOK' /\ RunsFit'
    <3>1. RunTypeOK'
      BY <1>1, <2>1, <2>4 DEF RunTypeOK
    <3>3. ASSUME NEW q \in Recorders
          PROVE  /\ recorder'[q].pc # "idle" => recorder'[q].exec \in Executions /\ recorder'[q].out # ""
                 /\ recorder'[q].pc = "pin" => ran[recorder'[q].exec].event = recorder'[q].out
      BY <1>1, <2>4
    <3> QED
      BY <1>1, <2>1, <3>1, <3>3 DEF RunsFit, RunsMatchEvents
  <2>6. RestTypeOK'
    BY <1>0, <2>1, <2>2 DEF RestTypeOK, gateVars
  <2> QED
    BY <2>1, <2>5, <2>6, SkillAside
<1> QED
  BY <1>2, <1>3, <1>4

LEMMA SkillInitFits == SkillInit => SkillInv
<1> SUFFICES ASSUME SkillInit PROVE SkillInv
  OBVIOUS
<1>1. Idle \in Calls /\ Idle.pc = "idle" /\ Idle.then = <<>>
  BY CallFields DEF Idle
<1>2. NoDoc \in Digest /\ NoDoc.content = ""
  BY DEF NoDoc, Digest, SkillContent, Origin
<1>3. RestTypeOK
  BY DEF SkillInit, RestTypeOK, SkillContent
<1>4. RunTypeOK /\ RunsFit
  <2>1. /\ NoRecord \in [pc : {"idle", "append", "pin"}, exec : Executions \cup {""}, out : RunOutcome]
        /\ NoRecord.pc = "idle"
    BY DEF NoRecord, RunOutcome
  <2>2. recorder = [r \in Recorders |-> NoRecord] /\ ran = [e \in Executions |-> [event |-> "", record |-> ""]]
    BY DEF SkillInit
  <2> QED
    BY <2>1, <2>2 DEF RunTypeOK, RunsFit, RunsMatchEvents, RunOutcome
<1>5. RowTypeOK /\ RowsFit
  BY <1>2 DEF SkillInit, RowTypeOK, RowsFit, SkillContent, Version
<1>6. proc \in [Process -> Calls] /\ \A p \in Process : proc[p] = Idle
  BY <1>1 DEF SkillInit
<1>7. CallsFit
  BY <1>1, <1>6, CalmFits, NobodyWaits DEF CallsFit, ProcFits
<1> QED
  BY <1>3, <1>4, <1>5, <1>6, <1>7, SkillTypeParts DEF SkillInv

LEMMA SkillNextFits == ASSUME SkillInv, [SkillNext]_skillVars PROVE SkillInv'
<1>1. CASE UNCHANGED skillVars
  BY <1>1, SkillParts, SkillAside, RecordsStay DEF skillVars, RestTypeOK, rowVars, runVars
<1>2. ASSUME NEW p \in Process,
             \/ IndexRead(p) \/ IndexBody(p) \/ IndexDigest(p) \/ IndexIdentity(p) \/ Returns(p)
             \/ UnpublishPin(p) \/ UnpublishDoc(p) \/ UnpublishBody(p)
             \/ FlipRead(p) \/ FlipWrite(p) \/ Sweep(p) \/ StopProcess(p)
      PROVE  SkillInv'
  BY <1>2, IndexReadFits, IndexBodyFits, IndexDigestFits, IndexIdentityFits, ReturnsFits, UnpublishPinFits,
     UnpublishDocFits, UnpublishBodyFits, FlipReadFits, FlipWriteFits, SweepFits, StopFits
<1>3. ASSUME NEW v \in Version, NEW w \in Version, NEW a \in BOOLEAN, SetSkillActive(v, a) \/ RevertSkillVersion(v, w)
      PROVE  SkillInv'
  BY <1>3, OperatorFits
<1>4. CASE ProposalStep
  BY <1>4, ProposalFits
<1>5. CASE SyncBundle \/ SyncDrafts \/ ApplySkillProposal \/ MarkApplied
  BY <1>5, SyncBundleFits, SyncDraftsFits, ApplyFits, MarkFits
<1>6. ASSUME NEW r \in Recorders,
             \/ RecordAppend(r) \/ RecordPin(r) \/ StopRecorder(r)
             \/ \E e \in Executions, o \in {"failed", "success"} : RecordRead(r, e, o)
      PROVE  SkillInv'
  BY <1>6, RecorderFits
<1> QED
  BY <1>1, <1>2, <1>3, <1>4, <1>5, <1>6 DEF SkillNext, ProposalStep

\* Every reachable state of the skill index, its processes, proposals and runs is
\* well typed (skills.go, improve.go, outcomes.go).
THEOREM SkillTypeCorrect == SkillSpec => []SkillTypeOK
<1>1. SkillInv => SkillTypeOK
  BY DEF SkillInv
<1> QED
  BY <1>1, SkillInitFits, SkillNextFits, PTL DEF SkillSpec

\* A version that was advertised once never loads another procedure, what goes
\* live as an improvement is what was approved, and a recorded outcome is the one
\* of its ledger event, however many calls are left half done (IndexSkill,
\* UnpublishSkill, ApplySkillProposal, RecordRunOutcome).
THEOREM SkillsAreSafe == SkillSpec => []SkillSafety
<1>1. SkillInv => SkillSafety
  BY DEF SkillInv, RowsFit, RunsFit, SkillSafety, PublishedIsImmutable, ApprovedIsPublished, Loads, Version
<1> QED
  BY <1>1, SkillInitFits, SkillNextFits, PTL DEF SkillSpec

-----------------------------------------------------------------------------
(* Archives *)

RowKeys == {"status", "summary", "fact", "task", "marker"}
RowRec == [in : Places, key : RowKeys, at : Nat, act : {"write", "tombstone"}, val : Nat]
\* An apply past its summary, and one whose archive has a name.
Summed == {"summed", "moved", "mailed", "marked"}
Named == {"named"} \cup Summed
ApplyRec == [pc : {"idle", "keys", "end"} \cup Named, keep : SUBSET {"status", "summary", "task", "fact"}, arch : Places]
RestoreRec == [pc : {"idle", "read", "moved", "unmarked", "ours", "cleared"}, arch : Places]
PageRec == [pc : {"idle", "open", "end"}, cursor : 0 .. 4, seen : SUBSET (1 .. 4), steady : SUBSET (1 .. 4)]
\* Times are bounded in every state, so a nonempty chain has a newest row.
TimesBounded == \E b \in Nat : \A r \in rows : r.at <= b
MailTyped == mail \in [Letter -> [in : Places, acked : BOOLEAN]]
LeftTyped == /\ left \in [edits : Nat, faults : Nat, restores : Nat, compacts : Nat]
             /\ Compacts = 0 => left.compacts = 0
ArchTypes ==
    /\ rows \subseteq RowRec /\ TimesBounded
    /\ MailTyped /\ LeftTyped
    /\ apply \in [Appliers -> ApplyRec] /\ restore \in RestoreRec /\ page \in PageRec

\* Markers are in archives, summaries in the namespace; a status names an archive, and so does who works on one.
StatusRow(r) == r.key = "status" /\ r.act = "write"
Homes == \A r \in rows : /\ r.key = "marker" => r.in # 0
                         /\ r.key = "summary" => r.in = 0 /\ r.act = "write"
                         /\ StatusRow(r) => r.val \in 1 .. Archives
NamesAim == /\ \A c \in Appliers : apply[c].pc \in Named => apply[c].arch \in 1 .. Archives
            /\ restore.pc # "idle" => restore.arch \in 1 .. Archives

HasMarker(a) == \E r \in rows : r.in = a /\ r.key = "marker"
MarkerAlive(a) == Alive(rows, a, "marker") # {}
OnlyMarkers(a) == \A q \in rows : q.in = a => q.key = "marker"
\* Archive a can be restored or is empty already.
Kept(a) == MarkerAlive(a) \/ OnlyMarkers(a)
HasSummary == \E u \in rows : u.key = "summary"
NewerThan(t) == \E u \in rows : u.key = "summary" /\ u.at > t
SummaryFirst == (\E r \in rows : StatusRow(r)) \/ (\E c \in Appliers : apply[c].pc \in Summed) => HasSummary
\* A restore works on an archive with a live marker, which nothing enters once its rows are out.
RestoreHolds == /\ restore.pc \in {"read", "moved"} => MarkerAlive(restore.arch)
                /\ restore.pc = "moved" => OnlyMarkers(restore.arch)

\* The page reader has seen every steady fact up to its cursor, and all of them at the end.
PageIsFull == /\ \A i \in page.steady : i <= page.cursor => i \in page.seen
              /\ page.pc = "end" => page.steady \subseteq page.seen

ArchBase == ArchTypes /\ Homes /\ NamesAim /\ SummaryFirst /\ RestoreHolds /\ PageIsFull

\* A status is older than a summary, or its archive is kept.
Restorable == \A r \in rows : StatusRow(r) => NewerThan(r.at) \/ Kept(r.val)
MarkedIsKept == \A c \in Appliers : apply[c].pc = "marked" => Kept(apply[c].arch)
\* The name of an archive that has been marked is not free again.
NamesStay == /\ \A r \in rows : StatusRow(r) => HasMarker(r.val)
             /\ \A c \in Appliers : apply[c].pc = "marked" => HasMarker(apply[c].arch)
\* No apply begins before the one before it has ended.
OneAtATime == \A c, d \in Appliers : apply[c].pc \notin {"idle", "end"} /\ apply[d].pc \notin {"idle", "end"} => c = d
\* Then an apply past its summary has written one that is newer than every status,
StatusesAreOld == \A c \in Appliers : apply[c].pc \in Summed => \A r \in rows : StatusRow(r) => NewerThan(r.at)
\* and the status is in the namespace and on the list of what its move keeps.
StatusHome == \A r \in rows : r.key = "status" => r.in = 0
Underway == {"keys", "named", "summed"}
KeepsStatus == \A c \in Appliers : apply[c].pc \in Underway /\ (\E r \in rows : r.key = "status") => "status" \in apply[c].keep

FreshInv == ArchBase /\ Restorable /\ MarkedIsKept /\ NamesStay
SerialInv == ArchBase /\ Restorable /\ MarkedIsKept /\ StatusesAreOld /\ StatusHome /\ KeepsStatus

\* What a step does to the rows, as far as the invariants ask.
RowsTyped == rows \subseteq RowRec /\ TimesBounded
SummariesStay == \A u \in rows : u.key = "summary" => \E v \in rows' : v.key = "summary" /\ v.at >= u.at
StatusesFrom == \A r \in rows' : StatusRow(r) => \E q \in rows : StatusRow(q) /\ q.at = r.at /\ q.val = r.val
MarkerStays(a) == MarkerAlive(a) => MarkerAlive(a)'
OnlyStays(a) == OnlyMarkers(a) => OnlyMarkers(a)'
MarkersStay == \A a \in 1 .. Archives : HasMarker(a) => HasMarker(a)'
StatusRowsFrom == \A r \in rows' : r.key = "status" => \E q \in rows : q.key = "status" /\ (q.in = 0 => r.in = 0)
RowsKeep == RowsTyped' /\ Homes' /\ SummariesStay /\ (Compacts = 0 => MarkersStay)
ArchivesKeep == \A a \in 1 .. Archives : MarkerStays(a) /\ OnlyStays(a)
HeadStays == \A r \in Alive(rows, 0, "status") : \E q \in rows' : q.in = 0 /\ q.key = "status" /\ q.at >= r.at
\* What a step that is not of an apply does, and what a step of an apply does to its record and to the rows.
CalmEffect ==
    /\ RowsKeep /\ MailTyped' /\ LeftTyped' /\ apply' = apply
    /\ restore' \in RestoreRec /\ (restore'.pc # "idle" => restore'.arch \in 1 .. Archives) /\ RestoreHolds'
    /\ StatusesFrom /\ StatusRowsFrom /\ HeadStays
    /\ \A a \in 1 .. Archives : Kept(a) => Kept(a)'
ApplyEffect(c) ==
    /\ RowsKeep /\ MailTyped' /\ LeftTyped' /\ restore' = restore /\ page' = page
    /\ apply' \in [Appliers -> ApplyRec] /\ \A d \in Appliers \ {c} : apply'[d] = apply[d]
    /\ apply'[c].pc \in Named => apply'[c].arch \in 1 .. Archives
    /\ \A a \in 1 .. Archives : /\ MarkerStays(a)
                                /\ OnlyStays(a) \/ (~HasMarker(a) /\ apply[c].pc = "summed" /\ a = apply[c].arch)
    /\ apply'[c].pc \in Summed => \/ apply[c].pc \in Summed
                                  \/ HasSummary' /\ \A r \in rows' : StatusRow(r) => NewerThan(r.at)'
    /\ \/ StatusesFrom
       \/ /\ apply[c].pc = "marked" /\ apply'[c].pc = "end"
          /\ \A r \in rows' : r \in rows \/ r.val = apply[c].arch
    /\ apply'[c].pc = "marked" => MarkerAlive(apply[c].arch)' /\ HasMarker(apply[c].arch)' /\ apply'[c].arch = apply[c].arch
SerialEffect(c) ==
    /\ HeadStays /\ StatusHome'
    /\ (\E r \in rows' : r.key = "status") => (\E r \in rows : r.key = "status") \/ apply[c].pc = "marked"
    /\ apply'[c].pc \in Underway /\ (\E r \in rows' : r.key = "status") => "status" \in apply'[c].keep

-----------------------------------------------------------------------------
(* Numbers *)

\* The constants of the archives are numbers.
LEMMA ArchNumbers ==
  /\ Archives \in Nat \ {0} /\ PageSize \in Nat \ {0}
  /\ ArchEdits \in Nat /\ ArchFaults \in Nat /\ Restores \in Nat /\ Compacts \in Nat
BY ArchConstants

\* A nonempty set of numbers with a bound has a greatest element.
LEMMA Greatest ==
  ASSUME NEW S \in SUBSET Nat, S # {}, NEW b \in Nat, \A x \in S : x <= b
  PROVE  Max(S) \in S /\ \A x \in S : x <= Max(S)
<1> DEFINE T == {n \in Nat : \A x \in S : x <= n}
<1>0. \A x \in S : x \in Nat
  OBVIOUS
<1>1. T \subseteq Nat /\ T # {}
  <2>1. b \in T
    OBVIOUS
  <2> QED
    BY <2>1
<1>2. PICK m \in T : \A y \in T : ~(<<y, m>> \in OpToRel(<, Nat))
  BY <1>1, WFMin, NatLessThanWellFounded, Zenon
<1>3. \A y \in T : ~(y < m)
  BY <1>2 DEF OpToRel
<1>4. m \in Nat /\ \A x \in S : x <= m
  BY <1>2
<1> HIDE DEF T
<1>5. m \in S
  <2>1. SUFFICES ASSUME m \notin S PROVE FALSE
    OBVIOUS
  <2>2. \A x \in S : x < m
    BY <1>0, <1>4, <2>1
  <2>3. PICK x \in S : TRUE
    OBVIOUS
  <2>4. m - 1 \in Nat
    BY <1>0, <1>4, <2>2, <2>3
  <2>5. \A y \in S : y <= m - 1
    BY <1>0, <1>4, <2>2
  <2>6. m - 1 \in T
    BY <2>4, <2>5 DEF T
  <2> QED
    BY <1>3, <1>4, <2>6
<1>6. \A x \in S : m >= x
  BY <1>0, <1>4
<1>7. Max(S) \in S /\ \A x \in S : Max(S) >= x
  BY <1>5, <1>6, Zenon DEF Max
<1> QED
  BY <1>0, <1>7

\* A nonempty set of numbers has a least element.
LEMMA LeastOne ==
  ASSUME NEW S \in SUBSET Nat, S # {}
  PROVE  /\ \E m \in S : \A x \in S : m <= x
         /\ Min(S) \in S
<1>1. PICK m \in S : \A y \in S : ~(<<y, m>> \in OpToRel(<, Nat))
  BY WFMin, NatLessThanWellFounded, Zenon
<1>2. \A y \in S : ~(y < m)
  BY <1>1 DEF OpToRel
<1>3. \A y \in S : m <= y
  BY <1>2
<1>4. Min(S) \in S
  BY <1>3, Zenon DEF Min
<1> QED
  BY <1>3, <1>4

\* The row that is stored next is newer than its chain.
LEMMA NowIsNewer ==
  ASSUME RowsTyped, NEW k \in RowKeys
  PROVE  /\ Now(k) \in Nat
         /\ \A r \in rows : r.key = k => r.at < Now(k)
         /\ k = "summary" => \A r \in rows : r.key = "status" => r.at < Now(k)
<1> DEFINE S == {0} \cup {r.at : r \in {x \in rows : x.key \in Together(k)}}
<1>1. PICK b \in Nat : \A r \in rows : r.at <= b
  BY DEF RowsTyped, TimesBounded
<1>2. S \in SUBSET Nat /\ S # {} /\ \A x \in S : x <= b
  BY <1>1 DEF RowsTyped, RowRec
<1>3. \A r \in rows : r.key \in Together(k) => r.at \in S
  OBVIOUS
<1>4. Now(k) = Max(S) + 1
  BY DEF Now
<1> HIDE DEF S
<1>5. Max(S) \in S /\ \A x \in S : x <= Max(S)
  BY <1>1, <1>2, Greatest
<1>6. k \in Together(k) /\ (k = "summary" => "status" \in Together(k))
  BY DEF Together
<1>7. \A r \in rows : r.at \in Nat
  BY DEF RowsTyped, RowRec
<1>8. Max(S) \in Nat /\ Now(k) = Max(S) + 1
  BY <1>2, <1>4, <1>5
<1>9. \A r \in rows : r.key \in Together(k) => r.at < Now(k)
  BY <1>3, <1>5, <1>7, <1>8
<1> QED
  BY <1>6, <1>8, <1>9

\* A chain has a newest row.
LEMMA ChainHasNewest ==
  ASSUME NEW R \in SUBSET RowRec, NEW b \in Nat, \A r \in R : r.at <= b, NEW p, NEW k, NEW u \in Chain(R, p, k)
  PROVE  \E r \in NewestRow(R, p, k) : r.at >= u.at
<1> DEFINE S == {r.at : r \in Chain(R, p, k)}
<1>0. \A r \in R : r.at \in Nat
  BY DEF RowRec
<1>1. Chain(R, p, k) \subseteq R
  BY DEF Chain
<1>2. S \in SUBSET Nat /\ S # {} /\ \A x \in S : x <= b
  BY <1>0, <1>1
<1>3. \A x \in S : \E r \in Chain(R, p, k) : r.at = x
  OBVIOUS
<1>4. \A r \in Chain(R, p, k) : r.at \in S
  OBVIOUS
<1> HIDE DEF S
<1>5. Max(S) \in S /\ \A x \in S : x <= Max(S)
  BY <1>2, Greatest
<1>6. PICK r \in Chain(R, p, k) : r.at = Max(S)
  BY <1>3, <1>5
<1>7. \A q \in Chain(R, p, k) : q.at <= r.at
  BY <1>4, <1>5, <1>6
<1>8. r \in NewestRow(R, p, k)
  BY <1>6, <1>7 DEF NewestRow
<1>9. r.at >= u.at
  BY <1>0, <1>1, <1>7
<1> QED
  BY <1>8, <1>9

\* A live row is the newest of its chain, and a write.
LEMMA AliveRow ==
  ASSUME NEW R, NEW p, NEW k, NEW m
  PROVE  m \in Alive(R, p, k) <=> /\ m \in R /\ m.in = p /\ m.key = k /\ m.act = "write"
                                  /\ \A q \in R : q.in = p /\ q.key = k => q.at <= m.at
BY DEF Alive, NewestRow, Chain

\* An archive has a live marker when a marker that is a write is the newest one.
LEMMA MarkerIsAlive ==
  ASSUME NEW a
  PROVE  MarkerAlive(a) <=> \E m \in rows : /\ m.in = a /\ m.key = "marker" /\ m.act = "write"
                                             /\ \A q \in rows : q.in = a /\ q.key = "marker" => q.at <= m.at
<1>1. MarkerAlive(a) <=> \E m : m \in Alive(rows, a, "marker")
  BY DEF MarkerAlive
<1> QED
  BY <1>1, AliveRow

\* What is stored is one row, newer than the rows of its key.
LEMMA StoreRow ==
  ASSUME RowsTyped, NEW p \in Places, NEW k \in RowKeys, NEW act \in {"write", "tombstone"}, NEW val \in Nat
  PROVE  \E n \in RowRec : /\ Store(p, k, act, val) = rows \cup {n}
                           /\ n.in = p /\ n.key = k /\ n.act = act /\ n.val = val
                           /\ \A r \in rows : r.key = k => r.at < n.at
                           /\ k = "summary" => \A r \in rows : r.key = "status" => r.at < n.at
<1> DEFINE n == Row(p, k, Now(k), act, val)
<1>1. /\ Now(k) \in Nat
      /\ \A r \in rows : r.key = k => r.at < Now(k)
      /\ k = "summary" => \A r \in rows : r.key = "status" => r.at < Now(k)
  BY NowIsNewer DEF RowsTyped
<1>2. n \in RowRec /\ n.in = p /\ n.key = k /\ n.act = act /\ n.val = val /\ n.at = Now(k)
  BY <1>1 DEF Row, RowRec
<1>3. Store(p, k, act, val) = rows \cup {n}
  BY DEF Store
<1> HIDE DEF n
<1> QED
  BY <1>1, <1>2, <1>3

\* What is forgotten gets a tombstone, unless it is gone.
LEMMA ForgetRow ==
  ASSUME RowsTyped, NEW p \in Places, NEW k \in RowKeys
  PROVE  \/ ForgetKey(p, k) = rows
         \/ /\ \E r \in rows : r.in = p /\ r.key = k
            /\ \E n \in RowRec : /\ ForgetKey(p, k) = rows \cup {n}
                                 /\ n.in = p /\ n.key = k /\ n.act = "tombstone"
                                 /\ \A r \in rows : r.key = k => r.at < n.at
<1>1. CASE Alive(rows, p, k) = {}
  BY <1>1 DEF ForgetKey
<1>2. CASE Alive(rows, p, k) # {}
  <2>1. \E r \in rows : r.in = p /\ r.key = k
    BY <1>2, AliveRow
  <2>2. ForgetKey(p, k) = Store(p, k, "tombstone", 0)
    BY <1>2 DEF ForgetKey
  <2>3. 0 \in Nat
    OBVIOUS
  <2> QED
    BY <2>1, <2>2, <2>3, StoreRow
<1> QED
  BY <1>1, <1>2

\* Storing a row keeps the summaries, the markers and the head of the status.
LEMMA GrowKeeps ==
  ASSUME RowsTyped, Homes, NEW n \in RowRec, rows' = rows \cup {n}, \A r \in rows : r.key = n.key => r.at < n.at
  PROVE  /\ RowsTyped' /\ SummariesStay /\ MarkersStay /\ HeadStays
         /\ (n.key # "marker" \/ n.act = "write") => \A a \in 1 .. Archives : MarkerStays(a)
         /\ (n.in = 0 \/ n.key = "marker") => \A a \in 1 .. Archives : OnlyStays(a)
         /\ /\ n.key = "marker" => n.in # 0
            /\ n.key = "summary" => n.in = 0 /\ n.act = "write"
            /\ StatusRow(n) => n.val \in 1 .. Archives
            => Homes'
         /\ ~StatusRow(n) => StatusesFrom
<1>0. \A r \in rows' : r \in RowRec /\ r.at \in Nat
  BY DEF RowsTyped, RowRec
<1>1. RowsTyped'
  <2>1. PICK b \in Nat : \A r \in rows : r.at <= b
    BY DEF RowsTyped, TimesBounded
  <2>2. n.at \in Nat
    BY <1>0
  <2>3. b + n.at \in Nat /\ \A r \in rows' : r.at <= b + n.at
    BY <1>0, <2>1, <2>2
  <2>4. TimesBounded'
    BY <2>3 DEF TimesBounded
  <2> QED
    BY <1>0, <2>4 DEF RowsTyped
<1>2. SummariesStay
  <2>1. \A u \in rows : u \in rows' /\ u.at >= u.at
    BY <1>0
  <2> QED
    BY <2>1 DEF SummariesStay
<1>3. MarkersStay
  BY DEF MarkersStay, HasMarker
<1>4. HeadStays
  <2> SUFFICES ASSUME NEW r \in Alive(rows, 0, "status") PROVE \E q \in rows' : q.in = 0 /\ q.key = "status" /\ q.at >= r.at
    BY DEF HeadStays
  <2>1. r \in rows /\ r.in = 0 /\ r.key = "status"
    BY AliveRow
  <2> QED
    BY <1>0, <2>1
<1>5. ASSUME n.key # "marker" \/ n.act = "write", NEW a \in 1 .. Archives PROVE MarkerStays(a)
  <2> SUFFICES ASSUME MarkerAlive(a) PROVE MarkerAlive(a)'
    BY DEF MarkerStays
  <2>1. PICK m \in rows : /\ m.in = a /\ m.key = "marker" /\ m.act = "write"
                          /\ \A q \in rows : q.in = a /\ q.key = "marker" => q.at <= m.at
    BY MarkerIsAlive
  <2> SUFFICES \E x \in rows' : /\ x.in = a /\ x.key = "marker" /\ x.act = "write"
                                /\ \A q \in rows' : q.in = a /\ q.key = "marker" => q.at <= x.at
    <3>1. MarkerAlive(a)' <=> \E x : x \in Alive(rows', a, "marker")
      BY DEF MarkerAlive
    <3> QED
      BY <3>1, AliveRow
  <2>2. CASE n.in = a /\ n.key = "marker"
    <3>1. n \in rows' /\ \A q \in rows' : q.in = a /\ q.key = "marker" => q.at <= n.at
      BY <1>0, <2>2
    <3> QED
      BY <1>5, <2>2, <3>1
  <2>3. CASE ~(n.in = a /\ n.key = "marker")
    <3>1. m \in rows' /\ \A q \in rows' : q.in = a /\ q.key = "marker" => q.at <= m.at
      BY <2>1, <2>3
    <3> QED
      BY <2>1, <3>1
  <2> QED
    BY <2>2, <2>3
<1>6. ASSUME n.in = 0 \/ n.key = "marker" PROVE \A a \in 1 .. Archives : OnlyStays(a)
  <2>1. \A a \in 1 .. Archives : a # 0
    BY ArchNumbers
  <2> QED
    BY <1>6, <2>1 DEF OnlyStays, OnlyMarkers
<1>7. ASSUME n.key = "marker" => n.in # 0, n.key = "summary" => n.in = 0 /\ n.act = "write", StatusRow(n) => n.val \in 1 .. Archives
      PROVE  Homes'
  BY <1>7 DEF Homes, StatusRow
<1>8. ASSUME ~StatusRow(n) PROVE StatusesFrom
  BY <1>8 DEF StatusesFrom, StatusRow
<1> QED
  BY <1>1, <1>2, <1>3, <1>4, <1>5, <1>6, <1>7, <1>8

\* What leaves the rows alone keeps everything.
LEMMA SameRows ==
  ASSUME RowsTyped, Homes, rows' = rows
  PROVE  RowsKeep /\ ArchivesKeep /\ StatusesFrom /\ StatusRowsFrom /\ HeadStays
<1>0. \A r \in rows : r.at \in Nat /\ r.at >= r.at
  BY DEF RowsTyped, RowRec
<1>1. RowsTyped' /\ Homes' /\ MarkersStay
  BY DEF RowsTyped, TimesBounded, Homes, MarkersStay, HasMarker
<1>2. SummariesStay /\ StatusesFrom /\ StatusRowsFrom
  BY <1>0 DEF SummariesStay, StatusesFrom, StatusRowsFrom
<1>3. ArchivesKeep
  BY DEF ArchivesKeep, MarkerStays, OnlyStays, MarkerAlive, OnlyMarkers
<1>4. HeadStays
  BY <1>0, AliveRow DEF HeadStays
<1> QED
  BY <1>1, <1>2, <1>3, <1>4 DEF RowsKeep

\* The writes and deletions of other agents keep everything.
LEMMA AgentRows ==
  ASSUME RowsTyped, Homes, AgentWrites
  PROVE  RowsKeep /\ ArchivesKeep /\ StatusesFrom /\ StatusRowsFrom /\ HeadStays
<1>0. 0 \in Places /\ 0 \in Nat /\ 1 \in Nat
  BY ArchNumbers DEF Places
<1>1. rows' = rows \/ \E n \in RowRec : /\ rows' = rows \cup {n}
                                        /\ n.in = 0 /\ n.key \in {"fact", "task"}
                                        /\ \A r \in rows : r.key = n.key => r.at < n.at
  <2>1. CASE rows' = Store(0, "fact", "write", 0)
    <3>1. "fact" \in RowKeys /\ "write" \in {"write", "tombstone"}
      BY DEF RowKeys
    <3> QED
      BY <1>0, <2>1, <3>1, StoreRow
  <2>2. CASE \E s \in {0, 1} : rows' = Store(0, "task", "write", s)
    <3>1. PICK s \in {0, 1} : rows' = Store(0, "task", "write", s)
      BY <2>2
    <3>2. "task" \in RowKeys /\ "write" \in {"write", "tombstone"} /\ s \in Nat
      BY DEF RowKeys
    <3> QED
      BY <1>0, <3>1, <3>2, StoreRow
  <2>3. CASE rows' = ForgetKey(0, "fact")
    <3>1. "fact" \in RowKeys
      BY DEF RowKeys
    <3> QED
      BY <1>0, <2>3, <3>1, ForgetRow
  <2> QED
    BY <2>1, <2>2, <2>3 DEF AgentWrites
<1>2. CASE rows' = rows
  BY <1>2, SameRows
<1>3. ASSUME NEW n \in RowRec, rows' = rows \cup {n}, n.in = 0, n.key \in {"fact", "task"}, \A r \in rows : r.key = n.key => r.at < n.at
      PROVE  RowsKeep /\ ArchivesKeep /\ StatusesFrom /\ StatusRowsFrom /\ HeadStays
  <2>1. n.key # "marker" /\ n.key # "summary" /\ ~StatusRow(n) /\ n.key # "status"
    BY <1>3 DEF StatusRow
  <2>2. RowsTyped' /\ SummariesStay /\ MarkersStay /\ HeadStays /\ Homes' /\ StatusesFrom /\ \A a \in 1 .. Archives : MarkerStays(a) /\ OnlyStays(a)
    BY <1>3, <2>1, GrowKeeps
  <2>3. StatusRowsFrom
    BY <1>3, <2>1 DEF StatusRowsFrom
  <2> QED
    BY <2>2, <2>3 DEF RowsKeep, ArchivesKeep
<1> QED
  BY <1>1, <1>2, <1>3

\* A compaction keeps the newest write of every key.
LEMMA CompactRows ==
  ASSUME ArchTypes, Homes, Compact
  PROVE  RowsKeep /\ ArchivesKeep /\ StatusesFrom /\ StatusRowsFrom /\ HeadStays
<1>0. \A r \in rows : r \in RowRec /\ r.at \in Nat
  BY DEF ArchTypes, RowRec
<1>1. PICK p \in Places : rows' = (rows \ Superseded(p)) \ DeadEnds(rows \ Superseded(p), p)
  BY DEF Compact
<1>2. rows' \subseteq rows
  BY <1>1
<1>3. ASSUME NEW r \in rows, r.act = "write", \A q \in rows : q.in = r.in /\ q.key = r.key => q.at <= r.at
      PROVE  r \in rows'
  <2>1. r \notin Superseded(p)
    BY <1>0, <1>3 DEF Superseded, Chain
  <2>2. r \notin DeadEnds(rows \ Superseded(p), p)
    BY <1>3 DEF DeadEnds
  <2> QED
    BY <1>1, <2>1, <2>2
<1>4. PICK b \in Nat : \A r \in rows : r.at <= b
  BY DEF ArchTypes, TimesBounded
<1>5. RowsTyped'
  <2>1. TimesBounded'
    BY <1>2, <1>4 DEF TimesBounded
  <2> QED
    BY <1>0, <1>2, <2>1 DEF RowsTyped
<1>6. Homes'
  BY <1>2 DEF Homes
<1>7. SummariesStay
  <2> SUFFICES ASSUME NEW u \in rows, u.key = "summary" PROVE \E v \in rows' : v.key = "summary" /\ v.at >= u.at
    BY DEF SummariesStay
  <2>1. u \in Chain(rows, 0, "summary")
    BY DEF Chain, Homes
  <2>2. rows \in SUBSET RowRec
    BY <1>0
  <2>3. PICK v \in NewestRow(rows, 0, "summary") : v.at >= u.at
    BY <1>4, <2>1, <2>2, ChainHasNewest
  <2>4. v \in rows /\ v.in = 0 /\ v.key = "summary" /\ \A q \in rows : q.in = 0 /\ q.key = "summary" => q.at <= v.at
    BY <2>3 DEF NewestRow, Chain
  <2>5. v.act = "write"
    BY <2>4 DEF Homes
  <2> QED
    BY <1>3, <2>3, <2>4, <2>5
<1>8. Compacts # 0
  BY DEF Compact, ArchSpend, ArchTypes, LeftTyped
<1>9. ArchivesKeep
  <2> SUFFICES ASSUME NEW a \in 1 .. Archives PROVE MarkerStays(a) /\ OnlyStays(a)
    BY DEF ArchivesKeep
  <2>1. OnlyStays(a)
    BY <1>2 DEF OnlyStays, OnlyMarkers
  <2>2. ASSUME MarkerAlive(a) PROVE MarkerAlive(a)'
    <3>1. PICK m \in rows : /\ m.in = a /\ m.key = "marker" /\ m.act = "write"
                            /\ \A q \in rows : q.in = a /\ q.key = "marker" => q.at <= m.at
      BY <2>2, MarkerIsAlive
    <3>2. m \in rows'
      BY <1>3, <3>1
    <3>3. m \in Alive(rows', a, "marker")
      BY <1>2, <3>1, <3>2, AliveRow
    <3> QED
      BY <3>3 DEF MarkerAlive
  <2> QED
    BY <2>1, <2>2 DEF MarkerStays
<1>10. StatusesFrom /\ StatusRowsFrom
  BY <1>2 DEF StatusesFrom, StatusRowsFrom
<1>11. HeadStays
  <2> SUFFICES ASSUME NEW r \in Alive(rows, 0, "status") PROVE \E q \in rows' : q.in = 0 /\ q.key = "status" /\ q.at >= r.at
    BY DEF HeadStays
  <2>1. r \in rows /\ r.in = 0 /\ r.key = "status" /\ r.act = "write" /\ \A q \in rows : q.in = 0 /\ q.key = "status" => q.at <= r.at
    BY AliveRow
  <2>2. r \in rows'
    BY <1>3, <2>1
  <2> QED
    BY <1>0, <2>1, <2>2
<1> QED
  BY <1>5, <1>6, <1>7, <1>8, <1>9, <1>10, <1>11 DEF RowsKeep

\* The summary an apply writes is newer than every status.
LEMMA SummaryRows ==
  ASSUME RowsTyped, Homes, NEW c \in Appliers, WriteSummary(c)
  PROVE  /\ RowsKeep /\ ArchivesKeep /\ StatusesFrom /\ StatusRowsFrom /\ HeadStays
         /\ \E u \in rows' : u.key = "summary"
         /\ \A r \in rows' : StatusRow(r) => NewerThan(r.at)'
<1>0. 0 \in Places /\ 0 \in Nat /\ "summary" \in RowKeys /\ "write" \in {"write", "tombstone"}
  BY ArchNumbers DEF Places, RowKeys
<1>1. rows' = Store(0, "summary", "write", 0)
  BY DEF WriteSummary
<1>2. PICK n \in RowRec : /\ rows' = rows \cup {n} /\ n.in = 0 /\ n.key = "summary" /\ n.act = "write"
                          /\ \A r \in rows : r.key = "summary" => r.at < n.at
                          /\ \A r \in rows : r.key = "status" => r.at < n.at
  BY <1>0, <1>1, StoreRow
<1>3. n.key # "marker" /\ ~StatusRow(n) /\ n.key # "status"
  BY <1>2 DEF StatusRow
<1>4. RowsTyped' /\ SummariesStay /\ MarkersStay /\ HeadStays /\ Homes' /\ StatusesFrom /\ \A a \in 1 .. Archives : MarkerStays(a) /\ OnlyStays(a)
  BY <1>2, <1>3, GrowKeeps
<1>5. StatusRowsFrom
  BY <1>2, <1>3 DEF StatusRowsFrom
<1>6. n \in rows'
  BY <1>2
<1>7. ASSUME NEW r \in rows', StatusRow(r) PROVE NewerThan(r.at)'
  <2>1. r \in rows /\ r.key = "status"
    BY <1>2, <1>3, <1>7 DEF StatusRow
  <2>2. n.at > r.at
    BY <1>2, <2>1 DEF RowRec, RowsTyped
  <2> QED
    BY <1>2, <1>6, <2>2 DEF NewerThan
<1> QED
  BY <1>2, <1>4, <1>5, <1>6, <1>7 DEF RowsKeep, ArchivesKeep

\* The move of an apply goes to an archive without rows.  It takes everything
\* but the kept keys, which the summary is always one of.
LEMMA MoveOutRows ==
  ASSUME RowsTyped, Homes, NEW c \in Appliers, apply[c].arch \in Unused(rows), rows' = MoveRows(c)
  PROVE  /\ apply[c].arch \in 1 .. Archives /\ ~HasMarker(apply[c].arch)
         /\ RowsKeep /\ StatusesFrom
         /\ \A a \in 1 .. Archives : MarkerStays(a) /\ (a # apply[c].arch => OnlyStays(a))
         /\ \A r \in rows' : r.key = "status" => \E q \in rows : q.key = "status"
         /\ ("status" \in apply[c].keep => StatusRowsFrom /\ HeadStays)
<1> DEFINE A == apply[c].arch
           Moves(r) == r.in = 0 /\ r.key \notin KeepList(c)
           To(r) == IF Moves(r) THEN [r EXCEPT !.in = A] ELSE r
<1>0. \A r \in rows : r \in RowRec /\ r.at \in Nat /\ r.at >= r.at
  BY DEF RowsTyped, RowRec
<1>1. A \in 1 .. Archives /\ A # 0 /\ A \in Places /\ \A r \in rows : r.in # A
  BY ArchNumbers DEF Unused, Places
<1>2. rows' = {To(r) : r \in rows}
  BY DEF MoveRows
<1>3. "summary" \in KeepList(c) /\ ("status" \in apply[c].keep => "status" \in KeepList(c))
  BY DEF KeepList
<1>4. ASSUME NEW r \in rows PROVE /\ To(r) \in RowRec /\ To(r).key = r.key /\ To(r).at = r.at /\ To(r).act = r.act /\ To(r).val = r.val
                                  /\ To(r).in = IF Moves(r) THEN A ELSE r.in
                                  /\ ~Moves(r) => To(r) = r
                                  /\ To(r) \in rows'
  <2>1. To(r) \in rows'
    BY <1>2
  <2>2. CASE Moves(r)
    <3>1. To(r) = [r EXCEPT !.in = A]
      BY <2>2
    <3>2. [r EXCEPT !.in = A] \in RowRec /\ [r EXCEPT !.in = A].key = r.key /\ [r EXCEPT !.in = A].at = r.at
          /\ [r EXCEPT !.in = A].act = r.act /\ [r EXCEPT !.in = A].val = r.val /\ [r EXCEPT !.in = A].in = A
      BY <1>0, <1>1 DEF RowRec
    <3> QED
      BY <2>1, <2>2, <3>1, <3>2
  <2>3. CASE ~Moves(r)
    <3>1. To(r) = r
      BY <2>3
    <3> QED
      BY <1>0, <2>1, <2>3, <3>1
  <2> QED
    BY <2>2, <2>3
<1>5. \A x \in rows' : \E r \in rows : x = To(r)
  BY <1>2
<1> HIDE DEF To
<1>6. \A x \in rows' : x \in RowRec /\ x.at \in Nat
  BY <1>4, <1>5 DEF RowRec
<1>7. RowsTyped'
  <2>1. PICK b \in Nat : \A r \in rows : r.at <= b
    BY DEF RowsTyped, TimesBounded
  <2>2. \A x \in rows' : x.at <= b
    BY <1>4, <1>5, <2>1
  <2>3. TimesBounded'
    BY <2>2 DEF TimesBounded
  <2> QED
    BY <1>6, <2>3 DEF RowsTyped
<1>8. \A r \in rows : r.key \in {"marker", "summary"} => ~Moves(r)
  BY <1>3 DEF Homes
<1>9. Homes'
  <2> SUFFICES ASSUME NEW x \in rows' PROVE /\ x.key = "marker" => x.in # 0
                                            /\ x.key = "summary" => x.in = 0 /\ x.act = "write"
                                            /\ StatusRow(x) => x.val \in 1 .. Archives
    BY DEF Homes
  <2>1. PICK r \in rows : x = To(r)
    BY <1>5
  <2>2. x.key = r.key /\ x.act = r.act /\ x.val = r.val /\ (r.key \in {"marker", "summary"} => x.in = r.in)
    BY <1>4, <1>8, <2>1
  <2> QED
    BY <2>2 DEF Homes, StatusRow
<1>10. SummariesStay
  <2>1. \A u \in rows : u.key = "summary" => u \in rows'
    BY <1>4, <1>8
  <2> QED
    BY <1>0, <2>1 DEF SummariesStay
<1>11. MarkersStay
  <2>1. \A u \in rows : u.key = "marker" => u \in rows'
    BY <1>4, <1>8
  <2> QED
    BY <2>1 DEF MarkersStay, HasMarker
<1>12. StatusesFrom
  BY <1>4, <1>5 DEF StatusesFrom, StatusRow
<1>13. ASSUME NEW a \in 1 .. Archives PROVE MarkerStays(a)
  <2> SUFFICES ASSUME MarkerAlive(a) PROVE MarkerAlive(a)'
    BY DEF MarkerStays
  <2>1. PICK m \in rows : /\ m.in = a /\ m.key = "marker" /\ m.act = "write"
                          /\ \A q \in rows : q.in = a /\ q.key = "marker" => q.at <= m.at
    BY MarkerIsAlive
  <2>2. m \in rows'
    BY <1>4, <1>8, <2>1
  <2>3. \A x \in rows' : x.key = "marker" => x \in rows
    BY <1>4, <1>5, <1>8
  <2>4. m \in Alive(rows', a, "marker")
    BY <2>1, <2>2, <2>3, AliveRow
  <2> QED
    BY <2>4 DEF MarkerAlive
<1>14. ASSUME NEW a \in 1 .. Archives, a # A PROVE OnlyStays(a)
  <2>1. \A x \in rows' : x.in = a => x \in rows
    BY <1>4, <1>5, <1>14
  <2> QED
    BY <2>1 DEF OnlyStays, OnlyMarkers
<1>15. \A r \in rows' : r.key = "status" => \E q \in rows : q.key = "status"
  BY <1>4, <1>5
<1>16. ASSUME "status" \in apply[c].keep PROVE StatusRowsFrom /\ HeadStays
  <2>1. \A r \in rows : r.key = "status" => ~Moves(r)
    BY <1>3, <1>16
  <2>2. StatusRowsFrom
    <3> SUFFICES ASSUME NEW x \in rows', x.key = "status" PROVE \E q \in rows : q.key = "status" /\ (q.in = 0 => x.in = 0)
      BY DEF StatusRowsFrom
    <3>1. PICK r \in rows : x = To(r)
      BY <1>5
    <3>2. x = r
      BY <1>4, <2>1, <3>1
    <3> QED
      BY <3>2
  <2>3. HeadStays
    <3> SUFFICES ASSUME NEW r \in Alive(rows, 0, "status") PROVE \E q \in rows' : q.in = 0 /\ q.key = "status" /\ q.at >= r.at
      BY DEF HeadStays
    <3>1. r \in rows /\ r.in = 0 /\ r.key = "status"
      BY AliveRow
    <3>2. r \in rows'
      BY <1>4, <2>1, <3>1
    <3> QED
      BY <1>0, <3>1, <3>2
  <2> QED
    BY <2>2, <2>3
<1>17. ~HasMarker(A)
  BY <1>1 DEF HasMarker
<1> QED
  BY <1>1, <1>7, <1>9, <1>10, <1>11, <1>12, <1>13, <1>14, <1>15, <1>16, <1>17 DEF RowsKeep

\* The marker an apply stores makes its archive one that can be restored.
LEMMA MarkerRows ==
  ASSUME RowsTyped, Homes, NEW a \in 1 .. Archives, rows' = Store(a, "marker", "write", 0)
  PROVE  /\ RowsKeep /\ ArchivesKeep /\ StatusesFrom /\ StatusRowsFrom /\ HeadStays
         /\ MarkerAlive(a)' /\ HasMarker(a)'
<1>0. a \in Places /\ a # 0 /\ 0 \in Nat /\ "marker" \in RowKeys /\ "write" \in {"write", "tombstone"}
  BY ArchNumbers DEF Places, RowKeys
<1>2. PICK n \in RowRec : /\ rows' = rows \cup {n} /\ n.in = a /\ n.key = "marker" /\ n.act = "write"
                          /\ \A r \in rows : r.key = "marker" => r.at < n.at
  BY <1>0, StoreRow
<1>3. n.key # "summary" /\ ~StatusRow(n) /\ n.key # "status"
  BY <1>2 DEF StatusRow
<1>4. RowsTyped' /\ SummariesStay /\ MarkersStay /\ HeadStays /\ Homes' /\ StatusesFrom /\ \A p \in 1 .. Archives : MarkerStays(p) /\ OnlyStays(p)
  BY <1>0, <1>2, <1>3, GrowKeeps
<1>5. StatusRowsFrom
  BY <1>2, <1>3 DEF StatusRowsFrom
<1>6. \A q \in rows' : q.key = "marker" => q.at <= n.at
  BY <1>2 DEF RowRec, RowsTyped
<1>7. n \in Alive(rows', a, "marker")
  BY <1>2, <1>6, AliveRow
<1>8. MarkerAlive(a)'
  BY <1>7 DEF MarkerAlive
<1>9. HasMarker(a)'
  BY <1>2 DEF HasMarker
<1> QED
  BY <1>4, <1>5, <1>8, <1>9 DEF RowsKeep, ArchivesKeep

\* The status an apply stores names its archive.
LEMMA StatusRows ==
  ASSUME RowsTyped, Homes, NEW a \in 1 .. Archives, rows' = Store(0, "status", "write", a)
  PROVE  /\ RowsKeep /\ ArchivesKeep /\ HeadStays
         /\ \A r \in rows' : r \in rows \/ (r.in = 0 /\ r.key = "status" /\ r.val = a)
<1>0. 0 \in Places /\ a \in Nat /\ "status" \in RowKeys /\ "write" \in {"write", "tombstone"}
  BY ArchNumbers DEF Places, RowKeys
<1>2. PICK n \in RowRec : /\ rows' = rows \cup {n} /\ n.in = 0 /\ n.key = "status" /\ n.val = a
                          /\ \A r \in rows : r.key = "status" => r.at < n.at
  BY <1>0, StoreRow
<1>3. n.key # "summary" /\ n.key # "marker"
  BY <1>2
<1>4. RowsTyped' /\ SummariesStay /\ MarkersStay /\ HeadStays /\ Homes' /\ \A p \in 1 .. Archives : MarkerStays(p) /\ OnlyStays(p)
  BY <1>2, <1>3, GrowKeeps
<1> QED
  BY <1>2, <1>4 DEF RowsKeep, ArchivesKeep

\* A restore leaves the marker of its archive where it is, and nothing else.
LEMMA MoveBackRows ==
  ASSUME RowsTyped, Homes, restore.arch \in 1 .. Archives, RestoreMoves
  PROVE  /\ RowsKeep /\ ArchivesKeep /\ StatusesFrom /\ StatusRowsFrom /\ HeadStays
         /\ OnlyMarkers(restore.arch)'
<1> DEFINE A == restore.arch
           Moves(r) == r.in = A /\ r.key # "marker"
           To(r) == IF Moves(r) THEN [r EXCEPT !.in = 0] ELSE r
<1>0. \A r \in rows : r \in RowRec /\ r.at \in Nat /\ r.at >= r.at
  BY DEF RowsTyped, RowRec
<1>1. A # 0 /\ 0 \in Places /\ \A a \in 1 .. Archives : a # 0
  BY ArchNumbers DEF Places
<1>2. rows' = {To(r) : r \in rows} /\ restore'.arch = A
  BY DEF RestoreMoves, RestoreGoes
<1>4. ASSUME NEW r \in rows PROVE /\ To(r) \in RowRec /\ To(r).key = r.key /\ To(r).at = r.at /\ To(r).act = r.act /\ To(r).val = r.val
                                  /\ To(r).in = IF Moves(r) THEN 0 ELSE r.in
                                  /\ ~Moves(r) => To(r) = r
                                  /\ To(r) \in rows'
  <2>1. To(r) \in rows'
    BY <1>2
  <2>2. CASE Moves(r)
    <3>1. To(r) = [r EXCEPT !.in = 0]
      BY <2>2
    <3>2. [r EXCEPT !.in = 0] \in RowRec /\ [r EXCEPT !.in = 0].key = r.key /\ [r EXCEPT !.in = 0].at = r.at
          /\ [r EXCEPT !.in = 0].act = r.act /\ [r EXCEPT !.in = 0].val = r.val /\ [r EXCEPT !.in = 0].in = 0
      BY <1>0, <1>1 DEF RowRec
    <3> QED
      BY <2>1, <2>2, <3>1, <3>2
  <2>3. CASE ~Moves(r)
    <3>1. To(r) = r
      BY <2>3
    <3> QED
      BY <1>0, <2>1, <2>3, <3>1
  <2> QED
    BY <2>2, <2>3
<1>5. \A x \in rows' : \E r \in rows : x = To(r)
  BY <1>2
<1> HIDE DEF To
<1>6. \A x \in rows' : x \in RowRec /\ x.at \in Nat
  BY <1>4, <1>5 DEF RowRec
<1>7. RowsTyped'
  <2>1. PICK b \in Nat : \A r \in rows : r.at <= b
    BY DEF RowsTyped, TimesBounded
  <2>2. \A x \in rows' : x.at <= b
    BY <1>4, <1>5, <2>1
  <2>3. TimesBounded'
    BY <2>2 DEF TimesBounded
  <2> QED
    BY <1>6, <2>3 DEF RowsTyped
<1>8. \A r \in rows : r.key \in {"marker", "summary"} \/ r.in = 0 => ~Moves(r)
  BY <1>1 DEF Homes
<1>9. Homes'
  <2> SUFFICES ASSUME NEW x \in rows' PROVE /\ x.key = "marker" => x.in # 0
                                            /\ x.key = "summary" => x.in = 0 /\ x.act = "write"
                                            /\ StatusRow(x) => x.val \in 1 .. Archives
    BY DEF Homes
  <2>1. PICK r \in rows : x = To(r)
    BY <1>5
  <2>2. x.key = r.key /\ x.act = r.act /\ x.val = r.val /\ (r.key \in {"marker", "summary"} => x.in = r.in)
    BY <1>4, <1>8, <2>1
  <2> QED
    BY <2>2 DEF Homes, StatusRow
<1>10. SummariesStay
  <2>1. \A u \in rows : u.key = "summary" => u \in rows'
    BY <1>4, <1>8
  <2> QED
    BY <1>0, <2>1 DEF SummariesStay
<1>11. MarkersStay
  <2>1. \A u \in rows : u.key = "marker" => u \in rows'
    BY <1>4, <1>8
  <2> QED
    BY <2>1 DEF MarkersStay, HasMarker
<1>12. StatusesFrom
  BY <1>4, <1>5 DEF StatusesFrom, StatusRow
<1>13. ASSUME NEW a \in 1 .. Archives PROVE MarkerStays(a)
  <2> SUFFICES ASSUME MarkerAlive(a) PROVE MarkerAlive(a)'
    BY DEF MarkerStays
  <2>1. PICK m \in rows : /\ m.in = a /\ m.key = "marker" /\ m.act = "write"
                          /\ \A q \in rows : q.in = a /\ q.key = "marker" => q.at <= m.at
    BY MarkerIsAlive
  <2>2. m \in rows'
    BY <1>4, <1>8, <2>1
  <2>3. \A x \in rows' : x.key = "marker" => x \in rows
    BY <1>4, <1>5, <1>8
  <2>4. m \in Alive(rows', a, "marker")
    BY <2>1, <2>2, <2>3, AliveRow
  <2> QED
    BY <2>4 DEF MarkerAlive
<1>14. ASSUME NEW a \in 1 .. Archives PROVE OnlyStays(a)
  <2>1. \A x \in rows' : x.in = a => x \in rows
    BY <1>1, <1>4, <1>5
  <2> QED
    BY <2>1 DEF OnlyStays, OnlyMarkers
<1>15. StatusRowsFrom
  <2> SUFFICES ASSUME NEW x \in rows', x.key = "status" PROVE \E q \in rows : q.key = "status" /\ (q.in = 0 => x.in = 0)
    BY DEF StatusRowsFrom
  <2>1. PICK r \in rows : x = To(r)
    BY <1>5
  <2> QED
    BY <1>4, <2>1
<1>16. HeadStays
  <2> SUFFICES ASSUME NEW r \in Alive(rows, 0, "status") PROVE \E q \in rows' : q.in = 0 /\ q.key = "status" /\ q.at >= r.at
    BY DEF HeadStays
  <2>1. r \in rows /\ r.in = 0 /\ r.key = "status"
    BY AliveRow
  <2>2. r \in rows'
    BY <1>4, <1>8, <2>1
  <2> QED
    BY <1>0, <2>1, <2>2
<1>17. \A x \in rows' : x.in = A => x.key = "marker"
  BY <1>1, <1>4, <1>5
<1>18. OnlyMarkers(restore.arch)'
  BY <1>2, <1>17 DEF OnlyMarkers
<1> QED
  BY <1>7, <1>9, <1>10, <1>11, <1>12, <1>13, <1>14, <1>15, <1>16, <1>18 DEF RowsKeep, ArchivesKeep

\* A restore deletes the marker of an archive that nothing else is in.
LEMMA UnmarkRows ==
  ASSUME RowsTyped, Homes, NEW a \in 1 .. Archives, rows' = ForgetKey(a, "marker")
  PROVE  /\ RowsKeep /\ StatusesFrom /\ StatusRowsFrom /\ HeadStays
         /\ \A p \in 1 .. Archives : OnlyStays(p) /\ (p # a => MarkerStays(p))
<1>0. a \in Places /\ a # 0 /\ "marker" \in RowKeys
  BY ArchNumbers DEF Places, RowKeys
<1>1. CASE rows' = rows
  BY <1>1, SameRows DEF ArchivesKeep
<1>2. ASSUME NEW n \in RowRec, rows' = rows \cup {n}, n.in = a, n.key = "marker", n.act = "tombstone", \A r \in rows : r.key = "marker" => r.at < n.at
      PROVE  /\ RowsKeep /\ StatusesFrom /\ StatusRowsFrom /\ HeadStays
             /\ \A p \in 1 .. Archives : OnlyStays(p) /\ (p # a => MarkerStays(p))
  <2>1. n.key # "summary" /\ ~StatusRow(n) /\ n.key # "status"
    BY <1>2 DEF StatusRow
  <2>2. RowsTyped' /\ SummariesStay /\ MarkersStay /\ HeadStays /\ Homes' /\ StatusesFrom /\ \A p \in 1 .. Archives : OnlyStays(p)
    BY <1>0, <1>2, <2>1, GrowKeeps
  <2>3. StatusRowsFrom
    BY <1>2, <2>1 DEF StatusRowsFrom
  <2>4. ASSUME NEW p \in 1 .. Archives, p # a PROVE MarkerStays(p)
    <3> SUFFICES ASSUME MarkerAlive(p) PROVE MarkerAlive(p)'
      BY DEF MarkerStays
    <3>1. PICK m \in rows : /\ m.in = p /\ m.key = "marker" /\ m.act = "write"
                            /\ \A q \in rows : q.in = p /\ q.key = "marker" => q.at <= m.at
      BY MarkerIsAlive
    <3>2. m \in rows' /\ \A q \in rows' : q.in = p /\ q.key = "marker" => q.at <= m.at
      BY <1>2, <2>4, <3>1
    <3>3. m \in Alive(rows', p, "marker")
      BY <3>1, <3>2, AliveRow
    <3> QED
      BY <3>3 DEF MarkerAlive
  <2> QED
    BY <2>2, <2>3, <2>4 DEF RowsKeep
<1> QED
  BY <1>0, <1>1, <1>2, ForgetRow

\* Deleting the status keeps everything else.
LEMMA ClearRows ==
  ASSUME RowsTyped, Homes, rows' = ForgetKey(0, "status")
  PROVE  /\ RowsKeep /\ ArchivesKeep /\ StatusesFrom /\ StatusRowsFrom /\ HeadStays
<1>0. 0 \in Places /\ "status" \in RowKeys
  BY ArchNumbers DEF Places, RowKeys
<1>1. CASE rows' = rows
  BY <1>1, SameRows
<1>2. ASSUME NEW n \in RowRec, rows' = rows \cup {n}, n.in = 0, n.key = "status", n.act = "tombstone", \A r \in rows : r.key = "status" => r.at < n.at,
             NEW q \in rows, q.key = "status"
      PROVE  RowsKeep /\ ArchivesKeep /\ StatusesFrom /\ StatusRowsFrom /\ HeadStays
  <2>1. n.key # "summary" /\ n.key # "marker" /\ ~StatusRow(n)
    BY <1>2 DEF StatusRow
  <2>2. RowsTyped' /\ SummariesStay /\ MarkersStay /\ HeadStays /\ Homes' /\ StatusesFrom /\ \A p \in 1 .. Archives : MarkerStays(p) /\ OnlyStays(p)
    BY <1>2, <2>1, GrowKeeps
  <2>3. StatusRowsFrom
    BY <1>2 DEF StatusRowsFrom
  <2> QED
    BY <2>2, <2>3 DEF RowsKeep, ArchivesKeep
<1> QED
  BY <1>0, <1>1, <1>2, ForgetRow

-----------------------------------------------------------------------------
(* The steps *)

\* A bound that is spent stays a number.
LEMMA ArchSpends ==
  ASSUME LeftTyped, NEW b \in {"edits", "faults", "restores", "compacts"}, ArchSpend(b)
  PROVE  LeftTyped'
BY DEF LeftTyped, ArchSpend

\* What is not spent stays as it is.
LEMMA LeftStays ==
  ASSUME LeftTyped, left' = left
  PROVE  LeftTyped'
BY DEF LeftTyped

\* Mail that nobody touches stays where it is.
LEMMA MailStays ==
  ASSUME MailTyped, mail' = mail
  PROVE  MailTyped'
BY DEF MailTyped

\* An apply that goes on changes its place and nothing else.
LEMMA ApplyGoesOn ==
  ASSUME apply \in [Appliers -> ApplyRec], NEW c \in Appliers,
         NEW to \in {"idle", "keys", "named", "summed", "moved", "mailed", "marked", "end"}, ApplyGoes(c, to)
  PROVE  /\ apply' \in [Appliers -> ApplyRec] /\ \A d \in Appliers \ {c} : apply'[d] = apply[d]
         /\ apply'[c].pc = to /\ apply'[c].arch = apply[c].arch /\ apply'[c].keep = apply[c].keep
<1>1. apply' = [apply EXCEPT ![c] = [apply[c] EXCEPT !.pc = to]]
  BY DEF ApplyGoes
<1>2. [apply[c] EXCEPT !.pc = to] \in ApplyRec
  BY DEF ApplyRec, Named, Summed
<1>3. apply[c] \in ApplyRec
  OBVIOUS
<1>4. [apply[c] EXCEPT !.pc = to].pc = to /\ [apply[c] EXCEPT !.pc = to].arch = apply[c].arch /\ [apply[c] EXCEPT !.pc = to].keep = apply[c].keep
  BY <1>3 DEF ApplyRec
<1>5. apply'[c] = [apply[c] EXCEPT !.pc = to] /\ \A d \in Appliers \ {c} : apply'[d] = apply[d]
  BY <1>1
<1>6. apply' \in [Appliers -> ApplyRec]
  BY <1>1, <1>2
<1> QED
  BY <1>4, <1>5, <1>6

\* What the step lemmas use of the base of the invariants.
LEMMA BaseFacts ==
  ASSUME ArchBase
  PROVE  /\ RowsTyped /\ Homes /\ MailTyped /\ LeftTyped /\ ArchTypes
         /\ apply \in [Appliers -> ApplyRec] /\ restore \in RestoreRec /\ page \in PageRec
BY DEF ArchBase, ArchTypes, RowsTyped

\* A plan reads the keys to keep and the first name that is free.
LEMMA PlanSteps ==
  ASSUME ArchBase, NEW c \in Appliers, PlanKeys(c) \/ PlanName(c)
  PROVE  ApplyEffect(c) /\ (StatusHome /\ KeepsStatus => SerialEffect(c))
<1>0. RowsTyped /\ Homes /\ MailTyped /\ LeftTyped /\ apply \in [Appliers -> ApplyRec]
  BY BaseFacts
<1>1. rows' = rows /\ mail' = mail /\ restore' = restore /\ page' = page /\ left' = left
  BY DEF PlanKeys, PlanName
<1>2. RowsKeep /\ ArchivesKeep /\ StatusesFrom /\ StatusRowsFrom /\ HeadStays
  BY <1>0, <1>1, SameRows
<1>3. MailTyped' /\ LeftTyped'
  BY <1>0, <1>1, MailStays, LeftStays
<1>4. PICK a \in ApplyRec : /\ apply' = [apply EXCEPT ![c] = a]
                            /\ a.pc \in {"keys", "named", "end"}
                            /\ a.pc = "named" => a.arch \in 1 .. Archives
                            /\ a.pc = "keys" => a.keep = KeepKeys
                            /\ a.pc = "named" => a.keep = apply[c].keep /\ apply[c].pc = "keys"
  <2>0. apply[c] \in ApplyRec /\ 0 \in Places
    BY <1>0, ArchNumbers DEF Places
  <2>1. CASE PlanKeys(c)
    <3>1. KeepKeys \in SUBSET {"status", "summary", "task", "fact"}
      BY DEF KeepKeys
    <3>2. [pc |-> "keys", keep |-> KeepKeys, arch |-> 0] \in ApplyRec
      BY <2>0, <3>1 DEF ApplyRec, Named, Summed
    <3> QED
      BY <2>1, <3>2 DEF PlanKeys
  <2>2. CASE PlanName(c) /\ Unused(rows) = {}
    <3>1. apply' = [apply EXCEPT ![c] = [NoApply EXCEPT !.pc = "end"]]
      BY <2>2 DEF PlanName
    <3>2. [NoApply EXCEPT !.pc = "end"] \in ApplyRec /\ [NoApply EXCEPT !.pc = "end"].pc = "end"
      BY <2>0 DEF ApplyRec, NoApply
    <3> QED
      BY <3>1, <3>2
  <2>3. CASE PlanName(c) /\ Unused(rows) # {}
    <3> DEFINE m == Min(Unused(rows))
    <3>1. apply' = [apply EXCEPT ![c] = [apply[c] EXCEPT !.pc = "named", !.arch = m]] /\ apply[c].pc = "keys"
      BY <2>3 DEF PlanName, ApplyAt
    <3>2. Unused(rows) \in SUBSET Nat /\ Unused(rows) \subseteq 1 .. Archives
      BY ArchNumbers DEF Unused
    <3>3. m \in Unused(rows)
      BY <2>3, <3>2, LeastOne
    <3>4. m \in 1 .. Archives /\ m \in Places
      BY <3>2, <3>3, ArchNumbers DEF Places
    <3> HIDE DEF m
    <3>5. [apply[c] EXCEPT !.pc = "named", !.arch = m] \in ApplyRec
      BY <2>0, <3>4 DEF ApplyRec, Named
    <3>6. /\ [apply[c] EXCEPT !.pc = "named", !.arch = m].pc = "named"
          /\ [apply[c] EXCEPT !.pc = "named", !.arch = m].arch = m
          /\ [apply[c] EXCEPT !.pc = "named", !.arch = m].keep = apply[c].keep
      BY <2>0 DEF ApplyRec
    <3> QED
      BY <3>1, <3>4, <3>5, <3>6
  <2> QED
    BY <2>1, <2>2, <2>3
<1>5. apply' \in [Appliers -> ApplyRec] /\ (\A d \in Appliers \ {c} : apply'[d] = apply[d]) /\ apply'[c] = a
  BY <1>0, <1>4
<1>6. "keys" \notin Named /\ "end" \notin Named /\ a.pc \notin Summed /\ a.pc # "marked" /\ "end" \notin Underway
  BY <1>4 DEF Named, Summed, Underway
<1>7. ApplyEffect(c)
  BY <1>1, <1>2, <1>3, <1>4, <1>5, <1>6 DEF ApplyEffect, ArchivesKeep
<1>8. ASSUME StatusHome, KeepsStatus PROVE SerialEffect(c)
  <2>1. StatusHome'
    BY <1>1, <1>8 DEF StatusHome
  <2>2. ASSUME NEW r \in rows, r.key = "status", a.pc \in Underway PROVE "status" \in a.keep
    <3>1. CASE a.pc = "keys"
      <4>1. r.in = 0
        BY <1>8, <2>2 DEF StatusHome
      <4> QED
        BY <1>4, <2>2, <3>1, <4>1 DEF KeepKeys
    <3>2. CASE a.pc = "named"
      BY <1>4, <1>8, <2>2, <3>2 DEF KeepsStatus, Underway
    <3> QED
      BY <1>4, <2>2, <3>1, <3>2 DEF Underway
  <2> QED
    BY <1>1, <1>2, <1>5, <2>1, <2>2 DEF SerialEffect
<1> QED
  BY <1>7, <1>8

\* The summary.
LEMMA SummaryStep ==
  ASSUME ArchBase, NEW c \in Appliers, WriteSummary(c)
  PROVE  ApplyEffect(c) /\ (StatusHome /\ KeepsStatus => SerialEffect(c))
<1>0. RowsTyped /\ Homes /\ MailTyped /\ LeftTyped /\ apply \in [Appliers -> ApplyRec]
  BY BaseFacts
<1>1. mail' = mail /\ restore' = restore /\ page' = page /\ left' = left /\ apply[c].pc = "named" /\ ApplyGoes(c, "summed")
  BY DEF WriteSummary, ApplyAt
<1>2. /\ RowsKeep /\ ArchivesKeep /\ StatusesFrom /\ StatusRowsFrom /\ HeadStays
      /\ HasSummary'
      /\ \A r \in rows' : StatusRow(r) => NewerThan(r.at)'
  BY <1>0, SummaryRows DEF HasSummary
<1>3. MailTyped' /\ LeftTyped'
  BY <1>0, <1>1, MailStays, LeftStays
<1>4. /\ apply' \in [Appliers -> ApplyRec] /\ \A d \in Appliers \ {c} : apply'[d] = apply[d]
      /\ apply'[c].pc = "summed" /\ apply'[c].arch = apply[c].arch /\ apply'[c].keep = apply[c].keep
  BY <1>0, <1>1, ApplyGoesOn
<1>5. apply[c].arch \in 1 .. Archives
  BY <1>1 DEF ArchBase, NamesAim, Named
<1>6. ApplyEffect(c)
  BY <1>1, <1>2, <1>3, <1>4, <1>5 DEF ApplyEffect, ArchivesKeep
<1>7. ASSUME StatusHome, KeepsStatus PROVE SerialEffect(c)
  <2>1. StatusHome'
    BY <1>2, <1>7 DEF StatusHome, StatusRowsFrom
  <2> QED
    BY <1>1, <1>2, <1>4, <1>7, <2>1 DEF SerialEffect, StatusRowsFrom, KeepsStatus, Underway
<1> QED
  BY <1>6, <1>7

\* The move, which is refused when the archive is in use.
LEMMA MoveStep ==
  ASSUME ArchBase, NEW c \in Appliers, ArchiveNamespace(c)
  PROVE  ApplyEffect(c) /\ (StatusHome /\ KeepsStatus => SerialEffect(c))
<1>0. RowsTyped /\ Homes /\ MailTyped /\ LeftTyped /\ apply \in [Appliers -> ApplyRec]
  BY BaseFacts
<1>1. mail' = mail /\ restore' = restore /\ page' = page /\ left' = left /\ apply[c].pc = "summed"
  BY DEF ArchiveNamespace, ApplyAt
<1>2. MailTyped' /\ LeftTyped'
  BY <1>0, <1>1, MailStays, LeftStays
<1>3. apply[c].arch \in 1 .. Archives /\ apply[c].pc \in Summed
  BY <1>1 DEF ArchBase, NamesAim, Named, Summed
<1>4. CASE apply[c].arch \in Unused(rows)
  <2>1. rows' = MoveRows(c) /\ ApplyGoes(c, "moved")
    BY <1>4 DEF ArchiveNamespace
  <2>2. /\ apply' \in [Appliers -> ApplyRec] /\ \A d \in Appliers \ {c} : apply'[d] = apply[d]
        /\ apply'[c].pc = "moved" /\ apply'[c].arch = apply[c].arch /\ apply'[c].keep = apply[c].keep
    BY <1>0, <2>1, ApplyGoesOn
  <2>3. /\ ~HasMarker(apply[c].arch) /\ RowsKeep /\ StatusesFrom
        /\ \A a \in 1 .. Archives : MarkerStays(a) /\ (a # apply[c].arch => OnlyStays(a))
        /\ \A r \in rows' : r.key = "status" => \E q \in rows : q.key = "status"
        /\ ("status" \in apply[c].keep => StatusRowsFrom /\ HeadStays)
    BY <1>0, <1>4, <2>1, MoveOutRows
  <2>4. ApplyEffect(c)
    BY <1>1, <1>2, <1>3, <2>2, <2>3 DEF ApplyEffect
  <2>5. ASSUME StatusHome, KeepsStatus PROVE SerialEffect(c)
    <3>1. CASE \E r \in rows : r.key = "status"
      <4>1. "status" \in apply[c].keep
        BY <1>1, <2>5, <3>1 DEF KeepsStatus, Underway
      <4>2. StatusHome'
        BY <2>3, <2>5, <4>1 DEF StatusHome, StatusRowsFrom
      <4> QED
        BY <2>2, <2>3, <4>1, <4>2 DEF SerialEffect
    <3>2. CASE ~\E r \in rows : r.key = "status"
      <4>1. ~\E r \in rows' : r.key = "status"
        BY <2>3, <3>2
      <4>2. HeadStays
        BY <3>2, AliveRow DEF HeadStays
      <4>3. StatusHome'
        BY <4>1 DEF StatusHome
      <4> QED
        BY <4>1, <4>2, <4>3 DEF SerialEffect
    <3> QED
      BY <3>1, <3>2
  <2> QED
    BY <2>4, <2>5
<1>5. CASE apply[c].arch \notin Unused(rows)
  <2>1. rows' = rows /\ ApplyGoes(c, "end")
    BY <1>5 DEF ArchiveNamespace
  <2>2. /\ apply' \in [Appliers -> ApplyRec] /\ \A d \in Appliers \ {c} : apply'[d] = apply[d]
        /\ apply'[c].pc = "end"
    BY <1>0, <2>1, ApplyGoesOn
  <2>3. RowsKeep /\ ArchivesKeep /\ StatusesFrom /\ StatusRowsFrom /\ HeadStays
    BY <1>0, <2>1, SameRows
  <2>4. "end" \notin Named /\ "end" \notin Summed /\ "end" \notin Underway
    BY DEF Named, Summed, Underway
  <2>5. ApplyEffect(c)
    BY <1>1, <1>2, <2>2, <2>3, <2>4 DEF ApplyEffect, ArchivesKeep
  <2>6. ASSUME StatusHome PROVE SerialEffect(c)
    <3>1. StatusHome'
      BY <2>1, <2>6 DEF StatusHome
    <3> QED
      BY <2>1, <2>2, <2>3, <2>4, <3>1 DEF SerialEffect
  <2> QED
    BY <2>5, <2>6
<1> QED
  BY <1>4, <1>5

\* The mail, and a call that fails: the rows stay as they are.
LEMMA QuietSteps ==
  ASSUME ArchBase, NEW c \in Appliers, ArchiveReadMessages(c) \/ ApplyStops(c)
  PROVE  ApplyEffect(c) /\ (StatusHome /\ KeepsStatus => SerialEffect(c))
<1>0. RowsTyped /\ Homes /\ MailTyped /\ LeftTyped /\ apply \in [Appliers -> ApplyRec]
  BY BaseFacts
<1>1. rows' = rows /\ restore' = restore /\ page' = page
  BY DEF ArchiveReadMessages, ApplyStops
<1>2. RowsKeep /\ ArchivesKeep /\ StatusesFrom /\ StatusRowsFrom /\ HeadStays
  BY <1>0, <1>1, SameRows
<1>3. PICK to \in {"mailed", "end"} : ApplyGoes(c, to) /\ (to = "mailed" => apply[c].pc = "moved")
  BY DEF ArchiveReadMessages, ApplyStops, ApplyAt
<1>4. /\ apply' \in [Appliers -> ApplyRec] /\ \A d \in Appliers \ {c} : apply'[d] = apply[d]
      /\ apply'[c].pc = to /\ apply'[c].arch = apply[c].arch
  <2>1. to \in {"idle", "keys", "named", "summed", "moved", "mailed", "marked", "end"} /\ ApplyGoes(c, to)
    BY <1>3
  <2> QED
    BY <1>0, <2>1, ApplyGoesOn
<1>5. MailTyped' /\ LeftTyped'
  <2>1. CASE ArchiveReadMessages(c)
    <3>1. left' = left /\ mail' = [x \in Letter |-> IF mail[x].in = 0 /\ mail[x].acked THEN [mail[x] EXCEPT !.in = apply[c].arch] ELSE mail[x]]
      BY <2>1 DEF ArchiveReadMessages
    <3>2. apply[c].arch \in Places
      BY <1>0 DEF ApplyRec
    <3>3. \A x \in Letter : mail[x] \in [in : Places, acked : BOOLEAN]
      BY <1>0 DEF MailTyped
    <3>4. \A x \in Letter : [mail[x] EXCEPT !.in = apply[c].arch] \in [in : Places, acked : BOOLEAN]
      BY <3>2, <3>3
    <3>5. MailTyped'
      BY <3>1, <3>3, <3>4 DEF MailTyped
    <3> QED
      BY <1>0, <3>1, <3>5, LeftStays
  <2>2. CASE ApplyStops(c)
    BY <1>0, <2>2, ArchSpends, MailStays DEF ApplyStops
  <2> QED
    BY <2>1, <2>2
<1>6. apply[c].pc = "moved" => apply[c].arch \in 1 .. Archives /\ apply[c].pc \in Summed
  BY DEF ArchBase, NamesAim, Named, Summed
<1>7. "end" \notin Named /\ "end" \notin Summed /\ to \notin Underway /\ to # "marked"
  BY DEF Named, Summed, Underway
<1>8. ApplyEffect(c)
  BY <1>1, <1>2, <1>3, <1>4, <1>5, <1>6, <1>7 DEF ApplyEffect, ArchivesKeep
<1>9. ASSUME StatusHome PROVE SerialEffect(c)
  <2>1. StatusHome'
    BY <1>1, <1>9 DEF StatusHome
  <2> QED
    BY <1>1, <1>2, <1>4, <1>7, <2>1 DEF SerialEffect
<1> QED
  BY <1>8, <1>9

\* The record: the marker of the archive and then the status of the namespace.
LEMMA RecordStep ==
  ASSUME ArchBase, NEW c \in Appliers, RecordConsolidation(c)
  PROVE  ApplyEffect(c) /\ (StatusHome /\ KeepsStatus => SerialEffect(c))
<1>0. RowsTyped /\ Homes /\ MailTyped /\ LeftTyped /\ apply \in [Appliers -> ApplyRec]
  BY BaseFacts
<1>1. mail' = mail /\ restore' = restore /\ page' = page /\ left' = left
  BY DEF RecordConsolidation
<1>2. MailTyped' /\ LeftTyped'
  BY <1>0, <1>1, MailStays, LeftStays
<1>3. CASE apply[c].pc = "mailed" /\ ApplyGoes(c, "marked") /\ rows' = Store(apply[c].arch, "marker", "write", 0)
  <2>1. apply[c].arch \in 1 .. Archives /\ apply[c].pc \in Summed
    BY <1>3 DEF ArchBase, NamesAim, Named, Summed
  <2>2. /\ apply' \in [Appliers -> ApplyRec] /\ \A d \in Appliers \ {c} : apply'[d] = apply[d]
        /\ apply'[c].pc = "marked" /\ apply'[c].arch = apply[c].arch /\ apply'[c].keep = apply[c].keep
    BY <1>0, <1>3, ApplyGoesOn
  <2>3. PICK a \in 1 .. Archives : a = apply[c].arch
    BY <2>1
  <2>4. /\ RowsKeep /\ ArchivesKeep /\ StatusesFrom /\ StatusRowsFrom /\ HeadStays
        /\ MarkerAlive(a)' /\ HasMarker(a)'
    BY <1>0, <1>3, <2>3, MarkerRows
  <2>5. MarkerAlive(apply[c].arch)' /\ HasMarker(apply[c].arch)'
    <3>1. apply'[c].arch = a
      BY <2>2, <2>3
    <3> QED
      BY <2>3, <2>4, <3>1 DEF MarkerAlive, HasMarker
  <2>6. ApplyEffect(c)
    BY <1>1, <1>2, <2>1, <2>2, <2>4, <2>5 DEF ApplyEffect, ArchivesKeep
  <2>7. ASSUME StatusHome PROVE SerialEffect(c)
    <3>1. StatusHome'
      BY <2>4, <2>7 DEF StatusHome, StatusRowsFrom
    <3>2. "marked" \notin Underway
      BY DEF Underway
    <3> QED
      BY <2>2, <2>4, <3>1, <3>2 DEF SerialEffect, StatusRowsFrom
  <2> QED
    BY <2>6, <2>7
<1>4. CASE apply[c].pc = "marked" /\ ApplyGoes(c, "end") /\ rows' = Store(0, "status", "write", apply[c].arch)
  <2>1. apply[c].arch \in 1 .. Archives
    BY <1>4 DEF ArchBase, NamesAim, Named, Summed
  <2>2. /\ apply' \in [Appliers -> ApplyRec] /\ \A d \in Appliers \ {c} : apply'[d] = apply[d]
        /\ apply'[c].pc = "end" /\ apply'[c].arch = apply[c].arch
    BY <1>0, <1>4, ApplyGoesOn
  <2>3. /\ RowsKeep /\ ArchivesKeep /\ HeadStays
        /\ \A r \in rows' : r \in rows \/ (r.in = 0 /\ r.key = "status" /\ r.val = apply[c].arch)
    BY <1>0, <1>4, <2>1, StatusRows
  <2>4. "end" \notin Named /\ "end" \notin Summed /\ "end" \notin Underway
    BY DEF Named, Summed, Underway
  <2>5. ApplyEffect(c)
    BY <1>1, <1>2, <1>4, <2>2, <2>3, <2>4 DEF ApplyEffect, ArchivesKeep
  <2>6. ASSUME StatusHome PROVE SerialEffect(c)
    <3>1. StatusHome'
      BY <2>3, <2>6 DEF StatusHome
    <3> QED
      BY <1>4, <2>2, <2>3, <2>4, <3>1 DEF SerialEffect
  <2> QED
    BY <2>5, <2>6
<1> QED
  BY <1>3, <1>4 DEF RecordConsolidation, ApplyAt

\* Every step of an apply.
LEMMA ApplySteps ==
  ASSUME ArchBase, NEW c \in Appliers, ApplyStep(c)
  PROVE  ApplyEffect(c) /\ (StatusHome /\ KeepsStatus => SerialEffect(c))
BY PlanSteps, SummaryStep, MoveStep, QuietSteps, RecordStep DEF ApplyStep

\* The steps of other agents, and the compactions.
LEMMA OtherSteps ==
  ASSUME ArchBase, AgentWrites \/ AgentAcks \/ Compact
  PROVE  CalmEffect
<1>0. RowsTyped /\ Homes /\ MailTyped /\ LeftTyped /\ ArchTypes /\ restore \in RestoreRec
  BY BaseFacts
<1>1. RowsKeep /\ ArchivesKeep /\ StatusesFrom /\ StatusRowsFrom /\ HeadStays
  BY <1>0, AgentRows, CompactRows, SameRows DEF AgentAcks
<1>2. apply' = apply /\ restore' = restore
  BY DEF AgentWrites, AgentAcks, Compact
<1>3. MailTyped' /\ LeftTyped'
  <2>1. CASE AgentWrites \/ Compact
    BY <1>0, <2>1, MailStays, ArchSpends DEF AgentWrites, Compact
  <2>2. CASE AgentAcks
    <3>1. PICK x \in Letter : mail' = [mail EXCEPT ![x] = [mail[x] EXCEPT !.acked = TRUE]]
      BY <2>2 DEF AgentAcks
    <3>2. [mail[x] EXCEPT !.acked = TRUE] \in [in : Places, acked : BOOLEAN]
      BY <1>0 DEF MailTyped
    <3>3. MailTyped'
      BY <1>0, <3>1, <3>2 DEF MailTyped
    <3> QED
      BY <1>0, <2>2, <3>3, LeftStays DEF AgentAcks
  <2> QED
    BY <2>1, <2>2
<1>4. restore.pc # "idle" => restore.arch \in 1 .. Archives
  BY DEF ArchBase, NamesAim
<1>5. restore.pc \in {"read", "moved"} => restore.pc # "idle"
  OBVIOUS
<1>6. RestoreHolds
  BY DEF ArchBase
<1>7. RestoreHolds'
  <2>1. ASSUME restore.pc \in {"read", "moved"} PROVE MarkerAlive(restore.arch)'
    <3>1. PICK a \in 1 .. Archives : a = restore.arch
      BY <1>4, <1>5, <2>1
    <3>2. MarkerAlive(a)'
      BY <1>1, <1>6, <2>1, <3>1 DEF ArchivesKeep, MarkerStays, RestoreHolds
    <3>3. restore'.arch = a
      BY <1>2, <3>1
    <3> QED
      BY <3>2, <3>3 DEF MarkerAlive
  <2>2. ASSUME restore.pc = "moved" PROVE OnlyMarkers(restore.arch)'
    <3>1. PICK a \in 1 .. Archives : a = restore.arch
      BY <1>4, <1>5, <2>2
    <3>2. OnlyMarkers(a)'
      BY <1>1, <1>6, <2>2, <3>1 DEF ArchivesKeep, OnlyStays, RestoreHolds
    <3>3. restore'.arch = a
      BY <1>2, <3>1
    <3> QED
      BY <3>2, <3>3 DEF OnlyMarkers
  <2> QED
    BY <1>2, <2>1, <2>2 DEF RestoreHolds
<1>8. \A a \in 1 .. Archives : Kept(a) => Kept(a)'
  BY <1>1 DEF ArchivesKeep, MarkerStays, OnlyStays, Kept
<1> QED
  BY <1>0, <1>1, <1>2, <1>3, <1>4, <1>7, <1>8 DEF CalmEffect

\* The steps of a restore.
LEMMA RestoreSteps ==
  ASSUME ArchBase, RestoreStep
  PROVE  CalmEffect
<1>0. RowsTyped /\ Homes /\ MailTyped /\ LeftTyped /\ ArchTypes /\ restore \in RestoreRec
  BY BaseFacts
<1>1. apply' = apply
  BY DEF RestoreStep, RestoreReads, RestoreMoves, RestoreUnmarks, RestoreChecks, RestoreClears, RestoreMail, RestoreStops
<1>2. restore.pc # "idle" => restore.arch \in 1 .. Archives
  BY DEF ArchBase, NamesAim
<1>3. MailTyped' /\ LeftTyped'
  <2>1. CASE RestoreMail
    <3>1. left' = left /\ mail' = [x \in Letter |-> IF mail[x].in = restore.arch THEN [mail[x] EXCEPT !.in = 0] ELSE mail[x]]
      BY <2>1 DEF RestoreMail
    <3>2. 0 \in Places
      BY ArchNumbers DEF Places
    <3>3. \A x \in Letter : mail[x] \in [in : Places, acked : BOOLEAN]
      BY <1>0 DEF MailTyped
    <3>4. \A x \in Letter : [mail[x] EXCEPT !.in = 0] \in [in : Places, acked : BOOLEAN]
      BY <3>2, <3>3
    <3>5. MailTyped'
      BY <3>1, <3>3, <3>4 DEF MailTyped
    <3> QED
      BY <1>0, <3>1, <3>5, LeftStays
  <2>2. CASE RestoreReads \/ RestoreStops
    BY <1>0, <2>2, MailStays, ArchSpends DEF RestoreReads, RestoreStops
  <2>3. CASE RestoreMoves \/ RestoreUnmarks \/ RestoreChecks \/ RestoreClears
    BY <1>0, <2>3, MailStays, LeftStays DEF RestoreMoves, RestoreUnmarks, RestoreChecks, RestoreClears
  <2> QED
    BY <2>1, <2>2, <2>3 DEF RestoreStep
<1>4. ASSUME NEW from, NEW to \in {"idle", "moved", "unmarked", "ours", "cleared"}, RestoreGoes(from, to)
      PROVE  restore' \in RestoreRec /\ restore'.pc = to /\ restore'.arch = restore.arch
  BY <1>0, <1>4 DEF RestoreGoes, RestoreRec
<1>5. CASE RestoreReads
  <2>1. PICK a \in 1 .. Archives : MarkerAlive(a) /\ restore' = [pc |-> "read", arch |-> a]
    BY <1>5 DEF RestoreReads, MarkerAlive
  <2>2. restore' \in RestoreRec /\ restore'.pc = "read" /\ restore'.arch = a
    BY <2>1, ArchNumbers DEF RestoreRec, Places
  <2>3. rows' = rows
    BY <1>5 DEF RestoreReads
  <2>4. RestoreHolds'
    BY <2>1, <2>2, <2>3 DEF RestoreHolds, MarkerAlive
  <2>5. RowsKeep /\ ArchivesKeep /\ StatusesFrom /\ StatusRowsFrom /\ HeadStays
    BY <1>0, <2>3, SameRows
  <2>6. \A p \in 1 .. Archives : Kept(p) => Kept(p)'
    BY <2>5 DEF ArchivesKeep, MarkerStays, OnlyStays, Kept
  <2> QED
    BY <1>1, <1>3, <2>2, <2>4, <2>5, <2>6 DEF CalmEffect
<1>6. CASE RestoreMoves
  <2>1. restore.pc = "read" /\ restore' \in RestoreRec /\ restore'.pc = "moved" /\ restore'.arch = restore.arch
    BY <1>4, <1>6 DEF RestoreMoves, RestoreGoes
  <2>2. PICK a \in 1 .. Archives : a = restore.arch
    BY <1>2, <2>1
  <2>3. RowsKeep /\ ArchivesKeep /\ StatusesFrom /\ StatusRowsFrom /\ HeadStays /\ OnlyMarkers(restore.arch)'
    BY <1>0, <1>6, <2>2, MoveBackRows
  <2>4. MarkerAlive(a)'
    BY <2>1, <2>2, <2>3 DEF ArchivesKeep, MarkerStays, ArchBase, RestoreHolds
  <2>5. RestoreHolds'
    BY <2>1, <2>2, <2>3, <2>4 DEF RestoreHolds, MarkerAlive
  <2>6. \A p \in 1 .. Archives : Kept(p) => Kept(p)'
    BY <2>3 DEF ArchivesKeep, MarkerStays, OnlyStays, Kept
  <2> QED
    BY <1>1, <1>3, <2>1, <2>2, <2>3, <2>5, <2>6 DEF CalmEffect
<1>7. CASE RestoreUnmarks
  <2>1. restore.pc = "moved" /\ restore' \in RestoreRec /\ restore'.pc = "unmarked" /\ restore'.arch = restore.arch
    BY <1>4, <1>7 DEF RestoreUnmarks, RestoreGoes
  <2>2. PICK a \in 1 .. Archives : a = restore.arch
    BY <1>2, <2>1
  <2>3. /\ RowsKeep /\ StatusesFrom /\ StatusRowsFrom /\ HeadStays
        /\ \A p \in 1 .. Archives : OnlyStays(p) /\ (p # a => MarkerStays(p))
    BY <1>0, <1>7, <2>2, UnmarkRows DEF RestoreUnmarks
  <2>4. OnlyMarkers(a)
    BY <2>1, <2>2 DEF ArchBase, RestoreHolds
  <2>5. \A p \in 1 .. Archives : Kept(p) => Kept(p)'
    BY <2>3, <2>4 DEF MarkerStays, OnlyStays, Kept
  <2>6. RestoreHolds'
    BY <2>1 DEF RestoreHolds
  <2> QED
    BY <1>1, <1>3, <2>1, <2>2, <2>3, <2>5, <2>6 DEF CalmEffect
<1>8. CASE RestoreClears
  <2>1. restore.pc = "ours" /\ restore' \in RestoreRec /\ restore'.pc = "cleared" /\ restore'.arch = restore.arch
    BY <1>4, <1>8 DEF RestoreClears, RestoreGoes
  <2>2. RowsKeep /\ ArchivesKeep /\ StatusesFrom /\ StatusRowsFrom /\ HeadStays
    BY <1>0, <1>8, ClearRows DEF RestoreClears
  <2>3. \A p \in 1 .. Archives : Kept(p) => Kept(p)'
    BY <2>2 DEF ArchivesKeep, MarkerStays, OnlyStays, Kept
  <2>4. RestoreHolds'
    BY <2>1 DEF RestoreHolds
  <2> QED
    BY <1>1, <1>2, <1>3, <2>1, <2>2, <2>3, <2>4 DEF CalmEffect
<1>9. CASE RestoreChecks \/ RestoreMail \/ RestoreStops
  <2>1. rows' = rows
    BY <1>9 DEF RestoreChecks, RestoreMail, RestoreStops
  <2>2. RowsKeep /\ ArchivesKeep /\ StatusesFrom /\ StatusRowsFrom /\ HeadStays
    BY <1>0, <2>1, SameRows
  <2>3. \A p \in 1 .. Archives : Kept(p) => Kept(p)'
    BY <2>2 DEF ArchivesKeep, MarkerStays, OnlyStays, Kept
  <2>4. restore' \in RestoreRec /\ restore'.pc \in {"ours", "cleared", "idle"} /\ (restore'.pc # "idle" => restore'.arch \in 1 .. Archives)
    <3>1. CASE RestoreChecks
      <4>1. PICK to \in {"ours", "cleared"} : RestoreGoes("unmarked", to)
        BY <3>1 DEF RestoreChecks
      <4>2. restore.pc = "unmarked"
        BY <4>1 DEF RestoreGoes
      <4>3. to \in {"idle", "moved", "unmarked", "ours", "cleared"}
        BY <4>1
      <4> QED
        BY <1>2, <1>4, <4>1, <4>2, <4>3
    <3>2. CASE RestoreMail
      BY <1>4, <3>2 DEF RestoreMail
    <3>3. CASE RestoreStops
      <4>1. restore' = NoRestore
        BY <3>3 DEF RestoreStops
      <4> QED
        BY <4>1, ArchNumbers DEF NoRestore, RestoreRec, Places
    <3> QED
      BY <1>9, <3>1, <3>2, <3>3
  <2>5. RestoreHolds'
    BY <2>4 DEF RestoreHolds
  <2> QED
    BY <1>1, <1>3, <2>2, <2>3, <2>4, <2>5 DEF CalmEffect
<1> QED
  BY <1>5, <1>6, <1>7, <1>8, <1>9 DEF RestoreStep

\* The reader of the digest, and a step of another component.
LEMMA ReaderSteps ==
  ASSUME ArchBase, DigestStarts \/ DigestPage \/ UNCHANGED archVars
  PROVE  CalmEffect
<1>0. RowsTyped /\ Homes /\ MailTyped /\ LeftTyped /\ ArchTypes /\ restore \in RestoreRec
  BY BaseFacts
<1>1. rows' = rows /\ apply' = apply /\ restore' = restore /\ mail' = mail /\ left' = left
  BY DEF DigestStarts, DigestPage, archVars
<1>2. RowsKeep /\ ArchivesKeep /\ StatusesFrom /\ StatusRowsFrom /\ HeadStays
  BY <1>0, <1>1, SameRows
<1>3. \A p \in 1 .. Archives : Kept(p) => Kept(p)'
  BY <1>2 DEF ArchivesKeep, MarkerStays, OnlyStays, Kept
<1>4. RestoreHolds'
  BY <1>1 DEF ArchBase, RestoreHolds, MarkerAlive, OnlyMarkers
<1>5. restore.pc # "idle" => restore.arch \in 1 .. Archives
  BY DEF ArchBase, NamesAim
<1> QED
  BY <1>0, <1>1, <1>2, <1>3, <1>4, <1>5, MailStays, LeftStays DEF CalmEffect

\* A page shows the next keys in order, so what is live and not after the new
\* cursor has been shown.
LEMMA PageSteps ==
  ASSUME ArchBase, [ArchNext]_archVars
  PROVE  page' \in PageRec /\ PageIsFull'
<1>0. page \in PageRec /\ PageIsFull
  BY BaseFacts DEF ArchBase
<1>1. DOMAIN FactKeys = 1 .. 4
  BY DEF FactKeys
<1>2. LiveIndexes \subseteq 1 .. 4
  BY <1>1 DEF LiveIndexes
<1>3. CASE page' = page
  BY <1>0, <1>3 DEF PageIsFull
<1>4. CASE DigestStarts
  <2>1. page' = [pc |-> "open", cursor |-> 0, seen |-> {}, steady |-> LiveIndexes]
    BY <1>4 DEF DigestStarts
  <2>2. page' \in PageRec
    BY <1>2, <2>1 DEF PageRec
  <2> QED
    BY <1>2, <2>1, <2>2 DEF PageIsFull
<1>5. CASE DigestPage
  <2> DEFINE c == page.cursor
             last == After(c) = Shown(c)
  <2>1. c \in 0 .. 4 /\ page.seen \subseteq 1 .. 4 /\ page.steady \subseteq 1 .. 4
    BY <1>0 DEF PageRec
  <2>2. After(c) \subseteq 1 .. 4 /\ Shown(c) \subseteq After(c)
    BY <1>2 DEF After, Shown
  <2>3. page' = [page EXCEPT !.seen = page.seen \cup Shown(c), !.steady = page.steady \cap LiveIndexes,
                             !.pc = IF last THEN "end" ELSE "open", !.cursor = IF last THEN c ELSE NextCursor(c)]
    BY <1>5 DEF DigestPage
  <2>4. /\ page'.seen = page.seen \cup Shown(c) /\ page'.steady = page.steady \cap LiveIndexes
        /\ page'.pc = IF last THEN "end" ELSE "open"
        /\ page'.cursor = IF last THEN c ELSE NextCursor(c)
    BY <1>0, <2>3 DEF PageRec
  <2>5. CASE last
    <3>1. page'.pc = "end" /\ page'.cursor = c
      BY <2>4, <2>5
    <3>2. page' \in PageRec
      <4>1. page' = [page EXCEPT !.seen = page.seen \cup Shown(c), !.steady = page.steady \cap LiveIndexes,
                                 !.pc = "end", !.cursor = c]
        BY <2>3, <2>5
      <4> QED
        BY <1>0, <2>1, <2>2, <4>1 DEF PageRec
    <3>3. \A i \in page'.steady : i \in page'.seen
      <4> SUFFICES ASSUME NEW i \in page.steady, i \in LiveIndexes PROVE i \in page.seen \cup Shown(c)
        BY <2>4
      <4>1. CASE i <= c
        BY <1>0, <4>1 DEF PageIsFull
      <4>2. CASE ~(i <= c)
        <5>1. i \in After(c)
          BY <2>1, <4>2 DEF After
        <5> QED
          BY <2>5, <5>1
      <4> QED
        BY <4>1, <4>2
    <3> QED
      BY <3>2, <3>3 DEF PageIsFull
  <2>6. CASE ~last
    <3> DEFINE m == NextCursor(c)
    <3>1. page'.pc = "open" /\ page'.cursor = m
      BY <2>4, <2>6
    <3>2. After(c) # {}
      BY <2>2, <2>6
    <3>3. After(c) \in SUBSET Nat
      BY <2>2
    <3>4. PICK i \in After(c) : \A j \in After(c) : i <= j
      BY <3>2, <3>3, LeastOne
    <3>5. i \in Shown(c)
      <4>1. {j \in After(c) : j < i} = {}
        BY <2>2, <3>4
      <4>2. Cardinality({j \in After(c) : j < i}) = 0
        BY <4>1, FS_EmptySet
      <4> QED
        BY <3>4, <4>2, ArchNumbers DEF Shown
    <3>6. Shown(c) \in SUBSET Nat /\ Shown(c) # {} /\ \A x \in Shown(c) : x <= 4
      BY <2>2, <3>5
    <3>7. m \in Shown(c)
      BY <3>6, Greatest DEF NextCursor
    <3>8. m \in 1 .. 4
      BY <2>2, <3>7
    <3> HIDE DEF m
    <3>9. page' \in PageRec
      <4>1. page' = [page EXCEPT !.seen = page.seen \cup Shown(c), !.steady = page.steady \cap LiveIndexes,
                                 !.pc = "open", !.cursor = m]
        BY <2>3, <2>6 DEF m
      <4>2. /\ page.seen \cup Shown(c) \in SUBSET (1 .. 4) /\ page.steady \cap LiveIndexes \in SUBSET (1 .. 4)
            /\ m \in 0 .. 4 /\ "open" \in {"idle", "open", "end"}
        BY <2>1, <2>2, <3>8
      <4> QED
        BY <1>0, <4>1, <4>2 DEF PageRec
    <3>10. ASSUME NEW x \in After(c), x <= m PROVE x \in Shown(c)
      <4> DEFINE X == {j \in After(c) : j < x}
                 M == {j \in After(c) : j < m}
      <4>1. X \subseteq M
        BY <2>2, <3>8, <3>10
      <4>2. IsFiniteSet(M)
        <5>1. IsFiniteSet(1 .. 4)
          <6>1. 1 \in Int /\ 4 \in Int
            OBVIOUS
          <6> QED
            BY <6>1, FS_Interval, Zenon
        <5>2. M \subseteq 1 .. 4
          BY <2>2
        <5> QED
          BY <5>1, <5>2, FS_Subset
      <4>3. Cardinality(X) <= Cardinality(M) /\ Cardinality(X) \in Nat /\ Cardinality(M) \in Nat
        BY <4>1, <4>2, FS_Subset, FS_CardinalityType
      <4>4. Cardinality(M) < PageSize
        BY <3>7 DEF Shown
      <4>5. Cardinality(X) < PageSize
        BY <4>3, <4>4, ArchNumbers
      <4> QED
        BY <4>5 DEF Shown
    <3>11. \A x \in page'.steady : x <= page'.cursor => x \in page'.seen
      <4> SUFFICES ASSUME NEW x \in page.steady, x \in LiveIndexes, x <= m PROVE x \in page.seen \cup Shown(c)
        BY <2>4, <3>1
      <4>1. CASE x <= c
        BY <1>0, <4>1 DEF PageIsFull
      <4>2. CASE ~(x <= c)
        <5>1. x \in After(c)
          BY <2>1, <4>2 DEF After
        <5> QED
          BY <3>10, <5>1
      <4> QED
        BY <4>1, <4>2
    <3> QED
      BY <3>1, <3>9, <3>11 DEF PageIsFull
  <2> QED
    BY <2>5, <2>6
<1>6. CASE AgentWrites \/ AgentAcks \/ Compact \/ UNCHANGED archVars
  <2>1. page' = page
    BY <1>6 DEF AgentWrites, AgentAcks, Compact, archVars
  <2> QED
    BY <1>3, <2>1
<1>7. CASE \E c \in Appliers : ApplyStep(c)
  <2>1. page' = page
    BY <1>7, ApplySteps DEF ApplyEffect
  <2> QED
    BY <1>3, <2>1
<1>8. CASE RestoreStep
  <2>1. page' = page
    BY <1>8 DEF RestoreStep, RestoreReads, RestoreMoves, RestoreUnmarks, RestoreChecks, RestoreClears, RestoreMail, RestoreStops
  <2> QED
    BY <1>3, <2>1
<1> QED
  BY <1>4, <1>5, <1>6, <1>7, <1>8 DEF ArchNext

\* Every step is one of an apply or leaves the applies alone.
LEMMA CalmOrApply ==
  ASSUME ArchBase, [ArchNext]_archVars
  PROVE  \/ CalmEffect
         \/ \E c \in Appliers : ApplyStep(c) /\ ApplyEffect(c) /\ (StatusHome /\ KeepsStatus => SerialEffect(c))
BY OtherSteps, RestoreSteps, ReaderSteps, ApplySteps DEF ArchNext

\* What a summary is newer than stays so.
LEMMA NewerStays ==
  ASSUME RowsTyped, RowsKeep, NEW t \in Nat
  PROVE  (NewerThan(t) => NewerThan(t)') /\ (HasSummary => HasSummary')
<1>1. \A u \in rows : u.at \in Nat
  BY DEF RowsTyped, RowRec
<1>2. \A v \in rows' : v.at \in Nat
  BY DEF RowsKeep, RowsTyped, RowRec
<1>3. SummariesStay
  BY DEF RowsKeep
<1>4. ASSUME NewerThan(t) PROVE NewerThan(t)'
  <2>1. PICK u \in rows : u.key = "summary" /\ u.at > t
    BY <1>4 DEF NewerThan
  <2>2. PICK v \in rows' : v.key = "summary" /\ v.at >= u.at
    BY <1>3, <2>1 DEF SummariesStay
  <2>3. v.at > t
    BY <1>1, <1>2, <2>1, <2>2
  <2> QED
    BY <2>2, <2>3 DEF NewerThan
<1>5. HasSummary => HasSummary'
  BY <1>3 DEF HasSummary, SummariesStay
<1> QED
  BY <1>4, <1>5

\* The base of the invariants holds from the start, and every step keeps it.
LEMMA ArchInitBase == ArchInit => ArchBase
<1> SUFFICES ASSUME ArchInit PROVE ArchBase
  OBVIOUS
<1> DEFINE f == Row(0, "fact", 1, "write", 0)
           k == Row(0, "task", 1, "write", 0)
<1>0. 0 \in Places
  BY ArchNumbers DEF Places
<1>1. f \in RowRec /\ k \in RowRec /\ f.key = "fact" /\ k.key = "task" /\ f.at = 1 /\ k.at = 1
  BY <1>0 DEF Row, RowRec, RowKeys
<1>2. rows = {f, k}
  BY DEF ArchInit
<1> HIDE DEF f, k
<1>3. rows \subseteq RowRec
  BY <1>1, <1>2
<1>4. TimesBounded
  <2>1. 1 \in Nat /\ \A r \in rows : r.at <= 1
    BY <1>1, <1>2
  <2> QED
    BY <2>1 DEF TimesBounded
<1>5. Homes /\ ~\E r \in rows : StatusRow(r)
  BY <1>1, <1>2 DEF Homes, StatusRow
<1>6. NoApply \in ApplyRec /\ NoApply.pc = "idle"
  BY <1>0 DEF NoApply, ApplyRec
<1>7. apply \in [Appliers -> ApplyRec] /\ \A c \in Appliers : apply[c].pc = "idle"
  BY <1>6 DEF ArchInit
<1>8. restore \in RestoreRec /\ restore.pc = "idle"
  BY <1>0 DEF ArchInit, NoRestore, RestoreRec
<1>9. page \in PageRec /\ page.pc = "idle" /\ page.steady = {}
  BY DEF ArchInit, NoPage, PageRec
<1>10. MailTyped
  BY <1>0 DEF ArchInit, MailTyped
<1>11. LeftTyped
  BY ArchNumbers DEF ArchInit, LeftTyped
<1>12. NamesAim /\ SummaryFirst
  BY <1>5, <1>7, <1>8 DEF NamesAim, SummaryFirst, Named, Summed
<1>13. RestoreHolds /\ PageIsFull
  BY <1>8, <1>9 DEF RestoreHolds, PageIsFull
<1> QED
  BY <1>3, <1>4, <1>5, <1>7, <1>8, <1>9, <1>10, <1>11, <1>12, <1>13 DEF ArchBase, ArchTypes

\* Every step keeps the base of the invariants: shapes, homes, names, the summary, the restore and the page.
LEMMA BaseStep ==
  ASSUME ArchBase, [ArchNext]_archVars
  PROVE  ArchBase'
<1>0. RowsTyped /\ Homes /\ MailTyped /\ LeftTyped /\ ArchTypes /\ apply \in [Appliers -> ApplyRec] /\ restore \in RestoreRec
  BY BaseFacts
<1>1. page' \in PageRec /\ PageIsFull'
  BY PageSteps
<1>2. NamesAim /\ SummaryFirst /\ RestoreHolds
  BY DEF ArchBase
<1>3. CASE CalmEffect
  <2>1. ArchTypes' /\ Homes'
    BY <1>0, <1>1, <1>3 DEF CalmEffect, RowsKeep, ArchTypes, RowsTyped
  <2>2. NamesAim'
    BY <1>2, <1>3 DEF CalmEffect, NamesAim
  <2>3. HasSummary => HasSummary'
    BY <1>0, <1>3, NewerStays DEF CalmEffect
  <2>4. SummaryFirst'
    BY <1>2, <1>3, <2>3 DEF CalmEffect, StatusesFrom, SummaryFirst
  <2> QED
    BY <1>1, <1>3, <2>1, <2>2, <2>4 DEF CalmEffect, ArchBase
<1>4. ASSUME NEW c \in Appliers, ApplyEffect(c) PROVE ArchBase'
  <2>0. RowsKeep /\ MailTyped' /\ LeftTyped' /\ restore' = restore
        /\ apply' \in [Appliers -> ApplyRec] /\ (\A d \in Appliers \ {c} : apply'[d] = apply[d])
    BY <1>4 DEF ApplyEffect
  <2>1. ArchTypes' /\ Homes'
    BY <1>0, <1>1, <2>0 DEF RowsKeep, ArchTypes, RowsTyped
  <2>2. NamesAim'
    <3>1. ASSUME NEW d \in Appliers, apply'[d].pc \in Named PROVE apply'[d].arch \in 1 .. Archives
      <4>1. CASE d = c
        BY <1>4, <3>1, <4>1 DEF ApplyEffect
      <4>2. CASE d # c
        BY <1>2, <2>0, <3>1, <4>2 DEF NamesAim
      <4> QED
        BY <4>1, <4>2
    <3> QED
      BY <1>2, <2>0, <3>1 DEF NamesAim
  <2>3. HasSummary => HasSummary'
    BY <1>0, <2>0, NewerStays
  <2>4. SummaryFirst'
    <3>1. ASSUME NEW r \in rows', StatusRow(r) PROVE HasSummary
      <4>1. CASE StatusesFrom
        BY <1>2, <3>1, <4>1 DEF StatusesFrom, SummaryFirst
      <4>2. CASE apply[c].pc = "marked"
        BY <1>2, <4>2 DEF SummaryFirst, Summed
      <4> QED
        BY <1>4, <4>1, <4>2 DEF ApplyEffect
    <3>2. ASSUME NEW d \in Appliers, apply'[d].pc \in Summed PROVE HasSummary \/ HasSummary'
      <4>1. CASE d = c
        BY <1>2, <1>4, <3>2, <4>1 DEF ApplyEffect, SummaryFirst
      <4>2. CASE d # c
        BY <1>2, <2>0, <3>2, <4>2 DEF SummaryFirst
      <4> QED
        BY <4>1, <4>2
    <3> QED
      BY <2>3, <3>1, <3>2 DEF SummaryFirst
  <2>5. RestoreHolds'
    <3>0. restore.pc # "idle" => restore.arch \in 1 .. Archives
      BY <1>2 DEF NamesAim
    <3>1. ASSUME restore.pc \in {"read", "moved"} PROVE MarkerAlive(restore.arch)' /\ (restore.pc = "moved" => OnlyMarkers(restore.arch)')
      <4>1. PICK a \in 1 .. Archives : a = restore.arch
        BY <3>0, <3>1
      <4>2. MarkerAlive(a) /\ (restore.pc = "moved" => OnlyMarkers(a))
        BY <1>2, <3>1, <4>1 DEF RestoreHolds
      <4>3. HasMarker(a)
        BY <4>2, MarkerIsAlive DEF HasMarker
      <4>4. MarkerAlive(a)' /\ (restore.pc = "moved" => OnlyMarkers(a)')
        BY <1>4, <4>2, <4>3 DEF ApplyEffect, MarkerStays, OnlyStays
      <4>5. restore'.arch = a
        BY <2>0, <4>1
      <4> QED
        BY <4>4, <4>5 DEF MarkerAlive, OnlyMarkers
    <3> QED
      BY <2>0, <3>1 DEF RestoreHolds
  <2> QED
    BY <1>1, <2>1, <2>2, <2>4, <2>5 DEF ArchBase
<1> QED
  BY <1>3, <1>4, CalmOrApply

\* The archives a status names, or is about to, stay as they are while no other
\* apply moves into one of them.
LEMMA RecordCalm ==
  ASSUME ArchBase, Restorable, MarkedIsKept, CalmEffect
  PROVE  Restorable' /\ MarkedIsKept'
<1>0. RowsTyped /\ Homes /\ NamesAim /\ RowsKeep /\ apply' = apply /\ StatusesFrom /\ \A a \in 1 .. Archives : Kept(a) => Kept(a)'
  BY BaseFacts DEF ArchBase, CalmEffect
<1>1. ASSUME NEW r \in rows', StatusRow(r) PROVE NewerThan(r.at)' \/ Kept(r.val)'
  <2>1. PICK q \in rows : StatusRow(q) /\ q.at = r.at /\ q.val = r.val
    BY <1>0, <1>1 DEF StatusesFrom
  <2>2. PICK a \in 1 .. Archives : a = q.val
    BY <1>0, <2>1 DEF Homes
  <2>3. PICK t \in Nat : t = q.at
    BY <1>0, <2>1 DEF RowsTyped, RowRec
  <2>4. NewerThan(t) \/ Kept(a)
    BY <2>1, <2>2, <2>3 DEF Restorable
  <2>5. NewerThan(t)' \/ Kept(a)'
    BY <1>0, <2>4, NewerStays
  <2> QED
    BY <2>1, <2>2, <2>3, <2>5
<1>2. ASSUME NEW d \in Appliers, apply'[d].pc = "marked" PROVE Kept(apply[d].arch)'
  <2>1. PICK a \in 1 .. Archives : a = apply[d].arch
    BY <1>0, <1>2 DEF NamesAim, Named, Summed
  <2>2. Kept(a)
    BY <1>0, <1>2, <2>1 DEF MarkedIsKept
  <2>3. Kept(a)' /\ apply'[d].arch = a
    BY <1>0, <2>1, <2>2
  <2> QED
    BY <2>3 DEF Kept, MarkerAlive, OnlyMarkers
<1> QED
  BY <1>1, <1>2 DEF Restorable, MarkedIsKept

\* A step of an apply keeps them too, if what it moves into is nobody's archive.
LEMMA RecordApply ==
  ASSUME ArchBase, Restorable, MarkedIsKept, NEW c \in Appliers, ApplyEffect(c),
         apply[c].pc = "summed" /\ ~HasMarker(apply[c].arch) =>
            /\ \A r \in rows : StatusRow(r) /\ r.val = apply[c].arch => NewerThan(r.at)
            /\ \A d \in Appliers : apply[d].pc = "marked" => apply[d].arch # apply[c].arch
  PROVE  Restorable' /\ MarkedIsKept'
<1>0. RowsTyped /\ Homes /\ NamesAim /\ RowsKeep /\ (\A d \in Appliers \ {c} : apply'[d] = apply[d])
  BY BaseFacts DEF ArchBase, ApplyEffect
<1>1. ASSUME NEW a \in 1 .. Archives, Kept(a), ~Kept(a)' PROVE apply[c].pc = "summed" /\ a = apply[c].arch /\ ~HasMarker(a)
  BY <1>1 DEF ApplyEffect, Kept, MarkerStays, OnlyStays
<1>2. ASSUME NEW q \in rows, StatusRow(q) PROVE NewerThan(q.at)' \/ Kept(q.val)'
  <2>1. PICK a \in 1 .. Archives : a = q.val
    BY <1>0, <1>2 DEF Homes
  <2>2. PICK t \in Nat : t = q.at
    BY <1>0, <1>2 DEF RowsTyped, RowRec
  <2>3. NewerThan(t) \/ Kept(a)
    BY <1>2, <2>1, <2>2 DEF Restorable
  <2>4. Kept(a) /\ ~Kept(a)' => NewerThan(t)
    BY <1>1, <1>2, <2>1, <2>2
  <2>5. NewerThan(t)' \/ Kept(a)'
    BY <1>0, <2>3, <2>4, NewerStays
  <2> QED
    BY <2>1, <2>2, <2>5
<1>3. ASSUME NEW d \in Appliers, apply[d].pc = "marked", NEW a \in 1 .. Archives, a = apply[d].arch PROVE Kept(a)'
  BY <1>1, <1>3 DEF MarkedIsKept
<1>4. ASSUME NEW r \in rows', StatusRow(r) PROVE NewerThan(r.at)' \/ Kept(r.val)'
  <2>1. CASE StatusesFrom
    <3>1. PICK q \in rows : StatusRow(q) /\ q.at = r.at /\ q.val = r.val
      BY <1>4, <2>1 DEF StatusesFrom
    <3>2. PICK a : a = q.val
      OBVIOUS
    <3>3. PICK t : t = q.at
      OBVIOUS
    <3>4. NewerThan(t)' \/ Kept(a)'
      BY <1>2, <3>1, <3>2, <3>3
    <3> QED
      BY <3>1, <3>2, <3>3, <3>4
  <2>2. CASE apply[c].pc = "marked" /\ \A x \in rows' : x \in rows \/ x.val = apply[c].arch
    <3>1. CASE r \in rows
      BY <1>2, <1>4, <3>1
    <3>2. CASE r.val = apply[c].arch
      <4>1. PICK a \in 1 .. Archives : a = apply[c].arch
        BY <1>0, <2>2 DEF NamesAim, Named, Summed
      <4>2. Kept(a)'
        BY <1>3, <2>2, <4>1
      <4> QED
        BY <3>2, <4>1, <4>2
    <3> QED
      BY <1>4, <2>2, <3>1, <3>2
  <2> QED
    BY <2>1, <2>2 DEF ApplyEffect
<1>5. ASSUME NEW d \in Appliers, apply'[d].pc = "marked" PROVE Kept(apply[d].arch)'
  <2>1. CASE d = c
    <3>1. MarkerAlive(apply[c].arch)'
      BY <1>5, <2>1 DEF ApplyEffect
    <3> QED
      BY <2>1, <3>1 DEF Kept
  <2>2. CASE d # c
    <3>1. apply'[d] = apply[d]
      BY <1>0, <2>2
    <3>2. PICK a \in 1 .. Archives : a = apply[d].arch
      BY <1>0, <1>5, <3>1 DEF NamesAim, Named, Summed
    <3>3. Kept(a)' /\ apply'[d].arch = a
      BY <1>3, <1>5, <3>1, <3>2
    <3> QED
      BY <3>3 DEF Kept, MarkerAlive, OnlyMarkers
  <2> QED
    BY <2>1, <2>2
<1> QED
  BY <1>4, <1>5 DEF Restorable, MarkedIsKept

\* Without compactions: a name that a status gives or is about to give is in use,
\* and no later apply moves into it.
LEMMA FreshStep ==
  ASSUME Compacts = 0, FreshInv, [ArchNext]_archVars
  PROVE  FreshInv'
<1>0. ArchBase /\ Restorable /\ MarkedIsKept /\ NamesStay /\ NamesAim /\ Homes
  BY DEF FreshInv, ArchBase
<1>1. ArchBase'
  BY <1>0, BaseStep
<1>2. CASE CalmEffect
  <2>1. Restorable' /\ MarkedIsKept'
    BY <1>0, <1>2, RecordCalm
  <2>2. MarkersStay /\ StatusesFrom /\ apply' = apply
    BY <1>2 DEF CalmEffect, RowsKeep
  <2>3. ASSUME NEW r \in rows', StatusRow(r) PROVE HasMarker(r.val)'
    <3>1. PICK q \in rows : StatusRow(q) /\ q.val = r.val
      BY <2>2, <2>3 DEF StatusesFrom
    <3>2. PICK a \in 1 .. Archives : a = q.val
      BY <1>0, <3>1 DEF Homes
    <3>3. HasMarker(a)'
      BY <1>0, <2>2, <3>1, <3>2 DEF NamesStay, MarkersStay
    <3> QED
      BY <3>1, <3>2, <3>3
  <2>4. ASSUME NEW d \in Appliers, apply'[d].pc = "marked" PROVE HasMarker(apply[d].arch)'
    <3>1. PICK a \in 1 .. Archives : a = apply[d].arch
      BY <1>0, <2>2, <2>4 DEF NamesAim, Named, Summed
    <3>2. HasMarker(a)' /\ apply'[d].arch = a
      BY <1>0, <2>2, <2>4, <3>1 DEF NamesStay, MarkersStay
    <3> QED
      BY <3>2 DEF HasMarker
  <2> QED
    BY <1>1, <2>1, <2>3, <2>4 DEF FreshInv, NamesStay
<1>3. ASSUME NEW c \in Appliers, ApplyEffect(c) PROVE FreshInv'
  <2>1. apply[c].pc = "summed" /\ ~HasMarker(apply[c].arch) =>
            /\ \A r \in rows : StatusRow(r) /\ r.val = apply[c].arch => NewerThan(r.at)
            /\ \A d \in Appliers : apply[d].pc = "marked" => apply[d].arch # apply[c].arch
    BY <1>0 DEF NamesStay
  <2>2. Restorable' /\ MarkedIsKept'
    BY <1>0, <1>3, <2>1, RecordApply
  <2>3. MarkersStay /\ \A d \in Appliers \ {c} : apply'[d] = apply[d]
    BY <1>3 DEF ApplyEffect, RowsKeep
  <2>4. ASSUME NEW a \in 1 .. Archives, HasMarker(a) PROVE HasMarker(a)'
    BY <2>3, <2>4 DEF MarkersStay
  <2>5. ASSUME NEW r \in rows', StatusRow(r) PROVE HasMarker(r.val)'
    <3>1. ASSUME NEW q \in rows, StatusRow(q), q.val = r.val PROVE HasMarker(r.val)'
      <4>1. PICK a \in 1 .. Archives : a = q.val
        BY <1>0, <3>1 DEF Homes
      <4>2. HasMarker(a)'
        BY <1>0, <2>4, <3>1, <4>1 DEF NamesStay
      <4> QED
        BY <3>1, <4>1, <4>2
    <3>2. CASE StatusesFrom
      BY <2>5, <3>1, <3>2 DEF StatusesFrom
    <3>3. CASE apply[c].pc = "marked" /\ \A x \in rows' : x \in rows \/ x.val = apply[c].arch
      <4>1. CASE r \in rows
        BY <2>5, <3>1, <4>1
      <4>2. CASE r.val = apply[c].arch
        <5>1. PICK a \in 1 .. Archives : a = apply[c].arch
          BY <1>0, <3>3 DEF NamesAim, Named, Summed
        <5>2. HasMarker(a)'
          BY <1>0, <2>4, <3>3, <5>1 DEF NamesStay
        <5> QED
          BY <4>2, <5>1, <5>2
      <4> QED
        BY <2>5, <3>3, <4>1, <4>2
    <3> QED
      BY <1>3, <3>2, <3>3 DEF ApplyEffect
  <2>6. ASSUME NEW d \in Appliers, apply'[d].pc = "marked" PROVE HasMarker(apply[d].arch)'
    <3>1. CASE d = c
      BY <1>3, <2>6, <3>1 DEF ApplyEffect
    <3>2. CASE d # c
      <4>1. apply'[d] = apply[d]
        BY <2>3, <3>2
      <4>2. PICK a \in 1 .. Archives : a = apply[d].arch
        BY <1>0, <2>6, <4>1 DEF NamesAim, Named, Summed
      <4>3. HasMarker(a)' /\ apply'[d].arch = a
        BY <1>0, <2>4, <2>6, <4>1, <4>2 DEF NamesStay
      <4> QED
        BY <4>3 DEF HasMarker
    <3> QED
      BY <3>1, <3>2
  <2> QED
    BY <1>1, <2>2, <2>5, <2>6 DEF FreshInv, NamesStay
<1> QED
  BY <1>0, <1>2, <1>3, CalmOrApply

\* One apply at a time: when it moves, it has written a summary that is newer than
\* every status, and its list of kept keys is up to date.
LEMMA SerialStep ==
  ASSUME OneAtATime, SerialInv, [ArchNext]_archVars
  PROVE  SerialInv' /\ HeadStays
<1>0. ArchBase /\ Restorable /\ MarkedIsKept /\ StatusesAreOld /\ StatusHome /\ KeepsStatus /\ RowsTyped
  BY BaseFacts DEF SerialInv
<1>1. ArchBase'
  BY <1>0, BaseStep
<1>2. \A r \in rows : r.at \in Nat
  BY <1>0 DEF RowsTyped, RowRec
<1>3. CASE CalmEffect
  <2>0. RowsKeep /\ StatusesFrom /\ StatusRowsFrom /\ HeadStays /\ apply' = apply
    BY <1>3 DEF CalmEffect
  <2>1. Restorable' /\ MarkedIsKept'
    BY <1>0, <1>3, RecordCalm
  <2>2. StatusesAreOld'
    <3> SUFFICES ASSUME NEW c \in Appliers, apply'[c].pc \in Summed, NEW r \in rows', StatusRow(r) PROVE NewerThan(r.at)'
      BY DEF StatusesAreOld
    <3>1. PICK q \in rows : StatusRow(q) /\ q.at = r.at
      BY <2>0 DEF StatusesFrom
    <3>2. PICK t \in Nat : t = q.at
      BY <1>2, <3>1
    <3>3. NewerThan(t)
      BY <1>0, <2>0, <3>1, <3>2 DEF StatusesAreOld
    <3>4. NewerThan(t)'
      BY <1>0, <2>0, <3>3, NewerStays
    <3> QED
      BY <3>1, <3>2, <3>4
  <2>3. StatusHome'
    BY <1>0, <2>0 DEF StatusHome, StatusRowsFrom
  <2>4. KeepsStatus'
    BY <1>0, <2>0 DEF KeepsStatus, StatusRowsFrom
  <2> QED
    BY <1>1, <2>0, <2>1, <2>2, <2>3, <2>4 DEF SerialInv
<1>4. ASSUME NEW c \in Appliers, ApplyStep(c), ApplyEffect(c), SerialEffect(c) PROVE SerialInv' /\ HeadStays
  <2>0. RowsKeep /\ \A d \in Appliers \ {c} : apply'[d] = apply[d]
    BY <1>4 DEF ApplyEffect
  <2>1. Restorable' /\ MarkedIsKept'
    <3>1. ASSUME apply[c].pc = "summed" PROVE \A r \in rows : StatusRow(r) => NewerThan(r.at)
      BY <1>0, <3>1 DEF StatusesAreOld, Summed
    <3>2. ASSUME apply[c].pc = "summed", NEW d \in Appliers, apply[d].pc = "marked" PROVE FALSE
      BY <3>2 DEF OneAtATime
    <3> QED
      BY <1>0, <1>4, <3>1, <3>2, RecordApply
  <2>2. StatusesAreOld'
    <3> SUFFICES ASSUME NEW d \in Appliers, apply'[d].pc \in Summed, NEW r \in rows', StatusRow(r) PROVE NewerThan(r.at)'
      BY DEF StatusesAreOld
    <3>1. CASE StatusesFrom /\ apply[d].pc \in Summed
      <4>1. PICK q \in rows : StatusRow(q) /\ q.at = r.at
        BY <3>1 DEF StatusesFrom
      <4>2. PICK t \in Nat : t = q.at
        BY <1>2, <4>1
      <4>3. NewerThan(t)
        BY <1>0, <3>1, <4>1, <4>2 DEF StatusesAreOld
      <4>4. NewerThan(t)'
        BY <1>0, <2>0, <4>3, NewerStays
      <4> QED
        BY <4>1, <4>2, <4>4
    <3>2. CASE d = c /\ apply[d].pc \notin Summed
      BY <1>4, <3>2 DEF ApplyEffect
    <3>3. CASE d # c /\ apply[d].pc \notin Summed
      BY <2>0, <3>3
    <3>4. CASE apply[c].pc = "marked" /\ apply'[c].pc = "end"
      <4>1. d # c
        BY <3>4 DEF Summed
      <4>2. apply[d].pc \in Summed
        BY <2>0, <4>1
      <4> QED
        BY <3>4, <4>1, <4>2 DEF OneAtATime, Summed
    <3> QED
      BY <1>4, <3>1, <3>2, <3>3, <3>4 DEF ApplyEffect
  <2>3. StatusHome' /\ HeadStays
    BY <1>4 DEF SerialEffect
  <2>4. KeepsStatus'
    <3> SUFFICES ASSUME NEW d \in Appliers, apply'[d].pc \in Underway, NEW r \in rows', r.key = "status" PROVE "status" \in apply'[d].keep
      BY DEF KeepsStatus
    <3>1. CASE d = c
      BY <1>4, <3>1 DEF SerialEffect
    <3>2. CASE d # c
      <4>1. apply'[d] = apply[d]
        BY <2>0, <3>2
      <4>2. apply[c].pc # "marked"
        BY <3>2, <4>1 DEF OneAtATime, Underway
      <4>3. \E q \in rows : q.key = "status"
        BY <1>4, <4>2 DEF SerialEffect
      <4> QED
        BY <1>0, <4>1, <4>3 DEF KeepsStatus
    <3> QED
      BY <3>1, <3>2
  <2> QED
    BY <1>1, <2>1, <2>2, <2>3, <2>4 DEF SerialInv
<1> QED
  BY <1>0, <1>3, <1>4, CalmOrApply

\* An archive that can be restored or a newer summary, with a live summary in any
\* case, is what the status promises.
LEMMA RecordIsSafe ==
  ASSUME ArchBase, Restorable
  PROVE  ConsolidatedIsRestorable
<1>0. RowsTyped /\ Homes /\ SummaryFirst /\ \A r \in rows : r \in RowRec /\ r.at \in Nat
  BY BaseFacts DEF ArchBase, RowsTyped, RowRec
<1> SUFFICES ASSUME NEW r \in Alive(rows, 0, "status")
             PROVE  \E u \in Alive(rows, 0, "summary") : \/ u.at > r.at
                                                         \/ Alive(rows, r.val, "marker") # {}
                                                         \/ \A q \in rows : q.in = r.val => q.key = "marker"
  BY DEF ConsolidatedIsRestorable
<1>1. r \in rows /\ StatusRow(r)
  BY AliveRow DEF StatusRow
<1>2. ASSUME NEW s \in rows, s.key = "summary" PROVE \E u \in Alive(rows, 0, "summary") : u.at >= s.at
  <2>1. s \in Chain(rows, 0, "summary")
    BY <1>0, <1>2 DEF Chain, Homes
  <2>2. rows \in SUBSET RowRec
    BY <1>0
  <2>3. PICK b \in Nat : \A x \in rows : x.at <= b
    BY <1>0 DEF RowsTyped, TimesBounded
  <2>4. PICK u \in NewestRow(rows, 0, "summary") : u.at >= s.at
    BY <2>1, <2>2, <2>3, ChainHasNewest
  <2>5. u \in Alive(rows, 0, "summary")
    BY <1>0, <2>4 DEF Alive, NewestRow, Chain, Homes
  <2> QED
    BY <2>4, <2>5
<1>3. PICK s \in rows : s.key = "summary"
  BY <1>0, <1>1 DEF SummaryFirst, HasSummary
<1>4. CASE NewerThan(r.at)
  <2>1. PICK n \in rows : n.key = "summary" /\ n.at > r.at
    BY <1>4 DEF NewerThan
  <2>2. PICK u \in Alive(rows, 0, "summary") : u.at >= n.at
    BY <1>2, <2>1
  <2>3. u \in rows
    BY <2>2, AliveRow
  <2>4. u.at > r.at
    BY <1>0, <1>1, <2>1, <2>2, <2>3
  <2> QED
    BY <2>2, <2>4
<1>5. CASE Kept(r.val)
  <2>1. PICK u \in Alive(rows, 0, "summary") : u.at >= s.at
    BY <1>2, <1>3
  <2> QED
    BY <1>5, <2>1 DEF Kept, MarkerAlive, OnlyMarkers
<1> QED
  BY <1>1, <1>4, <1>5 DEF Restorable

-----------------------------------------------------------------------------
(* The theorems about archives *)

\* The rows of the namespace and of its archives, the mail, the applies, the
\* restore and the reader have the shape the calls write.
THEOREM ArchiveTypeCorrect == ArchSpec => []ArchTypeOK
<1>1. ArchInit => ArchBase
  BY ArchInitBase
<1>2. ArchBase /\ [ArchNext]_archVars => ArchBase'
  BY BaseStep
<1>3. ArchBase => ArchTypeOK
  <2>1. DOMAIN FactKeys = 1 .. 4
    BY DEF FactKeys
  <2> QED
    BY <2>1 DEF ArchBase, ArchTypes, MailTyped, ArchTypeOK, RowRec, RowKeys, ApplyRec, RestoreRec, PageRec
<1> QED
  BY <1>1, <1>2, <1>3, PTL DEF ArchSpec

\* A digest paged to its end has shown every fact that stayed live, for every
\* page size and whatever moves between the pages (LiveFactsPage).
THEOREM DigestMissesNothing == ArchSpec => []DigestIsComplete
<1>1. ArchInit => ArchBase
  BY ArchInitBase
<1>2. ArchBase /\ [ArchNext]_archVars => ArchBase'
  BY BaseStep
<1>3. ArchBase => DigestIsComplete
  BY DEF ArchBase, PageIsFull, DigestIsComplete
<1> QED
  BY <1>1, <1>2, <1>3, PTL DEF ArchSpec

\* Without compactions, whatever applies and restores overlap and wherever they
\* stop, a namespace that reads as consolidated can be restored (consolidateApply).
THEOREM ArchivesAreRestorable ==
  ASSUME Compacts = 0
  PROVE  ArchSpec => []ArchiveSafety
<1>1. ArchInit => FreshInv
  <2> SUFFICES ASSUME ArchInit PROVE FreshInv
    OBVIOUS
  <2>1. ArchBase
    BY ArchInitBase
  <2>2. (~\E r \in rows : StatusRow(r)) /\ \A c \in Appliers : apply[c].pc = "idle"
    BY DEF ArchInit, Row, StatusRow, NoApply
  <2> QED
    BY <2>1, <2>2 DEF FreshInv, Restorable, MarkedIsKept, NamesStay
<1>2. FreshInv /\ [ArchNext]_archVars => FreshInv'
  BY FreshStep
<1>3. FreshInv => ArchiveSafety
  BY RecordIsSafe DEF FreshInv, ArchBase, PageIsFull, DigestIsComplete, ArchiveSafety
<1> QED
  BY <1>1, <1>2, <1>3, PTL DEF ArchSpec

\* The invariant of applies that do not overlap.
LEMMA SerialInit == ArchInit => SerialInv
<1> SUFFICES ASSUME ArchInit PROVE SerialInv
  OBVIOUS
<1>1. ArchBase
  BY ArchInitBase
<1>2. (~\E r \in rows : r.key = "status") /\ \A c \in Appliers : apply[c].pc = "idle"
  BY DEF ArchInit, Row, NoApply
<1> QED
  BY <1>1, <1>2 DEF SerialInv, Restorable, MarkedIsKept, StatusesAreOld, StatusHome, KeepsStatus, StatusRow, Summed, Underway

\* The same with compactions, as long as no apply begins before the one before
\* it has ended: one applier, or several in turn.
THEOREM AppliesInTurnAreSafe == ArchSpec /\ []OneAtATime => []ArchiveSafety
<1>1. ArchInit => SerialInv
  BY SerialInit
<1>2. SerialInv /\ OneAtATime /\ [ArchNext]_archVars => SerialInv'
  BY SerialStep
<1>3. SerialInv => ArchiveSafety
  BY RecordIsSafe DEF SerialInv, ArchBase, PageIsFull, DigestIsComplete, ArchiveSafety
<1> QED
  BY <1>1, <1>2, <1>3, PTL DEF ArchSpec

\* Then the status of a namespace is never moved away or compacted: it leaves only
\* for a newer revision of it (consolidate_ns.go, on /consolidated/).
THEOREM StatusIsNotMoved == ArchSpec /\ []OneAtATime => StatusStaysLive
<1> DEFINE Stays == \A r \in Alive(rows, 0, "status") : \E q \in NewestRow(rows', 0, "status") : q.at >= r.at
<1>1. ArchInit => SerialInv
  BY SerialInit
<1>2. SerialInv /\ OneAtATime /\ [ArchNext]_archVars => SerialInv'
  BY SerialStep
<1>3. SerialInv /\ OneAtATime /\ [ArchNext]_archVars => [Stays]_rows
  <2> SUFFICES ASSUME SerialInv, OneAtATime, [ArchNext]_archVars, NEW r \in Alive(rows, 0, "status")
               PROVE  \E q \in NewestRow(rows', 0, "status") : q.at >= r.at
    OBVIOUS
  <2>1. SerialInv' /\ HeadStays
    BY SerialStep
  <2>2. PICK q \in rows' : q.in = 0 /\ q.key = "status" /\ q.at >= r.at
    BY <2>1 DEF HeadStays
  <2>3. RowsTyped'
    BY <2>1 DEF SerialInv, ArchBase, ArchTypes, RowsTyped
  <2>4. PICK b \in Nat : \A x \in rows' : x.at <= b
    BY <2>3 DEF RowsTyped, TimesBounded
  <2>5. rows' \in SUBSET RowRec /\ q \in Chain(rows', 0, "status")
    BY <2>2, <2>3 DEF RowsTyped, Chain
  <2>6. PICK n \in NewestRow(rows', 0, "status") : n.at >= q.at
    BY <2>4, <2>5, ChainHasNewest
  <2>7. n.at \in Nat /\ q.at \in Nat /\ r.at \in Nat
    <3>1. n \in rows' /\ r \in rows
      BY <2>6, AliveRow DEF NewestRow, Chain
    <3>2. rows \subseteq RowRec
      BY DEF SerialInv, ArchBase, ArchTypes
    <3> QED
      BY <2>2, <2>5, <3>1, <3>2 DEF RowRec
  <2> QED
    BY <2>2, <2>6, <2>7
<1> QED
  BY <1>1, <1>2, <1>3, PTL DEF ArchSpec, StatusStaysLive

-----------------------------------------------------------------------------
(* Vectors, links and the search *)

VecTexts == Bodies \cup {"none"}
Vecs == VecTexts \X {"none", "present", "former"}
VecForms == {"none", "keyed", "bare"}
VecFactRec == [id : Nat, live : BOOLEAN, text : VecTexts, vec : Vecs, form : VecForms]
SeenFacts == [VecKeys -> VecFactRec]
RunRec == [st : {"none", "pending", "running", "failed", "succeeded", "superseded"}, attempts : Nat]
WorkerRec == [pc : {"idle", "read", "embed", "store", "targets", "link", "finish", "failed"}, key : VecKeys \cup {"none"}, rev : Nat,
              attempt : Nat, seen : SeenFacts, except : SUBSET VecKeys, added : Nat, fresh : Nat, quiet : BOOLEAN]
PassRec == [pc : {"idle", "pairs", "link"}, seen : SeenFacts, except : SUBSET (VecKeys \X VecKeys), added : Nat, fresh : Nat, quiet : BOOLEAN]
EntryRec == [id : Nat, vec : Vecs]
HitRec == [key : VecKeys, id : Nat, vec : Vecs]
SearchRec == [pc : {"idle", "score", "done"}, seen : SeenFacts, hits : SUBSET HitRec, used : [VecKeys -> EntryRec]]

\* A vector is of its own text; what was read of a fact is an earlier revision of it, or has its text.
OwnVec(f) == f.vec = NoVec \/ f.vec = Embedded(f.text) \/ (Legacy /\ f.vec = <<f.text, "former">>)
ReadOf(f, g) == f.id <= g.id /\ (f.id = g.id => f.text = g.text)
VecFactsInv == /\ vecFacts \in SeenFacts
               /\ \A k \in VecKeys : vecFacts[k].id \in 1 .. VecRevs /\ OwnVec(vecFacts[k])
FactsGrow == \A k \in VecKeys : ReadOf(vecFacts[k], vecFacts'[k])

\* An enricher that works has a run; what it read of the facts and of the links still stands.
Aimed(a) == IF a.pc = "idle" THEN a.rev = 0 ELSE a.key \in VecKeys /\ a.rev \in 1 .. VecRevs
SeenOf(F, a) == \A k \in VecKeys : ReadOf(a.seen[k], F[k]) /\ OwnVec(a.seen[k])
\* No link counts before the links are read, at most TopN do, and an undisturbed enricher knows every link of its fact.
CountsOf(L, a) == /\ a.pc \notin {"link", "finish"} => a.added = 0 /\ a.fresh = 0
                  /\ a.added <= TopN
                  /\ a.quiet => a.added = a.fresh
                  /\ a.quiet /\ a.pc = "link" => \A j \in VecKeys : L[<<a.key, j>>] # "none" => j \in a.except
WorkersInv == /\ worker \in [VecWorkers -> WorkerRec]
              /\ \A w \in VecWorkers : Aimed(worker[w]) /\ SeenOf(vecFacts, worker[w]) /\ CountsOf(linkRows, worker[w])
LinksInv == linkRows \in [VecKeys \X VecKeys -> {"none", "live", "closed"}]
PassInv == /\ pass \in PassRec
           /\ pass.pc # "link" => pass.added = 0 /\ pass.fresh = 0
           /\ pass.added <= MaxLinks
           /\ pass.quiet => pass.added = pass.fresh
           /\ pass.quiet /\ pass.pc = "link" => \A e \in VecKeys \X VecKeys : linkRows[e] # "none" => e \in pass.except
\* Every claim of a run has an attempt of its own, and the run counts them.
ClaimsInv == /\ stageRuns \in [VecKeys \X (1 .. VecRevs) -> RunRec]
             /\ \A w \in VecWorkers : worker[w].pc # "idle" => worker[w].attempt <= stageRuns[<<worker[w].key, worker[w].rev>>].attempts
             /\ \A w, x \in VecWorkers : /\ w # x /\ worker[w].pc # "idle" /\ worker[x].pc # "idle"
                                         /\ worker[w].key = worker[x].key /\ worker[w].rev = worker[x].rev
                                         => worker[w].attempt # worker[x].attempt
ToolInv == /\ tool \in [pc : {"idle", "embed"}, todo : SUBSET (VecKeys \X VecFactRec)]
           /\ \A x \in tool.todo : ReadOf(x[2], vecFacts[x[1]])
\* An entry of the index is of the revision it names, as far as the facts and the search know that one.
IndexedAs(i, f) == i.id <= f.id /\ (i.id = f.id => i.vec = Embedded(f.text))
IndexInv == /\ index \in [VecKeys -> EntryRec]
            /\ ~Legacy => \A k \in VecKeys : IndexedAs(index[k], vecFacts[k])
SearchInv == /\ search \in SearchRec
             /\ SeenOf(vecFacts, search)
             /\ search.pc # "idle" => \A k \in VecKeys : search.seen[k].id # 0
             /\ ~Legacy /\ search.pc # "idle" => \A k \in VecKeys : index[k].id = search.seen[k].id => index[k].vec = Embedded(search.seen[k].text)
             /\ ~Legacy => SearchIsSound

VecInv == VecFactsInv /\ LinksInv /\ WorkersInv /\ PassInv /\ ClaimsInv /\ ToolInv /\ IndexInv /\ SearchInv

-----------------------------------------------------------------------------
\* What the constants are.
LEMMA VecNumbers ==
    /\ TopN \in Nat /\ MaxLinks \in Nat /\ VecRevs \in Nat \ {0}
    /\ Enriched \subseteq VecKeys /\ Bodies # {} /\ Legacy \in BOOLEAN
  BY VecConstants

\* Nothing has been read yet.
LEMMA NothingSeen ==
    /\ NoVec \in Vecs /\ NoFact \in VecFactRec /\ NoFacts \in SeenFacts
    /\ OwnVec(NoFact) /\ \A k \in VecKeys : NoFacts[k] = NoFact
<1>1. NoVec \in Vecs
  BY DEF NoVec, Vecs, VecTexts
<1>2. NoFact \in VecFactRec
  BY <1>1 DEF NoFact, VecFactRec, VecTexts, VecForms
<1>3. OwnVec(NoFact)
  BY DEF OwnVec, NoFact
<1> QED
  BY <1>1, <1>2, <1>3 DEF NoFacts, SeenFacts

\* The vector of a text.
LEMMA EmbeddedIsOwn ==
    ASSUME NEW f \in VecFactRec, NEW m \in VecForms
    PROVE  /\ Embedded(f.text) \in Vecs
           /\ [f EXCEPT !.vec = Embedded(f.text), !.form = m] \in VecFactRec
           /\ OwnVec([f EXCEPT !.vec = Embedded(f.text), !.form = m])
<1>1. Embedded(f.text) \in Vecs
  BY DEF Embedded, Vecs, VecFactRec
<1>2. [f EXCEPT !.vec = Embedded(f.text), !.form = m] \in VecFactRec
  BY <1>1 DEF VecFactRec
<1>3. OwnVec([f EXCEPT !.vec = Embedded(f.text), !.form = m])
  BY DEF OwnVec, VecFactRec
<1> QED
  BY <1>1, <1>2, <1>3

\* A vector that is not of this embedder is one of the former, if there was one.
LEMMA OwnIsPresent ==
    ASSUME ~Legacy, NEW f \in VecFactRec, OwnVec(f)
    PROVE  f.vec = NoVec \/ f.vec = Embedded(f.text)
  BY DEF OwnVec

\* What was read before stays a reading.
LEMMA ReadingsChain ==
    ASSUME NEW f \in VecFactRec, NEW g \in VecFactRec, NEW h \in VecFactRec, ReadOf(f, g), ReadOf(g, h)
    PROVE  ReadOf(f, h)
<1>1. f.id \in Nat /\ g.id \in Nat /\ h.id \in Nat
  BY DEF VecFactRec
<1>2. f.id <= g.id /\ g.id <= h.id
  BY DEF ReadOf
<1>3. f.id <= h.id
  BY <1>1, <1>2
<1>4. ASSUME f.id = h.id PROVE f.text = h.text
  <2>1. f.id = g.id /\ g.id = h.id
    BY <1>1, <1>2, <1>4
  <2> QED
    BY <2>1 DEF ReadOf
<1> QED
  BY <1>3, <1>4 DEF ReadOf

\* The readings of whoever has read stand as the facts grow.
LEMMA SeenStays ==
    ASSUME vecFacts \in SeenFacts, vecFacts' \in SeenFacts, FactsGrow,
           NEW s, s.seen \in SeenFacts, SeenOf(vecFacts, s)
    PROVE  SeenOf(vecFacts', s)
<1> SUFFICES ASSUME NEW k \in VecKeys PROVE ReadOf(s.seen[k], vecFacts'[k]) /\ OwnVec(s.seen[k])
  BY DEF SeenOf
<1>1. s.seen[k] \in VecFactRec /\ vecFacts[k] \in VecFactRec /\ vecFacts'[k] \in VecFactRec
  BY DEF SeenFacts
<1>2. ReadOf(s.seen[k], vecFacts[k]) /\ ReadOf(vecFacts[k], vecFacts'[k]) /\ OwnVec(s.seen[k])
  BY DEF SeenOf, FactsGrow
<1> QED
  BY <1>1, <1>2, ReadingsChain

\* Whoever reads now, reads what is there.
LEMMA SeenNow ==
    ASSUME VecFactsInv, NEW s, s.seen = vecFacts
    PROVE  SeenOf(vecFacts, s)
  BY DEF SeenOf, VecFactsInv, ReadOf, SeenFacts, VecFactRec

\* Whoever has read nothing, has read nothing wrong.
LEMMA SeenNone ==
    ASSUME VecFactsInv, NEW s, s.seen = NoFacts
    PROVE  SeenOf(vecFacts, s)
<1> SUFFICES ASSUME NEW k \in VecKeys PROVE ReadOf(NoFact, vecFacts[k])
  BY NothingSeen DEF SeenOf
<1>1. vecFacts[k].id \in 1 .. VecRevs
  BY DEF VecFactsInv
<1>2. NoFact.id = 0
  BY DEF NoFact
<1> QED
  BY <1>1, <1>2, VecNumbers DEF ReadOf

\* Facts that nobody touches.
LEMMA FactsRest ==
    ASSUME VecFactsInv, vecFacts' = vecFacts
    PROVE  VecFactsInv' /\ FactsGrow
<1>1. VecFactsInv'
  BY DEF VecFactsInv
<1>2. FactsGrow
  BY DEF FactsGrow, VecFactsInv, ReadOf, SeenFacts, VecFactRec
<1> QED
  BY <1>1, <1>2

\* One fact gets a new revision, or changes without its text.
LEMMA FactChanges ==
    ASSUME VecFactsInv, NEW k \in VecKeys, NEW f \in VecFactRec, f.id \in 1 .. VecRevs, OwnVec(f), ReadOf(vecFacts[k], f),
           vecFacts' = [vecFacts EXCEPT ![k] = f]
    PROVE  VecFactsInv' /\ FactsGrow
<1>1. vecFacts' \in SeenFacts
  BY DEF VecFactsInv, SeenFacts
<1>2. \A j \in VecKeys : vecFacts'[j] = IF j = k THEN f ELSE vecFacts[j]
  BY DEF VecFactsInv, SeenFacts
<1>3. \A j \in VecKeys : vecFacts'[j].id \in 1 .. VecRevs /\ OwnVec(vecFacts'[j])
  BY <1>2 DEF VecFactsInv
<1>4. VecFactsInv'
  BY <1>1, <1>3 DEF VecFactsInv, OwnVec
<1>5. \A j \in VecKeys : ReadOf(vecFacts[j], vecFacts[j])
  BY DEF VecFactsInv, SeenFacts, VecFactRec, ReadOf
<1>6. \A j \in VecKeys : ReadOf(vecFacts[j], vecFacts'[j])
  BY <1>2, <1>5
<1>7. FactsGrow
  BY <1>6 DEF FactsGrow, ReadOf
<1> QED
  BY <1>4, <1>7

\* A vector is stored with the revision it was made of, or not at all.
LEMMA StoresOwn ==
    ASSUME VecFactsInv, NEW k \in VecKeys, NEW f \in VecFactRec, OwnVec(f), ReadOf(f, vecFacts[k]), vecFacts' = StoredOn(k, f)
    PROVE  VecFactsInv' /\ FactsGrow
<1>1. CASE vecFacts[k].id # f.id
  BY <1>1, FactsRest DEF StoredOn
<1>2. CASE vecFacts[k].id = f.id
  <2> DEFINE g == [vecFacts[k] EXCEPT !.vec = f.vec, !.form = f.form]
  <2>1. vecFacts[k] \in VecFactRec /\ f.text = vecFacts[k].text
    BY <1>2 DEF VecFactsInv, SeenFacts, ReadOf
  <2>2. g \in VecFactRec
    BY <2>1 DEF VecFactRec
  <2>3. g.id = vecFacts[k].id /\ g.text = vecFacts[k].text /\ g.vec = f.vec
    BY <2>1 DEF VecFactRec
  <2>4. g.id \in 1 .. VecRevs
    BY <2>3 DEF VecFactsInv
  <2>5. OwnVec(g)
    BY <2>1, <2>3 DEF OwnVec
  <2>6. ReadOf(vecFacts[k], g)
    BY <2>1, <2>3 DEF ReadOf, VecFactRec
  <2>7. vecFacts' = [vecFacts EXCEPT ![k] = g]
    BY <1>2 DEF StoredOn
  <2> HIDE DEF g
  <2> QED
    BY <2>2, <2>4, <2>5, <2>6, <2>7, FactChanges
<1> QED
  BY <1>1, <1>2

\* Users write and forget.
LEMMA WriteChanges ==
    ASSUME VecFactsInv, NEW k \in VecKeys, NEW t \in Bodies, Write(k, t)
    PROVE  VecFactsInv' /\ FactsGrow
<1>1. PICK v \in {NoVec, Embedded(t)} :
         vecFacts' = [vecFacts EXCEPT ![k] = [id |-> @.id + 1, live |-> TRUE, text |-> t, vec |-> v, form |-> Keyed(v)]]
  BY DEF Write
<1> DEFINE f == [id |-> vecFacts[k].id + 1, live |-> TRUE, text |-> t, vec |-> v, form |-> Keyed(v)]
<1>2. vecFacts[k] \in VecFactRec /\ vecFacts[k].id \in 1 .. VecRevs /\ vecFacts[k].id < VecRevs
  BY DEF VecFactsInv, SeenFacts, Write
<1>3. v \in Vecs
  BY NothingSeen DEF Vecs, VecTexts, Embedded
<1>4. f \in VecFactRec
  BY <1>2, <1>3, VecNumbers DEF VecFactRec, VecTexts, VecForms, Keyed
<1>5. f.id \in 1 .. VecRevs
  BY <1>2, VecNumbers
<1>6. OwnVec(f)
  BY DEF OwnVec
<1>7. ReadOf(vecFacts[k], f)
  BY <1>2, VecNumbers DEF ReadOf, VecFactRec
<1>8. vecFacts' = [vecFacts EXCEPT ![k] = f]
  BY <1>1
<1> HIDE DEF f
<1> QED
  BY <1>4, <1>5, <1>6, <1>7, <1>8, FactChanges

\* A fact that is forgotten keeps its revision.
LEMMA ForgetChanges ==
    ASSUME VecFactsInv, NEW k \in VecKeys, ForgetFact(k)
    PROVE  VecFactsInv' /\ FactsGrow
<1> DEFINE f == [vecFacts[k] EXCEPT !.live = FALSE]
<1>1. vecFacts[k] \in VecFactRec /\ vecFacts[k].id \in 1 .. VecRevs /\ OwnVec(vecFacts[k])
  BY DEF VecFactsInv, SeenFacts
<1>2. f \in VecFactRec /\ f.id = vecFacts[k].id /\ f.text = vecFacts[k].text /\ f.vec = vecFacts[k].vec
  BY <1>1 DEF VecFactRec
<1>3. OwnVec(f)
  BY <1>1, <1>2 DEF OwnVec
<1>4. ReadOf(vecFacts[k], f)
  BY <1>1, <1>2 DEF ReadOf, VecFactRec
<1>5. vecFacts' = [vecFacts EXCEPT ![k] = f]
  BY DEF ForgetFact
<1> HIDE DEF f
<1> QED
  BY <1>1, <1>2, <1>3, <1>4, <1>5, FactChanges

-----------------------------------------------------------------------------
(* Enrichers of vectors and links *)

\* An enricher that is as the invariant says, with facts F and links L.
Proper(F, L, a) == a \in WorkerRec /\ Aimed(a) /\ SeenOf(F, a) /\ CountsOf(L, a)
\* An enricher keeps its claim or gives it up, and adds no link.
ClaimsKept == \A w \in VecWorkers :
    \/ worker'[w].pc = "idle"
    \/ /\ worker[w].pc # "idle" /\ worker'[w].key = worker[w].key
       /\ worker'[w].rev = worker[w].rev /\ worker'[w].attempt = worker[w].attempt
NoneAdds == \A w \in VecWorkers : worker'[w].added <= worker[w].added

\* The invariant of the enrichers, one by one.
LEMMA ProperWorkers ==
    WorkersInv <=> worker \in [VecWorkers -> WorkerRec] /\ \A w \in VecWorkers : Proper(vecFacts, linkRows, worker[w])
  BY DEF WorkersInv, Proper

\* An enricher that has nothing to do.
LEMMA IdleIsProper ==
    ASSUME VecFactsInv
    PROVE  Proper(vecFacts, linkRows, NoWorker) /\ NoWorker.pc = "idle" /\ NoWorker.added = 0
<1>1. NoWorker \in WorkerRec
  BY NothingSeen DEF NoWorker, WorkerRec
<1>2. SeenOf(vecFacts, NoWorker)
  BY SeenNone DEF NoWorker
<1>3. Aimed(NoWorker) /\ CountsOf(linkRows, NoWorker)
  BY VecNumbers DEF Aimed, CountsOf, NoWorker
<1> QED
  BY <1>1, <1>2, <1>3 DEF Proper, NoWorker

\* Facts that grow disturb no enricher.
LEMMA GrowthIsHarmless ==
    ASSUME vecFacts \in SeenFacts, vecFacts' \in SeenFacts, FactsGrow,
           NEW L, NEW a, Proper(vecFacts, L, a)
    PROVE  Proper(vecFacts', L, a)
<1>1. a.seen \in SeenFacts
  BY DEF Proper, WorkerRec
<1> QED
  BY <1>1, SeenStays DEF Proper

\* One enricher moves.
LEMMA OneMoves ==
    ASSUME WorkersInv, NEW w \in VecWorkers, NEW a, Proper(vecFacts, linkRows, a),
           WorkerAt(w, a), linkRows' = linkRows,
           vecFacts \in SeenFacts, vecFacts' \in SeenFacts, FactsGrow
    PROVE  WorkersInv'
<1>1. worker' \in [VecWorkers -> WorkerRec]
  BY DEF WorkersInv, Proper, WorkerAt
<1>2. ASSUME NEW x \in VecWorkers
      PROVE  Proper(vecFacts', linkRows', worker'[x])
  <2>1. worker'[x] = IF x = w THEN a ELSE worker[x]
    BY DEF WorkersInv, WorkerAt
  <2>2. Proper(vecFacts, linkRows, worker'[x])
    BY <2>1, ProperWorkers
  <2> QED
    BY <2>2, GrowthIsHarmless
<1> QED
  BY <1>1, <1>2 DEF WorkersInv, Proper

\* None moves.
LEMMA NoneMoves ==
    ASSUME WorkersInv, worker' = worker, linkRows' = linkRows,
           vecFacts \in SeenFacts, vecFacts' \in SeenFacts, FactsGrow
    PROVE  WorkersInv' /\ ClaimsKept /\ NoneAdds
<1>1. ASSUME NEW x \in VecWorkers
      PROVE  Proper(vecFacts', linkRows', worker'[x])
  <2>2. Proper(vecFacts, linkRows, worker'[x])
    BY ProperWorkers
  <2> QED
    BY <2>2, GrowthIsHarmless
<1>2. WorkersInv'
  BY <1>1 DEF WorkersInv, Proper
<1>3. \A x \in VecWorkers : worker[x].added \in Nat
  BY DEF WorkersInv, WorkerRec
<1> QED
  BY <1>2, <1>3 DEF ClaimsKept, NoneAdds

\* What one enricher's move means for the claims and the counts.
LEMMA OneKeeps ==
    ASSUME WorkersInv, NEW w \in VecWorkers, NEW a, WorkerAt(w, a),
           a.added <= worker[w].added,
           \/ a.pc = "idle"
           \/ worker[w].pc # "idle" /\ a.key = worker[w].key /\ a.rev = worker[w].rev /\ a.attempt = worker[w].attempt
    PROVE  ClaimsKept /\ NoneAdds
<1>1. \A x \in VecWorkers : worker'[x] = IF x = w THEN a ELSE worker[x]
  BY DEF WorkersInv, WorkerAt
<1>2. \A x \in VecWorkers : worker[x].added \in Nat
  BY DEF WorkersInv, WorkerRec
<1> QED
  BY <1>1, <1>2 DEF ClaimsKept, NoneAdds

\* An enricher that others have disturbed.
Unquiet(a) == [a EXCEPT !.quiet = FALSE]
LEMMA UnquietIsProper ==
    ASSUME NEW F, NEW L, NEW M, NEW a, Proper(F, L, a)
    PROVE  Proper(F, M, Unquiet(a))
<1> DEFINE b == Unquiet(a)
<1>1. a \in WorkerRec
  BY DEF Proper
<1>2. b \in WorkerRec /\ b.quiet = FALSE
  BY <1>1 DEF WorkerRec, Unquiet
<1>3. b.pc = a.pc /\ b.key = a.key /\ b.rev = a.rev /\ b.seen = a.seen /\ b.added = a.added /\ b.fresh = a.fresh
  BY <1>1 DEF WorkerRec, Unquiet
<1> HIDE DEF b
<1>4. Aimed(b)
  BY <1>3 DEF Aimed, Proper
<1>5. SeenOf(F, b)
  BY <1>3 DEF SeenOf, Proper
<1>6. CountsOf(M, b)
  BY <1>2, <1>3 DEF CountsOf, Proper
<1> QED
  BY <1>2, <1>4, <1>5, <1>6 DEF Proper, b

\* What of an enricher a disturbance leaves.
LEMMA UnquietKeeps ==
    ASSUME NEW a \in WorkerRec
    PROVE  /\ Unquiet(a) \in WorkerRec /\ Unquiet(a).pc = a.pc /\ Unquiet(a).key = a.key /\ Unquiet(a).rev = a.rev
           /\ Unquiet(a).attempt = a.attempt /\ Unquiet(a).added = a.added
  BY DEF WorkerRec, Unquiet

\* All of them are disturbed.
LEMMA DisturbedAll ==
    ASSUME WorkersInv
    PROVE  /\ Disturbed(worker) \in [VecWorkers -> WorkerRec]
           /\ \A x \in VecWorkers : Disturbed(worker)[x] = Unquiet(worker[x])
<1>1. \A x \in VecWorkers : worker[x] \in WorkerRec
  BY DEF WorkersInv
<1>2. DOMAIN worker = VecWorkers
  BY DEF WorkersInv
<1>3. Disturbed(worker) = [x \in VecWorkers |-> Unquiet(worker[x])]
  BY <1>2 DEF Disturbed, Unquiet
<1> QED
  BY <1>1, <1>3, UnquietKeeps

\* Links may change as they like when all are disturbed.
LEMMA AllDisturbed ==
    ASSUME WorkersInv, worker' = Disturbed(worker), vecFacts' = vecFacts
    PROVE  WorkersInv' /\ ClaimsKept /\ NoneAdds
<1>1. \A x \in VecWorkers : worker'[x] = Unquiet(worker[x])
  BY DisturbedAll
<1>2. \A x \in VecWorkers : Proper(vecFacts', linkRows', worker'[x])
  BY <1>1, UnquietIsProper, ProperWorkers
<1>3. WorkersInv'
  BY <1>2, DisturbedAll DEF WorkersInv, Proper
<1>4. \A x \in VecWorkers : worker[x] \in WorkerRec /\ worker[x].added \in Nat
  BY DEF WorkersInv, WorkerRec
<1>5. ClaimsKept
  BY <1>1, <1>4, UnquietKeeps DEF ClaimsKept
<1>6. NoneAdds
  BY <1>1, <1>4, UnquietKeeps DEF NoneAdds
<1> QED
  BY <1>3, <1>5, <1>6

\* An enricher goes on with the same work.
LEMMA NextIsProper ==
    ASSUME NEW F, NEW L, NEW a, Proper(F, L, a), a.pc # "idle",
           NEW p \in {"read", "embed", "store", "targets", "finish", "failed"}, p = "finish" \/ a.pc \notin {"link", "finish"},
           NEW b, b = [a EXCEPT !.pc = p]
    PROVE  /\ Proper(F, L, b) /\ b.added = a.added
           /\ b.key = a.key /\ b.rev = a.rev /\ b.attempt = a.attempt
<1>1. a \in WorkerRec
  BY DEF Proper
<1>2. b \in WorkerRec /\ b.pc = p
  BY <1>1 DEF WorkerRec
<1>3. /\ b.key = a.key /\ b.rev = a.rev /\ b.seen = a.seen /\ b.attempt = a.attempt /\ b.added = a.added
      /\ b.fresh = a.fresh /\ b.quiet = a.quiet /\ b.except = a.except
  BY <1>1 DEF WorkerRec
<1>4. Aimed(b)
  BY <1>2, <1>3 DEF Aimed, Proper
<1>5. SeenOf(F, b)
  BY <1>3 DEF SeenOf, Proper
<1>6. CountsOf(L, b)
  BY <1>2, <1>3 DEF CountsOf, Proper
<1> QED
  BY <1>2, <1>3, <1>4, <1>5, <1>6 DEF Proper

\* What was read of the facts, and still stands.
Readings(F, s) == s \in SeenFacts /\ \A k \in VecKeys : ReadOf(s[k], F[k]) /\ OwnVec(s[k])

\* And has read more.
Reader(a, s, p) == [a EXCEPT !.seen = s, !.pc = p]
LEMMA ReaderIsProper ==
    ASSUME NEW F, NEW L, NEW a, Proper(F, L, a), a.pc \in {"read", "embed"},
           NEW s, Readings(F, s),
           NEW p \in {"embed", "store", "targets", "finish"},
           NEW b, b = Reader(a, s, p)
    PROVE  /\ Proper(F, L, b) /\ b.added = a.added
           /\ b.key = a.key /\ b.rev = a.rev /\ b.attempt = a.attempt
<1>1. a \in WorkerRec
  BY DEF Proper
<1>2. b \in WorkerRec /\ b.pc = p /\ b.seen = s
  BY <1>1 DEF WorkerRec, Readings, Reader
<1>3. /\ b.key = a.key /\ b.rev = a.rev /\ b.attempt = a.attempt /\ b.added = a.added
      /\ b.fresh = a.fresh /\ b.quiet = a.quiet /\ b.except = a.except
  BY <1>1 DEF WorkerRec, Reader
<1>4. Aimed(b)
  BY <1>2, <1>3 DEF Aimed, Proper
<1>5. SeenOf(F, b)
  BY <1>2 DEF SeenOf, Readings
<1>6. CountsOf(L, b)
  BY <1>2, <1>3 DEF CountsOf, Proper
<1> QED
  BY <1>2, <1>3, <1>4, <1>5, <1>6 DEF Proper

\* A claim is of an attempt, and of the revision that is live.
LEMMA ClaimMoves ==
    ASSUME VecFactsInv, WorkersInv, ClaimsInv, NEW w \in VecWorkers, NEW k \in Enriched, StageClaim(w, k)
    PROVE  WorkersInv' /\ NoneAdds
<1> DEFINE r == <<k, vecFacts[k].id>>
           n == stageRuns[r].attempts + 1
           a == [NoWorker EXCEPT !.pc = "read", !.key = k, !.rev = r[2], !.attempt = n]
<1>1. k \in VecKeys /\ vecFacts[k].id \in 1 .. VecRevs
  BY VecNumbers DEF VecFactsInv
<1>2. r \in VecKeys \X (1 .. VecRevs) /\ r[2] = vecFacts[k].id
  BY <1>1
<1>3. stageRuns[r] \in RunRec
  BY <1>2 DEF ClaimsInv
<1>4. n \in Nat
  BY <1>3 DEF RunRec
<1>5. WorkerAt(w, a)
  BY DEF StageClaim, WorkerAt
<1>6. r[2] \in Nat
  BY <1>1, <1>2, VecNumbers
<1> HIDE DEF n, r
<1>7. a \in WorkerRec
  BY <1>1, <1>4, <1>6, NothingSeen DEF NoWorker, WorkerRec
<1>8. /\ a.pc = "read" /\ a.key = k /\ a.rev = r[2] /\ a.seen = NoFacts /\ a.added = 0 /\ a.fresh = 0 /\ a.quiet = FALSE
  BY DEF NoWorker
<1> HIDE DEF a
<1>9. Aimed(a)
  BY <1>1, <1>2, <1>8 DEF Aimed
<1>10. SeenOf(vecFacts, a)
  BY <1>8, SeenNone
<1>11. CountsOf(linkRows, a)
  BY <1>8, VecNumbers DEF CountsOf
<1>12. Proper(vecFacts, linkRows, a)
  BY <1>7, <1>9, <1>10, <1>11 DEF Proper
<1>13. linkRows' = linkRows /\ vecFacts' = vecFacts /\ vecFacts \in SeenFacts
  BY DEF StageClaim, VecFactsInv
<1>14. WorkersInv'
  BY <1>5, <1>12, <1>13, OneMoves, FactsRest
<1>15. \A x \in VecWorkers : worker'[x].added <= worker[x].added
  <2>1. \A x \in VecWorkers : worker'[x] = IF x = w THEN a ELSE worker[x]
    BY <1>5 DEF WorkersInv, WorkerAt
  <2>2. \A x \in VecWorkers : worker[x].added \in Nat
    BY DEF WorkersInv, WorkerRec
  <2> QED
    BY <2>1, <2>2, <1>8
<1> QED
  BY <1>14, <1>15 DEF NoneAdds

\* An enricher reads the facts.
LEMMA ReadMoves ==
    ASSUME VecFactsInv, WorkersInv, NEW w \in VecWorkers, EnrichRead(w)
    PROVE  WorkersInv' /\ ClaimsKept /\ NoneAdds
<1>0. PICK a : a = worker[w]
  OBVIOUS
<1>1. PICK p \in {"finish", "embed", "targets"} : WorkerAt(w, [a EXCEPT !.seen = vecFacts, !.pc = p])
  BY <1>0 DEF EnrichRead, WorkerAt
<1>b. PICK b : b = Reader(a, vecFacts, p)
  OBVIOUS
<1>2. Proper(vecFacts, linkRows, a) /\ a.pc = "read"
  BY <1>0, ProperWorkers DEF EnrichRead
<1>3. Readings(vecFacts, vecFacts) /\ vecFacts \in SeenFacts
  BY DEF VecFactsInv, SeenFacts, VecFactRec, ReadOf, Readings
<1>4. Proper(vecFacts, linkRows, b) /\ b.added = a.added /\ b.key = a.key /\ b.rev = a.rev /\ b.attempt = a.attempt
  BY <1>b, <1>2, <1>3, ReaderIsProper
<1>5. WorkerAt(w, b)
  BY <1>b, <1>1 DEF Reader
<1>6. linkRows' = linkRows /\ vecFacts' = vecFacts
  BY DEF EnrichRead
<1>7. a.added \in Nat
  BY <1>2 DEF Proper, WorkerRec
<1>8. WorkersInv'
  BY <1>3, <1>4, <1>5, <1>6, OneMoves, FactsRest
<1>9. ClaimsKept /\ NoneAdds
  BY <1>0, <1>2, <1>4, <1>5, <1>7, OneKeeps
<1> QED
  BY <1>8, <1>9

\* A step that changes the place of an enricher alone.
LEMMA PcMoves ==
    ASSUME VecFactsInv, WorkersInv, NEW w \in VecWorkers, worker[w].pc # "idle",
           NEW p \in {"read", "embed", "store", "targets", "finish", "failed"},
           p = "finish" \/ worker[w].pc \notin {"link", "finish"},
           WorkerPc(w, p), linkRows' = linkRows, vecFacts' \in SeenFacts, FactsGrow
    PROVE  WorkersInv' /\ ClaimsKept /\ NoneAdds
<1>0. PICK a : a = worker[w]
  OBVIOUS
<1> DEFINE b == [a EXCEPT !.pc = p]
<1>1. Proper(vecFacts, linkRows, a)
  BY <1>0, ProperWorkers
<1>2. Proper(vecFacts, linkRows, b) /\ b.added = a.added /\ b.key = a.key /\ b.rev = a.rev /\ b.attempt = a.attempt
  BY <1>0, <1>1, NextIsProper
<1>3. WorkerAt(w, b)
  BY <1>0 DEF WorkerPc, WorkerAt
<1> HIDE DEF b
<1>4. a.added \in Nat /\ vecFacts \in SeenFacts
  BY <1>1 DEF Proper, WorkerRec, VecFactsInv
<1>5. WorkersInv'
  BY <1>2, <1>3, <1>4, OneMoves
<1>6. ClaimsKept /\ NoneAdds
  BY <1>0, <1>2, <1>3, <1>4, OneKeeps
<1> QED
  BY <1>5, <1>6

\* An enricher embeds what it has read.
LEMMA EmbedMoves ==
    ASSUME VecFactsInv, WorkersInv, NEW w \in VecWorkers, EnrichEmbeds(w)
    PROVE  WorkersInv' /\ ClaimsKept /\ NoneAdds
<1>0. PICK a : a = worker[w]
  OBVIOUS
<1>1. linkRows' = linkRows /\ vecFacts' = vecFacts /\ a.pc = "embed" /\ vecFacts \in SeenFacts
  BY <1>0 DEF EnrichEmbeds, VecFactsInv
<1>2. Proper(vecFacts, linkRows, a)
  BY <1>0, ProperWorkers
<1>3. a \in WorkerRec /\ a.key \in VecKeys
  BY <1>1, <1>2 DEF Proper, Aimed
<1>4. FactsGrow
  BY <1>1, FactsRest
<1>5. CASE WorkerPc(w, "finish") \/ WorkerPc(w, "failed")
  BY <1>0, <1>1, <1>4, <1>5, PcMoves
<1> DEFINE f == a.seen[a.key]
           g == [f EXCEPT !.vec = Embedded(f.text), !.form = "bare"]
           s == [a.seen EXCEPT ![a.key] = g]
<1>6. CASE WorkerAt(w, [a EXCEPT !.pc = "store", !.seen[a.key] = g])
  <2>1. a.seen \in SeenFacts /\ f \in VecFactRec
    BY <1>3 DEF WorkerRec, SeenFacts
  <2>2. g \in VecFactRec /\ OwnVec(g) /\ g.id = f.id /\ g.text = f.text
    BY <2>1, EmbeddedIsOwn DEF VecFactRec, VecForms
  <2>3. [a EXCEPT !.pc = "store", !.seen[a.key] = g] = [a EXCEPT !.seen = s, !.pc = "store"]
    BY <1>3 DEF WorkerRec
  <2> HIDE DEF g
  <2>4. s \in SeenFacts
    BY <2>1, <2>2 DEF SeenFacts
  <2>5. ASSUME NEW k \in VecKeys PROVE ReadOf(s[k], vecFacts[k]) /\ OwnVec(s[k])
    <3>1. s[k] = IF k = a.key THEN g ELSE a.seen[k]
      BY <2>1 DEF SeenFacts
    <3>2. ReadOf(a.seen[k], vecFacts[k]) /\ OwnVec(a.seen[k])
      BY <1>2 DEF Proper, SeenOf
    <3> QED
      BY <3>1, <3>2, <2>2 DEF ReadOf
  <2>5a. Readings(vecFacts, s)
    BY <2>4, <2>5 DEF Readings
  <2> HIDE DEF s
  <2>b. PICK b : b = Reader(a, s, "store")
    OBVIOUS
  <2>6. Proper(vecFacts, linkRows, b) /\ b.added = a.added /\ b.key = a.key /\ b.rev = a.rev /\ b.attempt = a.attempt
    BY <1>1, <1>2, <2>b, <2>5a, ReaderIsProper
  <2>7. WorkerAt(w, b)
    BY <1>6, <2>3, <2>b DEF WorkerAt, Reader
  <2>8. WorkersInv'
    BY <1>1, <1>4, <2>6, <2>7, OneMoves
  <2>9. a.added \in Nat
    BY <1>3 DEF WorkerRec
  <2>10. ClaimsKept /\ NoneAdds
    BY <1>0, <1>1, <2>6, <2>7, <2>9, OneKeeps
  <2> QED
    BY <2>8, <2>10
<1> QED
  BY <1>0, <1>5, <1>6 DEF EnrichEmbeds

\* An enricher stores a vector, if its claim still holds.
LEMMA StoreMoves ==
    ASSUME VecFactsInv, WorkersInv, NEW w \in VecWorkers, EnrichStores(w)
    PROVE  VecFactsInv' /\ FactsGrow /\ WorkersInv' /\ ClaimsKept /\ NoneAdds
<1>0. PICK a : a = worker[w]
  OBVIOUS
<1>1. Proper(vecFacts, linkRows, a) /\ a.pc = "store"
  BY <1>0, ProperWorkers DEF EnrichStores
<1>2. a \in WorkerRec /\ a.key \in VecKeys
  BY <1>1 DEF Proper, Aimed
<1>3. a.seen[a.key] \in VecFactRec /\ OwnVec(a.seen[a.key]) /\ ReadOf(a.seen[a.key], vecFacts[a.key])
  BY <1>1, <1>2 DEF WorkerRec, SeenFacts, Proper, SeenOf
<1>4. vecFacts' = StoredOn(a.key, a.seen[a.key]) \/ vecFacts' = vecFacts
  BY <1>0 DEF EnrichStores
<1>5. VecFactsInv' /\ FactsGrow
  BY <1>2, <1>3, <1>4, StoresOwn, FactsRest
<1>6. linkRows' = linkRows /\ (WorkerPc(w, "targets") \/ WorkerPc(w, "finish"))
  BY DEF EnrichStores
<1>7. vecFacts' \in SeenFacts
  BY <1>5 DEF VecFactsInv
<1>8. WorkersInv' /\ ClaimsKept /\ NoneAdds
  BY <1>0, <1>1, <1>5, <1>6, <1>7, PcMoves
<1> QED
  BY <1>5, <1>8

\* An enricher reads the links of its fact.
LEMMA TargetsMove ==
    ASSUME VecFactsInv, WorkersInv, NEW w \in VecWorkers, EnrichTargets(w)
    PROVE  WorkersInv' /\ ClaimsKept /\ NoneAdds
<1>0. PICK a : a = worker[w]
  OBVIOUS
<1> DEFINE X == linkTargetsAll(a.key) \cup {a.key}
           b == [a EXCEPT !.pc = "link", !.except = X, !.quiet = TRUE]
<1>1. Proper(vecFacts, linkRows, a) /\ a.pc = "targets"
  BY <1>0, ProperWorkers DEF EnrichTargets
<1>2. a \in WorkerRec /\ a.key \in VecKeys /\ a.added = 0 /\ a.fresh = 0
  BY <1>1 DEF Proper, Aimed, CountsOf
<1>3. X \in SUBSET VecKeys
  BY <1>2 DEF linkTargetsAll
<1>4. \A j \in VecKeys : linkRows[<<a.key, j>>] # "none" => j \in X
  BY DEF linkTargetsAll
<1> HIDE DEF X
<1>5. b \in WorkerRec /\ b.pc = "link" /\ b.except = X /\ b.quiet = TRUE
  BY <1>2, <1>3 DEF WorkerRec
<1>6. /\ b.key = a.key /\ b.rev = a.rev /\ b.attempt = a.attempt /\ b.added = 0 /\ b.fresh = 0 /\ b.seen = a.seen
  BY <1>2 DEF WorkerRec
<1>7. WorkerAt(w, b)
  BY <1>0 DEF EnrichTargets, WorkerAt, X
<1> HIDE DEF b
<1>8. Aimed(b)
  BY <1>1, <1>5, <1>6 DEF Proper, Aimed
<1>9. SeenOf(vecFacts, b)
  BY <1>1, <1>6 DEF Proper, SeenOf
<1>10. CountsOf(linkRows, b)
  BY <1>4, <1>5, <1>6, VecNumbers DEF CountsOf
<1>11. Proper(vecFacts, linkRows, b)
  BY <1>5, <1>8, <1>9, <1>10 DEF Proper
<1>12. linkRows' = linkRows /\ vecFacts' = vecFacts /\ vecFacts \in SeenFacts
  BY DEF EnrichTargets, VecFactsInv
<1>13. WorkersInv'
  BY <1>7, <1>11, <1>12, OneMoves, FactsRest
<1>14. ClaimsKept /\ NoneAdds
  BY <1>0, <1>1, <1>2, <1>6, <1>7, OneKeeps
<1> QED
  BY <1>13, <1>14

\* An enricher that ends, in whatever way.
LEMMA EndMoves ==
    ASSUME VecFactsInv, WorkersInv, NEW w \in VecWorkers, WorkerAt(w, NoWorker), linkRows' = linkRows, vecFacts' = vecFacts
    PROVE  WorkersInv' /\ ClaimsKept /\ NoneAdds
<1>1. Proper(vecFacts, linkRows, NoWorker) /\ NoWorker.pc = "idle" /\ NoWorker.added = 0
  BY IdleIsProper
<1>2. worker[w].added \in Nat /\ vecFacts \in SeenFacts
  BY DEF WorkersInv, WorkerRec, VecFactsInv
<1>3. WorkerAt(w, NoWorker)
  BY DEF WorkerAt
<1>4. WorkersInv'
  BY <1>1, <1>2, <1>3, OneMoves, FactsRest
<1>5. NoWorker.added <= worker[w].added
  BY <1>1, <1>2
<1>6. ClaimsKept /\ NoneAdds
  BY <1>1, <1>3, <1>5, OneKeeps
<1> QED
  BY <1>4, <1>6

\* A link is added once.
LEMMA LinkAdded ==
    ASSUME LinksInv, NEW e \in VecKeys \X VecKeys
    PROVE  /\ addLinkTx(e) \in [VecKeys \X VecKeys -> {"none", "live", "closed"}]
           /\ \A d \in VecKeys \X VecKeys : addLinkTx(e)[d] # "none" => d = e \/ linkRows[d] # "none"
           /\ Fresh(e) \in {0, 1} /\ (linkRows[e] = "none" => Fresh(e) = 1)
<1>1. addLinkTx(e) \in [VecKeys \X VecKeys -> {"none", "live", "closed"}]
  BY DEF LinksInv, addLinkTx
<1>2. \A d \in VecKeys \X VecKeys : d # e => addLinkTx(e)[d] = linkRows[d]
  BY DEF LinksInv, addLinkTx
<1>3. Fresh(e) \in {0, 1} /\ (linkRows[e] = "none" => Fresh(e) = 1)
  BY DEF Fresh
<1> QED
  BY <1>1, <1>2, <1>3

\* An enricher adds a link under its claim; the others no longer have the links right.
LEMMA LinkMoves ==
    ASSUME VecFactsInv, LinksInv, WorkersInv, NEW w \in VecWorkers, EnrichLinks(w)
    PROVE  /\ WorkersInv' /\ ClaimsKept /\ LinksInv'
           /\ \A x \in VecWorkers : worker'[x].added > worker[x].added => x = w /\ RunFence(w)
<1>0. PICK a : a = worker[w]
  OBVIOUS
<1>1. Proper(vecFacts, linkRows, a) /\ a.pc = "link" /\ vecFacts' = vecFacts /\ vecFacts \in SeenFacts
  BY <1>0, ProperWorkers DEF EnrichLinks, VecFactsInv
<1>2. a \in WorkerRec /\ a.key \in VecKeys /\ a.added \in Nat /\ a.fresh \in Nat /\ a.except \in SUBSET VecKeys
  BY <1>1 DEF Proper, Aimed, WorkerRec
<1>3. \A x \in VecWorkers : worker[x].added \in Nat
  BY DEF WorkersInv, WorkerRec
<1>4. CASE WorkerPc(w, "finish") /\ linkRows' = linkRows
  <2>1. WorkersInv' /\ ClaimsKept /\ NoneAdds
    BY <1>0, <1>1, <1>4, PcMoves, FactsRest
  <2>2. \A x \in VecWorkers : worker'[x].added \in Nat
    BY <2>1 DEF WorkersInv, WorkerRec
  <2> QED
    BY <1>3, <1>4, <2>1, <2>2 DEF NoneAdds, LinksInv
<1>5. CASE /\ a.added < TopN /\ RunFence(w)
           /\ \E j \in Candidates(a, a.key) :
                  /\ linkRows' = addLinkTx(<<a.key, j>>)
                  /\ worker' = [Disturbed(worker) EXCEPT ![w] =
                         [a EXCEPT !.except = @ \cup {j}, !.added = @ + 1, !.fresh = @ + Fresh(<<a.key, j>>)]]
  <2>1. PICK j \in Candidates(a, a.key) :
                  /\ linkRows' = addLinkTx(<<a.key, j>>)
                  /\ worker' = [Disturbed(worker) EXCEPT ![w] =
                         [a EXCEPT !.except = @ \cup {j}, !.added = @ + 1, !.fresh = @ + Fresh(<<a.key, j>>)]]
    BY <1>5
  <2> DEFINE e == <<a.key, j>>
             n == Fresh(e)
             b == [a EXCEPT !.except = @ \cup {j}, !.added = @ + 1, !.fresh = @ + n]
  <2>2. j \in VecKeys /\ j \notin a.except
    BY DEF Candidates
  <2>3. e \in VecKeys \X VecKeys
    BY <1>2, <2>2
  <2>4. /\ linkRows' \in [VecKeys \X VecKeys -> {"none", "live", "closed"}]
        /\ \A d \in VecKeys \X VecKeys : linkRows'[d] # "none" => d = e \/ linkRows[d] # "none"
        /\ n \in {0, 1} /\ (linkRows[e] = "none" => n = 1)
    BY <2>1, <2>3, LinkAdded
  <2>5. worker' = [Disturbed(worker) EXCEPT ![w] = b]
    BY <2>1
  <2> HIDE DEF n
  <2>5a. a.except \cup {j} \in SUBSET VecKeys /\ a.added + 1 \in Nat /\ a.fresh + n \in Nat
    BY <1>2, <2>2, <2>4
  <2>6. b \in WorkerRec
    BY <1>2, <2>5a DEF WorkerRec
  <2>7. /\ b.pc = "link" /\ b.key = a.key /\ b.rev = a.rev /\ b.attempt = a.attempt /\ b.seen = a.seen /\ b.quiet = a.quiet
        /\ b.except = a.except \cup {j} /\ b.added = a.added + 1 /\ b.fresh = a.fresh + n
    BY <1>1, <1>2 DEF WorkerRec
  <2> HIDE DEF b
  <2>8. Aimed(b)
    BY <1>1, <2>7 DEF Aimed, Proper
  <2>9. SeenOf(vecFacts, b)
    BY <1>1, <2>7 DEF SeenOf, Proper
  <2>10. CountsOf(linkRows', b)
    <3>1. b.added <= TopN
      BY <1>2, <1>5, <2>7, VecNumbers
    <3>2. ASSUME b.quiet PROVE b.added = b.fresh
      <4>1. a.added = a.fresh /\ linkRows[e] = "none"
        BY <1>1, <2>2, <2>7, <3>2 DEF Proper, CountsOf
      <4> QED
        BY <2>4, <2>7, <4>1
    <3>3. ASSUME b.quiet, NEW i \in VecKeys, linkRows'[<<b.key, i>>] # "none" PROVE i \in b.except
      <4>1. <<a.key, i>> \in VecKeys \X VecKeys
        BY <1>2
      <4>2. i = j \/ linkRows[<<a.key, i>>] # "none"
        BY <2>4, <2>7, <3>3, <4>1
      <4>3. linkRows[<<a.key, i>>] # "none" => i \in a.except
        BY <1>1, <2>7, <3>3 DEF Proper, CountsOf
      <4> QED
        BY <2>7, <4>2, <4>3
    <3> QED
      BY <2>7, <3>1, <3>2, <3>3 DEF CountsOf
  <2>11. Proper(vecFacts, linkRows', b)
    BY <2>6, <2>8, <2>9, <2>10 DEF Proper
  <2>12. \A x \in VecWorkers : worker'[x] = IF x = w THEN b ELSE Unquiet(worker[x])
    BY <2>5, DisturbedAll
  <2>13. worker' \in [VecWorkers -> WorkerRec]
    BY <2>5, <2>6, DisturbedAll
  <2>14. \A x \in VecWorkers : Proper(vecFacts, linkRows', worker'[x])
    BY <2>11, <2>12, UnquietIsProper, ProperWorkers
  <2>15. WorkersInv'
    BY <1>1, <2>13, <2>14 DEF WorkersInv, Proper
  <2>16. \A x \in VecWorkers : worker[x] \in WorkerRec
    BY DEF WorkersInv
  <2>17. ClaimsKept
    BY <1>0, <1>1, <2>7, <2>12, <2>16, UnquietKeeps DEF ClaimsKept
  <2>18. \A x \in VecWorkers \ {w} : worker'[x].added = worker[x].added
    BY <2>12, <2>16, UnquietKeeps
  <2>19. \A x \in VecWorkers : worker'[x].added > worker[x].added => x = w
    BY <1>3, <2>18
  <2> QED
    BY <1>5, <2>4, <2>15, <2>17, <2>19 DEF LinksInv
<1> QED
  BY <1>0, <1>4, <1>5 DEF EnrichLinks

-----------------------------------------------------------------------------
(* Claims of embed-link runs *)

\* The run of an enricher is one of the table.
LEMMA RunsExist ==
    ASSUME WorkersInv, NEW w \in VecWorkers, worker[w].pc # "idle"
    PROVE  <<worker[w].key, worker[w].rev>> \in VecKeys \X (1 .. VecRevs)
<1>1. worker[w].key \in VecKeys /\ worker[w].rev \in 1 .. VecRevs
  BY DEF WorkersInv, Aimed
<1> QED
  BY <1>1

\* Runs that are not claimed keep their attempts, and so do their holders.
LEMMA ClaimsStay ==
    ASSUME WorkersInv, ClaimsInv, ClaimsKept,
           stageRuns' \in [VecKeys \X (1 .. VecRevs) -> RunRec],
           \A r \in VecKeys \X (1 .. VecRevs) : stageRuns'[r].attempts = stageRuns[r].attempts
    PROVE  ClaimsInv'
<1>1. ASSUME NEW w \in VecWorkers, worker'[w].pc # "idle"
      PROVE  worker'[w].attempt <= stageRuns'[<<worker'[w].key, worker'[w].rev>>].attempts
  <2>1. /\ worker[w].pc # "idle" /\ worker'[w].key = worker[w].key
        /\ worker'[w].rev = worker[w].rev /\ worker'[w].attempt = worker[w].attempt
    BY <1>1 DEF ClaimsKept
  <2>2. <<worker[w].key, worker[w].rev>> \in VecKeys \X (1 .. VecRevs)
    BY <2>1, RunsExist
  <2>3. worker[w].attempt <= stageRuns[<<worker[w].key, worker[w].rev>>].attempts
    BY <2>1 DEF ClaimsInv
  <2>4. stageRuns'[<<worker[w].key, worker[w].rev>>].attempts = stageRuns[<<worker[w].key, worker[w].rev>>].attempts
    BY <2>2
  <2> QED
    BY <2>1, <2>3, <2>4
<1>2. ASSUME NEW w \in VecWorkers, NEW x \in VecWorkers, w # x, worker'[w].pc # "idle", worker'[x].pc # "idle",
             worker'[w].key = worker'[x].key, worker'[w].rev = worker'[x].rev
      PROVE  worker'[w].attempt # worker'[x].attempt
  BY <1>2 DEF ClaimsKept, ClaimsInv
<1> QED
  BY <1>1, <1>2 DEF ClaimsInv

\* Nobody touches a run.
LEMMA ClaimsRest ==
    ASSUME WorkersInv, ClaimsInv, ClaimsKept, stageRuns' = stageRuns
    PROVE  ClaimsInv'
  BY ClaimsStay DEF ClaimsInv

\* A run changes its state alone.
LEMMA RunChanges ==
    ASSUME WorkersInv, ClaimsInv, ClaimsKept, NEW r \in VecKeys \X (1 .. VecRevs),
           NEW s \in {"none", "pending", "running", "failed", "succeeded", "superseded"},
           stageRuns' = [stageRuns EXCEPT ![r].st = s]
    PROVE  ClaimsInv'
<1> DEFINE u == [stageRuns[r] EXCEPT !.st = s]
<1>1. stageRuns[r] \in RunRec
  BY DEF ClaimsInv
<1>2. u \in RunRec /\ u.attempts = stageRuns[r].attempts
  BY <1>1 DEF RunRec
<1>3. stageRuns' = [stageRuns EXCEPT ![r] = u]
  OBVIOUS
<1> HIDE DEF u
<1>4. stageRuns' \in [VecKeys \X (1 .. VecRevs) -> RunRec]
  BY <1>2, <1>3 DEF ClaimsInv
<1>5. \A q \in VecKeys \X (1 .. VecRevs) : stageRuns'[q].attempts = stageRuns[q].attempts
  BY <1>2, <1>3 DEF ClaimsInv
<1> QED
  BY <1>4, <1>5, ClaimsStay

\* A claim gets an attempt that nobody has.
LEMMA ClaimIsNew ==
    ASSUME VecFactsInv, WorkersInv, ClaimsInv, NEW w \in VecWorkers, NEW k \in Enriched, StageClaim(w, k)
    PROVE  ClaimsInv'
<1> DEFINE r == <<k, vecFacts[k].id>>
           n == stageRuns[r].attempts + 1
           u == [st |-> "running", attempts |-> n]
           a == [NoWorker EXCEPT !.pc = "read", !.key = k, !.rev = r[2], !.attempt = n]
<1>1. k \in VecKeys /\ vecFacts[k].id \in 1 .. VecRevs
  BY VecNumbers DEF VecFactsInv
<1>2. r \in VecKeys \X (1 .. VecRevs) /\ r = <<k, r[2]>>
  BY <1>1
<1>3. stageRuns[r] \in RunRec /\ stageRuns[r].attempts \in Nat
  BY <1>2 DEF ClaimsInv, RunRec
<1>4. n \in Nat /\ u \in RunRec
  BY <1>3 DEF RunRec
<1>5. stageRuns' = [stageRuns EXCEPT ![r] = u] /\ worker' = [worker EXCEPT ![w] = a]
  BY DEF StageClaim, WorkerAt
<1>6. n > stageRuns[r].attempts /\ u.attempts = n
  BY <1>3
<1> HIDE DEF n, r, u
<1>7. a.pc = "read" /\ a.key = k /\ a.rev = r[2] /\ a.attempt = n
  BY DEF NoWorker
<1> HIDE DEF a
<1>8. \A x \in VecWorkers : worker'[x] = IF x = w THEN a ELSE worker[x]
  BY <1>5 DEF WorkersInv
<1>9. \A q \in VecKeys \X (1 .. VecRevs) : stageRuns'[q] = IF q = r THEN u ELSE stageRuns[q]
  BY <1>5 DEF ClaimsInv
<1>10. stageRuns' \in [VecKeys \X (1 .. VecRevs) -> RunRec]
  BY <1>4, <1>5 DEF ClaimsInv
<1>11. ASSUME NEW x \in VecWorkers, x # w, worker[x].pc # "idle"
       PROVE  /\ worker[x].attempt <= stageRuns'[<<worker[x].key, worker[x].rev>>].attempts
              /\ worker[x].key = a.key /\ worker[x].rev = a.rev => worker[x].attempt < a.attempt
  <2>1. <<worker[x].key, worker[x].rev>> \in VecKeys \X (1 .. VecRevs)
    BY <1>11, RunsExist
  <2>2. worker[x].attempt <= stageRuns[<<worker[x].key, worker[x].rev>>].attempts /\ worker[x].attempt \in Nat
    BY <1>11 DEF ClaimsInv, WorkersInv, WorkerRec
  <2>3. CASE <<worker[x].key, worker[x].rev>> = r
    BY <1>3, <1>4, <1>6, <1>7, <1>9, <2>1, <2>2, <2>3
  <2>4. CASE <<worker[x].key, worker[x].rev>> # r
    BY <1>2, <1>7, <1>9, <2>1, <2>2, <2>4
  <2> QED
    BY <2>3, <2>4
<1>12. ASSUME NEW x \in VecWorkers, worker'[x].pc # "idle"
       PROVE  worker'[x].attempt <= stageRuns'[<<worker'[x].key, worker'[x].rev>>].attempts
  <2>1. CASE x = w
    <3>1. worker'[x].attempt = n /\ <<worker'[x].key, worker'[x].rev>> = r
      BY <1>2, <1>7, <1>8, <2>1
    <3>2. stageRuns'[r].attempts = n
      BY <1>2, <1>6, <1>9
    <3> QED
      BY <1>4, <3>1, <3>2
  <2>2. CASE x # w
    BY <1>8, <1>11, <1>12, <2>2
  <2> QED
    BY <2>1, <2>2
<1>13. ASSUME NEW x \in VecWorkers, NEW y \in VecWorkers, x # y, worker'[x].pc # "idle", worker'[y].pc # "idle",
              worker'[x].key = worker'[y].key, worker'[x].rev = worker'[y].rev
       PROVE  worker'[x].attempt # worker'[y].attempt
  <2>0. \A z \in VecWorkers : worker[z].attempt \in Nat
    BY DEF WorkersInv, WorkerRec
  <2>1. CASE x = w
    <3>1. worker'[y] = worker[y] /\ worker'[x] = a /\ y # w
      BY <1>8, <1>13, <2>1
    <3>2. worker[y].pc # "idle" /\ worker[y].key = a.key /\ worker[y].rev = a.rev
      BY <1>13, <3>1
    <3>3. worker[y].attempt < a.attempt
      BY <1>11, <3>1, <3>2
    <3> QED
      BY <1>4, <1>7, <2>0, <3>1, <3>3
  <2>2. CASE y = w
    <3>1. worker'[x] = worker[x] /\ worker'[y] = a /\ x # w
      BY <1>8, <1>13, <2>2
    <3>2. worker[x].pc # "idle" /\ worker[x].key = a.key /\ worker[x].rev = a.rev
      BY <1>13, <3>1
    <3>3. worker[x].attempt < a.attempt
      BY <1>11, <3>1, <3>2
    <3> QED
      BY <1>4, <1>7, <2>0, <3>1, <3>3
  <2>3. CASE x # w /\ y # w
    BY <1>8, <1>13, <2>3 DEF ClaimsInv
  <2> QED
    BY <2>1, <2>2, <2>3
<1> QED
  BY <1>10, <1>12, <1>13 DEF ClaimsInv

\* The fence holds for the latest claim of a run only.
LEMMA FenceIsLatest ==
    ASSUME WorkersInv, ClaimsInv, NEW w \in VecWorkers, worker[w].pc = "link", RunFence(w)
    PROVE  /\ StillLive(worker[w].key, worker[w].rev)
           /\ \A x \in VecWorkers \ {w} : worker[x].key = worker[w].key /\ worker[x].rev = worker[w].rev
                                           => worker[x].attempt < worker[w].attempt
<1>1. StillLive(worker[w].key, worker[w].rev) /\ stageRuns[<<worker[w].key, worker[w].rev>>].attempts = worker[w].attempt
  BY DEF RunFence, Run
<1>2. ASSUME NEW x \in VecWorkers \ {w}, worker[x].key = worker[w].key, worker[x].rev = worker[w].rev
      PROVE  worker[x].attempt < worker[w].attempt
  <2>1. worker[w].rev \in 1 .. VecRevs
    BY DEF WorkersInv, Aimed
  <2>2. worker[x].pc # "idle"
    BY <1>2, <2>1, VecNumbers DEF WorkersInv, Aimed
  <2>3. worker[x].attempt <= worker[w].attempt
    BY <1>1, <1>2, <2>2 DEF ClaimsInv
  <2>4. worker[x].attempt # worker[w].attempt
    BY <1>2, <2>2 DEF ClaimsInv
  <2>5. worker[x].attempt \in Nat /\ worker[w].attempt \in Nat
    BY DEF WorkersInv, WorkerRec
  <2> QED
    BY <2>3, <2>4, <2>5
<1> QED
  BY <1>1, <1>2

-----------------------------------------------------------------------------
(* The creative pass *)

\* A creative pass that is as the invariant says, with links L.
PassOf(L, p) ==
    /\ p \in PassRec
    /\ p.pc # "link" => p.added = 0 /\ p.fresh = 0
    /\ p.added <= MaxLinks
    /\ p.quiet => p.added = p.fresh
    /\ p.quiet /\ p.pc = "link" => \A e \in VecKeys \X VecKeys : L[e] # "none" => e \in p.except
LEMMA PassProper == PassInv <=> PassOf(linkRows, pass)
  BY DEF PassInv, PassOf

\* There is no pass.
LEMMA NoPassIsProper == ASSUME NEW L PROVE PassOf(L, NoPass)
<1>1. NoPass \in PassRec
  BY NothingSeen DEF NoPass, PassRec
<1> QED
  BY <1>1, VecNumbers DEF PassOf, NoPass

\* A pass whose links others have changed.
LEMMA PassIsDisturbed ==
    ASSUME NEW L, NEW M, NEW p, PassOf(L, p)
    PROVE  PassOf(M, [p EXCEPT !.quiet = FALSE])
<1> DEFINE b == [p EXCEPT !.quiet = FALSE]
<1>1. p \in PassRec
  BY DEF PassOf
<1>2. b \in PassRec /\ b.quiet = FALSE
  BY <1>1 DEF PassRec
<1>3. b.pc = p.pc /\ b.added = p.added /\ b.fresh = p.fresh
  BY <1>1 DEF PassRec
<1> HIDE DEF b
<1>4. PassOf(M, b)
  BY <1>2, <1>3 DEF PassOf
<1> QED
  BY <1>4 DEF b

\* A pass begins.
LEMMA PassReads ==
    ASSUME VecFactsInv, CreativeRead
    PROVE  PassInv'
<1> DEFINE p == [NoPass EXCEPT !.pc = "pairs", !.seen = vecFacts]
<1>1. pass' = p
  BY DEF CreativeRead
<1>2. p \in PassRec
  BY DEF NoPass, PassRec, VecFactsInv
<1>3. p.pc = "pairs" /\ p.added = 0 /\ p.fresh = 0 /\ p.quiet = FALSE
  BY DEF NoPass
<1> HIDE DEF p
<1> QED
  BY <1>1, <1>2, <1>3, VecNumbers DEF PassInv

\* It reads the links.
LEMMA PassPairs ==
    ASSUME PassInv, CreativePairs
    PROVE  PassInv'
<1> DEFINE X == {e \in VecKeys \X VecKeys : linkRows[e] # "none" \/ linkRows[<<e[2], e[1]>>] # "none"}
           p == [pass EXCEPT !.pc = "link", !.quiet = TRUE, !.except = X]
<1>1. pass' = p /\ linkRows' = linkRows /\ pass.pc = "pairs"
  BY DEF CreativePairs
<1>2. X \in SUBSET (VecKeys \X VecKeys) /\ \A e \in VecKeys \X VecKeys : linkRows[e] # "none" => e \in X
  OBVIOUS
<1> HIDE DEF X
<1>3. p \in PassRec /\ p.pc = "link" /\ p.except = X
  BY <1>2 DEF PassInv, PassRec
<1>4. p.added = pass.added /\ p.fresh = pass.fresh
  BY DEF PassInv, PassRec
<1>5. pass.added = 0 /\ pass.fresh = 0
  BY <1>1 DEF PassInv
<1> HIDE DEF p
<1> QED
  BY <1>1, <1>2, <1>3, <1>4, <1>5, VecNumbers DEF PassInv

\* It adds a link that nobody had, as far as nobody has changed them.
LEMMA PassLinks ==
    ASSUME LinksInv, PassInv, CreativeLinks
    PROVE  PassInv' /\ LinksInv' /\ ((linkRows' = linkRows /\ worker' = worker) \/ worker' = Disturbed(worker))
<1> DEFINE pairs == {e \in (VecKeys \X VecKeys) \ pass.except :
                       /\ e[1] # e[2] /\ StillSeen(pass.seen, e[1]) /\ StillSeen(pass.seen, e[2])
                       /\ Near(pass.seen[e[1]].vec, pass.seen[e[2]].vec)}
<1>1. CASE pass' = NoPass /\ UNCHANGED <<linkRows, worker>>
  BY <1>1, NoPassIsProper DEF PassOf, PassInv, LinksInv
<1>2. CASE pairs # {} /\ pass.added # MaxLinks
  <2> DEFINE e == CHOOSE x \in pairs : TRUE
             n == Fresh(e)
             X == pass.except \cup {e, <<e[2], e[1]>>}
             p == [pass EXCEPT !.except = X, !.added = @ + 1, !.fresh = @ + n]
  <2>1. e \in pairs
    BY <1>2
  <2>2. e \in VecKeys \X VecKeys /\ e \notin pass.except
    BY <2>1
  <2>3. linkRows' = addLinkTx(e) /\ pass' = p /\ worker' = Disturbed(worker)
    BY <1>2 DEF CreativeLinks
  <2> HIDE DEF e, pairs
  <2>4. /\ linkRows' \in [VecKeys \X VecKeys -> {"none", "live", "closed"}]
        /\ \A d \in VecKeys \X VecKeys : linkRows'[d] # "none" => d = e \/ linkRows[d] # "none"
        /\ n \in {0, 1} /\ (linkRows[e] = "none" => n = 1)
    BY <2>2, <2>3, LinkAdded
  <2>5. pass \in PassRec /\ pass.added \in Nat /\ pass.fresh \in Nat /\ pass.except \in SUBSET (VecKeys \X VecKeys)
    BY DEF PassInv, PassRec
  <2>6. <<e[2], e[1]>> \in VecKeys \X VecKeys
    BY <2>2
  <2>7. X \in SUBSET (VecKeys \X VecKeys) /\ e \in X /\ pass.except \subseteq X
    BY <2>2, <2>5, <2>6
  <2> HIDE DEF X, n
  <2>8. pass.added + 1 \in Nat /\ pass.fresh + n \in Nat /\ pass.added + 1 <= MaxLinks
    BY <1>2, <2>4, <2>5, VecNumbers DEF PassInv
  <2>9. p \in PassRec
    BY <2>5, <2>7, <2>8 DEF PassRec
  <2>10. /\ p.pc = pass.pc /\ p.quiet = pass.quiet /\ p.except = X
         /\ p.added = pass.added + 1 /\ p.fresh = pass.fresh + n
    BY <2>5 DEF PassRec
  <2> HIDE DEF p
  <2>11. p.pc = "link"
    BY <2>10 DEF CreativeLinks
  <2>12. ASSUME p.quiet PROVE p.added = p.fresh
    <3>1. pass.added = pass.fresh /\ linkRows[e] = "none"
      BY <2>2, <2>10, <2>11, <2>12 DEF PassInv
    <3> QED
      BY <2>4, <2>10, <3>1
  <2>13. ASSUME p.quiet, NEW d \in VecKeys \X VecKeys, linkRows'[d] # "none" PROVE d \in p.except
    <3>1. d = e \/ linkRows[d] # "none"
      BY <2>4, <2>13
    <3>2. linkRows[d] # "none" => d \in pass.except
      BY <2>10, <2>11, <2>13 DEF PassInv
    <3> QED
      BY <2>7, <2>10, <3>1, <3>2
  <2>14. PassInv'
    BY <2>3, <2>8, <2>9, <2>10, <2>11, <2>12, <2>13 DEF PassInv
  <2> QED
    BY <2>3, <2>4, <2>14 DEF LinksInv
<1> QED
  BY <1>1, <1>2 DEF CreativeLinks

-----------------------------------------------------------------------------
(* Backfill and re-embedding *)

\* What a tool has read stands as the facts grow.
LEMMA ToolStays ==
    ASSUME vecFacts \in SeenFacts, vecFacts' \in SeenFacts, FactsGrow, ToolInv,
           tool' \in [pc : {"idle", "embed"}, todo : SUBSET (VecKeys \X VecFactRec)], tool'.todo \subseteq tool.todo
    PROVE  ToolInv'
<1>1. ASSUME NEW x \in tool'.todo PROVE ReadOf(x[2], vecFacts'[x[1]])
  <2>1. x \in VecKeys \X VecFactRec /\ ReadOf(x[2], vecFacts[x[1]])
    BY DEF ToolInv
  <2>2. x[1] \in VecKeys /\ x[2] \in VecFactRec
    BY <2>1
  <2>3. vecFacts[x[1]] \in VecFactRec /\ vecFacts'[x[1]] \in VecFactRec /\ ReadOf(vecFacts[x[1]], vecFacts'[x[1]])
    BY <2>2 DEF SeenFacts, FactsGrow
  <2> QED
    BY <2>1, <2>2, <2>3, ReadingsChain
<1> QED
  BY <1>1 DEF ToolInv

\* A tool reads what it will embed.
LEMMA ToolReads ==
    ASSUME VecFactsInv, ToolRead
    PROVE  ToolInv'
<1>1. PICK force \in BOOLEAN :
         tool' = [pc |-> "embed", todo |-> {<<k, vecFacts[k]>> : k \in {j \in VecKeys : vecFacts[j].live /\ (force \/ vecFacts[j].vec = NoVec)}}]
  BY DEF ToolRead
<1> DEFINE D == {<<k, vecFacts[k]>> : k \in {j \in VecKeys : vecFacts[j].live /\ (force \/ vecFacts[j].vec = NoVec)}}
<1>2. \A k \in VecKeys : vecFacts[k] \in VecFactRec /\ ReadOf(vecFacts[k], vecFacts[k])
  BY DEF VecFactsInv, SeenFacts, ReadOf, VecFactRec
<1>3. ASSUME NEW x \in D PROVE x \in VecKeys \X VecFactRec /\ ReadOf(x[2], vecFacts[x[1]])
  <2>1. PICK k \in VecKeys : x = <<k, vecFacts[k]>>
    OBVIOUS
  <2>2. x[1] = k /\ x[2] = vecFacts[k]
    BY <2>1
  <2> QED
    BY <1>2, <2>1, <2>2
<1>4. tool' = [pc |-> "embed", todo |-> D] /\ vecFacts' = vecFacts
  BY <1>1 DEF ToolRead
<1> HIDE DEF D
<1>5. D \in SUBSET (VecKeys \X VecFactRec)
  BY <1>3
<1>6. tool' \in [pc : {"idle", "embed"}, todo : SUBSET (VecKeys \X VecFactRec)]
  BY <1>4, <1>5
<1>7. \A x \in tool'.todo : ReadOf(x[2], vecFacts'[x[1]])
  BY <1>3, <1>4
<1> QED
  BY <1>6, <1>7 DEF ToolInv

\* A tool stores one vector, with the revision that it was made of.
LEMMA ToolMoves ==
    ASSUME VecFactsInv, ToolInv, ToolStores
    PROVE  VecFactsInv' /\ FactsGrow /\ ToolInv'
<1>0. tool \in [pc : {"idle", "embed"}, todo : SUBSET (VecKeys \X VecFactRec)]
  BY DEF ToolInv
<1>1. CASE tool.todo = {}
  <2>1. tool' = NoTool /\ vecFacts' = vecFacts
    BY <1>1 DEF ToolStores
  <2>2. VecFactsInv' /\ FactsGrow
    BY <2>1, FactsRest
  <2>3. ToolInv'
    BY <2>1 DEF ToolInv, NoTool
  <2> QED
    BY <2>2, <2>3
<1>2. CASE tool.todo # {}
  <2> DEFINE x == CHOOSE y \in tool.todo : TRUE
             f == [x[2] EXCEPT !.vec = Embedded(x[2].text), !.form = "keyed"]
             T == [tool EXCEPT !.todo = @ \ {x}]
  <2>1. x \in tool.todo
    BY <1>2
  <2>2. vecFacts' = StoredOn(x[1], f) /\ tool' = T
    BY <1>2 DEF ToolStores
  <2> HIDE DEF x
  <2>3. x[1] \in VecKeys /\ x[2] \in VecFactRec /\ ReadOf(x[2], vecFacts[x[1]])
    BY <1>0, <2>1 DEF ToolInv
  <2>4. f \in VecFactRec /\ OwnVec(f)
    BY <2>3, EmbeddedIsOwn DEF VecForms
  <2>5. f.id = x[2].id /\ f.text = x[2].text
    BY <2>3 DEF VecFactRec
  <2> HIDE DEF f
  <2>6. ReadOf(f, vecFacts[x[1]])
    BY <2>3, <2>5 DEF ReadOf
  <2>7. VecFactsInv' /\ FactsGrow
    BY <2>2, <2>3, <2>4, <2>6, StoresOwn
  <2>8. T \in [pc : {"idle", "embed"}, todo : SUBSET (VecKeys \X VecFactRec)] /\ T.todo \subseteq tool.todo
    BY <1>0
  <2>9. ToolInv'
    BY <2>2, <2>7, <2>8, ToolStays DEF VecFactsInv
  <2> QED
    BY <2>7, <2>9
<1> QED
  BY <1>1, <1>2

-----------------------------------------------------------------------------
(* The index and the search *)

\* An index knows no more of a fact that grows than it did.
LEMMA IndexStays ==
    ASSUME vecFacts \in SeenFacts, vecFacts' \in SeenFacts, FactsGrow, IndexInv, index' = index
    PROVE  IndexInv'
<1>1. ASSUME ~Legacy, NEW k \in VecKeys PROVE IndexedAs(index'[k], vecFacts'[k])
  <2>1. vecFacts[k].id \in Nat /\ vecFacts'[k].id \in Nat /\ index[k].id \in Nat
    BY DEF SeenFacts, VecFactRec, IndexInv, EntryRec
  <2>2. IndexedAs(index[k], vecFacts[k]) /\ ReadOf(vecFacts[k], vecFacts'[k])
    BY <1>1 DEF IndexInv, FactsGrow
  <2> QED
    BY <2>1, <2>2 DEF IndexedAs, ReadOf
<1> QED
  BY <1>1 DEF IndexInv, IndexedAs

\* What a new index holds of a fact.
LEMMA IndexBuilt ==
    ASSUME VecFactsInv
    PROVE  /\ Indexed(vecFacts) \in [VecKeys -> EntryRec]
           /\ ~Legacy => \A k \in VecKeys : \/ Indexed(vecFacts)[k] = NoEntry
                                            \/ /\ Indexed(vecFacts)[k].id = vecFacts[k].id
                                               /\ Indexed(vecFacts)[k].vec = Embedded(vecFacts[k].text)
<1>1. \A k \in VecKeys : vecFacts[k] \in VecFactRec /\ OwnVec(vecFacts[k])
  BY DEF VecFactsInv, SeenFacts
<1>2. NoEntry \in EntryRec
  BY NothingSeen DEF NoEntry, EntryRec
<1>3. \A k \in VecKeys : [id |-> vecFacts[k].id, vec |-> vecFacts[k].vec] \in EntryRec
  BY <1>1 DEF VecFactRec, EntryRec
<1>4. Indexed(vecFacts) \in [VecKeys -> EntryRec]
  BY <1>2, <1>3 DEF Indexed
<1>5. ASSUME ~Legacy, NEW k \in VecKeys, StillSeen(vecFacts, k)
      PROVE  vecFacts[k].vec = Embedded(vecFacts[k].text)
  BY <1>1, <1>5 DEF OwnVec, StillSeen
<1>6. \A k \in VecKeys : Indexed(vecFacts)[k] = IF StillSeen(vecFacts, k) THEN [id |-> vecFacts[k].id, vec |-> vecFacts[k].vec] ELSE NoEntry
  BY DEF Indexed
<1> QED
  BY <1>4, <1>5, <1>6

\* Building the index.
LEMMA BuildMoves ==
    ASSUME VecFactsInv, SearchInv, BuildIVF
    PROVE  IndexInv' /\ SearchInv'
<1>1. index' = Indexed(vecFacts) /\ vecFacts' = vecFacts /\ search' = search
  BY DEF BuildIVF
<1>2. NoEntry.id = 0 /\ \A k \in VecKeys : vecFacts[k].id \in Nat \ {0}
  BY VecNumbers DEF VecFactsInv, NoEntry
<1>3. \A k \in VecKeys : ~Legacy => \/ index'[k].id = 0
                                    \/ index'[k].id = vecFacts[k].id /\ index'[k].vec = Embedded(vecFacts[k].text)
  BY <1>1, <1>2, IndexBuilt
<1>4. IndexInv'
  BY <1>1, <1>2, <1>3, IndexBuilt DEF IndexInv, IndexedAs
<1>5. ASSUME ~Legacy, search.pc # "idle", NEW k \in VecKeys, index'[k].id = search.seen[k].id
      PROVE  index'[k].vec = Embedded(search.seen[k].text)
  <2>1. search.seen[k].id # 0
    BY <1>5 DEF SearchInv
  <2>2. index'[k].id = vecFacts[k].id /\ index'[k].vec = Embedded(vecFacts[k].text)
    BY <1>3, <1>5, <2>1
  <2>3. ReadOf(search.seen[k], vecFacts[k])
    BY DEF SearchInv, SeenOf
  <2> QED
    BY <1>5, <2>2, <2>3 DEF ReadOf
<1>6. SearchIsSound' <=> SearchIsSound
  BY <1>1 DEF SearchIsSound, VectorsAreReachable
<1>7. SeenOf(vecFacts', search')
  BY <1>1 DEF SearchInv
<1> QED
  BY <1>1, <1>4, <1>5, <1>6, <1>7 DEF SearchInv, SeenOf

\* A search that is not touched.
LEMMA SearchStays ==
    ASSUME vecFacts \in SeenFacts, vecFacts' \in SeenFacts, FactsGrow, SearchInv, search' = search, index' = index
    PROVE  SearchInv'
<1>1. search.seen \in SeenFacts /\ SeenOf(vecFacts, search)
  BY DEF SearchInv, SearchRec
<1>2. SeenOf(vecFacts', search)
  BY <1>1, SeenStays
<1>3. SearchIsSound' <=> SearchIsSound
  BY DEF SearchIsSound, VectorsAreReachable
<1> QED
  BY <1>2, <1>3 DEF SearchInv, SeenOf

\* There is no search.
LEMMA NoSearchIsSound ==
    ASSUME VecFactsInv, search' = NoSearch, vecFacts' = vecFacts
    PROVE  SearchInv'
<1>1. NoSearch \in SearchRec
  BY NothingSeen DEF NoSearch, SearchRec, NoEntry, EntryRec
<1>2. SeenOf(vecFacts, NoSearch)
  BY SeenNone DEF NoSearch
<1>3. search'.pc = "idle"
  BY DEF NoSearch
<1> QED
  BY <1>1, <1>2, <1>3 DEF SearchInv, SeenOf, SearchIsSound, VectorsAreReachable

\* A search reads the live facts.
LEMMA SearchReads ==
    ASSUME VecFactsInv, IndexInv, SearchRead
    PROVE  SearchInv'
<1> DEFINE s == [NoSearch EXCEPT !.pc = "score", !.seen = vecFacts]
<1>1. search' = s /\ vecFacts' = vecFacts /\ index' = index
  BY DEF SearchRead
<1>2. s \in SearchRec
  BY NothingSeen DEF NoSearch, SearchRec, NoEntry, EntryRec, VecFactsInv
<1>3. s.pc = "score" /\ s.seen = vecFacts
  BY DEF NoSearch
<1> HIDE DEF s
<1>4. SeenOf(vecFacts, s)
  BY <1>3, SeenNow
<1>5. \A k \in VecKeys : vecFacts[k].id # 0
  BY VecNumbers DEF VecFactsInv
<1>6. ASSUME ~Legacy, NEW k \in VecKeys, index[k].id = vecFacts[k].id PROVE index[k].vec = Embedded(vecFacts[k].text)
  BY <1>6 DEF IndexInv, IndexedAs
<1> QED
  BY <1>1, <1>2, <1>3, <1>4, <1>5, <1>6 DEF SearchInv, SeenOf, SearchIsSound, VectorsAreReachable

\* A search scores what the index and the tail give it.
LEMMA SearchScores ==
    ASSUME VecFactsInv, IndexInv, SearchInv, NEW probed \in ProbedKeys, VectorSearch(probed)
    PROVE  SearchInv'
<1> DEFINE T == {[key |-> k, id |-> search.seen[k].id, vec |-> search.seen[k].vec] : k \in ScanTail}
           H == {h \in ProbeHits(probed) \cup T : h.vec[2] = "present"}
           s == [search EXCEPT !.pc = "done", !.used = index, !.hits = H]
<1>1. search' = s /\ vecFacts' = vecFacts /\ index' = index /\ search.pc = "score"
  BY DEF VectorSearch
<1>2. search \in SearchRec /\ probed \subseteq VecKeys /\ \A k \in VecKeys : search.seen[k] \in VecFactRec /\ index[k] \in EntryRec
  BY DEF SearchInv, SearchRec, SeenFacts, IndexInv, ProbedKeys
<1>3. ASSUME NEW h \in ProbeHits(probed)
      PROVE  /\ h \in HitRec /\ search.seen[h.key].live /\ search.seen[h.key].id = h.id
             /\ ~Legacy => search.seen[h.key].vec \in {h.vec, NoVec}
  <2>1. PICK k \in VecKeys : /\ h = [key |-> k, id |-> index[k].id, vec |-> index[k].vec]
                             /\ search.seen[k].live /\ search.seen[k].id = index[k].id
    BY <1>2 DEF ProbeHits
  <2>2. h.key = k /\ h.id = index[k].id /\ h.vec = index[k].vec
    BY <2>1
  <2>3. h \in HitRec
    BY <1>2, <2>1 DEF HitRec, EntryRec
  <2>4. ASSUME ~Legacy PROVE search.seen[k].vec \in {index[k].vec, NoVec}
    <3>1. index[k].vec = Embedded(search.seen[k].text)
      BY <1>1, <2>1, <2>4 DEF SearchInv
    <3>2. OwnVec(search.seen[k])
      BY DEF SearchInv, SeenOf
    <3> QED
      BY <1>2, <2>4, <3>1, <3>2, OwnIsPresent
  <2> QED
    BY <2>1, <2>2, <2>3, <2>4
<1>4. ASSUME NEW h \in T
      PROVE  /\ h \in HitRec /\ search.seen[h.key].live /\ search.seen[h.key].id = h.id
             /\ search.seen[h.key].vec = h.vec
  <2>1. PICK k \in ScanTail : h = [key |-> k, id |-> search.seen[k].id, vec |-> search.seen[k].vec]
    OBVIOUS
  <2>2. h.key = k /\ h.id = search.seen[k].id /\ h.vec = search.seen[k].vec
    BY <2>1
  <2>3. k \in VecKeys /\ search.seen[k].live
    BY <2>1 DEF ScanTail, StillSeen
  <2>4. search.seen[k].id \in Nat /\ search.seen[k].vec \in Vecs
    BY <1>2, <2>3 DEF VecFactRec
  <2>5. h \in HitRec
    BY <2>1, <2>3, <2>4 DEF HitRec
  <2> QED
    BY <2>2, <2>3, <2>5
<1>5. ASSUME ~Legacy, NEW k \in VecKeys, StillSeen(search.seen, k), search.seen[k].vec[2] = "present"
      PROVE  (\E h \in H : h.key = k) \/ index[k] = [id |-> search.seen[k].id, vec |-> search.seen[k].vec]
  <2>1. CASE index[k].id # search.seen[k].id
    <3> DEFINE h == [key |-> k, id |-> search.seen[k].id, vec |-> search.seen[k].vec]
    <3>1. k \in ScanTail
      BY <1>5, <2>1 DEF ScanTail
    <3>2. h \in T /\ h.key = k /\ h.vec = search.seen[k].vec
      BY <3>1
    <3> QED
      BY <1>5, <3>2
  <2>2. CASE index[k].id = search.seen[k].id
    <3>1. index[k].vec = Embedded(search.seen[k].text)
      BY <1>1, <1>5, <2>2 DEF SearchInv
    <3>2. OwnVec(search.seen[k]) /\ search.seen[k].vec # NoVec
      BY <1>5 DEF SearchInv, SeenOf, StillSeen
    <3>3. search.seen[k].vec = index[k].vec
      BY <1>2, <1>5, <3>1, <3>2, OwnIsPresent
    <3> QED
      BY <1>2, <2>2, <3>3 DEF EntryRec
  <2> QED
    BY <2>1, <2>2
<1>6. H \subseteq HitRec
  BY <1>3, <1>4
<1>7. \A h \in H : search.seen[h.key].live /\ search.seen[h.key].id = h.id /\ (~Legacy => search.seen[h.key].vec \in {h.vec, NoVec})
  BY <1>3, <1>4
<1> HIDE DEF H
<1>8. s \in SearchRec /\ s.pc = "done" /\ s.seen = search.seen /\ s.used = index /\ s.hits = H
  BY <1>2, <1>6 DEF SearchRec, IndexInv
<1> HIDE DEF s
<1>9. ASSUME ~Legacy PROVE SearchIsSound'
  <2>1. VectorsAreReachable'
    BY <1>1, <1>5, <1>8, <1>9 DEF VectorsAreReachable, StillSeen
  <2> QED
    BY <1>1, <1>7, <1>8, <1>9, <2>1 DEF SearchIsSound
<1>10. SeenOf(vecFacts, s)
  BY <1>8 DEF SearchInv, SeenOf
<1>11. /\ \A k \in VecKeys : s.seen[k].id # 0
       /\ ~Legacy => \A k \in VecKeys : index[k].id = s.seen[k].id => index[k].vec = Embedded(s.seen[k].text)
  BY <1>1, <1>8 DEF SearchInv
<1> QED
  BY <1>1, <1>8, <1>9, <1>10, <1>11 DEF SearchInv, SeenOf

-----------------------------------------------------------------------------
(* The theorems about vectors, links and the search *)

\* It holds at first.
LEMMA VecInitHolds == ASSUME VecInit PROVE VecInv
<1> DEFINE t == CHOOSE x \in Bodies : TRUE
<1>0. t \in Bodies
  BY VecNumbers
<1> DEFINE vec(k) == IF Legacy THEN <<t, "former">> ELSE IF k \in Enriched THEN NoVec ELSE Embedded(t)
<1>1. vecFacts = [k \in VecKeys |-> [id |-> 1, live |-> TRUE, text |-> t, vec |-> vec(k), form |-> Keyed(vec(k))]]
  BY DEF VecInit
<1> HIDE DEF t
<1>2. VecFactsInv
  <2>1. ASSUME NEW k \in VecKeys
        PROVE  vecFacts[k] \in VecFactRec /\ vecFacts[k].id = 1 /\ OwnVec(vecFacts[k])
    <3>1. PICK v \in {<<t, "former">>, NoVec, Embedded(t)} :
             vecFacts[k] = [id |-> 1, live |-> TRUE, text |-> t, vec |-> v, form |-> Keyed(v)] /\ (v = <<t, "former">> => Legacy)
      BY <1>1 DEF Embedded, NoVec
    <3>2. v \in Vecs
      BY <1>0 DEF Vecs, VecTexts, Embedded, NoVec
    <3>3. vecFacts[k] \in VecFactRec
      BY <1>0, <3>1, <3>2 DEF VecFactRec, VecTexts, VecForms, Keyed
    <3>4. vecFacts[k].id = 1 /\ vecFacts[k].text = t /\ vecFacts[k].vec = v
      BY <3>1
    <3>5. OwnVec(vecFacts[k])
      BY <3>1, <3>4 DEF OwnVec
    <3> QED
      BY <3>3, <3>4, <3>5
  <2>2. vecFacts \in SeenFacts
    BY <1>1, <2>1 DEF SeenFacts
  <2>3. 1 \in 1 .. VecRevs
    BY VecNumbers
  <2> QED
    BY <2>1, <2>2, <2>3 DEF VecFactsInv
<1>3. LinksInv
  BY DEF VecInit, LinksInv
<1>4. WorkersInv
  <2>1. Proper(vecFacts, linkRows, NoWorker)
    BY <1>2, IdleIsProper
  <2> QED
    BY <2>1, ProperWorkers DEF VecInit, Proper
<1>5. PassInv
  BY NoPassIsProper, PassProper DEF VecInit
<1>6. ClaimsInv
  <2>1. [st |-> "none", attempts |-> 0] \in RunRec
    BY DEF RunRec
  <2>2. \A w \in VecWorkers : worker[w].pc = "idle"
    BY DEF VecInit, NoWorker
  <2> QED
    BY <2>1, <2>2 DEF VecInit, ClaimsInv
<1>7. ToolInv
  BY DEF VecInit, ToolInv, NoTool
<1>8. IndexInv
  <2>1. NoEntry \in EntryRec /\ NoEntry.id = 0
    BY NothingSeen DEF NoEntry, EntryRec
  <2>2. \A k \in VecKeys : vecFacts[k].id \in Nat \ {0} /\ index[k] = NoEntry
    BY <1>2, VecNumbers DEF VecFactsInv, VecInit
  <2>3. \A k \in VecKeys : IndexedAs(index[k], vecFacts[k])
    BY <2>1, <2>2 DEF IndexedAs
  <2> QED
    BY <2>1, <2>3 DEF VecInit, IndexInv
<1>9. SearchInv
  <2>1. NoSearch \in SearchRec
    BY NothingSeen DEF NoSearch, SearchRec, NoEntry, EntryRec
  <2>2. SeenOf(vecFacts, NoSearch)
    BY <1>2, SeenNone DEF NoSearch
  <2>3. search = NoSearch /\ search.pc = "idle"
    BY DEF VecInit, NoSearch
  <2> QED
    BY <2>1, <2>2, <2>3 DEF SearchInv, SearchIsSound, VectorsAreReachable
<1> QED
  BY <1>2, <1>3, <1>4, <1>5, <1>6, <1>7, <1>8, <1>9 DEF VecInv

\* The step property of VectorSafety.
Derives == \A w \in VecWorkers : worker[w].pc = "link" /\ worker'[w].added > worker[w].added =>
         /\ StillLive(worker[w].key, worker[w].rev)
         /\ \A x \in VecWorkers \ {w} : worker[x].key = worker[w].key /\ worker[x].rev = worker[w].rev
                                         => worker[x].attempt < worker[w].attempt

\* Who adds nothing derives nothing.
LEMMA NoneDerives == ASSUME WorkersInv, WorkersInv', NoneAdds PROVE Derives
<1>1. \A w \in VecWorkers : worker[w].added \in Nat /\ worker'[w].added \in Nat
  BY DEF WorkersInv, WorkerRec
<1>2. \A w \in VecWorkers : worker'[w].added <= worker[w].added
  BY DEF NoneAdds
<1>3. \A w \in VecWorkers : ~(worker'[w].added > worker[w].added)
  BY <1>1, <1>2
<1> QED
  BY <1>3 DEF Derives

\* Readers of facts stand as the facts grow.
LEMMA ReadersStand ==
    ASSUME VecInv, VecFactsInv', FactsGrow, UNCHANGED <<tool, index, search>>
    PROVE  ToolInv' /\ IndexInv' /\ SearchInv'
<1>1. vecFacts \in SeenFacts /\ vecFacts' \in SeenFacts
  BY DEF VecInv, VecFactsInv
<1>2. ToolInv'
  BY <1>1, ToolStays DEF VecInv, ToolInv
<1>3. IndexInv'
  BY <1>1, IndexStays DEF VecInv
<1>4. SearchInv'
  BY <1>1, SearchStays DEF VecInv
<1> QED
  BY <1>2, <1>3, <1>4

\* Links and the pass that nobody touches.
LEMMA LinksRest ==
    ASSUME VecInv, UNCHANGED <<linkRows, pass>>
    PROVE  LinksInv' /\ PassInv'
  BY DEF VecInv, LinksInv, PassInv

\* A step of the users on facts.
LEMMA UsersOnFacts ==
    ASSUME VecInv, VecFactsInv', FactsGrow, UNCHANGED <<linkRows, stageRuns, worker, pass, tool, index, search>>
    PROVE  VecInv' /\ Derives
<1>1. vecFacts \in SeenFacts /\ vecFacts' \in SeenFacts /\ WorkersInv /\ ClaimsInv
  BY DEF VecInv, VecFactsInv
<1>2. WorkersInv' /\ ClaimsKept /\ NoneAdds
  BY <1>1, NoneMoves
<1>3. ClaimsInv'
  BY <1>1, <1>2, ClaimsRest
<1> QED
  BY <1>1, <1>2, <1>3, LinksRest, ReadersStand, NoneDerives DEF VecInv

\* A step of an enricher that leaves the links alone.
LEMMA WorkersApart ==
    ASSUME VecInv, VecFactsInv', FactsGrow, WorkersInv', NoneAdds, ClaimsInv', UNCHANGED <<linkRows, pass, tool, index, search>>
    PROVE  VecInv' /\ Derives
<1>1. WorkersInv
  BY DEF VecInv
<1> QED
  BY <1>1, LinksRest, ReadersStand, NoneDerives DEF VecInv

\* A step of an enricher.
LEMMA WorkerStepHolds ==
    ASSUME VecInv, NEW w \in VecWorkers, VecWorkerStep(w)
    PROVE  VecInv' /\ Derives
<1>0. VecFactsInv /\ LinksInv /\ WorkersInv /\ PassInv /\ ClaimsInv
  BY DEF VecInv
<1>1. ASSUME NEW k \in Enriched, StageClaim(w, k) PROVE VecInv' /\ Derives
  <2>1. UNCHANGED <<linkRows, pass, tool, index, search>> /\ vecFacts' = vecFacts
    BY <1>1 DEF StageClaim, OthersKept
  <2> QED
    BY <1>0, <1>1, <2>1, ClaimMoves, ClaimIsNew, FactsRest, WorkersApart
<1>2. CASE EnrichRead(w)
  <2>1. UNCHANGED <<linkRows, stageRuns, pass, tool, index, search>> /\ vecFacts' = vecFacts
    BY <1>2 DEF EnrichRead, OthersKept
  <2> QED
    BY <1>0, <1>2, <2>1, ReadMoves, ClaimsRest, FactsRest, WorkersApart
<1>3. CASE EnrichEmbeds(w)
  <2>1. UNCHANGED <<linkRows, stageRuns, pass, tool, index, search>> /\ vecFacts' = vecFacts
    BY <1>3 DEF EnrichEmbeds, OthersKept
  <2> QED
    BY <1>0, <1>3, <2>1, EmbedMoves, ClaimsRest, FactsRest, WorkersApart
<1>4. CASE EnrichStores(w)
  <2>1. UNCHANGED <<linkRows, stageRuns, pass, tool, index, search>>
    BY <1>4 DEF EnrichStores, OthersKept
  <2> QED
    BY <1>0, <1>4, <2>1, StoreMoves, ClaimsRest, WorkersApart
<1>5. CASE EnrichTargets(w)
  <2>1. UNCHANGED <<linkRows, stageRuns, pass, tool, index, search>> /\ vecFacts' = vecFacts
    BY <1>5 DEF EnrichTargets, OthersKept
  <2> QED
    BY <1>0, <1>5, <2>1, TargetsMove, ClaimsRest, FactsRest, WorkersApart
<1>6. CASE EnrichLinks(w)
  <2>1. UNCHANGED <<vecFacts, stageRuns, tool, index, search>>
    BY <1>6 DEF EnrichLinks
  <2>2. /\ WorkersInv' /\ ClaimsKept /\ LinksInv'
        /\ \A x \in VecWorkers : worker'[x].added > worker[x].added => x = w /\ RunFence(w)
    BY <1>0, <1>6, LinkMoves
  <2>3. ClaimsInv'
    BY <1>0, <2>1, <2>2, ClaimsRest
  <2>4. VecFactsInv' /\ FactsGrow
    BY <1>0, <2>1, FactsRest
  <2>5. PassInv'
    <3>1. (pass' = pass /\ linkRows' = linkRows) \/ pass' = [pass EXCEPT !.quiet = FALSE]
      BY <1>6 DEF EnrichLinks
    <3>2. PassOf(linkRows, pass)
      BY <1>0, PassProper
    <3>3. PassOf(linkRows', pass')
      BY <3>1, <3>2, PassIsDisturbed
    <3> QED
      BY <3>3 DEF PassOf, PassInv
  <2>6. Derives
    BY <1>0, <2>2, FenceIsLatest DEF Derives
  <2> QED
    BY <2>1, <2>2, <2>3, <2>4, <2>5, <2>6, ReadersStand DEF VecInv
<1>7. CASE StageFinish(w)
  <2>1. /\ UNCHANGED <<linkRows, pass, tool, index, search>> /\ vecFacts' = vecFacts /\ WorkerAt(w, NoWorker)
        /\ worker[w].pc # "idle"
    BY <1>7 DEF StageFinish, OthersKept
  <2>2. WorkersInv' /\ ClaimsKept /\ NoneAdds
    BY <1>0, <2>1, EndMoves
  <2> DEFINE r == <<worker[w].key, worker[w].rev>>
  <2>3. r \in VecKeys \X (1 .. VecRevs)
    BY <1>0, <2>1, RunsExist
  <2>4. \/ stageRuns' = stageRuns
        \/ \E s \in {"failed", "succeeded", "superseded"} : stageRuns' = [stageRuns EXCEPT ![r].st = s]
    BY <1>7 DEF StageFinish
  <2>5. ClaimsInv'
    BY <1>0, <2>2, <2>3, <2>4, ClaimsRest, RunChanges
  <2> QED
    BY <1>0, <2>1, <2>2, <2>5, FactsRest, WorkersApart
<1>8. CASE WorkerCrash(w)
  <2>1. UNCHANGED <<linkRows, stageRuns, pass, tool, index, search>> /\ vecFacts' = vecFacts /\ WorkerAt(w, NoWorker)
    BY <1>8 DEF WorkerCrash, OthersKept
  <2> QED
    BY <1>0, <2>1, EndMoves, ClaimsRest, FactsRest, WorkersApart
<1> QED
  BY <1>1, <1>2, <1>3, <1>4, <1>5, <1>6, <1>7, <1>8 DEF VecWorkerStep

\* Every step keeps the invariant, and derives only what it may.
LEMMA VecStepHolds == ASSUME VecInv, [VecNext]_vecVars PROVE VecInv' /\ Derives
<1>0. VecFactsInv /\ LinksInv /\ WorkersInv /\ PassInv /\ ClaimsInv /\ ToolInv /\ IndexInv /\ SearchInv
  BY DEF VecInv
<1>1. CASE UNCHANGED vecVars
  <2>1. UNCHANGED <<vecFacts, linkRows, stageRuns, worker, pass, tool, index, search>>
    BY <1>1 DEF vecVars
  <2> QED
    BY <1>0, <2>1, FactsRest, UsersOnFacts
<1>2. ASSUME NEW k \in VecKeys, ForgetFact(k) PROVE VecInv' /\ Derives
  <2>1. UNCHANGED <<linkRows, stageRuns, worker, pass, tool, index, search>>
    BY <1>2 DEF ForgetFact
  <2> QED
    BY <1>0, <1>2, <2>1, ForgetChanges, UsersOnFacts
<1>3. ASSUME NEW k \in VecKeys, NEW t \in Bodies, Write(k, t) PROVE VecInv' /\ Derives
  <2>1. UNCHANGED <<linkRows, stageRuns, worker, pass, tool, index, search>>
    BY <1>3 DEF Write
  <2> QED
    BY <1>0, <1>3, <2>1, WriteChanges, UsersOnFacts
<1>4. ASSUME NEW e \in VecKeys \X VecKeys, InvalidateLink(e) PROVE VecInv' /\ Derives
  <2>1. /\ UNCHANGED <<vecFacts, stageRuns, tool, index, search>> /\ linkRows' = [linkRows EXCEPT ![e] = "closed"]
        /\ worker' = Disturbed(worker) /\ pass' = [pass EXCEPT !.quiet = FALSE]
    BY <1>4 DEF InvalidateLink
  <2>2. WorkersInv' /\ ClaimsKept /\ NoneAdds
    BY <1>0, <2>1, AllDisturbed
  <2>3. PassInv'
    <3>1. PassOf(linkRows', pass')
      BY <1>0, <2>1, PassIsDisturbed, PassProper
    <3> QED
      BY <3>1 DEF PassOf, PassInv
  <2>4. LinksInv'
    BY <1>0, <2>1 DEF LinksInv
  <2>5. ClaimsInv' /\ VecFactsInv' /\ FactsGrow
    BY <1>0, <2>1, <2>2, ClaimsRest, FactsRest
  <2> QED
    BY <1>0, <2>1, <2>2, <2>3, <2>4, <2>5, ReadersStand, NoneDerives DEF VecInv
<1>5. ASSUME NEW w \in VecWorkers, VecWorkerStep(w) PROVE VecInv' /\ Derives
  BY <1>5, WorkerStepHolds
<1>6. ASSUME NEW r \in DOMAIN stageRuns, StageRequeue(r) PROVE VecInv' /\ Derives
  <2>1. /\ UNCHANGED <<vecFacts, linkRows, worker, pass, tool, index, search>>
        /\ stageRuns' = [stageRuns EXCEPT ![r].st = "pending"] /\ r \in VecKeys \X (1 .. VecRevs)
    BY <1>0, <1>6 DEF StageRequeue, ClaimsInv
  <2>2. VecFactsInv' /\ FactsGrow /\ vecFacts \in SeenFacts /\ vecFacts' \in SeenFacts
    BY <1>0, <2>1, FactsRest DEF VecFactsInv
  <2>3. WorkersInv' /\ ClaimsKept /\ NoneAdds
    BY <1>0, <2>1, <2>2, NoneMoves
  <2>4. ClaimsInv'
    BY <1>0, <2>1, <2>3, RunChanges
  <2> QED
    BY <2>1, <2>2, <2>3, <2>4, WorkersApart
<1>7. CASE CreativeRead \/ CreativePairs \/ CreativeLinks
  <2>1. UNCHANGED <<vecFacts, stageRuns, tool, index, search>>
    BY <1>7 DEF CreativeRead, CreativePairs, CreativeLinks
  <2>2. VecFactsInv' /\ FactsGrow /\ vecFacts \in SeenFacts /\ vecFacts' \in SeenFacts
    BY <1>0, <2>1, FactsRest DEF VecFactsInv
  <2>3. PassInv' /\ LinksInv' /\ ((linkRows' = linkRows /\ worker' = worker) \/ worker' = Disturbed(worker))
    <3>1. CASE CreativeRead
      BY <1>0, <3>1, PassReads DEF CreativeRead, LinksInv
    <3>2. CASE CreativePairs
      BY <1>0, <3>2, PassPairs DEF CreativePairs, LinksInv
    <3>3. CASE CreativeLinks
      BY <1>0, <3>3, PassLinks
    <3> QED
      BY <1>7, <3>1, <3>2, <3>3
  <2>4. WorkersInv' /\ ClaimsKept /\ NoneAdds
    BY <1>0, <2>1, <2>2, <2>3, NoneMoves, AllDisturbed
  <2>5. ClaimsInv'
    BY <1>0, <2>1, <2>4, ClaimsRest
  <2> QED
    BY <1>0, <2>1, <2>2, <2>3, <2>4, <2>5, ReadersStand, NoneDerives DEF VecInv
<1>8. CASE ToolRead \/ ToolStores \/ BuildIVF \/ SearchRead \/ SearchReturns \/ \E probed \in ProbedKeys : VectorSearch(probed)
  <2>1. UNCHANGED <<linkRows, stageRuns, worker, pass>>
    BY <1>8 DEF ToolRead, ToolStores, BuildIVF, SearchRead, SearchReturns, VectorSearch
  <2>2. VecFactsInv' /\ FactsGrow
    <3>1. CASE ToolStores
      BY <1>0, <3>1, ToolMoves
    <3>2. CASE vecFacts' = vecFacts
      BY <1>0, <3>2, FactsRest
    <3> QED
      BY <1>8, <3>1, <3>2 DEF ToolRead, BuildIVF, SearchRead, SearchReturns, VectorSearch
  <2>3. vecFacts \in SeenFacts /\ vecFacts' \in SeenFacts
    BY <1>0, <2>2 DEF VecFactsInv
  <2>4. WorkersInv' /\ ClaimsKept /\ NoneAdds
    BY <1>0, <2>1, <2>3, <2>2, NoneMoves
  <2>5. ClaimsInv'
    BY <1>0, <2>1, <2>4, ClaimsRest
  <2>6. ToolInv'
    <3>1. CASE ToolRead
      BY <1>0, <3>1, ToolReads
    <3>2. CASE ToolStores
      BY <1>0, <3>2, ToolMoves
    <3>3. CASE tool' = tool
      BY <1>0, <2>2, <2>3, <3>3, ToolStays DEF ToolInv
    <3> QED
      BY <1>8, <3>1, <3>2, <3>3 DEF BuildIVF, SearchRead, SearchReturns, VectorSearch
  <2>7. IndexInv'
    <3>1. CASE BuildIVF
      BY <1>0, <3>1, BuildMoves
    <3>2. CASE index' = index
      BY <1>0, <2>2, <2>3, <3>2, IndexStays
    <3> QED
      BY <1>8, <3>1, <3>2 DEF ToolRead, ToolStores, SearchRead, SearchReturns, VectorSearch
  <2>8. SearchInv'
    <3>1. CASE BuildIVF
      BY <1>0, <3>1, BuildMoves
    <3>2. CASE SearchRead
      BY <1>0, <3>2, SearchReads
    <3>3. CASE SearchReturns
      BY <1>0, <3>3, NoSearchIsSound DEF SearchReturns
    <3>4. ASSUME NEW probed \in ProbedKeys, VectorSearch(probed) PROVE SearchInv'
      BY <1>0, <3>4, SearchScores
    <3>5. CASE search' = search /\ index' = index
      BY <1>0, <2>2, <2>3, <3>5, SearchStays
    <3> QED
      BY <1>8, <3>1, <3>2, <3>3, <3>4, <3>5 DEF ToolRead, ToolStores
  <2>9. Derives
    BY <1>0, <2>4, NoneDerives
  <2> QED
    BY <2>1, <2>2, <2>4, <2>5, <2>6, <2>7, <2>8, <2>9, LinksRest DEF VecInv
<1> QED
  BY <1>1, <1>2, <1>3, <1>4, <1>5, <1>6, <1>7, <1>8 DEF VecNext

\* Only an enricher leaves the key out of a vector, for a revision that it has a run of: a run that
\* was ever claimed has an attempt.
BareIsOfRun(F, R) == \A k \in VecKeys : F[k].form = "bare" => R[<<k, F[k].id>>].attempts > 0
RunsCounted(R) == \A r \in VecKeys \X (1 .. VecRevs) : R[r].st # "none" => R[r].attempts > 0
FormsInv == BareIsOfRun(vecFacts, stageRuns) /\ RunsCounted(stageRuns)

LEMMA FormsInit == ASSUME VecInit PROVE FormsInv
<1>1. \A k \in VecKeys : vecFacts[k].form # "bare"
  BY DEF VecInit, Keyed
<1>2. \A r \in VecKeys \X (1 .. VecRevs) : stageRuns[r].st = "none"
  BY DEF VecInit
<1> QED
  BY <1>1, <1>2 DEF FormsInv, BareIsOfRun, RunsCounted

\* Runs count their attempts upwards.
LEMMA RunsCountUp ==
    ASSUME VecInv, FormsInv, VecNext
    PROVE  /\ RunsCounted(stageRuns')
           /\ \A r \in VecKeys \X (1 .. VecRevs) : stageRuns[r].attempts > 0 => stageRuns'[r].attempts > 0
<1> DEFINE R == VecKeys \X (1 .. VecRevs)
           Up == RunsCounted(stageRuns') /\ \A r \in R : stageRuns[r].attempts > 0 => stageRuns'[r].attempts > 0
<1>0. stageRuns \in [R -> RunRec] /\ RunsCounted(stageRuns) /\ \A r \in R : stageRuns[r].attempts \in Nat
  BY DEF VecInv, ClaimsInv, FormsInv, RunRec
<1>1. stageRuns' = stageRuns => Up
  BY <1>0 DEF RunsCounted
<1>2. ASSUME NEW r \in R, NEW s, stageRuns[r].st # "none", stageRuns' = [stageRuns EXCEPT ![r].st = s] PROVE Up
  <2>1. \A q \in R : stageRuns'[q].attempts = stageRuns[q].attempts
    BY <1>0, <1>2 DEF RunRec
  <2>2. \A q \in R \ {r} : stageRuns'[q] = stageRuns[q]
    BY <1>0, <1>2
  <2>3. stageRuns[r].attempts > 0
    BY <1>0, <1>2 DEF RunsCounted
  <2> QED
    BY <1>0, <2>1, <2>2, <2>3 DEF RunsCounted
<1>3. ASSUME NEW w \in VecWorkers, NEW k \in Enriched, StageClaim(w, k) PROVE Up
  <2>1. PICK r \in R : stageRuns' = [stageRuns EXCEPT ![r] = [st |-> "running", attempts |-> stageRuns[r].attempts + 1]]
    <3>1. <<k, vecFacts[k].id>> \in R
      BY VecNumbers DEF VecInv, VecFactsInv
    <3> QED
      BY <1>3, <3>1 DEF StageClaim
  <2>2. stageRuns'[r].attempts > 0
    <3>1. stageRuns'[r].attempts = stageRuns[r].attempts + 1
      BY <1>0, <2>1
    <3> QED
      BY <1>0, <3>1
  <2>3. \A q \in R \ {r} : stageRuns'[q] = stageRuns[q]
    BY <1>0, <2>1
  <2> QED
    BY <1>0, <2>2, <2>3 DEF RunsCounted
<1>4. ASSUME NEW w \in VecWorkers, StageFinish(w) PROVE Up
  <2>1. <<worker[w].key, worker[w].rev>> \in R
    BY <1>4, RunsExist DEF StageFinish, VecInv
  <2>2. PICK r \in R : r = <<worker[w].key, worker[w].rev>>
    BY <2>1
  <2>3. \/ stageRuns' = stageRuns
        \/ stageRuns[r].st = "running" /\ \E s : stageRuns' = [stageRuns EXCEPT ![r].st = s]
    BY <1>4, <2>2 DEF StageFinish, Run
  <2> QED
    BY <1>1, <1>2, <2>3
<1>5. ASSUME NEW r \in DOMAIN stageRuns, StageRequeue(r) PROVE Up
  BY <1>0, <1>2, <1>5 DEF StageRequeue
<1>6. ASSUME NEW w \in VecWorkers, VecWorkerStep(w), ~StageFinish(w), ~\E k \in Enriched : StageClaim(w, k) PROVE stageRuns' = stageRuns
  BY <1>6 DEF VecWorkerStep, EnrichRead, EnrichEmbeds, EnrichStores, EnrichTargets, EnrichLinks, WorkerCrash
<1>7. ASSUME NEW k \in VecKeys, ForgetFact(k) \/ \E t \in Bodies : Write(k, t) PROVE stageRuns' = stageRuns
  BY <1>7 DEF ForgetFact, Write
<1>8. ASSUME NEW e \in VecKeys \X VecKeys, InvalidateLink(e) PROVE stageRuns' = stageRuns
  BY <1>8 DEF InvalidateLink
<1>9. CASE CreativeRead \/ CreativePairs \/ CreativeLinks \/ ToolRead \/ ToolStores
  BY <1>1, <1>9 DEF CreativeRead, CreativePairs, CreativeLinks, ToolRead, ToolStores
<1>10. CASE BuildIVF \/ SearchRead \/ SearchReturns \/ \E probed \in ProbedKeys : VectorSearch(probed)
  BY <1>1, <1>10 DEF BuildIVF, SearchRead, SearchReturns, VectorSearch
<1> QED
  BY <1>1, <1>3, <1>4, <1>5, <1>6, <1>7, <1>8, <1>9, <1>10, Zenon DEF VecNext

\* What a step makes of a fact: a new revision, the vector of a tool, the vector of an enricher's run, or none of it.
LEMMA FormsStep == ASSUME VecInv, FormsInv, VecNext PROVE FormsInv'
<1> DEFINE Bare == BareIsOfRun(vecFacts', stageRuns)
<1>0. /\ vecFacts \in SeenFacts /\ \A k \in VecKeys : vecFacts[k].id \in 1 .. VecRevs /\ vecFacts[k] \in VecFactRec
      /\ BareIsOfRun(vecFacts, stageRuns) /\ RunsCounted(stageRuns)
  BY DEF VecInv, VecFactsInv, FormsInv, SeenFacts
<1>1. ASSUME NEW k \in VecKeys, NEW f, vecFacts' = [vecFacts EXCEPT ![k] = f],
             f.form = "bare" => stageRuns[<<k, f.id>>].attempts > 0
      PROVE  Bare
  BY <1>0, <1>1 DEF BareIsOfRun, SeenFacts
<1>2. vecFacts' = vecFacts => Bare
  BY <1>0 DEF BareIsOfRun
<1>3. ASSUME NEW k \in VecKeys, NEW t \in Bodies, Write(k, t) PROVE Bare
  <2>1. PICK v : vecFacts' = [vecFacts EXCEPT ![k] = [id |-> @.id + 1, live |-> TRUE, text |-> t, vec |-> v, form |-> Keyed(v)]]
    BY <1>3 DEF Write
  <2>2. Keyed(v) # "bare"
    BY DEF Keyed
  <2> DEFINE f == [id |-> vecFacts[k].id + 1, live |-> TRUE, text |-> t, vec |-> v, form |-> Keyed(v)]
  <2>3. vecFacts' = [vecFacts EXCEPT ![k] = f] /\ f.form # "bare"
    BY <2>1, <2>2
  <2> HIDE DEF f
  <2> QED
    BY <1>1, <2>3
<1>4. ASSUME NEW k \in VecKeys, ForgetFact(k) PROVE Bare
  <2> DEFINE f == [vecFacts[k] EXCEPT !.live = FALSE]
  <2>1. vecFacts' = [vecFacts EXCEPT ![k] = f]
    BY <1>4 DEF ForgetFact
  <2>2. f.form = vecFacts[k].form /\ f.id = vecFacts[k].id
    BY <1>0 DEF VecFactRec
  <2> HIDE DEF f
  <2> QED
    BY <1>0, <1>1, <2>1, <2>2 DEF BareIsOfRun
<1>5. ASSUME NEW k \in VecKeys, NEW g, vecFacts' = StoredOn(k, g),
             g.form = "bare" => stageRuns[<<k, vecFacts[k].id>>].attempts > 0
      PROVE  Bare
  <2>1. CASE vecFacts[k].id # g.id
    BY <1>2, <1>5, <2>1 DEF StoredOn
  <2>2. CASE vecFacts[k].id = g.id
    <3> DEFINE f == [vecFacts[k] EXCEPT !.vec = g.vec, !.form = g.form]
    <3>1. vecFacts' = [vecFacts EXCEPT ![k] = f]
      BY <1>5, <2>2 DEF StoredOn
    <3>2. f.form = g.form /\ f.id = vecFacts[k].id
      BY <1>0 DEF VecFactRec
    <3> HIDE DEF f
    <3> QED
      BY <1>1, <1>5, <3>1, <3>2
  <2> QED
    BY <2>1, <2>2
<1>6. ASSUME NEW w \in VecWorkers, EnrichStores(w) PROVE Bare
  <2>1. CASE RunFence(w)
    <3>1. PICK k : k = worker[w].key
      OBVIOUS
    <3>2. worker[w].pc = "store" /\ vecFacts' = StoredOn(k, worker[w].seen[k])
      BY <1>6, <2>1, <3>1 DEF EnrichStores
    <3>3. k \in VecKeys /\ <<k, worker[w].rev>> \in VecKeys \X (1 .. VecRevs)
      BY <3>1, <3>2, RunsExist DEF VecInv
    <3>4. stageRuns[<<k, worker[w].rev>>].st = "running" /\ vecFacts[k].id = worker[w].rev
      BY <2>1, <3>1 DEF RunFence, Run, StillLive
    <3>5. stageRuns[<<k, vecFacts[k].id>>].attempts > 0
      BY <1>0, <3>3, <3>4 DEF RunsCounted
    <3> QED
      BY <1>5, <3>2, <3>3, <3>5
  <2>2. CASE ~RunFence(w)
    BY <1>2, <1>6, <2>2 DEF EnrichStores
  <2> QED
    BY <2>1, <2>2
<1>7. ASSUME ToolStores PROVE Bare
  <2>1. CASE tool.todo = {}
    <3>1. vecFacts' = vecFacts
      BY <1>7, <2>1 DEF ToolStores
    <3> QED
      BY <1>2, <3>1, Zenon
  <2>2. CASE tool.todo # {}
    <3> DEFINE x == CHOOSE y \in tool.todo : TRUE
               g == [x[2] EXCEPT !.vec = Embedded(x[2].text), !.form = "keyed"]
    <3>1. x \in tool.todo /\ vecFacts' = StoredOn(x[1], g)
      BY <1>7, <2>2 DEF ToolStores
    <3> HIDE DEF x
    <3>2. x[1] \in VecKeys /\ x[2] \in VecFactRec
      BY <3>1 DEF VecInv, ToolInv
    <3>3. g.form # "bare"
      BY <3>2 DEF VecFactRec
    <3> HIDE DEF g
    <3> QED
      BY <1>5, <3>1, <3>2, <3>3, Zenon
  <2> QED
    BY <2>1, <2>2
<1>8. ASSUME NEW w \in VecWorkers, VecWorkerStep(w), ~EnrichStores(w) PROVE vecFacts' = vecFacts
  BY <1>8 DEF VecWorkerStep, StageClaim, EnrichRead, EnrichEmbeds, EnrichTargets, EnrichLinks, StageFinish, WorkerCrash
<1>9. ASSUME NEW e \in VecKeys \X VecKeys, InvalidateLink(e) PROVE vecFacts' = vecFacts
  BY <1>9 DEF InvalidateLink
<1>10. ASSUME NEW r \in DOMAIN stageRuns, StageRequeue(r) PROVE vecFacts' = vecFacts
  BY <1>10 DEF StageRequeue
<1>11. ASSUME CreativeRead \/ CreativePairs \/ CreativeLinks \/ ToolRead PROVE vecFacts' = vecFacts
  BY <1>11 DEF CreativeRead, CreativePairs, CreativeLinks, ToolRead
<1>12. ASSUME BuildIVF \/ SearchRead \/ SearchReturns \/ \E probed \in ProbedKeys : VectorSearch(probed) PROVE vecFacts' = vecFacts
  BY <1>12 DEF BuildIVF, SearchRead, SearchReturns, VectorSearch
<1> HIDE DEF Bare
<1>13. Bare
  BY <1>2, <1>3, <1>4, <1>6, <1>7, <1>8, <1>9, <1>10, <1>11, <1>12, Zenon DEF VecNext
<1>14. \A k \in VecKeys : vecFacts'[k].id \in 1 .. VecRevs
  BY VecStepHolds DEF VecInv, VecFactsInv
<1>15. BareIsOfRun(vecFacts', stageRuns')
  BY <1>13, <1>14, RunsCountUp DEF Bare, BareIsOfRun
<1> QED
  BY <1>15, RunsCountUp DEF FormsInv, BareIsOfRun, RunsCounted

\* Facts, rows, runs and passes have their types, for any keys, texts, enrichers and limits.
THEOREM VecTypeCorrect == VecSpec => []VecTypeOK
<1>1. VecInv => VecTypeOK
  BY VecNumbers DEF VecInv, VecTypeOK, VecFactsInv, SeenFacts, VecFactRec, LinksInv, ClaimsInv, RunRec, WorkersInv, CountsOf, PassInv
<1>2. VecInit => VecInv
  BY VecInitHolds
<1>3. VecInv /\ [VecNext]_vecVars => VecInv'
  BY VecStepHolds
<1> QED
  BY <1>1, <1>2, <1>3, PTL DEF VecSpec

\* Where the vectors at start are this embedder's: a vector is of its revision's own body, and without the
\* key only after a run of that revision; budgets go to new links, a search misses
\* nothing that is indexed wrongly, and who lost its claim derives nothing (fencedStageTx, BackfillEmbeddings, VectorSearch).
THEOREM VectorsAreSafe == ASSUME ~Legacy PROVE VecSpec => VectorSafety
<1> DEFINE Holds == VectorsAreTheirOwn /\ BudgetIsSpentOnNew /\ SearchIsSound
<1>1. VecInv /\ FormsInv => Holds
  <2> SUFFICES ASSUME VecInv, FormsInv PROVE Holds
    OBVIOUS
  <2>1. VectorsAreTheirOwn
    <3>1. \A k \in VecKeys : vecFacts[k].vec[1] \in {vecFacts[k].text, "none"}
      BY DEF VecInv, VecFactsInv, OwnVec, NoVec, Embedded
    <3> QED
      BY <3>1 DEF FormsInv, BareIsOfRun, VectorsAreTheirOwn
  <2>2. BudgetIsSpentOnNew
    BY DEF VecInv, WorkersInv, CountsOf, PassInv, BudgetIsSpentOnNew
  <2>3. SearchIsSound
    BY DEF VecInv, SearchInv
  <2> QED
    BY <2>1, <2>2, <2>3
<1>2. VecInit => VecInv
  BY VecInitHolds
<1>3. VecInv /\ [VecNext]_vecVars => VecInv'
  BY VecStepHolds
<1>4. VecInv /\ [VecNext]_vecVars => [\A w \in VecWorkers : worker[w].pc = "link" /\ worker'[w].added > worker[w].added =>
         /\ StillLive(worker[w].key, worker[w].rev)
         /\ \A x \in VecWorkers \ {w} : worker[x].key = worker[w].key /\ worker[x].rev = worker[w].rev
                                         => worker[x].attempt < worker[w].attempt]_vecVars
  BY VecStepHolds DEF Derives
<1>a. VecInit => FormsInv
  BY FormsInit
<1>b. VecInv /\ FormsInv /\ [VecNext]_vecVars => FormsInv'
  <2>1. CASE UNCHANGED vecVars
    BY <2>1 DEF vecVars, FormsInv, BareIsOfRun, RunsCounted
  <2> QED
    BY <2>1, FormsStep
<1>5. VecSpec => []Holds
  BY <1>1, <1>2, <1>3, <1>a, <1>b, PTL DEF VecSpec
<1>6. VecSpec => ReclaimedDerivesNothing
  BY <1>2, <1>3, <1>4, PTL DEF VecSpec, ReclaimedDerivesNothing
<1> QED
  BY <1>5, <1>6 DEF VectorSafety
=============================================================================
