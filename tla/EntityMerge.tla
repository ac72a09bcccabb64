----------------------------- MODULE EntityMerge ----------------------------
(* Reversible entity merges (internal/memory/entity_resolve.go) beside the
   enricher that writes the same entities (enrich.go, entity.go) and the mention
   edges between sources and entities (links.go).

   An entity is its live fact: the number of its revision, the merge markers and
   records among its attributes, and its mention count.  Names, provenance and
   embeddings are left out: source_facts and aliases are united and subtracted by
   the rules that the mentions follow, except that they know no protected set.
   Transactions are serial; what is read outside of one is a step of its own.   *)
EXTENDS Integers, FiniteSets, FiniteSetsExt

CONSTANTS Entities,   \* entity keys of one type
          Mentioning, \* keys of the facts that mention them
          Mergers,    \* callers of ApplyEntityMerge and RevertEntityMerge
          NoEntity,   \* no merged_into
          Written,    \* entities that exist at first, written by a user and not mentioned
          MergeRevs,  \* bound: revisions of an entity
          UserEdits   \* bound: link removals, plain writes and deletions by users

ASSUME MergeConstants ==
    /\ NoEntity \notin Entities /\ Written \subseteq Entities /\ IsFiniteSet(Mentioning)
    /\ MergeRevs \in Nat \ {0} /\ UserEdits \in Nat

VARIABLES ent,     \* the newest revision of each entity
          edge,    \* memory_links of type mentions
          job,     \* the planned merge or undo of each merger
          entPlan, \* the source the enricher works on, and its plan
          edits,   \* user edits so far
          rewritten \* history: entities that a user wrote or deleted

mergeVars == <<ent, edge, job, entPlan, edits, rewritten>>

MergeRecord == [alias : Entities, contributed : SUBSET Mentioning, added : SUBSET Mentioning,
                protected : SUBSET Mentioning]
EntityFact == [rev : 0..MergeRevs, live : BOOLEAN, into : Entities \cup {NoEntity}, recs : SUBSET MergeRecord,
               base : SUBSET Mentioning, count : Nat]
MergeJob == [op : {"none", "applytx", "reverttx"}, alias : Entities \cup {NoEntity}, canon : Entities \cup {NoEntity},
             aliasRev : 0..MergeRevs, canonRev : 0..MergeRevs, incoming : SUBSET Mentioning, linked : SUBSET Mentioning]
EntityPlan == [pc : {"idle", "head", "apply"}, src : Mentioning \cup {""}, target : Entities \cup {NoEntity},
               fresh : BOOLEAN, rev : 0..MergeRevs]

NoJob == [op |-> "none", alias |-> NoEntity, canon |-> NoEntity, aliasRev |-> 0, canonRev |-> 0,
          incoming |-> {}, linked |-> {}]
NoEntPlan == [pc |-> "idle", src |-> "", target |-> NoEntity, fresh |-> FALSE, rev |-> 0]
NoAttrs == [into |-> NoEntity, recs |-> {}, base |-> {}, count |-> 0]
Attrs(e) == [into |-> ent[e].into, recs |-> ent[e].recs, base |-> ent[e].base, count |-> ent[e].count]
Fact(rev, live, a) == [rev |-> rev, live |-> live, into |-> a.into, recs |-> a.recs, base |-> a.base, count |-> a.count]

MergeInit ==
    /\ ent = [e \in Entities |-> Fact(0, e \in Written, NoAttrs)]
    /\ edge = [p \in Mentioning \X Entities |-> "none"]
    /\ job = [m \in Mergers |-> NoJob]
    /\ entPlan = NoEntPlan
    /\ edits = 0
    /\ rewritten = {}

Revise(e, a) == Fact(ent[e].rev + 1, TRUE, a)
Room(e) == ent[e].rev < MergeRevs

\* Neighbors(key, "in"): the live edges.
Incoming(e) == {s \in Mentioning : edge[<<s, e>>] = "live"}
\* linkSourcesAll: the closed ones too.
LinkSourcesAll(e) == {s \in Mentioning : edge[<<s, e>>] # "none"}

\* addLinkTx inserts and leaves a conflicting row alone, closed as it may be.
AddLinks(S, e) == [p \in DOMAIN edge |-> IF p[2] = e /\ p[1] \in S /\ edge[p] = "none" THEN "live" ELSE edge[p]]
\* invalidateLinkTx; an edge that is not live is passed over.
CloseLinks(S, e) == [p \in DOMAIN edge |-> IF p[2] = e /\ p[1] \in S /\ edge[p] = "live" THEN "closed" ELSE edge[p]]

-----------------------------------------------------------------------------
(* ApplyEntityMerge *)

\* hasMergeRecord, splitMergeRecord: merge_id is a hash of the two keys.
RecordOf(c, a) == {r \in ent[c].recs : r.alias = a}

\* The two facts are read, then their edges.  Whoever else changes an edge of an
\* entity revises the entity too, users excepted: a plan whose facts still hold has
\* the edges as they were with them.
ApplyRead(m, a, c) ==
    /\ job[m].op = "none" /\ a # c
    /\ ent[a].live /\ ent[c].live
    /\ ent[a].into = NoEntity /\ ent[c].into = NoEntity
    /\ job' = [job EXCEPT ![m] = [op |-> "applytx", alias |-> a, canon |-> c,
                                  aliasRev |-> ent[a].rev, canonRev |-> ent[c].rev,
                                  incoming |-> Incoming(a), linked |-> LinkSourcesAll(c)]]
    /\ UNCHANGED <<ent, edge, entPlan, edits, rewritten>>

\* Mutant: the plan is written over whatever revision is there.
HeadsUnchecked(j) == TRUE

\* writeMergeRevisionTx: both predecessors are still the newest revisions, else
\* ErrEntityMergeStalePlan and the transaction is rolled back.
HeadsHold(j) == /\ ent[j.alias].rev = j.aliasRev /\ ent[j.alias].live
                /\ ent[j.canon].rev = j.canonRev /\ ent[j.canon].live

\* Mutant: the record names only what the canonical lacked.
NewRecordShort(j) ==
    LET claimed == UNION {r.added : r \in ent[j.canon].recs} IN
    [alias |-> j.alias, contributed |-> j.incoming \ j.linked, added |-> j.incoming \ j.linked,
     protected |-> (j.incoming \cap j.linked) \ claimed]

\* The record: what the alias is mentioned by, what of it the canonical lacked, and
\* what the canonical had from elsewhere than a merge.
NewRecord(j) ==
    LET claimed == UNION {r.added : r \in ent[j.canon].recs} IN
    [alias |-> j.alias, contributed |-> j.incoming, added |-> j.incoming \ j.linked,
     protected |-> (j.incoming \cap j.linked) \ claimed]

Merged(j) ==
    LET c == j.canon
        rec == NewRecord(j)
        known == RecordOf(c, j.alias) # {}
    IN [Attrs(c) EXCEPT !.count = @ + Cardinality(rec.added),
                        !.recs = IF known THEN @ ELSE @ \cup {rec},
                        !.base = IF ~known /\ ent[c].recs = {} THEN j.linked ELSE @]

ApplyTx(m) ==
    LET j == job[m] IN
    /\ j.op = "applytx"
    /\ Room(j.alias) /\ Room(j.canon)
    /\ job' = [job EXCEPT ![m] = NoJob]
    /\ IF HeadsHold(j)
         THEN /\ edge' = AddLinks(j.incoming \ j.linked, j.canon)
              /\ ent' = [ent EXCEPT ![j.canon] = Revise(j.canon, Merged(j)),
                                    ![j.alias] = Revise(j.alias, [Attrs(j.alias) EXCEPT !.into = j.canon])]
         ELSE UNCHANGED <<ent, edge>>
    /\ UNCHANGED <<entPlan, edits, rewritten>>

-----------------------------------------------------------------------------
(* RevertEntityMerge *)

\* The alias is read, then the canonical with its record; else
\* ErrEntityMergeLineageMissing.  What is read later is newer; both are pinned.
RevertRead(m, a) ==
    LET c == ent[a].into IN
    /\ job[m].op = "none" /\ ent[a].live /\ c # NoEntity
    /\ ent[c].live /\ RecordOf(c, a) # {}
    /\ job' = [job EXCEPT ![m] = [NoJob EXCEPT !.op = "reverttx", !.alias = a, !.canon = c,
                                               !.aliasRev = ent[a].rev, !.canonRev = ent[c].rev]]
    /\ UNCHANGED <<ent, edge, entPlan, edits, rewritten>>

\* What nobody else contributed, the canonical did not start with, and no other
\* source of edges owned.
ClosedBy(c, a) ==
    LET mine == UNION {r.contributed : r \in RecordOf(c, a)}
        theirs == UNION {r.contributed : r \in ent[c].recs \ RecordOf(c, a)}
        owned == UNION {r.protected : r \in RecordOf(c, a)}
    IN  mine \ (theirs \cup ent[c].base \cup owned)

Reverted(c, a) ==
    LET rest == ent[c].recs \ RecordOf(c, a) IN
    [Attrs(c) EXCEPT !.count = Max({0, @ - Cardinality(ClosedBy(c, a))}),
                     !.recs = rest,
                     !.base = IF rest = {} THEN {} ELSE @]

RevertTx(m) ==
    LET j == job[m] IN
    /\ j.op = "reverttx"
    /\ Room(j.alias) /\ Room(j.canon)
    /\ job' = [job EXCEPT ![m] = NoJob]
    /\ IF HeadsHold(j)
         THEN /\ edge' = CloseLinks(ClosedBy(j.canon, j.alias), j.canon)
              /\ ent' = [ent EXCEPT ![j.canon] = Revise(j.canon, Reverted(j.canon, j.alias)),
                                    ![j.alias] = Revise(j.alias, [Attrs(j.alias) EXCEPT !.into = NoEntity])]
         ELSE UNCHANGED <<ent, edge>>
    /\ UNCHANGED <<entPlan, edits, rewritten>>

-----------------------------------------------------------------------------
(* The enricher: planTypedSourceApply, execEntityApplyTx *)

\* The edges of the source, open and closed, say whether it is new ...
PlanLinks(s, e) ==
    /\ entPlan.pc = "idle"
    /\ entPlan' = [NoEntPlan EXCEPT !.pc = "head", !.src = s, !.target = e, !.fresh = edge[<<s, e>>] = "none"]
    /\ UNCHANGED <<ent, edge, job, edits, rewritten>>

\* ... before the entity is read.  A known source of an entity that is gone is
\* passed over.
PlanHead ==
    /\ entPlan.pc = "head"
    /\ entPlan' = IF ent[entPlan.target].live \/ entPlan.fresh
                    THEN [entPlan EXCEPT !.pc = "apply", !.rev = ent[entPlan.target].rev]
                    ELSE NoEntPlan
    /\ UNCHANGED <<ent, edge, job, edits, rewritten>>

\* preserveEntityAttrs, carryEntityMergeLineage; a fact that is gone starts over.
Carried(e, bump) == IF ent[e].live THEN [Attrs(e) EXCEPT !.count = @ + bump] ELSE [NoAttrs EXCEPT !.count = bump]

\* A plan that lost its head is dropped, and made again (applyEntityPlanReplanning).
PlanApplyTx ==
    LET e == entPlan.target IN
    /\ entPlan.pc = "apply" /\ Room(e)
    /\ entPlan' = NoEntPlan
    /\ IF ent[e].rev = entPlan.rev
         THEN /\ ent' = [ent EXCEPT ![e] = Revise(e, Carried(e, IF entPlan.fresh THEN 1 ELSE 0))]
              /\ edge' = IF entPlan.fresh THEN AddLinks({entPlan.src}, e) ELSE edge
         ELSE UNCHANGED <<ent, edge>>
    /\ UNCHANGED <<job, edits, rewritten>>

-----------------------------------------------------------------------------
(* Users *)

UserEdit == edits < UserEdits /\ edits' = edits + 1

\* InvalidateLink
UserCloses(s, e) ==
    /\ UserEdit /\ edge[<<s, e>>] = "live"
    /\ edge' = CloseLinks({s}, e)
    /\ UNCHANGED <<ent, job, entPlan, rewritten>>

\* Write with the user's attributes, which know nothing of merges and mentions.
UserWrites(e) ==
    /\ UserEdit /\ Room(e)
    /\ ent' = [ent EXCEPT ![e] = Revise(e, NoAttrs)]
    /\ rewritten' = rewritten \cup {e}
    /\ UNCHANGED <<edge, job, entPlan>>

\* Forget: a tombstone is the newest revision.
UserForgets(e) ==
    /\ UserEdit /\ Room(e) /\ ent[e].live
    /\ ent' = [ent EXCEPT ![e] = Fact(ent[e].rev + 1, FALSE, NoAttrs)]
    /\ rewritten' = rewritten \cup {e}
    /\ UNCHANGED <<edge, job, entPlan>>

MergeNext ==
    \/ \E m \in Mergers : \/ \E a, c \in Entities : ApplyRead(m, a, c)
                          \/ \E a \in Entities : RevertRead(m, a)
                          \/ ApplyTx(m) \/ RevertTx(m)
    \/ \E e \in Entities : \/ UserWrites(e) \/ UserForgets(e)
                           \/ \E s \in Mentioning : PlanLinks(s, e) \/ UserCloses(s, e)
    \/ PlanHead \/ PlanApplyTx

MergeSpec == MergeInit /\ [][MergeNext]_mergeVars

-----------------------------------------------------------------------------
(* Properties *)

\* Every entity keeps records of the shape ApplyEntityMerge and RevertEntityMerge
\* write, and every process is at a step of one of them.
MergeTypeOK ==
    /\ ent \in [Entities -> EntityFact]
    /\ \A e \in Entities : \A r \in ent[e].recs : r.alias # e /\ r.added \cup r.protected \subseteq r.contributed
    /\ edge \in [Mentioning \X Entities -> {"none", "live", "closed"}]
    /\ job \in [Mergers -> MergeJob]
    /\ entPlan \in EntityPlan
    /\ edits \in 0..UserEdits /\ rewritten \subseteq Entities

\* ResolveEntityKey goes from a live entity to the one it is merged into.
NextKey(e) == IF ent[e].live THEN ent[e].into ELSE NoEntity

\* However merges, undos, enrichment and user edits interleave, "a lineage cycle" does
\* not come to be: there are no entities from which merged_into leads round and round,
\* so two merges in opposite directions, or around a ring, never all commit.
LineageEnds == \A S \in SUBSET Entities : S # {} => \E e \in S : NextKey(e) \notin S

\* A merge is known on both sides or on neither, so it can be undone: an alias points
\* to a canonical that has its record and every record's alias points back, unless a
\* user replaced one of the two facts (entity_resolve.go, ErrEntityMergeLineageMissing).
LineageOnBothSides ==
    \A a, c \in Entities \ rewritten : ent[a].into = c <=> \E r \in ent[c].recs : r.alias = a

\* Undo takes away what its merge brought and leaves what other active merges and the
\* canonical itself need: while a merge is recorded, every mention it contributed that
\* no user removed has a live edge or had been closed before the merge.
SharedMentionsSurvive ==
    edits = 0 =>
        \A c \in Entities : \A r \in ent[c].recs :
            \A s \in r.contributed \ r.protected : edge[<<s, c>>] = "live"

\* enrich.go planTypedSourceApply: "one key can never count twice across revisions".
OneCountPerSource ==
    \A e \in Entities \ rewritten : ent[e].count <= Cardinality(LinkSourcesAll(e))

\* entity_resolve.go ApplyEntityMerge: "the alias's live mention sources gain edges to
\* the canonical while the old edges stay untouched".
MergeGivesEdges ==
    [][\A m \in Mergers : LET j == job[m] IN
         (ApplyTx(m) /\ ent' # ent) => \A s \in j.incoming : edge'[<<s, j.canon>>] = "live"]_mergeVars

\* Merges and their undos keep the lineage acyclic and two-sided, and the mentions
\* that other merges need.
MergeSafety == LineageEnds /\ LineageOnBothSides /\ SharedMentionsSurvive
=============================================================================
