------------------------------ MODULE SkillStore ----------------------------
(* The procedural skill index (internal/memory/skills.go), its lifecycle sync
   with the spec tree and the mined drafts (skillmine/discover.go), approved
   improvements (skillmine/improve.go) and recorded runs (skillmine/outcomes.go).

   One skill name.  A content stands for the metadata and the procedure of a
   version together, whose hash is the identity; "" is no row, be it never
   written, tombstoned or swept by retention.  Each write is a transaction and a
   step of its own; a process may stop, or a write fail, between any two.       *)
EXTENDS Integers, FiniteSets, Sequences

CONSTANTS Authored,   \* contents the spec tree may hold under the base version
          Drafted,    \* contents of improvement drafts; the first one is approved
          Approved,   \* the content whose digest the proposal carries
          Executions, \* executions of the skill
          Recorders,  \* processes that record run outcomes
          SkillFaults, \* bound: crashes and failing writes
          SkillEdits,  \* bound: edits of tree and draft, operator calls, recordings
          Runnings    \* bound: syncs

ASSUME SkillConstants == /\ Approved \in Drafted /\ Authored \cap Drafted = {} /\ "" \notin Authored \cup Drafted
                         /\ {SkillFaults, SkillEdits, Runnings} \subseteq Nat

VARIABLES tree,    \* the base version's content in the spec tree
          doc,     \* /skills/: the advertised metadata of each version
          bod,     \* /skill-bodies/
          idn,     \* /skill-identities/
          proc,    \* what the sync, the operator and the applier are doing
          prop,    \* the improvement proposal
          draft,   \* /skill-drafts/
          grade,   \* /skill-evals/ and /skill-acceptance/
          ran,     \* skill_run events of the ledger, and /skill-runs/
          recorder, \* what each recorder is doing
          shipped, \* history: the content each version was first advertised with
          spent    \* faults, edits and syncs so far

skillVars == <<tree, doc, bod, idn, proc, prop, draft, grade, ran, recorder, shipped, spent>>
gateVars == <<prop, draft, grade>>
runVars == <<ran, recorder>>
rowVars == <<doc, bod, idn>>

Version == {"base", "new"}
Process == {"sync", "op", "apply"}
SkillBounds == {"faults", "edits", "syncs"}
SkillContent == Authored \cup Drafted \cup {""}
Origin == {"", "authored", "mined"}
RunOutcome == {"", "failed", "success"}
Digest == [content : SkillContent, source : Origin, active : BOOLEAN]
SkillPc == {"idle", "index", "body", "digest", "identity", "return", "pin", "forget",
            "forgetbody", "flip", "flipwrite", "sweep", "mark"}
\* A call in progress, and the calls that follow it.
SkillCall(Then) == [pc : SkillPc, ver : Version, content : SkillContent, source : Origin,
                    active : BOOLEAN, then : Then]
NoDoc == [content |-> "", source |-> "", active |-> FALSE]
Idle == [pc |-> "idle", ver |-> "base", content |-> "", source |-> "", active |-> FALSE, then |-> <<>>]
NoRecord == [pc |-> "idle", exec |-> "", out |-> ""]

SkillInit ==
    /\ tree \in Authored /\ draft = "" /\ grade = [eval |-> "none", fixture |-> {}]
    /\ doc = [v \in Version |-> NoDoc]
    /\ bod = [v \in Version |-> ""] /\ idn = [v \in Version |-> ""] /\ shipped = [v \in Version |-> ""]
    /\ proc = [p \in Process |-> Idle]
    /\ prop = [st |-> "none", applied |-> FALSE, base |-> ""]
    /\ ran = [e \in Executions |-> [event |-> "", record |-> ""]]
    /\ recorder = [r \in Recorders |-> NoRecord]
    /\ spent = [what \in SkillBounds |-> 0]

SkillSpend(what, max) == spent[what] < max /\ spent' = [spent EXCEPT ![what] = @ + 1]
Go(p, r) == proc' = [proc EXCEPT ![p] = r]
At(p, pc) == proc[p].pc = pc

\* What follows a finished call: the remaining calls of the same operation.
Return(p) == IF proc[p].then = <<>> THEN Idle
             ELSE [Head(proc[p].then) EXCEPT !.then = Tail(proc[p].then)]
Call(pc, v, c, src, act) == [pc |-> pc, ver |-> v, content |-> c, source |-> src, active |-> act, then |-> <<>>]

-----------------------------------------------------------------------------
(* IndexSkill *)

\* Conflicts: with the identity, or with the live rows when there is none.
Conflict(v, c) == \/ idn[v] \notin {"", c}
                  \/ doc[v].content # "" /\ (doc[v].content # c \/ bod[v] \notin {"", c})

\* The three rows are read; a live digest keeps its active flag.
IndexRead(p) ==
    LET me == proc[p] IN
    /\ At(p, "index")
    /\ Go(p, IF Conflict(me.ver, me.content) \/ (doc[me.ver].source \notin {"", me.source})
               THEN IF p = "sync" THEN Return(p) ELSE Idle
             ELSE [me EXCEPT !.pc = IF bod[me.ver] # me.content THEN "body"
                                    ELSE IF doc[me.ver].content = "" THEN "digest"
                                    ELSE IF idn[me.ver] = "" THEN "identity" ELSE "return"])
    /\ UNCHANGED <<rowVars, tree, gateVars, runVars, shipped, spent>>

\* publishSkillStaged: the body first, ...
IndexBody(p) ==
    LET me == proc[p] IN
    /\ At(p, "body")
    /\ bod' = [bod EXCEPT ![me.ver] = me.content]
    /\ Go(p, [me EXCEPT !.pc = IF doc[me.ver].content = "" THEN "digest" ELSE "identity"])
    /\ UNCHANGED <<doc, idn, tree, gateVars, runVars, shipped, spent>>

\* ... then the digest ...
IndexDigest(p) ==
    LET me == proc[p] IN
    /\ At(p, "digest")
    /\ doc' = [doc EXCEPT ![me.ver] = [content |-> me.content, source |-> me.source, active |-> TRUE]]
    /\ shipped' = [shipped EXCEPT ![me.ver] = IF @ = "" THEN me.content ELSE @]
    /\ Go(p, [me EXCEPT !.pc = "identity"])
    /\ UNCHANGED <<bod, idn, tree, gateVars, runVars, spent>>

\* ... and the identity last (writeSkillIdentity), unless there is one.
IndexIdentity(p) ==
    LET me == proc[p] IN
    /\ At(p, "identity")
    /\ idn' = [idn EXCEPT ![me.ver] = IF @ = "" THEN me.content ELSE @]
    /\ Go(p, [me EXCEPT !.pc = "return"])
    /\ UNCHANGED <<doc, bod, tree, gateVars, runVars, shipped, spent>>

Returns(p) ==
    /\ At(p, "return")
    /\ Go(p, Return(p))
    /\ UNCHANGED <<rowVars, tree, gateVars, runVars, shipped, spent>>

-----------------------------------------------------------------------------
(* UnpublishSkill *)

\* Mutant: the removal relies on the publish having written the identity.
PinNothing(v) == idn

\* pinSkillIdentity: a missing identity is taken from the live rows.
PinIdentity(v) ==
    [idn EXCEPT ![v] = IF @ = "" /\ doc[v].content # "" /\ bod[v] # "" THEN bod[v] ELSE @]

UnpublishPin(p) ==
    /\ At(p, "pin")
    /\ idn' = PinIdentity(proc[p].ver)
    /\ Go(p, [proc[p] EXCEPT !.pc = "forget"])
    /\ UNCHANGED <<doc, bod, tree, gateVars, runVars, shipped, spent>>

\* The digest is tombstoned before the body.
UnpublishDoc(p) ==
    /\ At(p, "forget")
    /\ doc' = [doc EXCEPT ![proc[p].ver] = NoDoc]
    /\ Go(p, [proc[p] EXCEPT !.pc = "forgetbody"])
    /\ UNCHANGED <<bod, idn, tree, gateVars, runVars, shipped, spent>>

UnpublishBody(p) ==
    /\ At(p, "forgetbody")
    /\ bod' = [bod EXCEPT ![proc[p].ver] = ""]
    /\ Go(p, Return(p))
    /\ UNCHANGED <<doc, idn, tree, gateVars, runVars, shipped, spent>>

-----------------------------------------------------------------------------
(* SetSkillActive, RevertSkillVersion: operators *)

\* loadSkillFact, then a new revision of what was read.
FlipRead(p) ==
    LET me == proc[p] IN
    /\ At(p, "flip")
    /\ Go(p, IF doc[me.ver].content = "" THEN Idle
             ELSE [me EXCEPT !.pc = "flipwrite", !.content = doc[me.ver].content, !.source = doc[me.ver].source])
    /\ UNCHANGED <<rowVars, tree, gateVars, runVars, shipped, spent>>

FlipWrite(p) ==
    LET me == proc[p] IN
    /\ At(p, "flipwrite")
    /\ doc' = [doc EXCEPT ![me.ver] = [content |-> me.content, source |-> me.source, active |-> me.active]]
    /\ Go(p, Return(p))
    /\ UNCHANGED <<bod, idn, tree, gateVars, runVars, shipped, spent>>

SetSkillActive(v, a) ==
    /\ At("op", "idle") /\ SkillSpend("edits", SkillEdits)
    /\ Go("op", Call("flip", v, "", "", a))
    /\ UNCHANGED <<rowVars, tree, gateVars, runVars, shipped>>

\* Both versions are looked up before the first flip.
RevertSkillVersion(from, to) ==
    /\ At("op", "idle") /\ from # to /\ SkillSpend("edits", SkillEdits)
    /\ doc[from].content # "" /\ doc[to].content # ""
    /\ Go("op", [Call("flip", from, "", "", FALSE) EXCEPT !.then = <<Call("flip", to, "", "", TRUE)>>])
    /\ UNCHANGED <<rowVars, tree, gateVars, runVars, shipped>>

-----------------------------------------------------------------------------
(* syncSkills *)

EditTree(c) ==
    /\ c # tree /\ SkillSpend("edits", SkillEdits)
    /\ tree' = c
    /\ UNCHANGED <<rowVars, proc, gateVars, runVars, shipped>>

\* SyncBundle: what the tree declares is indexed, then what it does not is swept.
SyncBundle ==
    /\ At("sync", "idle") /\ SkillSpend("syncs", Runnings)
    /\ Go("sync", IF tree # "" THEN [Call("index", "base", tree, "authored", TRUE) EXCEPT !.then = <<Call("sweep", "base", tree, "authored", TRUE)>>]
                  ELSE Call("sweep", "base", "", "authored", TRUE))
    /\ UNCHANGED <<rowVars, tree, gateVars, runVars, shipped>>

\* SyncDrafts: an applied improvement has no file among the mined drafts.
SyncDrafts ==
    /\ At("sync", "idle") /\ SkillSpend("syncs", Runnings)
    /\ Go("sync", Call("sweep", "new", "", "mined", TRUE))
    /\ UNCHANGED <<rowVars, tree, gateVars, runVars, shipped>>

\* ListSkillsAll, of the same source and no longer wanted.
Sweep(p) ==
    LET me == proc[p] IN
    /\ At(p, "sweep")
    /\ Go(p, IF doc[me.ver].content # "" /\ doc[me.ver].source = me.source /\ me.content = ""
               THEN [me EXCEPT !.pc = "pin"] ELSE Return(p))
    /\ UNCHANGED <<rowVars, tree, gateVars, runVars, shipped, spent>>

-----------------------------------------------------------------------------
(* ProposeImprovement, EvaluateCandidateDeterministic, ApplySkillProposal *)

\* The draft is written before the proposal.
ProposeDraft ==
    /\ prop.st = "none" /\ draft = ""
    /\ doc["base"].active /\ bod["base"] # "" /\ idn["base"] # ""
    /\ \E e \in Executions : ran[e].record = "failed"
    /\ draft' = Approved
    /\ UNCHANGED <<rowVars, tree, proc, prop, grade, runVars, shipped, spent>>

ProposeRow ==
    /\ prop.st = "none" /\ draft # "" /\ idn["base"] # ""
    /\ prop' = [st |-> "proposed", applied |-> FALSE, base |-> idn["base"]]
    /\ UNCHANGED <<rowVars, tree, proc, draft, grade, runVars, shipped, spent>>

\* UpdateStatus takes any status at any time.
Decide(s) ==
    /\ prop.st \notin {"none", s}
    /\ prop' = [prop EXCEPT !.st = s]
    /\ UNCHANGED <<rowVars, tree, proc, draft, grade, runVars, shipped, spent>>

\* A plain write replaces the draft.
SwapDraft(c) ==
    /\ draft \notin {"", c} /\ SkillSpend("edits", SkillEdits)
    /\ draft' = c
    /\ UNCHANGED <<rowVars, tree, proc, prop, grade, runVars, shipped>>

\* RecordCandidateAcceptance: the contents that the assertions hold for.
Accept(S) ==
    /\ prop.st # "none" /\ grade.fixture # S
    /\ grade' = [grade EXCEPT !.fixture = S]
    /\ UNCHANGED <<rowVars, tree, proc, prop, draft, runVars, shipped, spent>>

\* A candidate that is not the approved one, or a base that is gone, fails.
Evaluate ==
    /\ prop.st # "none"
    /\ grade' = [grade EXCEPT !.eval = IF draft # Approved \/ bod["base"] \in {"", draft} THEN "failed"
                                       ELSE IF grade.fixture = {} THEN "ungraded"
                                       ELSE IF draft \in grade.fixture THEN "passed" ELSE "failed"]
    /\ grade' # grade
    /\ UNCHANGED <<rowVars, tree, proc, prop, draft, runVars, shipped, spent>>

\* The gates, read one after the other: approved, the very draft that was approved,
\* its runs, the base unchanged, and its evaluation, which is run again.
Gate == /\ prop.st = "approved" /\ ~prop.applied
        /\ draft = Approved
        /\ \E e \in Executions : ran[e].record # ""
        /\ idn["base"] = prop.base /\ bod["base"] \notin {"", draft}
        /\ grade.eval = "passed" /\ draft \in grade.fixture

\* The draft becomes a new mined version, the base is deactivated, the row marked.
ApplySkillProposal ==
    /\ At("apply", "idle") /\ Gate
    /\ Go("apply", [Call("index", "new", draft, "mined", TRUE) EXCEPT
                       !.then = <<Call("flip", "base", "", "", FALSE), Call("mark", "new", "", "", TRUE)>>])
    /\ UNCHANGED <<rowVars, tree, gateVars, runVars, shipped, spent>>

MarkApplied ==
    /\ At("apply", "mark")
    /\ prop' = [prop EXCEPT !.st = "approved", !.applied = TRUE]
    /\ Go("apply", Idle)
    /\ UNCHANGED <<rowVars, tree, draft, grade, runVars, shipped, spent>>

-----------------------------------------------------------------------------
(* RecordRunOutcome *)

\* The gates and the look for a record of this execution.
RecordRead(r, e, o) ==
    /\ recorder[r].pc = "idle" /\ idn["base"] # "" /\ ran[e].record = "" /\ SkillSpend("edits", SkillEdits)
    /\ recorder' = [recorder EXCEPT ![r] = [pc |-> "append", exec |-> e, out |-> o]]
    /\ UNCHANGED <<rowVars, tree, proc, gateVars, ran, shipped>>

\* AppendSkillRunOnce: an event of this execution is reused if it says the same,
\* else ErrSkillRunConflict.
AnchorHolds(e, o) == ran[e].event \in {"", o}

RecordAppend(r) ==
    LET e == recorder[r].exec
        o == recorder[r].out
    IN /\ recorder[r].pc = "append"
       /\ ran' = IF ran[e].event = "" THEN [ran EXCEPT ![e].event = o] ELSE ran
       /\ recorder' = [recorder EXCEPT ![r] = IF AnchorHolds(e, o) THEN [@ EXCEPT !.pc = "pin"] ELSE NoRecord]
       /\ UNCHANGED <<rowVars, tree, proc, gateVars, shipped, spent>>

\* RecordSkillRun, under the key of the execution.
RecordPin(r) ==
    /\ recorder[r].pc = "pin"
    /\ ran' = [ran EXCEPT ![recorder[r].exec].record = recorder[r].out]
    /\ recorder' = [recorder EXCEPT ![r] = NoRecord]
    /\ UNCHANGED <<rowVars, tree, proc, gateVars, shipped, spent>>

-----------------------------------------------------------------------------
\* A process stops, or its write fails and the operation with it.
StopProcess(p) ==
    /\ ~At(p, "idle") /\ SkillSpend("faults", SkillFaults)
    /\ Go(p, Idle)
    /\ UNCHANGED <<rowVars, tree, gateVars, runVars, shipped>>

StopRecorder(r) ==
    /\ recorder[r].pc # "idle" /\ SkillSpend("faults", SkillFaults)
    /\ recorder' = [recorder EXCEPT ![r] = NoRecord]
    /\ UNCHANGED <<rowVars, tree, proc, gateVars, ran, shipped>>

SkillNext ==
    \/ \E p \in Process : \/ IndexRead(p) \/ IndexBody(p) \/ IndexDigest(p) \/ IndexIdentity(p) \/ Returns(p)
                          \/ UnpublishPin(p) \/ UnpublishDoc(p) \/ UnpublishBody(p)
                          \/ FlipRead(p) \/ FlipWrite(p) \/ Sweep(p) \/ StopProcess(p)
    \/ \E v, w \in Version, a \in BOOLEAN : SetSkillActive(v, a) \/ RevertSkillVersion(v, w)
    \/ \E c \in Authored \cup {""} : EditTree(c)
    \/ SyncBundle \/ SyncDrafts \/ ProposeDraft \/ ProposeRow \/ Evaluate \/ ApplySkillProposal \/ MarkApplied
    \/ \E s \in {"approved", "denied"} : Decide(s)
    \/ \E c \in Drafted : SwapDraft(c) \/ Accept({c})
    \/ \E r \in Recorders : \/ RecordAppend(r) \/ RecordPin(r) \/ StopRecorder(r)
                            \/ \E e \in Executions, o \in {"failed", "success"} : RecordRead(r, e, o)

SkillSpec == SkillInit /\ [][SkillNext]_skillVars

-----------------------------------------------------------------------------
(* Properties *)

\* The facts, proposals and runs of skills have the shape IndexSkill, Decide and
\* RecordSkillRun write, and every process is at a step of a call.
SkillTypeOK ==
    /\ tree \in Authored \cup {""} /\ draft \in Drafted \cup {""}
    /\ doc \in [Version -> Digest]
    /\ {bod, idn, shipped} \subseteq [Version -> SkillContent]
    /\ proc \in [Process -> SkillCall(Seq(SkillCall({<<>>})))]
    /\ prop \in [st : {"none", "proposed", "approved", "denied"}, applied : BOOLEAN, base : SkillContent]
    /\ grade \in [eval : {"none", "failed", "ungraded", "passed"}, fixture : SUBSET Drafted]
    /\ ran \in [Executions -> [event : RunOutcome, record : RunOutcome]]
    /\ recorder \in [Recorders -> [pc : {"idle", "append", "pin"}, exec : Executions \cup {""}, out : RunOutcome]]
    /\ spent \in [SkillBounds -> Nat]

\* LoadSkill
Loads(v) == doc[v].content # "" /\ doc[v].active /\ bod[v] # ""

\* A version that was advertised once never loads another procedure, whatever is
\* edited, unpublished, swept, published again or left half done in between
\* (skills.go: "an exact-version load can never return a different procedure").
PublishedIsImmutable == \A v \in Version : Loads(v) => bod[v] = shipped[v] /\ doc[v].content = shipped[v]

\* What goes live as an improvement is the content that was approved, though the
\* draft can be rewritten at any time (improve.go, ErrDraftDigestMismatch).
ApprovedIsPublished == shipped["new"] \in {"", Approved}

\* A recorded outcome is the one its ledger event says, whoever retries what
\* (outcomes.go: "a retry can heal a partial write, never change a recorded outcome").
RunsMatchEvents == \A e \in Executions : ran[e].record # "" => ran[e].record = ran[e].event

\* skills.go IndexSkill: "never an advertised digest without its loadable body".
AdvertisedIsLoadable == \A v \in Version : doc[v].content # "" => bod[v] # ""

\* A version stays what it was when it was advertised, an improvement is what was
\* approved, and a run is what its event says.
SkillSafety == PublishedIsImmutable /\ ApprovedIsPublished /\ RunsMatchEvents
=============================================================================
