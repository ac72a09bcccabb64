---------------------------- MODULE SummaryTree ----------------------------
(***************************************************************************)
(* The tree of summaries above the observations of a namespace: a build     *)
(* regenerates what is stale, children first, retires what is orphaned, and *)
(* every reader asks whether the summary it recalls is stale.               *)
(*                                                                          *)
(* A node is its key: the group, then the buckets on the way down.          *)
(* Observations change while a build runs, and a build may stop anywhere    *)
(* with an error.  `text` is a ghost: the revisions of the observations     *)
(* that the words of a summary are drawn from.                              *)
(***************************************************************************)
EXTENDS Naturals, Sequences, FiniteSets

CONSTANTS Obs,            \* keys of observations
          TopicGroups,    \* what summarizeGroup assigns
          Bucket,         \* observation -> its bucket at each level (bucketIndex)
          Fanout,         \* children of a node
          MaxDepth,       \* maxSummaryDepth
          ObsEdits,       \* bound on the changes of observations and sources
          Builds,         \* bound on the builds
          BuildFaults     \* bound on the builds that stop with an error

ASSUME TreeConstants ==
    /\ Fanout >= 2 /\ {Fanout, MaxDepth, ObsEdits, Builds, BuildFaults} \subseteq Nat
    /\ \A o \in Obs : \A i \in 1..MaxDepth : Bucket[o][i] \in 0 .. Fanout - 1

VARIABLES obs,            \* the observations: revision, live, group, and whether the sources they cite are current
          sums,           \* the summary facts
          build,          \* the running build
          quiet,          \* nothing changed since the build read the observations
          obsEdits, builds, buildFaults

treeVars == <<obs, sums, build, quiet, obsEdits, builds, buildFaults>>

Nodes == {<<g>> \o p : g \in TopicGroups, p \in UNION {[1..n -> 0 .. Fanout - 1] : n \in 0 .. MaxDepth - 1}}
NoSum == [rev |-> 0, live |-> FALSE, leafKids |-> {}, nodeKids |-> {}, text |-> {}]
NoBuild == [pc |-> "idle", snap |-> [o \in Obs |-> [rev |-> 0, live |-> FALSE, group |-> "", grounded |-> FALSE]],
            groups |-> {}, todo |-> {}, desired |-> {}, node |-> <<>>, draft |-> NoSum, orphans |-> {}]

\* All observations but one are there; no summary is.
TreeInit ==
    /\ \E late \in Obs, g \in TopicGroups :
         obs = [o \in Obs |-> [rev |-> 1, live |-> o # late, group |-> g, grounded |-> TRUE]]
    /\ sums = [n \in Nodes |-> NoSum]
    /\ build = NoBuild /\ quiet = TRUE
    /\ obsEdits = 0 /\ builds = 0 /\ buildFaults = 0

-----------------------------------------------------------------------------
(* The shape of the tree, over the observations os *)

summaryNodeKey(n, b) == n \o <<b>>
Below(n, m) == Len(n) < Len(m) /\ SubSeq(m, 1, Len(n)) = n
summaryGroups(os, g) == {o \in Obs : os[o].live /\ os[o].group = g}
leavesMatchingPath(os, n) ==
    {o \in summaryGroups(os, n[1]) : \A i \in 2..Len(n) : Bucket[o][i - 1] = n[i]}
isParentSummary(n) == sums[n].live /\ sums[n].nodeKids # {}
establishedSplit(g) == isParentSummary(<<g>>)

\* A node splits when it owns too much; one that has split stays so until it is empty.
Splits(os, n, retained) ==
    LET owned == leavesMatchingPath(os, n) IN Cardinality(owned) > Fanout \/ (retained /\ owned # {})
NonEmptyBuckets(os, n) == {b \in 0 .. Fanout - 1 : leavesMatchingPath(os, summaryNodeKey(n, b)) # {}}

Parent(os, n) == Splits(os, n, establishedSplit(n[1]) /\ isParentSummary(n))
reconcileGroup(os, g) ==
    {n \in Nodes : /\ n[1] = g /\ leavesMatchingPath(os, n) # {}
                   /\ \A m \in Nodes : Below(m, n) => Parent(os, m)}
TooDeep(os, g) == \E n \in reconcileGroup(os, g) : Len(n) = MaxDepth /\ Parent(os, n)

-----------------------------------------------------------------------------
(* SummaryStale *)

LeafRefs(os, S) == {<<o, os[o].rev>> : o \in S}
NodeRefs(S) == {<<n, sums[n].rev>> : n \in S}
expectedSummaryChildKeys(n) ==
    IF Splits(obs, n, isParentSummary(n))
    THEN [leaf |-> {}, node |-> {summaryNodeKey(n, b) : b \in NonEmptyBuckets(obs, n)}]
    ELSE [leaf |-> leavesMatchingPath(obs, n), node |-> {}]
\* factIDCurrent of every source.
observationGrounded(o) == obs[o].grounded
\* The children are the expected ones, at the recorded revisions, and the observations among them are grounded.
ChildrenCurrent(n) ==
    LET e == expectedSummaryChildKeys(n) IN
    /\ leavesMatchingPath(obs, n) # {}
    /\ e.node \subseteq {m \in Nodes : sums[m].live}
    /\ sums[n].leafKids = LeafRefs(obs, e.leaf) /\ sums[n].nodeKids = NodeRefs(e.node)
    /\ \A o \in e.leaf : observationGrounded(o)
\* Mutant: only the node's own children are looked at.
RootOnly(n) == {n}
\* The summaries that the recursion of summaryStaleRec visits.
summaryStaleRec(n) ==
    {n} \cup {m \in Nodes : Below(n, m) /\ \A p \in Nodes : (p = n \/ Below(n, p)) /\ Below(p, m) =>
                                SubSeq(m, 1, Len(p) + 1) \in expectedSummaryChildKeys(p).node}
SummaryStale(n) == ~\A m \in summaryStaleRec(n) : ChildrenCurrent(m)

-----------------------------------------------------------------------------
(* BuildSummaryTree *)

BuildStep(b) == build' = b
Quietly == UNCHANGED <<obs, quiet, obsEdits, builds>>

\* The observations are read once.
BuildSummaryTree ==
    /\ build.pc = "idle" /\ builds < Builds
    /\ build' = [NoBuild EXCEPT !.pc = "group", !.snap = obs,
                 !.groups = {g \in TopicGroups : summaryGroups(obs, g) # {}}]
    /\ quiet' = TRUE /\ builds' = builds + 1
    /\ UNCHANGED <<obs, sums, obsEdits, buildFaults>>

\* The next group, in no particular order: its summaries are read, and its tree is planned.
PlanGroup ==
    /\ build.pc = "group" /\ build.todo = {} /\ build.groups # {}
    /\ \E g \in build.groups :
         IF TooDeep(build.snap, g) THEN BuildStep(NoBuild)
         ELSE LET nodes == reconcileGroup(build.snap, g) IN
              BuildStep([build EXCEPT !.groups = @ \ {g}, !.todo = nodes, !.desired = @ \cup nodes])
    /\ Quietly /\ UNCHANGED <<sums, buildFaults>>

\* The children of a node as they are now, or as the build read them.
Draft(n) ==
    LET kids == {m \in build.desired : Len(m) = Len(n) + 1 /\ Below(n, m)}
        input == {m \in kids : sums[m].live}
    IN  IF kids = {}
        THEN LET L == LeafRefs(build.snap, leavesMatchingPath(build.snap, n))
             IN  [NoSum EXCEPT !.leafKids = L, !.text = L]
        ELSE [NoSum EXCEPT !.nodeKids = NodeRefs(input), !.text = UNION {sums[m].text : m \in input}]
childRefsMatch(n, d) == sums[n].live /\ sums[n].leafKids = d.leafKids /\ sums[n].nodeKids = d.nodeKids
ChildrenFirst(n) == \A m \in build.todo : Len(m) <= Len(n)

\* Fresh: no model work.  Else the model is asked.
rebuildSummaryNode ==
    /\ build.pc = "group" /\ build.todo # {}
    /\ LET n == CHOOSE x \in build.todo : ChildrenFirst(x)
           d == Draft(n)
           left == [build EXCEPT !.todo = @ \ {n}]
       IN  IF childRefsMatch(n, d) THEN BuildStep(left)
           ELSE BuildStep([left EXCEPT !.pc = "model", !.node = n, !.draft = d])
    /\ Quietly /\ UNCHANGED <<sums, buildFaults>>
WriteNode ==
    /\ build.pc = "model"
    /\ sums' = [sums EXCEPT ![build.node] = [build.draft EXCEPT !.rev = sums[build.node].rev + 1, !.live = TRUE]]
    /\ BuildStep([build EXCEPT !.pc = "group", !.node = <<>>, !.draft = NoSum])
    /\ Quietly /\ UNCHANGED buildFaults
\* The model or the store fails: the rest is left as it is.
BuildFails ==
    /\ build.pc # "idle" /\ buildFaults < BuildFaults
    /\ BuildStep(NoBuild) /\ buildFaults' = buildFaults + 1
    /\ Quietly /\ UNCHANGED sums

Orphans == {n \in Nodes : sums[n].live} \ build.desired
pruneOrphanSummaries ==
    /\ build.pc = "group" /\ build.todo = {} /\ build.groups = {}
    /\ BuildStep([build EXCEPT !.pc = "prune", !.orphans = Orphans])
    /\ Quietly /\ UNCHANGED <<sums, buildFaults>>
ForgetOrphan ==
    /\ build.pc = "prune" /\ build.orphans # {}
    /\ LET n == CHOOSE x \in build.orphans : TRUE IN
       /\ sums' = [sums EXCEPT ![n] = [NoSum EXCEPT !.rev = sums[n].rev]]
       /\ BuildStep([build EXCEPT !.orphans = @ \ {n}])
    /\ Quietly /\ UNCHANGED buildFaults
BuildEnds ==
    /\ build.pc = "prune" /\ build.orphans = {}
    /\ BuildStep([NoBuild EXCEPT !.pc = "done"])
    /\ Quietly /\ UNCHANGED <<sums, buildFaults>>
BuildReturns ==
    /\ build.pc = "done" /\ BuildStep(NoBuild)
    /\ Quietly /\ UNCHANGED <<sums, buildFaults>>

-----------------------------------------------------------------------------
(* Observations come and go: Write, Forget, and a source that is replaced *)

ObsChange == obsEdits < ObsEdits /\ obsEdits' = obsEdits + 1 /\ quiet' = FALSE
             /\ UNCHANGED <<sums, build, builds, buildFaults>>
WriteObs(o, g) == ObsChange /\ obs' = [obs EXCEPT ![o] = [rev |-> @.rev + 1, live |-> TRUE, group |-> g, grounded |-> TRUE]]
ForgetObs(o) == ObsChange /\ obs[o].live /\ obs' = [obs EXCEPT ![o].live = FALSE]
ReplaceSource(o) == ObsChange /\ obs[o].live /\ obs[o].grounded /\ obs' = [obs EXCEPT ![o].grounded = FALSE]

TreeNext ==
    \/ BuildSummaryTree \/ PlanGroup \/ rebuildSummaryNode \/ WriteNode \/ BuildFails
    \/ pruneOrphanSummaries \/ ForgetOrphan \/ BuildEnds \/ BuildReturns
    \/ \E o \in Obs : ForgetObs(o) \/ ReplaceSource(o) \/ \E g \in TopicGroups : WriteObs(o, g)
TreeSpec == TreeInit /\ [][TreeNext]_treeVars

-----------------------------------------------------------------------------
\* Observations, summaries and the build have their types.
TreeTypeOK ==
    /\ \A o \in Obs : obs[o] \in [rev : Nat, live : BOOLEAN, group : TopicGroups, grounded : BOOLEAN]
    /\ \A n \in Nodes : sums[n].live => (sums[n].leafKids = {}) # (sums[n].nodeKids = {})
    /\ build.pc \in {"idle", "group", "model", "prune", "done"} /\ build.todo \subseteq build.desired
    /\ build.desired \subseteq Nodes

\* SummaryStale: a summary that is presented as current is drawn from the present revisions of exactly the
\* observations below it, and their sources are current, whatever changed and wherever a build stopped.
FreshIsTrue ==
    \A n \in Nodes : sums[n].live /\ ~SummaryStale(n) =>
        /\ sums[n].text = LeafRefs(obs, leavesMatchingPath(obs, n))
        /\ \A o \in leavesMatchingPath(obs, n) : obs[o].grounded

\* BuildSummaryTree: when a build ends and nothing changed meanwhile, every group with observations has its summary,
\* nothing else is left, and what is stale is so only for a source that is gone.
BuildSettles ==
    build.pc = "done" /\ quiet =>
        /\ \A g \in TopicGroups : sums[<<g>>].live <=> summaryGroups(obs, g) # {}
        /\ \A n \in Nodes : sums[n].live =>
             /\ leavesMatchingPath(obs, n) # {}
             /\ SummaryStale(n) => \E o \in leavesMatchingPath(obs, n) : ~obs[o].grounded

\* reconcileGroup: as long as no build failed, a shrink retires only summaries that are left without observations.
SiblingsStay ==
    [][buildFaults = 0 => \A n \in Nodes : sums[n].live /\ ~sums'[n].live => leavesMatchingPath(build.snap, n) = {}]_treeVars

\* What is presented as current is current, a build that nobody disturbed settles
\* the tree, and it takes nothing that observations still stand behind.
TreeSafety == [](FreshIsTrue /\ BuildSettles) /\ SiblingsStay
=============================================================================
