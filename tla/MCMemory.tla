----------------------------- MODULE MCMemory ------------------------------
(***************************************************************************)
(* The memory of the server for TLC: facts and their derivation, merges of *)
(* entities, skills, archives, the summary tree, vectors and links.  Each  *)
(* module has the rows its component reads and writes; a behaviour         *)
(* exercises one of them, "part", and leaves the others where they start.  *)
(* Vectors have two parts: "vectors" with all enrichers and no pass, tool  *)
(* or search, and "searches" with these and the enrichers of Alone.        *)
(***************************************************************************)
EXTENDS FactPipeline, EntityMerge, SkillStore, NamespaceArchive, SummaryTree, VectorLinks

CONSTANTS Parts, Alone
VARIABLE part

memoryVars == <<part, pipeVars, mergeVars, skillVars, archVars, treeVars, vecVars>>

\* The buckets of four observations: b and d collide on both levels.
MCBucket == [o \in Obs |-> CASE o = "a" -> <<0, 0>> [] o = "c" -> <<1, 0>> [] OTHER -> <<0, 1>>]

\* A part at rest starts in one of its initial states.
AtRest ==
    /\ part # "facts" => entity.typed
    /\ part # "skills" => tree = CHOOSE t \in Authored : TRUE
    /\ part # "tree" => obs = CHOOSE f \in {[o \in Obs |-> [rev |-> 1, live |-> o # late, group |-> g, grounded |-> TRUE]] :
                                              late \in Obs, g \in TopicGroups} : TRUE

MemoryInit ==
    /\ part \in Parts
    /\ PipeInit /\ MergeInit /\ SkillInit /\ ArchInit /\ TreeInit /\ VecInit
    /\ AtRest

MemoryNext ==
    /\ UNCHANGED part
    /\ \/ part = "facts" /\ PipeNext /\ UNCHANGED <<mergeVars, skillVars, archVars, treeVars, vecVars>>
       \/ part = "merges" /\ MergeNext /\ UNCHANGED <<pipeVars, skillVars, archVars, treeVars, vecVars>>
       \/ part = "skills" /\ SkillNext /\ UNCHANGED <<pipeVars, mergeVars, archVars, treeVars, vecVars>>
       \/ part = "archives" /\ ArchNext /\ UNCHANGED <<pipeVars, mergeVars, skillVars, treeVars, vecVars>>
       \/ part = "tree" /\ TreeNext /\ UNCHANGED <<pipeVars, mergeVars, skillVars, archVars, vecVars>>
       \/ /\ part \in {"vectors", "searches"} /\ VecNext
          /\ part = "vectors" => passes' = 0
          /\ part = "searches" => \A w \in VecWorkers \ Alone : worker'[w].pc = "idle"
          /\ UNCHANGED <<pipeVars, mergeVars, skillVars, archVars, treeVars>>

MemorySpec == MemoryInit /\ [][MemoryNext]_memoryVars

\* Type correctness of every part.
MemoryTypeOK ==
    /\ part = "facts" => PipeTypeOK
    /\ part = "merges" => MergeTypeOK
    /\ part = "skills" => SkillTypeOK
    /\ part = "archives" => ArchTypeOK
    /\ part = "tree" => TreeTypeOK
    /\ part \in {"vectors", "searches"} => VecTypeOK
=============================================================================
