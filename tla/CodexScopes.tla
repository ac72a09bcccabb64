---------------------------- MODULE CodexScopes ----------------------------
(***************************************************************************)
(* What `punk connect codex --verify` and `punk doctor codex` conclude      *)
(* from the files of a layered Codex installation.  Codex appends the hooks *)
(* of the project and of the global layer, and merges the fields of the     *)
(* punk MCP entry, the project's over the global ones.  The verifier reads  *)
(* the same files, merges them the way Codex does, asks the server who it   *)
(* is, and says "namespace alignment ok" only when nothing is left open.    *)
(*                                                                          *)
(* Files are edited by `punk connect codex` and by hand, in any order, and  *)
(* inspected while nobody edits them.  What Codex makes of the files        *)
(* (CodexFires, CodexSessions) is external.  An option is a set with at     *)
(* most one member.                                                         *)
(***************************************************************************)
EXTENDS Naturals, FiniteSets

CONSTANTS ScopeEdits,     \* bound on the edits of the files
          MixedGroups     \* whether the user puts a punk command into a group of his own

ASSUME ScopeConstants == ScopeEdits \in Nat /\ MixedGroups \in BOOLEAN

VARIABLES hookFiles,      \* layer -> [ok, regs]: the commands of hooks.json that run punk
          tomlFiles,      \* layer -> [shape, table, sub, features, fields]: config.toml
          aliased,        \* CODEX_HOME is the .codex of this project
          environ,        \* the variables the entry may refer to
          probe,          \* the key of this invocation, and whether the server honours a pinned namespace
          inspected,      \* what the verifier read
          verdict,        \* what verify or doctor printed
          edits           \* the edits made

scopeVars == <<hookFiles, tomlFiles, aliased, environ, probe, inspected, verdict, edits>>

Layers == {"project", "global"}
HookEvents == {"SessionStart", "UserPromptSubmit"}
\* "p" is the namespace of this directory, "d" the default of the server, "n" the one connect --project pins.
Pins == {"", "n", "m"}
MainFields == [url |-> {"s", "t"}, bearer |-> {"K"}, enabled |-> {"true", "false"}, helper |-> {"h"}, command |-> {"c"},
               args |-> {"x"}]
HeaderFields == [ns |-> {"n", "m"}, nsLower |-> {"n", "m"}, nsEnv |-> {"V"}, auth |-> {"a"}, authEnv |-> {"K"}]
Fields == DOMAIN MainFields \cup DOMAIN HeaderFields
FieldValues(x) == IF x \in DOMAIN MainFields THEN MainFields[x] ELSE HeaderFields[x]
\* plain: tables and subtables.  dotted: the entry in keys from outside its table.  string: a string that the
\* inspector cannot follow.  twice: something is defined twice; array: the entry is an array of tables; value: a field
\* has a value of another kind.  Codex does not load the last three.
Shapes == {"plain", "dotted", "string", "twice", "array", "value"}
Unloadable == {"twice", "array", "value"}
NoFields == [x \in Fields |-> {}]
NoToml == [shape |-> "plain", table |-> FALSE, sub |-> FALSE, features |-> "", fields |-> NoFields]
NoEntry == [problems |-> TRUE, captures |-> {}, pin |-> ""]

ScopeInit ==
    /\ hookFiles = [l \in Layers |-> [ok |-> TRUE, regs |-> {}]]
    /\ tomlFiles = [l \in Layers |-> NoToml]
    /\ aliased \in BOOLEAN
    /\ environ \in [K : {"", "key"}, V : {"", "m"}]
    /\ probe \in [key : {"", "key"}, honours : BOOLEAN]
    /\ inspected = NoEntry /\ verdict = "" /\ edits = 0

\* distinctScopePaths: files that are the same file count once.
distinctScopePaths == IF aliased THEN {"global"} ELSE Layers
File(l) == IF aliased THEN "global" ELSE l
Wire(ns, url, e) == [event |-> e, ns |-> ns, url |-> url, mixed |-> FALSE]

-----------------------------------------------------------------------------
(* The edits *)

Editing == verdict = "" /\ inspected = NoEntry /\ edits < ScopeEdits
ScopeEdited == edits' = edits + 1 /\ UNCHANGED <<aliased, environ, probe, inspected, verdict>>

\* The block of connect: --project pins the namespace, and refers to the key by name.
codexManagedBlock(l, url) ==
    [NoFields EXCEPT !["url"] = {url}, !["ns"] = IF l = "project" THEN {"n"} ELSE {},
                     !["bearer"] = IF l = "project" /\ probe.key # "" THEN {"K"} ELSE {},
                     !["auth"] = IF l = "global" /\ probe.key # "" THEN {"a"} ELSE {}]
WritesHeaders(l) == l = "project" \/ probe.key # ""
\* The old block and a foreign table go, a foreign subtable stays: the headers may then be defined twice.
ConnectCodexConfig(l, url) ==
    LET t == tomlFiles[File(l)]
        b == codexManagedBlock(l, url)
        kept == [x \in Fields |-> IF t.sub /\ x \in DOMAIN HeaderFields THEN t.fields[x] ELSE {}]
    IN  [t EXCEPT !.table = TRUE, !.features = "true",
                  !.shape = IF @ = "plain" /\ t.sub /\ WritesHeaders(l) THEN "twice" ELSE @,
                  !.fields = [x \in Fields |-> IF b[x] # {} THEN b[x] ELSE kept[x]]]
\* Punk's own groups are replaced; a group of the project that the global file has too is not kept twice.
Connect(l, url) ==
    LET f == File(l)
        pin == IF l = "project" THEN "n" ELSE ""
        new == {Wire(pin, url, e) : e \in HookEvents}
        others == IF l = "project" /\ f = "project" THEN hookFiles["global"].regs ELSE {}
    IN  /\ Editing /\ hookFiles[f].ok /\ tomlFiles[f].features # "false"
        /\ hookFiles' = [hookFiles EXCEPT ![f].regs = {r \in @ : r.mixed} \cup (new \ others)]
        /\ tomlFiles' = [tomlFiles EXCEPT ![f] = ConnectCodexConfig(l, url)]
        /\ ScopeEdited

\* By hand: a command is written or deleted, a field set or unset, a file spoilt.
EditHooks(l) ==
    /\ Editing /\ UNCHANGED tomlFiles /\ ScopeEdited
    /\ \/ \E e \in HookEvents, ns \in Pins, url \in {"", "s", "t"}, mix \in {FALSE, MixedGroups} :
            hookFiles' = [hookFiles EXCEPT ![l].regs = @ \cup {[Wire(ns, url, e) EXCEPT !.mixed = mix]}]
       \/ \E r \in hookFiles[l].regs : hookFiles' = [hookFiles EXCEPT ![l].regs = @ \ {r}]
       \/ hookFiles' = [hookFiles EXCEPT ![l].ok = FALSE]
EditToml(l) ==
    /\ Editing /\ UNCHANGED hookFiles /\ ScopeEdited
    /\ \/ \E x \in Fields, v \in SUBSET (UNION {FieldValues(y) : y \in Fields}) :
            /\ Cardinality(v) <= 1 /\ v \subseteq FieldValues(x)
            /\ tomlFiles' = [tomlFiles EXCEPT ![l].fields[x] = v, ![l].table = @ \/ x \in DOMAIN MainFields,
                                              ![l].sub = @ \/ x \in DOMAIN HeaderFields]
       \/ \E s \in Shapes \ {"plain"} : tomlFiles' = [tomlFiles EXCEPT ![l].shape = s]
       \/ \E b \in {"true", "false"} : tomlFiles' = [tomlFiles EXCEPT ![l].features = b]

-----------------------------------------------------------------------------
(* Codex, external *)

Highest(S, x, f) == LET D == {l \in S : f[l][x] # {}}
                    IN  IF D = {} THEN {} ELSE f[IF "project" \in D THEN "project" ELSE "global"][x]
CodexField(x) == Highest(distinctScopePaths, x, [l \in Layers |-> tomlFiles[l].fields])
\* Every command that runs punk fires, in whatever group and layer it stands.
CodexFires == UNION {hookFiles[l].regs : l \in {k \in distinctScopePaths : hookFiles[k].ok}}
\* The connections that Codex may open.  Headers of one name in two spellings win in no particular order; a
\* helper may set any header.
CodexSessions ==
    IF \/ \E l \in distinctScopePaths : tomlFiles[l].shape \in Unloadable
       \/ CodexField("args") # {}
       \/ CodexField("url") = {} \/ CodexField("command") # {} \/ CodexField("enabled") = {"false"}
       \/ CodexField("bearer") # {} /\ environ.K = ""
    THEN {}
    ELSE LET static == CodexField("ns") \cup CodexField("nsLower")
             named == IF CodexField("nsEnv") # {} /\ environ.V # "" THEN {environ.V} ELSE static
             header == CodexField("auth") # {} \/ (CodexField("authEnv") # {} /\ environ.K # "")
         IN  [url : CodexField("url"),
              ns : IF CodexField("helper") # {} THEN Pins ELSE IF named = {} THEN {""} ELSE named,
              key : IF header \/ CodexField("helper") # {} THEN {"unknown"}
                    ELSE IF CodexField("bearer") # {} THEN {environ.K} ELSE {""}]
\* The server: the pinned namespace if it honours the header, else that of the root, else the default.
Whoami(pin, rooted) == IF pin # "" /\ probe.honours THEN pin ELSE IF rooted THEN "p" ELSE "d"
Lands(r) == IF r.ns = "" THEN "p" ELSE r.ns

-----------------------------------------------------------------------------
(* The verifier *)

\* A group that is not punk's alone is not punk's.
inspectCodexHookScope(l) == {r \in hookFiles[l].regs : ~r.mixed}
\* The ways in which a file cannot be read as it is meant.
tomlCodeLineStarts(l) == tomlFiles[l].shape # "string"
auditCodexForeignLine(l) == tomlFiles[l].shape # "dotted"
parseTOMLTableHeader(l) == tomlFiles[l].shape # "array"
parseTOMLString(l) == tomlFiles[l].shape # "value"
DefinedOnce(l) == tomlFiles[l].shape # "twice"
inspectCodexMCPScope(l) == /\ tomlCodeLineStarts(l) /\ parseTOMLTableHeader(l) /\ auditCodexForeignLine(l)
                           /\ parseTOMLString(l) /\ DefinedOnce(l)
\* The fields in tables of their own: those of an entry in dotted keys are not seen.
SeenHeader(l, x) == x \in DOMAIN HeaderFields /\ tomlFiles[l].shape # "dotted"
SeenField(l, x) == x \in DOMAIN MainFields /\ tomlFiles[l].shape # "dotted"
Seen(l) == [x \in Fields |-> IF SeenField(l, x) \/ SeenHeader(l, x) THEN tomlFiles[l].fields[x] ELSE {}]
\* A layer with subtables alone still contributes.
Contributes(l) == tomlFiles[l].table \/ tomlFiles[l].sub

\* Mutant: the project layer hides the others.
MergedTopOnly(x) == LET T == {l \in distinctScopePaths : tomlFiles[l].table}
                    IN  Highest(IF "project" \in T THEN {"project"} ELSE T, x, [l \in Layers |-> Seen(l)])
Merged(x) == Highest({l \in distinctScopePaths : Contributes(l)}, x, [l \in Layers |-> Seen(l)])
\* Codex refuses a stdio entry with a field of the HTTP transport, and an HTTP entry with a field of stdio.
TransportMixed == \/ Merged("command") # {} /\ \E x \in Fields \ {"command", "args", "enabled"} : Merged(x) # {}
                  \/ Merged("command") = {} /\ Merged("url") # {} /\ Merged("args") # {}
Static == Merged("ns") \cup Merged("nsLower")
FromEnv == IF Merged("nsEnv") # {} /\ environ.V # "" THEN {environ.V} ELSE {}
effectiveCodexHeaders == CHOOSE v \in IF FromEnv # {} THEN FromEnv ELSE IF Static # {} THEN Static ELSE {""} : TRUE
HeaderAuth == \/ \E l \in distinctScopePaths : Seen(l)["auth"] # {}
              \/ Merged("authEnv") # {} /\ environ.K # ""
MergeCodexMCPScopes == /\ \A l \in distinctScopePaths : inspectCodexMCPScope(l)
                       /\ \E l \in distinctScopePaths : tomlFiles[l].table
                       /\ ~TransportMixed
                       /\ Cardinality(Static) <= 1
\* The credential of the entry is the one this verify probes with.
codexAuthProblem == \/ HeaderAuth
                    \/ Merged("bearer") = {} /\ probe.key # ""
                    \/ Merged("bearer") # {} /\ (environ.K = "" \/ environ.K # probe.key)
EntryProblem == \/ ~MergeCodexMCPScopes
                \/ Merged("enabled") = {"false"} \/ Merged("helper") # {}
                \/ Merged("url") # {"s"} \/ codexAuthProblem

\* codexVerifyScopes: both files of every layer, before the probe.
EnumerateCodexHookScopes == UNION {inspectCodexHookScope(l) : l \in distinctScopePaths}
HookProblem == \/ \E l \in distinctScopePaths : ~hookFiles[l].ok
               \/ EnumerateCodexHookScopes = {}
               \/ \E r \in EnumerateCodexHookScopes : r.url # "s"
codexVerifyScopes ==
    /\ verdict = "" /\ inspected = NoEntry
    /\ inspected' = [problems |-> HookProblem \/ EntryProblem,
                     captures |-> {Lands(r) : r \in {q \in EnumerateCodexHookScopes : q.url = "s"}},
                     pin |-> IF MergeCodexMCPScopes THEN effectiveCodexHeaders ELSE ""]
    /\ verdict' = "probing"
    /\ UNCHANGED <<hookFiles, tomlFiles, aliased, environ, probe, edits>>

\* One namespace of the captures, and both ways of asking the server, with and without a root, lead there.
Mismatch == \E ns \in inspected.captures : \/ inspected.captures # {ns}
                                           \/ \E rooted \in BOOLEAN : Whoami(inspected.pin, rooted) # ns
\* The probe fails, or the verdict is printed.
printCodexVerify ==
    /\ verdict = "probing"
    /\ verdict' \in {"failed", IF inspected.problems THEN "unverified" ELSE IF Mismatch THEN "mismatch" ELSE "ok"}
    /\ UNCHANGED <<hookFiles, tomlFiles, aliased, environ, probe, inspected, edits>>

-----------------------------------------------------------------------------
(* The doctor, on the files of the Codex home *)

doctorReadCodexWiring == {r.event : r \in inspectCodexHookScope("global")}
doctorCodexFeaturesHooks == tomlFiles["global"].features # "false"
doctorCodex ==
    /\ verdict = "" /\ inspected = NoEntry
    /\ \E reachable \in BOOLEAN :      \* doctorServerCheck
         verdict' = IF /\ hookFiles["global"].ok /\ doctorReadCodexWiring = HookEvents
                       /\ doctorCodexFeaturesHooks /\ reachable
                    THEN "healthy" ELSE "failing"
    /\ UNCHANGED <<hookFiles, tomlFiles, aliased, environ, probe, inspected, edits>>

ScopeNext == \/ \E l \in Layers, url \in {"s", "t"} : Connect(l, url)
             \/ \E l \in distinctScopePaths : EditHooks(l) \/ EditToml(l)
             \/ codexVerifyScopes \/ printCodexVerify \/ doctorCodex
ScopeSpec == ScopeInit /\ [][ScopeNext]_scopeVars

-----------------------------------------------------------------------------
\* The files and what was read of them have their shapes.
ScopeTypeOK ==
    /\ \A l \in Layers : /\ hookFiles[l].ok \in BOOLEAN
                         /\ hookFiles[l].regs \subseteq [event : HookEvents, ns : Pins, url : {"", "s", "t"}, mixed : BOOLEAN]
                         /\ tomlFiles[l].shape \in Shapes /\ tomlFiles[l].features \in {"", "true", "false"}
                         /\ \A x \in Fields : tomlFiles[l].fields[x] \in SUBSET FieldValues(x)
    /\ inspected.problems \in BOOLEAN /\ inspected.captures \subseteq {"p", "n", "m"} /\ inspected.pin \in Pins
    /\ verdict \in {"", "probing", "failed", "unverified", "mismatch", "ok", "healthy", "failing"} /\ edits \in 0 .. ScopeEdits

\* When verify prints "namespace alignment ok", Codex does open a connection, to the server that was probed and with
\* the key it was probed with, and every command that fires captures into the namespace that this connection reads.
AlignmentIsTrue ==
    verdict = "ok" => /\ CodexSessions # {}
                      /\ \A x \in CodexSessions : /\ x.url = "s" /\ x.key = probe.key
                                                  /\ \A r \in CodexFires : r.url = "s" /\ Lands(r) = Whoami(x.ns, FALSE)

\* A doctor without a failing line saw an installation that captures: Codex runs hooks, and a command fires at every
\* event, as long as the project's own files say nothing of the features.
DoctorIsSound ==
    verdict = "healthy" /\ (aliased \/ tomlFiles["project"].features # "false") =>
        /\ \A l \in distinctScopePaths : tomlFiles[l].features # "false"
        /\ {r.event : r \in CodexFires} = HookEvents

\* What verify and doctor say of the Codex scopes is so.
ScopeSafety == AlignmentIsTrue /\ DoctorIsSound
=============================================================================
