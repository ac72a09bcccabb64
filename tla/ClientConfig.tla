---------------------------- MODULE ClientConfig ----------------------------
(* "punk connect <client>" (cmd/punk/main.go, internal/hookcli): a command that
   edits the configuration files of an agent client step by step, while their
   user edits the same files.  A step reads a whole file, merges punk's entries
   into it and renames a new file into place; a step that refuses, fails or dies
   leaves the earlier steps of the command done.  What no property tells apart is
   left out: the keys, and the shell environment that a command writes at its end
   (a later command may find any server in its environment).

   Files are kept as their sections.  The events of a client fall into three
   classes: "tool" is only captured, "turn" also delivers mail and wakes, "end"
   only stops the wake listener.                                              *)
EXTENDS Integers, Sequences, SequencesExt

CONSTANTS AgentClients, \* the clients that are connected
          Servers,      \* server URLs
          Binaries,     \* places the punk binary is installed at
          Capabilities, \* the opt-in flags that are passed: "messaging", "wake"
          Areas,        \* "global", and "project" if that flag is passed too
          Commands,     \* bound: connect commands
          Troubles      \* bound: edits and logins of the user, failing writes and killed commands

ASSUME ConfigConstants ==
    /\ AgentClients \subseteq {"claude", "codex", "cursor", "copilot", "antigravity",
                               "opencode", "hermes", "openclaw", "pi", "cline"}
    /\ Capabilities \subseteq {"messaging", "wake"} /\ Areas \subseteq {"global", "project"}
    /\ "global" \in Areas
    /\ {Commands, Troubles} \subseteq Nat

VARIABLES agent,   \* the client
          disk,    \* its files, by area and section
          saved,   \* the server of the credentials file, "" for none
          cmd,     \* the connect command
          configSpent \* commands, edits and faults so far

configVars == <<agent, disk, saved, cmd, configSpent>>

Classes == {"tool", "turn", "end"}
Sections == {"hooks", "mcp", "permission", "rules", "plugin", "enable", "allow", "idle", "skill", "shared"}

-----------------------------------------------------------------------------
(* The steps of the connect commands, in their order *)

cmdConnectClaudeCode == <<"hooks", "mcp", "permission", "skill">>
cmdConnectCursor == <<"hooks", "rules", "mcp", "skill">>
cmdConnectOpenCode == <<"preflight", "plugin", "mcp", "idle", "skill">>
cmdConnectPi == <<"plugin", "skill">>
cmdConnectAntigravity == <<"hooks", "mcp", "skill">>
cmdConnectCopilot == <<"hooks", "mcp", "skill">>
cmdConnectHermes == <<"plugin", "enable", "hooks", "allow", "mcp", "skill">>
cmdConnectOpenClaw == <<"plugin", "enable", "mcp", "skill">>
cmdConnectCodex == <<"hooks", "dedupe", "mcp", "skill">>
cmdConnectCline == <<"plugin", "mcp", "skill">>

cmdConnectTarget ==
    CASE agent = "claude" -> cmdConnectClaudeCode [] agent = "cursor" -> cmdConnectCursor
      [] agent = "opencode" -> cmdConnectOpenCode [] agent = "pi" -> cmdConnectPi
      [] agent = "antigravity" -> cmdConnectAntigravity [] agent = "copilot" -> cmdConnectCopilot
      [] agent = "hermes" -> cmdConnectHermes [] agent = "openclaw" -> cmdConnectOpenClaw
      [] agent = "codex" -> cmdConnectCodex [] agent = "cline" -> cmdConnectCline

\* The sections of one file.
SameFile(section) ==
    LET file == CASE agent = "claude" -> {"hooks", "permission"} [] agent = "hermes" -> {"enable", "hooks", "mcp"}
                  [] agent = "openclaw" -> {"enable", "mcp"} [] agent = "codex" -> {"enable", "mcp"}
                  [] agent = "opencode" -> {"mcp", "idle"} [] OTHER -> {}
    IN IF section \in file THEN file ELSE {section}

UserEntry == [kind |-> "user", bin |-> "", url |-> "", ns |-> ""]
NoFile == [by |-> "none", url |-> "", messaging |-> FALSE]
Foreign == [NoFile EXCEPT !.by = "user"]
Customized == [NoFile EXCEPT !.by = "punk"]
NoFiles == [hooks |-> [c \in Classes |-> <<>>], mcp |-> NoFile, permission |-> FALSE, rules |-> NoFile, plugin |-> NoFile,
            enable |-> "unset", allow |-> {}, idle |-> "unset", skill |-> NoFile, shared |-> NoFile]
NoCmd == [pc |-> "none", step |-> 0, area |-> "", url |-> "", bin |-> "", asked |-> {}, without |-> {},
          force |-> FALSE, caps |-> {}, old |-> NoFiles, new |-> NoFiles, raced |-> FALSE]

ConfigInit ==
    /\ agent \in AgentClients
    /\ disk = [a \in Areas |-> NoFiles]
    /\ saved = ""
    /\ cmd = NoCmd
    /\ configSpent = [commands |-> 0, edits |-> 0, faults |-> 0]

Trouble(what) == /\ configSpent.edits + configSpent.faults < Troubles
                 /\ configSpent' = [configSpent EXCEPT ![what] = @ + 1]

-----------------------------------------------------------------------------
(* Merging hook entries.  An entry is recognised by its subcommand, whatever
   binary and URL it names; a group that holds a user's command too is the user's *)

isPunkManaged(e) == e.kind = "capture"
isPunkManagedFromAgent(e) == e.kind = "capture"
isPunkManagedInbox(e) == e.kind = "inbox"
isPunkManagedWake(e) == e.kind = "wake"

Without(entries, ours(_)) == SelectSeq(entries, LAMBDA e : ~ours(e))

\* The place before the first entry of a kind, else the end.
PutBefore(entries, kind(_), e) ==
    LET i == SelectInSeq(entries, kind) IN IF i = 0 THEN Append(entries, e) ELSE InsertAt(entries, i, e)

\* Mutant: the capture entry takes the place of whatever the event had.
CaptureAlone(entries, e) == <<e>>

\* Groups (claude, codex) keep the order capture, inbox, wake.
mergeEventGroups(entries, e) == PutBefore(Without(entries, isPunkManaged), isPunkManagedInbox, e)
mergeInboxGroups(entries, e) == PutBefore(Without(entries, isPunkManagedInbox), isPunkManagedWake, e)
mergeWakeGroups(entries, e) == Append(Without(entries, isPunkManagedWake), e)
\* Flat lists (cursor, copilot, antigravity, hermes): punk's entry is last.
mergeCursorEntries(entries, e) == Append(Without(entries, isPunkManagedFromAgent), e)
mergeInboxFlatEntries(entries, e) == Append(Without(entries, isPunkManagedInbox), e)

\* How the connectors differ: groups or a flat list, whether the namespace of a project is baked in.
connectClaudeCode == [grouped |-> TRUE, pinned |-> TRUE]
connectCodexHooks == [grouped |-> TRUE, pinned |-> TRUE]
connectCursor == [grouped |-> FALSE, pinned |-> TRUE]
connectCopilot == [grouped |-> FALSE, pinned |-> FALSE]
connectAntigravity == [grouped |-> FALSE, pinned |-> FALSE]
connectHermes == [grouped |-> FALSE, pinned |-> FALSE]
Connector == CASE agent = "claude" -> connectClaudeCode [] agent = "codex" -> connectCodexHooks
               [] agent = "cursor" -> connectCursor [] agent = "copilot" -> connectCopilot
               [] agent = "antigravity" -> connectAntigravity [] OTHER -> connectHermes
Grouped == agent \in {"claude", "codex"}

HasKind(hooks, kind(_)) == \E c \in Classes : \E i \in 1..Len(hooks[c]) : kind(hooks[c][i])

\* Mutant: a capability is refreshed only where it is asked for again.
EnabledAsAsked(hooks, asked) == asked

\* hasClaudeShapedInbox, hasClaudeShapedWake, hasPunkManagedInboxFlatEntry, hasHermesInboxEntry: a capability
\* that is installed stays.
Enabled(hooks, asked) ==
    asked \cup (IF HasKind(hooks, isPunkManagedInbox) THEN {"messaging"} ELSE {})
          \cup (IF Grouped /\ HasKind(hooks, isPunkManagedWake) THEN {"wake"} ELSE {})

Entry(kind) == [kind |-> kind, bin |-> cmd.bin, url |-> cmd.url,
                ns |-> IF cmd.area = "project" /\ Connector.pinned THEN "ns" ELSE ""]
AddCapture(entries) == IF Connector.grouped THEN mergeEventGroups(entries, Entry("capture"))
                                            ELSE mergeCursorEntries(entries, Entry("capture"))
AddInbox(entries) == IF Connector.grouped THEN mergeInboxGroups(entries, Entry("inbox"))
                                          ELSE mergeInboxFlatEntries(entries, Entry("inbox"))
addClaudeShapedWake(entries) == mergeWakeGroups(entries, Entry("wake"))

MergeHooks(hooks, caps) ==
    LET captured(c) == IF c = "end" THEN hooks[c] ELSE AddCapture(hooks[c])
        delivered(c) == IF c = "turn" /\ "messaging" \in caps THEN AddInbox(captured(c)) ELSE captured(c)
    IN [c \in Classes |-> IF c # "tool" /\ "wake" \in caps THEN addClaudeShapedWake(delivered(c)) ELSE delivered(c)]

\* Punk's groups that are word for word in the global file go.
DedupeCodexHookScopes(global, project) ==
    [c \in Classes |-> SelectSeq(project[c], LAMBDA e : e.kind = "user" \/ e \notin ToSet(global[c]))]

-----------------------------------------------------------------------------
(* The other files *)

Mine(messaging) == [by |-> "punk", url |-> cmd.url, messaging |-> messaging]

upsertServerEntry(d) == [d EXCEPT !.mcp = Mine(FALSE)]
ConnectHermesMCP(d) == upsertServerEntry(d)
ConnectOpenClawMCP(d) == upsertServerEntry(d)
ConnectOpenCodeMCP(d) == upsertServerEntry(d)
\* The managed block also turns the hooks feature on.
MergeCodexConfig(d) == [upsertServerEntry(d) EXCEPT !.enable = IF "hooks" \in cmd.without THEN @ ELSE "on"]
ConnectMCP(d) == CASE agent = "codex" -> MergeCodexConfig(d) [] agent = "hermes" -> ConnectHermesMCP(d)
                   [] agent = "openclaw" -> ConnectOpenClawMCP(d) [] agent = "opencode" -> ConnectOpenCodeMCP(d)
                   [] OTHER -> upsertServerEntry(d)

\* Files that punk writes whole.  Those of opencode and cline keep messaging once they have it.
Asked(d) == "messaging" \in cmd.asked
ConnectOpenCodeWith(d) == Mine(Asked(d) \/ d.plugin.messaging)
ConnectCline(d) == Mine(Asked(d) \/ d.plugin.messaging)
ConnectPi(d) == Mine(FALSE)
WriteOpenClawPlugin(d) == Mine(FALSE)
WriteHermesPlugin(d) == Mine(Asked(d))
WritePlugin(d) == CASE agent = "opencode" -> ConnectOpenCodeWith(d) [] agent = "cline" -> ConnectCline(d)
                    [] agent = "pi" -> ConnectPi(d) [] agent = "openclaw" -> WriteOpenClawPlugin(d)
                    [] agent = "hermes" -> WriteHermesPlugin(d)
WriteCursorRules(d) == IF cmd.area = "project" THEN [d EXCEPT !.rules = Mine(FALSE)] ELSE d
EnsureClaudePermission(d) == [d EXCEPT !.permission = TRUE]
EnsureOpenCodeLocationIdleTimeout(d) == [d EXCEPT !.idle = IF @ = "unset" THEN "off" ELSE @]
ConnectHermesPluginEnable(d) == [d EXCEPT !.enable = "on"]
ConnectOpenClaw(d) == [d EXCEPT !.enable = "on"]

\* hermesDesiredApprovals: by the flag of this command.
hermesDesiredApprovals == {<<"capture", cmd.bin, cmd.url>>} \cup
                          (IF "messaging" \in cmd.asked THEN {<<"inbox", cmd.bin, cmd.url>>} ELSE {})
ConnectHermesAllowlist(d) == [d EXCEPT !.allow = hermesDesiredApprovals]

\* The text of the skill.  A managed file with another text is rewritten; codex leaves it, and does without
\* its copy where the shared one is the same.
Rendering == Mine(Asked(NoFiles) \/ "wake" \in cmd.asked)
WriteSkill(d) == IF d.skill.by = "user" THEN d ELSE [d EXCEPT !.skill = Rendering]
ReconcileCodexSkillTargets(d) ==
    IF d.shared = Rendering THEN IF d.skill = Rendering THEN [d EXCEPT !.skill = NoFile] ELSE d
    ELSE IF d.skill.by = "none" THEN WriteSkill(d) ELSE d
installSkillFor(d) == IF agent = "codex" /\ cmd.area = "global" THEN ReconcileCodexSkillTargets(d) ELSE WriteSkill(d)

-----------------------------------------------------------------------------
(* A command *)

\* What a command finds as PUNK_URL: nothing, or what the user or a file written by an earlier command exports.
Environments == Servers \cup {""}

\* The flag, PUNK_URL, the saved server or the default.
ResolveServer(flag, env) ==
    IF flag # "" THEN flag ELSE IF env # "" THEN env ELSE IF saved # "" THEN saved ELSE CHOOSE s \in Servers : TRUE

cmdLogin(s) ==
    /\ cmd.pc \in {"none", "done"} /\ saved # s /\ Trouble("edits")
    /\ saved' = s
    /\ UNCHANGED <<agent, disk, cmd>>

cmdLogout ==
    /\ cmd.pc \in {"none", "done"} /\ saved # ""
    /\ saved' = ""
    /\ UNCHANGED <<agent, disk, cmd, configSpent>>

\* --wake implies --messaging; only some clients know the flags.
FlagsFit(area, asked) ==
    /\ "wake" \in asked => Grouped /\ "messaging" \in asked
    /\ "messaging" \in asked => agent \notin {"openclaw", "pi"}
    /\ area = "project" => agent \notin {"hermes", "openclaw"}

cmdConnect(area, flag, bin, asked, force) ==
    /\ cmd.pc \in {"none", "done"} /\ FlagsFit(area, asked)
    /\ configSpent.commands < Commands /\ configSpent' = [configSpent EXCEPT !.commands = @ + 1]
    /\ \E env \in Environments :
         cmd' = [NoCmd EXCEPT !.pc = "read", !.step = 1, !.area = area, !.url = ResolveServer(flag, env),
                              !.bin = bin, !.asked = asked, !.force = force]
    /\ UNCHANGED <<agent, disk, saved>>

CfgStep == cmdConnectTarget[cmd.step]
StepArea == IF agent = "cline" /\ CfgStep = "mcp" THEN "global" ELSE cmd.area
MyDisk == disk[StepArea]

\* What the user wrote is refused, and so is a codex whose hooks were turned off.
PreflightOpenCodeMCP == MyDisk.mcp.by = "user" /\ ~cmd.force
Refuses ==
    \/ CfgStep \in {"mcp", "preflight"} /\ PreflightOpenCodeMCP
    \/ CfgStep = "mcp" /\ agent = "codex" /\ MyDisk.enable = "off" /\ "hooks" \notin cmd.without
    \/ CfgStep \in {"plugin", "rules"} /\ MyDisk[CfgStep].by = "user"

\* The file as the step would have it.
FileAfter(caps) ==
    LET d == MyDisk IN
    CASE CfgStep = "hooks" -> [d EXCEPT !.hooks = MergeHooks(d.hooks, caps)]
      [] CfgStep = "dedupe" /\ cmd.area = "project" -> [d EXCEPT !.hooks = DedupeCodexHookScopes(disk["global"].hooks, d.hooks)]
      [] CfgStep = "mcp" -> ConnectMCP(d)
      [] CfgStep = "permission" -> EnsureClaudePermission(d)
      [] CfgStep = "rules" -> WriteCursorRules(d)
      [] CfgStep = "plugin" -> [d EXCEPT !.plugin = WritePlugin(d)]
      [] CfgStep = "enable" -> IF agent = "hermes" THEN ConnectHermesPluginEnable(d) ELSE ConnectOpenClaw(d)
      [] CfgStep = "allow" -> ConnectHermesAllowlist(d)
      [] CfgStep = "idle" -> EnsureOpenCodeLocationIdleTimeout(d)
      [] CfgStep = "skill" -> installSkillFor(d)
      [] OTHER -> d

NextStep == IF cmd.step = Len(cmdConnectTarget) THEN [cmd EXCEPT !.pc = "done"]
            ELSE [cmd EXCEPT !.pc = "read", !.step = @ + 1]

\* A step reads its file and merges; nothing is written when nothing changes.
ReadStep ==
    /\ cmd.pc = "read"
    /\ CfgStep = "permission" => "mcp" \notin cmd.without
    /\ CfgStep = "dedupe" => "hooks" \notin cmd.without
    /\ LET caps == IF CfgStep = "hooks" THEN Enabled(MyDisk.hooks, cmd.asked) ELSE cmd.caps
           new == FileAfter(caps)
       IN cmd' = IF Refuses THEN NoCmd
                 ELSE IF new = MyDisk THEN [NextStep EXCEPT !.caps = caps]
                 ELSE [cmd EXCEPT !.pc = "write", !.old = MyDisk, !.new = new, !.caps = caps]
    /\ UNCHANGED <<agent, disk, saved, configSpent>>

\* --no-mcp, and --no-hooks for codex without messaging.
SkipStep ==
    /\ cmd.pc = "read"
    /\ \/ CfgStep = "mcp"
       \/ CfgStep = "hooks" /\ agent = "codex" /\ cmd.asked = {}
       \/ CfgStep = "permission" /\ "mcp" \in cmd.without
       \/ CfgStep = "dedupe" /\ "hooks" \in cmd.without
    /\ cmd' = [NextStep EXCEPT !.without = @ \cup {CfgStep}]
    /\ UNCHANGED <<agent, disk, saved, configSpent>>

SectionOf(step) == IF step \in {"dedupe", "preflight"} THEN "hooks" ELSE step

\* writeAtomic: the whole file is replaced.
writeAtomic ==
    /\ cmd.pc = "write"
    /\ disk' = [disk EXCEPT ![StepArea] =
                  [s \in Sections |-> IF s \in SameFile(SectionOf(CfgStep)) THEN cmd.new[s] ELSE @[s]]]
    /\ cmd' = [NextStep EXCEPT !.old = NoFiles, !.new = NoFiles]
    /\ UNCHANGED <<agent, saved, configSpent>>

\* A write fails, or the command is killed.  The allowlist, the idle timeout and the skill are best efforts: their
\* failure is a warning, and flags (--no-skill, --keep-idle-unload) leave them out as well.
ConfigFail ==
    /\ cmd.pc \in {"read", "write"} /\ Trouble("faults")
    /\ \/ cmd' = NoCmd
       \/ CfgStep \in {"allow", "idle", "skill"}
          /\ cmd' = [NextStep EXCEPT !.old = NoFiles, !.new = NoFiles, !.without = @ \cup {CfgStep}]
    /\ UNCHANGED <<agent, disk, saved>>

-----------------------------------------------------------------------------
(* The user *)

Edited(a, s, d) ==
    /\ Trouble("edits")
    /\ disk' = [disk EXCEPT ![a] = d]
    /\ cmd' = IF cmd.pc = "done" THEN NoCmd
              ELSE [cmd EXCEPT !.raced = @ \/ (cmd.pc # "none" /\ s \in {"hooks", "skill", "shared"})]
    /\ UNCHANGED <<agent, saved>>

\* A command of the user's own, or one of punk's pasted by hand.
AddEntry(a, c, e) ==
    /\ Len(disk[a].hooks[c]) < 4
    /\ \E i \in 1..(Len(disk[a].hooks[c]) + 1) :
         Edited(a, "hooks", [disk[a] EXCEPT !.hooks[c] = InsertAt(@, i, e)])

DropEntry(a, c) ==
    \E i \in 1..Len(disk[a].hooks[c]) : Edited(a, "hooks", [disk[a] EXCEPT !.hooks[c] = RemoveAt(@, i)])

WriteOwn(a, s) == disk[a][s].by = "none" /\ Edited(a, s, [disk[a] EXCEPT ![s] = Foreign])

\* The hooks feature of codex; the skill that another client put into the shared place, or a change to punk's.
TurnOff(a) == agent = "codex" /\ Edited(a, "enable", [disk[a] EXCEPT !.enable = "off"])
ShareSkill(s) == /\ agent = "codex" /\ disk["global"].shared = NoFile
                 /\ Edited("global", "shared", [disk["global"] EXCEPT !.shared = [Customized EXCEPT !.url = s]])
ChangeSkill(a) == disk[a].skill.by = "punk" /\ Edited(a, "skill", [disk[a] EXCEPT !.skill = Customized])

\* --force is passed where there is something to replace.
Forced == IF \E a \in Areas : disk[a].mcp.by = "user" THEN BOOLEAN ELSE {FALSE}

ConfigNext ==
    \/ \E a \in Areas, flag \in Servers \cup {""}, b \in Binaries, asked \in SUBSET Capabilities, force \in Forced :
         cmdConnect(a, flag, b, asked, force)
    \/ ReadStep \/ SkipStep \/ writeAtomic \/ ConfigFail \/ cmdLogout
    \/ \E s \in Servers : cmdLogin(s) \/ ShareSkill(s)
    \/ \E a \in Areas, c \in Classes \ {"end"} :
         \/ DropEntry(a, c)
         \/ \E e \in {UserEntry} \cup UNION {ToSet(disk[b].hooks[c]) : b \in Areas} : AddEntry(a, c, e)
    \/ \E a \in Areas : TurnOff(a) \/ ChangeSkill(a) \/ \E s \in {"mcp", "plugin", "skill"} : WriteOwn(a, s)

ConfigSpec == ConfigInit /\ [][ConfigNext]_configVars

-----------------------------------------------------------------------------
(* Properties *)

\* Type correctness of the files, the command and the credentials.
ConfigTypeOK ==
    /\ agent \in AgentClients /\ saved \in Servers \cup {""} /\ cmd.url \in Servers \cup {""}
    /\ cmd.pc \in {"none", "read", "write", "done"} /\ cmd.step \in 0..6
    /\ \A a \in Areas, c \in Classes : \A i \in 1..Len(disk[a].hooks[c]) :
         disk[a].hooks[c][i].kind \in {"user", "capture", "inbox", "wake"}
    /\ \A a \in Areas : disk[a].mcp.by \in {"none", "punk", "user"} /\ disk[a].plugin.by \in {"none", "punk", "user"}

CountOf(entries, e) == Len(SelectSeq(entries, LAMBDA x : x = e))

\* "Reconnect refreshes every already-enabled managed capability": after a command
\* each capability that was asked for or installed is wired exactly once, to this
\* server and binary, whatever moved, failed or was edited before.
ConnectRefreshes ==
    cmd.pc = "done" /\ "hooks" \in ToSet(cmdConnectTarget) \ cmd.without /\ ~cmd.raced =>
        LET h == disk[cmd.area].hooks
            wired(c, kind) ==
                \/ /\ CountOf(h[c], Entry(kind)) = 1
                   /\ \A e \in ToSet(h[c]) : e.kind = kind => e = Entry(kind)
                \/ agent = "codex" /\ cmd.area = "project" /\ Entry(kind) \in ToSet(disk["global"].hooks[c])
        IN /\ \A c \in {"tool", "turn"} : wired(c, "capture")
           /\ "messaging" \in cmd.asked => wired("turn", "inbox")
           /\ "wake" \in cmd.asked => wired("turn", "wake") /\ wired("end", "wake")
           /\ \A c \in Classes : \A e \in ToSet(h[c]) : e.kind # "user" => wired(c, e.kind)

\* "User groups and non-punk groups are never touched", and a skill the user wrote
\* is left alone: unless an edit came between the read and the rename, a command
\* keeps the user's entries, in order, and the user's files.
UsersAreKept ==
    [][\A a \in Areas : configSpent'.edits = configSpent.edits /\ disk[a] = cmd.old =>
         /\ disk[a].skill.by = "user" => disk'[a].skill = disk[a].skill
         /\ \A c \in Classes : SelectSeq(disk'[a].hooks[c], LAMBDA e : e.kind = "user")
                                 = SelectSeq(disk[a].hooks[c], LAMBDA e : e.kind = "user")]_configVars

\* The same group in both scopes "executes the same punk hook command twice per
\* event", and the same skill in both roots lists "every punk skill twice": after
\* connect codex nothing of punk's is there twice.
NoDoubleFire ==
    cmd.pc = "done" /\ agent = "codex" /\ ~cmd.raced =>
        /\ cmd.area = "project" /\ "hooks" \notin cmd.without =>
             \A c \in Classes : \A e \in ToSet(disk["project"].hooks[c]) :
                e.kind # "user" => e \notin ToSet(disk["global"].hooks[c])
        /\ cmd.area = "global" /\ "skill" \notin cmd.without /\ disk["global"].shared = Rendering =>
             disk["global"].skill # Rendering

\* "The merge below approves byte-for-byte the commands just wired into
\* config.yaml": after connect hermes each wired command is approved.
WiredIsApproved ==
    cmd.pc = "done" /\ agent = "hermes" /\ "allow" \notin cmd.without =>
        LET h == disk[cmd.area].hooks IN
        \A c \in Classes : \A e \in ToSet(h[c]) :
            e.kind # "user" => <<e.kind, e.bin, e.url>> \in disk[cmd.area].allow

\* What a finished connect leaves behind: every enabled capability wired once, to this
\* server, and in one scope.
ConfigSafety == ConnectRefreshes /\ NoDoubleFire
=============================================================================
