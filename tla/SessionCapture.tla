---------------------------- MODULE SessionCapture ---------------------------
(* One session of an agent and the punk hook processes that its host runs: the
   native events and their translation (internal/hookcli/hookcli.go, normalize.go,
   hookcli_cline.go, normalize_cline.go), and the server that stores captures and
   issues context once per delivery (internal/api/agent_handlers.go).

   The host runs the hooks of one event, in one copy or in two (a transport that
   delivers twice, or two scopes that are wired), waits for all of them and goes on.
   A request under way keeps a step for each call of the store; the keyed lock of the
   delivery is held from the first to the last.  A hook that gives up cancels its
   request, whose next call of the store then fails.  A prompt may come again later,
   replayed by the transport with the id it had.  Texts, bodies and budgets are left
   out: a block is the set of the facts it carries.                              *)
EXTENDS Integers, Sequences, FiniteSets

CONSTANTS Hosts,          \* the agents one of which runs the session
          Copies,         \* the hook processes that may run for one event
          HostEvents,     \* bound: events of the session
          KnownFacts,     \* bound: facts in the namespace
          CaptureFaults,  \* bound: hooks that time out, bookkeeping calls that fail and prompts that are replayed
          InjectedCap,    \* agentContextInjectedMaxIDs: facts that the injected book holds
          TurnsCap,       \* agentTurnDeliveredMaxPIDs: prompt ids that the book of turns holds
          BadCredentials  \* the hosts whose saved credentials may be unreadable

ASSUME CaptureConstants == /\ Hosts \subseteq {"claude", "cursor", "codex", "cline", "antigravity", "copilot", "hermes"}
                           /\ HostEvents \in Nat /\ KnownFacts \in Nat \ {0} /\ CaptureFaults \in Nat
                           /\ InjectedCap \in Nat \ {0} /\ TurnsCap \in Nat \ {0}
                           /\ BadCredentials \subseteq Hosts

VARIABLES host,      \* the agent
          event,     \* the event that its host is at: a number, a kind, the reason of a start; the events and prompts so far
          punk,      \* the hook process of each copy
          asks,      \* the context request of each copy
          deliveries, \* the keyed lock: the copy that holds the identity of the event
          known,     \* facts of the namespace
          captured,  \* keys under /agent-sessions/<sid>/
          books,     \* bookkeeping facts: the delivery marker, injected and delivered-turns
          printed,   \* history: the blocks that hooks printed
          slips      \* hooks that timed out or could not forward, bookkeeping calls that were lost, replays

captureVars == <<host, event, punk, asks, deliveries, known, captured, books, printed, slips>>

EventKinds == {"start", "prompt", "tool", "edit", "stop", "end", "other"}
Reasons == {"startup", "resume"}
NoHook == [pc |-> "idle", payload |-> "ok", replied |-> FALSE]
NoAsk == [pc |-> "idle", turn |-> FALSE, id |-> "", seen |-> {}, ids |-> {}, past |-> {}]

CaptureInit ==
    /\ host \in Hosts
    /\ event = [n |-> 0, kind |-> "none", reason |-> "startup", last |-> 0, told |-> {}]
    /\ punk = [c \in Copies |-> NoHook] /\ asks = [c \in Copies |-> NoAsk]
    /\ deliveries = {} /\ known = {1} /\ captured = {}
    /\ books = [marker |-> <<>>, injected |-> {}, turns |-> {}]
    /\ printed = <<>> /\ slips = [late |-> 0, lost |-> 0, again |-> 0]

-----------------------------------------------------------------------------
\* The event under which the server stores a native event; "none" is skipped.
Plain == [start |-> "SessionStart", prompt |-> "UserPromptSubmit", tool |-> "PostToolUse", edit |-> "none",
          stop |-> "Stop", end |-> "none", other |-> "none"]
translateCursor == [Plain EXCEPT !["edit"] = "PostToolUse", !["end"] = "Stop"]
translateCodex == Plain
translateAntigravity == [Plain EXCEPT !["prompt"] = "none"]
translateCopilot == [Plain EXCEPT !["end"] = "Stop"]
translateHermes == Plain
translateCline == [Plain EXCEPT !["end"] = "Stop"]
translators == [claude |-> Plain, cursor |-> translateCursor, codex |-> translateCodex, cline |-> translateCline,
                antigravity |-> translateAntigravity, copilot |-> translateCopilot, hermes |-> translateHermes]
Normalized == translators[host][event.kind]

\* The identity of a prompt: the host's id of the turn, or else a hash of the session and the text.  Every prompt
\* of this session has the same text.
promptIDFallback == 0
\* Mutant: the hash also where the host sends an id.
PromptIDByText == IF host \in {"cursor", "copilot", "hermes", "codex"} THEN promptIDFallback ELSE event.n
PromptID == IF host \in {"cursor", "copilot", "hermes"} THEN promptIDFallback ELSE event.n
\* The key of a capture.  Edits of one file share a key, and so do all stops and all starts of a session.
CaptureKey == CASE Normalized = "UserPromptSubmit" -> <<"prompt", PromptID>>
                [] Normalized = "PostToolUse" -> <<"tool", IF event.kind = "edit" THEN 0 ELSE event.n>>
                [] OTHER -> <<Normalized, 0>>

\* What a hook asks the server for: the block of the session start, that of the turn, or nothing.  One entry
\* point per agent; Hermes takes the session block with its first prompt.
Run == CASE event.kind = "start" -> "session" [] event.kind = "prompt" -> "turn" [] OTHER -> "nothing"
injectCodexContext == Run
RunFrom == "nothing"
StartOnly == IF Normalized = "SessionStart" THEN "session" ELSE "nothing"
RunFromAntigravity == StartOnly
RunFromCopilot == StartOnly
FirstTurn == \A k \in event.told : event.n <= k
RunFromHermes == IF event.kind # "prompt" THEN "nothing" ELSE IF FirstTurn THEN "session" ELSE "turn"
RunFromCline == IF event.kind = "start" /\ event.reason = "resume" THEN "nothing" ELSE Run
Wanted == [claude |-> Run, codex |-> injectCodexContext, cursor |-> RunFrom, antigravity |-> RunFromAntigravity,
           copilot |-> RunFromCopilot, hermes |-> RunFromHermes, cline |-> RunFromCline][host]
\* The event parameter: the reason of the start where the agent gives one, else the name of the agent.
EventParam == IF host \in {"claude", "codex"} THEN event.reason ELSE host

\* The hosts that wait for a reply on stdout, whatever became of the payload.
isCursorBeforeSubmitPrompt(h, k) == h = "cursor" /\ k = "prompt"
printAntigravityStopReply(h, k) == h = "antigravity" /\ k \in {"tool", "stop"}
MustReply(h, k) == isCursorBeforeSubmitPrompt(h, k) \/ printAntigravityStopReply(h, k) \/ h = "cline"

-----------------------------------------------------------------------------
Slip(f) == slips.late + slips.lost + slips.again < CaptureFaults /\ slips' = [slips EXCEPT ![f] = @ + 1]
\* The hooks of an event start, in one copy or in more, when those of the last one have ended.
HooksStart ==
    /\ \A c \in Copies : punk[c].pc \in {"idle", "end"}
    /\ \E S \in SUBSET Copies : S # {} /\ punk' = [c \in Copies |-> IF c \in S THEN [NoHook EXCEPT !.pc = "new"] ELSE NoHook]
    /\ UNCHANGED <<host, asks, deliveries, known, captured, books, printed>>
\* The host reaches the next event ...
HostGoesOn ==
    /\ event.last < HostEvents
    /\ \E k \in EventKinds, r \in Reasons :
          /\ k # "start" => r = "startup"
          /\ event' = [n |-> event.last + 1, kind |-> k, reason |-> r, last |-> event.last + 1,
                       told |-> event.told \cup IF k = "prompt" THEN {event.last + 1} ELSE {}]
    /\ HooksStart /\ UNCHANGED slips
\* ... or a prompt of this session comes once more.
PromptComesAgain ==
    /\ \E k \in event.told : event' = [event EXCEPT !.n = k, !.kind = "prompt", !.reason = "startup"]
    /\ HooksStart /\ Slip("again")

FactArrives == /\ Cardinality(known) < KnownFacts
               /\ known' = known \cup {Cardinality(known) + 1}
               /\ UNCHANGED <<host, event, punk, asks, deliveries, captured, books, printed, slips>>

HookIs(c, pc) == punk[c].pc = pc
\* cmdHook resolves the server first, and ends without a word when the credentials cannot be read.
ReadFails(c) == /\ HookIs(c, "new") /\ host \in BadCredentials
                /\ punk' = [punk EXCEPT ![c].pc = "end"]
                /\ UNCHANGED <<host, event, asks, deliveries, known, captured, books, printed, slips>>
\* A payload is good, odd (its event can be read, the translator refuses it), cut off at the limit, unread, or
\* broken: short of the limit and no JSON.
Payloads == {"ok", "odd", "cut", "unread", "broken"}
ReadPayload(c) == /\ HookIs(c, "new")
                  /\ \E p \in Payloads : punk' = [punk EXCEPT ![c].pc = "read", ![c].payload = p]
                  /\ UNCHANGED <<host, event, asks, deliveries, known, captured, books, printed, slips>>
\* Without a translation there is nothing to forward, and the required replies are printed all the same; only
\* cursor's is not printed for a broken payload, whose event nobody knows.
Nameless(c) == host = "cursor" /\ punk[c].payload = "broken"
Replies(c) == MustReply(host, event.kind) /\ ~Nameless(c)
Skip(c) == /\ HookIs(c, "read")
           /\ punk[c].payload # "ok" \/ Normalized = "none"
           /\ punk' = [punk EXCEPT ![c].pc = "end", ![c].replied = Replies(c)]
           /\ UNCHANGED <<host, event, asks, deliveries, known, captured, books, printed, slips>>
\* forwardHook: the server stores the capture, or the request fails and only stderr knows.
Forward(c) == /\ HookIs(c, "read") /\ punk[c].payload = "ok" /\ Normalized # "none"
              /\ \/ captured' = captured \cup {CaptureKey} /\ UNCHANGED slips
                 \/ Slip("late") /\ UNCHANGED captured
              /\ IF Wanted = "nothing"
                   THEN punk' = [punk EXCEPT ![c].pc = "end", ![c].replied = Replies(c)] /\ UNCHANGED asks
                   ELSE /\ punk' = [punk EXCEPT ![c].pc = "fetch"]
                        /\ asks' = [asks EXCEPT ![c] = [NoAsk EXCEPT !.pc = "lock", !.turn = Wanted = "turn",
                                                                    !.id = IF Wanted = "turn" THEN PromptID ELSE EventParam]]
              /\ UNCHANGED <<host, event, deliveries, known, books, printed>>

-----------------------------------------------------------------------------
AskIs(c, pc) == asks[c].pc = pc
Turn(c) == asks[c].turn
\* deliveryMutex.lock on (namespace, session, event) or (namespace, session, turn, pid): the copies share both.
LockFree(c) == deliveries = {}
Lock(c) == /\ AskIs(c, "lock") /\ LockFree(c)
           /\ deliveries' = deliveries \cup {c}
           /\ asks' = [asks EXCEPT ![c].pc = IF Turn(c) THEN "turns" ELSE "assemble"]
           /\ UNCHANGED <<host, event, punk, known, captured, books, printed, slips>>
\* The answer: the block goes to the hook, which prints it unless it is empty.
Serve(c, ids) ==
    /\ deliveries' = deliveries \ {c} /\ asks' = [asks EXCEPT ![c] = NoAsk]
    /\ punk' = [punk EXCEPT ![c].pc = "end", ![c].replied = MustReply(host, event.kind)]
    /\ printed' = IF ids = {} THEN printed
                  ELSE Append(printed, [turn |-> Turn(c), id |-> asks[c].id, n |-> event.n, ids |-> ids])
    /\ UNCHANGED <<host, event, known, captured>>
AskGoes(c, a) == asks' = [asks EXCEPT ![c] = a] /\ UNCHANGED <<host, event, punk, deliveries, known, captured, printed>>

\* A bookkeeping call is best effort.  A read that fails finds an empty book, a write that fails or that the subject
\* may not make leaves the book as it is, and the request goes on.
Found(b, empty, v) == \/ v = b /\ UNCHANGED slips
                      \/ v = empty /\ Slip("lost")
Written(b) == \/ books' = b /\ UNCHANGED slips
              \/ Slip("lost") /\ UNCHANGED books
\* A book lists the entries that were read, in the order of their names, and then the new ones; it keeps its last cap.
Latest(old, new, cap) ==
    {S \in SUBSET (old \cup new) : /\ Cardinality(S) <= cap
                                   /\ S = old \cup new \/ Cardinality(S) = cap
                                   /\ new \subseteq old \cup S \/ S \subseteq new \ old}

\* Session start: assemble the block, compare it with the marker, record the marker and the facts.
Assemble(c) == /\ AskIs(c, "assemble")
               /\ AskGoes(c, [asks[c] EXCEPT !.pc = "compare", !.ids = known]) /\ UNCHANGED <<books, slips>>
Compare(c) == \E mark \in {books.marker, <<>>} :
    /\ AskIs(c, "compare") /\ UNCHANGED books /\ Found(books.marker, <<>>, mark)
    /\ IF asks[c].ids = {} \/ mark = <<asks[c].id, asks[c].ids>> THEN Serve(c, {})
                                                                 ELSE AskGoes(c, [asks[c] EXCEPT !.pc = "marker"])
RecordMarker(c) == /\ AskIs(c, "marker")
                   /\ Written([books EXCEPT !.marker = <<asks[c].id, asks[c].ids>>])
                   /\ AskGoes(c, [asks[c] EXCEPT !.pc = "prior"])
ReadInjected(c) == \E ids \in {books.injected, {}} :
    /\ AskIs(c, "prior") /\ UNCHANGED books /\ Found(books.injected, {}, ids)
    /\ AskGoes(c, [asks[c] EXCEPT !.pc = "inject", !.seen = ids])
Inject(c) == \E S \in Latest(asks[c].seen, asks[c].ids, InjectedCap) : Written([books EXCEPT !.injected = S])
RecordInjected(c) == AskIs(c, "inject") /\ ~Turn(c) /\ Inject(c) /\ Serve(c, asks[c].ids)

\* A turn: nothing for a delivered prompt id, else the facts that the session has not been given.
SeenTurn(c, past) == asks[c].id \in past
ReadTurns(c) == \E past \in {books.turns, {}} :
    /\ AskIs(c, "turns") /\ UNCHANGED books /\ Found(books.turns, {}, past)
    /\ IF SeenTurn(c, past) THEN Serve(c, {}) ELSE AskGoes(c, [asks[c] EXCEPT !.pc = "seen", !.past = past])
ReadSeen(c) == \E ids \in {books.injected, {}} :
    /\ AskIs(c, "seen") /\ UNCHANGED books /\ Found(books.injected, {}, ids)
    /\ AskGoes(c, [asks[c] EXCEPT !.pc = "search", !.seen = ids])
SearchTurn(c) == LET ids == known \ asks[c].seen IN
    /\ AskIs(c, "search") /\ UNCHANGED <<books, slips>>
    /\ IF ids = {} THEN Serve(c, {}) ELSE AskGoes(c, [asks[c] EXCEPT !.pc = "inject", !.ids = ids])
RecordSeen(c) == AskIs(c, "inject") /\ Turn(c) /\ Inject(c) /\ AskGoes(c, [asks[c] EXCEPT !.pc = "pid"])
RecordTurn(c) == /\ AskIs(c, "pid") /\ Serve(c, asks[c].ids)
                 /\ \E S \in Latest(asks[c].past, {asks[c].id}, TurnsCap) : Written([books EXCEPT !.turns = S])
\* The hook gives up after its two seconds; the request is cancelled where it is.
TimesOut(c) == /\ HookIs(c, "fetch") /\ Slip("late")
               /\ punk' = [punk EXCEPT ![c].pc = "end", ![c].replied = MustReply(host, event.kind)]
               /\ asks' = [asks EXCEPT ![c] = NoAsk] /\ deliveries' = deliveries \ {c}
               /\ UNCHANGED <<host, event, known, captured, books, printed>>

HookStep(c) == ReadFails(c) \/ ReadPayload(c) \/ Skip(c) \/ Forward(c) \/ TimesOut(c)
AskStep(c) == \/ Lock(c) \/ Assemble(c) \/ Compare(c) \/ RecordMarker(c) \/ ReadInjected(c) \/ RecordInjected(c)
              \/ ReadTurns(c) \/ ReadSeen(c) \/ SearchTurn(c) \/ RecordSeen(c) \/ RecordTurn(c)
CaptureNext == HostGoesOn \/ PromptComesAgain \/ FactArrives \/ \E c \in Copies : HookStep(c) \/ AskStep(c)
CaptureSpec == CaptureInit /\ [][CaptureNext]_captureVars

-----------------------------------------------------------------------------
\* A hook and an inject call are at one of their steps, and what the server keeps
\* of a session has the shape recordInjectedIDs and recordDeliveredTurn write.
CaptureTypeOK ==
    /\ host \in Hosts /\ event.kind \in EventKinds \cup {"none"}
    /\ \A c \in Copies : punk[c].pc \in {"idle", "new", "read", "fetch", "end"} /\ punk[c].payload \in Payloads
    /\ deliveries \subseteq Copies /\ known \subseteq 1 .. KnownFacts
    /\ books.injected \subseteq known

\* A hook whose host waits for a reply has given it when it ends, on every path: a payload that cannot be read, that
\* is cut off or that the translator refuses, a server that is down (RunFrom: "always prints", "never leave a blocking
\* hook hanging"; printAntigravityStopReply: "on every return path"); except cursor's, for a payload that is no JSON.
BlockingHooksAnswer == \A c \in Copies : HookIs(c, "end") /\ MustReply(host, event.kind) /\ ~Nameless(c) => punk[c].replied

\* As long as every bookkeeping call of the session succeeded, it gets each delivery once: no fact in the block of a turn
\* that an earlier block carried, while the injected book has room for every fact; one block for a prompt id, also when
\* it is replayed, while the book of turns has room for every delivered turn; and no session block that repeats the one
\* before it, unless one between them was lost (deliveryMutex: "exactly one request per delivery produces a non-empty
\* response"; the injected-IDs fact: "mode=turn never re-injects them"; the caps: "dedup degrades gracefully").
Before(i, j) == i < j /\ ~printed[i].turn /\ ~printed[j].turn /\ \A k \in i + 1 .. j - 1 : printed[k].turn
TurnBlocks == {i \in DOMAIN printed : printed[i].turn}
DeliveredTurns == {printed[i].id : i \in TurnBlocks}
FactsFit == Cardinality(known) <= InjectedCap
TurnsFit == Cardinality(DeliveredTurns) <= TurnsCap
DeliveredOnce == slips.lost = 0 => \A i, j \in DOMAIN printed :
    /\ i < j /\ printed[j].turn /\ FactsFit => printed[i].ids \cap printed[j].ids = {}
    /\ i < j /\ printed[j].turn /\ printed[i].turn /\ TurnsFit => printed[i].id # printed[j].id
    /\ Before(i, j) /\ slips.late = 0 => <<printed[i].id, printed[i].ids>> # <<printed[j].id, printed[j].ids>>

\* A turn is answered as a repeated delivery only if this turn was delivered (handleAgentTurnContext: "A distinct
\* pid stays eligible"; translateCodex: "two distinct turns that happen to share text must remain distinct").
FreshTurnsAreServed ==
    \A c \in Copies : AskIs(c, "turns") /\ SeenTurn(c, books.turns) /\ slips.late = 0
        => \E i \in DOMAIN printed : printed[i].turn /\ printed[i].n = event.n

\* Every blocking hook answers, no delivery is repeated and no fresh turn is
\* mistaken for one.
CaptureSafety == BlockingHooksAnswer /\ DeliveredOnce /\ FreshTurnsAreServed
=============================================================================
