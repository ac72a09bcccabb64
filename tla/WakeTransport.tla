---------------------------- MODULE WakeTransport ---------------------------
(***************************************************************************)
(* The two transports through which a wake listener nudges its session      *)
(* (internal/nativewake/codex.go, claude.go).  The listener is the only     *)
(* caller: one Probe or Wake at a time, then Close.                         *)
(*                                                                          *)
(* Codex: JSON-RPC through a proxy subprocess to a shared daemon, one       *)
(* request at a time.  A request that was written may reach the daemon      *)
(* whatever becomes of the proxy.  Claude: one frame written to a socket    *)
(* that never answers.                                                      *)
(***************************************************************************)
EXTENDS Naturals, FiniteSets

CONSTANTS Nudges,          \* calls of Wake
          Probes,          \* bound on the calls of Probe
          Proxies,         \* bound on the proxies that are not reaped yet
          ListedOn,        \* the page of thread/loaded/list that names the thread
          LoadedPages,     \* codexMaxLoadedPages
          WireFaults       \* bound on what goes wrong

ASSUME TransportConstants ==
    /\ {Probes, ListedOn, LoadedPages, WireFaults} \subseteq Nat
    /\ "none" \notin Nudges /\ "none" \notin Proxies

VARIABLES host,            \* the session that is to be woken: its client, whether it listens, its status
          proxies,         \* codexConn: the subprocess, its reader, and what is on the wire
          conn,            \* t.conn
          shut,            \* t.closed
          op,              \* the Probe or Wake that runs
          enqueued,        \* ghost: how often the daemon has queued each nudge, or the socket has taken all of its frame
          outcomes,        \* what Wake returned
          probed, wireFaults

wakeCallVars == <<host, proxies, conn, shut, op, enqueued, outcomes, probed, wireFaults>>

NoProxy == [proc |-> "none", done |-> FALSE, asked |-> "", by |-> "none", answer |-> ""]
NoOp == [pc |-> "idle", nudge |-> "none", attempt |-> 0, proxy |-> "none", page |-> 0, wrote |-> FALSE, gone |-> FALSE]
Statuses == {"idle", "active", "notLoaded"}
Methods == {"initialize", "loaded", "resume", "add"}
Outcomes == {"accepted", "unconfirmed", "busy", "unavailable", "failed", "cancelled"}

Proxy == [proc : {"none", "running", "exited", "killed"}, done : BOOLEAN, asked : Methods \cup {""},
          by : Nudges \cup {"none"}, answer : Statuses \cup {"", "ok", "listed", "more", "end", "error", "lost"}]
Call == [pc : Methods \cup {"idle", "dial", "upgrade", "await", "write"}, nudge : Nudges \cup {"none"},
         attempt : 0..1, proxy : Proxies \cup {"none"}, page : Nat, wrote : BOOLEAN, gone : BOOLEAN]

TransportInit ==
    /\ host \in [client : {"codex", "claude"}, up : {TRUE}, status : {"idle"}]
    /\ proxies = [p \in Proxies |-> NoProxy] /\ conn = "none" /\ shut = FALSE
    /\ op = NoOp
    /\ enqueued = [n \in Nudges |-> 0] /\ outcomes = [n \in Nudges |-> "none"]
    /\ probed = 0 /\ wireFaults = 0

WireMishap == wireFaults < WireFaults /\ wireFaults' = wireFaults + 1
Pc(pc) == op.pc = pc
OpGoes(pc) == op' = [op EXCEPT !.pc = pc]
Killed(ps, p) == IF p \in Proxies /\ ps[p].proc = "running" THEN [ps EXCEPT ![p].proc = "killed", ![p].done = TRUE] ELSE ps

\* Probe or Wake returns.
Returns(kind) ==
    /\ op' = NoOp
    /\ outcomes' = IF op.nudge \in Nudges THEN [outcomes EXCEPT ![op.nudge] = kind] ELSE outcomes

-----------------------------------------------------------------------------
(* The calls *)

Wake(n) ==
    /\ Pc("idle") /\ ~shut /\ outcomes[n] = "none"
    /\ op' = [NoOp EXCEPT !.pc = "dial", !.nudge = n]
    /\ UNCHANGED <<host, proxies, conn, shut, enqueued, outcomes, probed, wireFaults>>
Probe ==
    /\ Pc("idle") /\ ~shut /\ probed < Probes
    /\ op' = [NoOp EXCEPT !.pc = "dial"] /\ probed' = probed + 1
    /\ UNCHANGED <<host, proxies, conn, shut, enqueued, outcomes, wireFaults>>
Close ==
    /\ Pc("idle") /\ ~shut
    /\ shut' = TRUE /\ conn' = "none" /\ proxies' = Killed(proxies, conn)
    /\ UNCHANGED <<host, op, enqueued, outcomes, probed, wireFaults>>

\* validate: the binary or the socket is unusable.
InvalidTarget ==
    /\ Pc("dial") /\ op.attempt = 0 /\ WireMishap
    /\ Returns("unavailable")
    /\ UNCHANGED <<host, proxies, conn, shut, enqueued, probed>>
\* The listener is stopped, or the probe has run too long.
CallerGone ==
    /\ ~Pc("idle") /\ ~op.gone /\ WireMishap
    /\ op' = [op EXCEPT !.gone = TRUE]
    /\ UNCHANGED <<host, proxies, conn, shut, enqueued, outcomes, probed>>

-----------------------------------------------------------------------------
(* withConn *)

\* Mutant: a lost connection is always worth another attempt.
RetryAlways == op.attempt = 0
MayReconnect == op.attempt = 0 /\ ~op.wrote

dropConn(ps) == Killed(ps, op.proxy)

Again == op' = [NoOp EXCEPT !.pc = "dial", !.nudge = op.nudge, !.attempt = 1] /\ UNCHANGED outcomes
\* The operation fails on its connection.  An answer that is an error leaves it as it is.
OpFails(kind) ==
    IF kind = "dead" \/ op.gone
    THEN /\ proxies' = dropConn(proxies) /\ conn' = IF conn = op.proxy THEN "none" ELSE conn
         /\ IF op.gone THEN Returns("cancelled")
            ELSE IF MayReconnect THEN Again ELSE Returns("failed")
    ELSE Returns(kind) /\ UNCHANGED <<proxies, conn>>
\* dial fails; what it had started is torn down.
DialFails(kind) ==
    /\ proxies' = dropConn(proxies) /\ conn' = "none"
    /\ IF kind = "dead" /\ op.attempt = 0 /\ ~op.gone THEN Again
       ELSE Returns(CASE op.gone -> "cancelled" [] kind = "dead" -> "failed" [] OTHER -> kind)

-----------------------------------------------------------------------------
(* dial, startCodexProxy, dialWS *)

connAlive(p) == p \in Proxies /\ ~proxies[p].done
DialReuses ==
    /\ Pc("dial") /\ host.client = "codex" /\ connAlive(conn)
    /\ op' = [op EXCEPT !.pc = "loaded", !.proxy = conn]
    /\ UNCHANGED <<host, proxies, conn, shut, enqueued, outcomes, probed, wireFaults>>
startCodexProxy ==
    /\ Pc("dial") /\ host.client = "codex" /\ ~connAlive(conn)
    /\ \E p \in Proxies : /\ p # conn /\ proxies[p] = NoProxy
                          /\ proxies' = [Killed(proxies, conn) EXCEPT ![p].proc = "running"]
                          /\ op' = [op EXCEPT !.pc = "upgrade", !.proxy = p]
    /\ conn' = "none"
    /\ UNCHANGED <<host, shut, enqueued, outcomes, probed, wireFaults>>
dialWS ==
    /\ Pc("upgrade") /\ host.up /\ proxies[op.proxy].proc = "running"
    /\ OpGoes("initialize") /\ conn' = op.proxy
    /\ UNCHANGED <<host, proxies, shut, enqueued, outcomes, probed, wireFaults>>
\* The proxy ended without a word; the reaper may not have told yet.
selfExitedNoOutput ==
    /\ Pc("upgrade") /\ proxies[op.proxy].proc = "exited"
    /\ DialFails("unavailable") \/ DialFails("dead")
    /\ UNCHANGED <<host, shut, enqueued, probed, wireFaults>>
\* It answers rubbish, or hangs until codexHandshakeTimeout.
HandshakeBroken ==
    /\ Pc("upgrade") /\ (WireMishap \/ (op.gone /\ UNCHANGED wireFaults))
    /\ DialFails("dead") \/ DialFails("failed")
    /\ UNCHANGED <<host, shut, enqueued, probed>>

-----------------------------------------------------------------------------
(* request *)

Fails(m, kind) == IF m = "initialize" THEN DialFails(kind) ELSE OpFails(kind)

\* The pending entry is made and the message written; a dead process cannot be written to.
Request(m) ==
    /\ Pc(m)
    /\ proxies[op.proxy].proc = "running"
    /\ proxies' = [proxies EXCEPT ![op.proxy].asked = m, ![op.proxy].by = op.nudge, ![op.proxy].answer = ""]
    /\ op' = [op EXCEPT !.pc = "await", !.wrote = (m = "add")]
    /\ UNCHANGED <<host, conn, shut, enqueued, outcomes, probed, wireFaults>>
RequestUnsent(m) ==
    /\ Pc(m) /\ proxies[op.proxy].proc # "running"
    /\ Fails(m, "dead")
    /\ UNCHANGED <<host, shut, enqueued, probed, wireFaults>>

Awaiting(m) == Pc("await") /\ proxies[op.proxy].asked = m
\* The stream has ended, the answer is undecodable or late, or the caller is gone.
RequestLost(m) ==
    /\ Awaiting(m)
    /\ \/ (proxies[op.proxy].done \/ op.gone) /\ UNCHANGED wireFaults
       \/ WireMishap
    /\ Fails(m, IF op.gone THEN "cancelled" ELSE "dead")
    /\ UNCHANGED <<host, shut, enqueued, probed>>
\* An error in answer: the connection is kept.
RequestRefused(m) ==
    /\ Awaiting(m) /\ proxies[op.proxy].answer = "error"
    /\ Fails(m, "failed")
    /\ UNCHANGED <<host, shut, enqueued, probed, wireFaults>>
\* Nothing is due on the wire any more once the answer is taken.
TakeAnswer(m, a) ==
    /\ Awaiting(m) /\ proxies[op.proxy].answer = a
    /\ proxies' = [proxies EXCEPT ![op.proxy].asked = "", ![op.proxy].by = "none", ![op.proxy].answer = ""]
    /\ UNCHANGED <<host, conn, shut, enqueued, probed, wireFaults>>

Initialized == TakeAnswer("initialize", "ok") /\ OpGoes("loaded") /\ UNCHANGED outcomes
\* requireLoaded, page by page.
ListedHere == TakeAnswer("loaded", "listed") /\ OpGoes("resume") /\ UNCHANGED outcomes
ListedFurther ==
    /\ TakeAnswer("loaded", "more")
    /\ IF op.page + 1 < LoadedPages THEN op' = [op EXCEPT !.pc = "loaded", !.page = @ + 1] /\ UNCHANGED outcomes
       ELSE Returns("unavailable")
NotListed == TakeAnswer("loaded", "end") /\ Returns("unavailable")
\* attachThread.  A probe is content; a nudge goes only to an idle thread.
Attached(s) ==
    /\ TakeAnswer("resume", s)
    /\ IF op.nudge \notin Nudges THEN Returns("ok")
       ELSE CASE s = "idle" -> OpGoes("add") /\ UNCHANGED outcomes
              [] s = "notLoaded" -> Returns("unavailable")
              [] s = "active" -> Returns("busy")
queueAdded == TakeAnswer("add", "ok") /\ Returns("accepted")

-----------------------------------------------------------------------------
(* The daemon and the process: external, but for the reader and the reaper *)

\* The daemon takes a request off the wire, even of a proxy that is gone; then nobody hears its answer.
Serve(p) ==
    /\ host.up /\ proxies[p].asked \in Methods /\ proxies[p].answer = ""
    /\ LET m == proxies[p].asked
           page == IF host.status = "notLoaded" THEN "end" ELSE IF op.page < ListedOn THEN "more" ELSE "listed"
           a == CASE m \in {"initialize", "add"} -> "ok" [] m = "loaded" -> page [] m = "resume" -> host.status
           listening == proxies[p].proc = "running"
       IN  \/ /\ enqueued' = IF m = "add" THEN [enqueued EXCEPT ![proxies[p].by] = @ + 1] ELSE enqueued
              /\ proxies' = [proxies EXCEPT ![p].answer = IF listening THEN a ELSE "lost"]
              /\ UNCHANGED wireFaults
           \/ /\ listening /\ WireMishap
              /\ proxies' = [proxies EXCEPT ![p].answer = "error"] /\ UNCHANGED enqueued
    /\ UNCHANGED <<host, conn, shut, op, outcomes, probed>>
ProxyExits(p) ==
    /\ host.client = "codex" /\ proxies[p].proc = "running" /\ (WireMishap \/ (~host.up /\ UNCHANGED wireFaults))
    /\ proxies' = [proxies EXCEPT ![p].proc = "exited"]
    /\ UNCHANGED <<host, conn, shut, op, enqueued, outcomes, probed>>
\* A frame that cannot be read ends the reader, as the end of the process does.
readLoop(p) ==
    /\ proxies[p].proc \in {"running", "exited"} /\ ~proxies[p].done /\ ~(Pc("upgrade") /\ op.proxy = p)
    /\ IF proxies[p].proc = "exited" THEN UNCHANGED wireFaults ELSE WireMishap
    /\ proxies' = [proxies EXCEPT ![p].done = TRUE]
    /\ UNCHANGED <<host, conn, shut, op, enqueued, outcomes, probed>>
\* The reaper waits for the reader, then for the process.  What was written stays written.
reapLoop(p) ==
    /\ proxies[p].done /\ proxies[p].proc \in {"exited", "killed"} /\ p \notin {conn, op.proxy}
    /\ proxies[p].asked = "" \/ proxies[p].answer # ""
    /\ proxies' = [proxies EXCEPT ![p] = NoProxy]
    /\ UNCHANGED <<host, conn, shut, op, enqueued, outcomes, probed, wireFaults>>
\* A human's turn begins or ends, the thread is unloaded, the daemon stops or comes back.
SessionMoves ==
    /\ host.client = "codex" /\ WireMishap
    /\ \/ \E s \in Statuses \ {host.status} : host' = [host EXCEPT !.status = s]
       \/ host' = [host EXCEPT !.up = ~@]
    /\ UNCHANGED <<proxies, conn, shut, op, enqueued, outcomes, probed>>

-----------------------------------------------------------------------------
(* claude.go *)

SocketGone ==
    /\ host.client = "claude" /\ WireMishap /\ host' = [host EXCEPT !.up = ~@]
    /\ UNCHANGED <<proxies, conn, shut, op, enqueued, outcomes, probed>>
claudeDial ==
    /\ Pc("dial") /\ host.client = "claude"
    /\ IF op.gone THEN Returns("cancelled")
       ELSE IF ~host.up THEN Returns("unavailable")
       ELSE IF op.nudge \notin Nudges THEN Returns("ok")
       ELSE OpGoes("write") /\ UNCHANGED outcomes
    /\ UNCHANGED <<host, proxies, conn, shut, enqueued, probed, wireFaults>>
\* A timeout or another error of the dial says nothing about the session.
claudeDialFails ==
    /\ Pc("dial") /\ host.client = "claude" /\ WireMishap
    /\ Returns("failed")
    /\ UNCHANGED <<host, proxies, conn, shut, enqueued, probed>>
\* The frame is read by the host only with its newline.
claudePost ==
    /\ Pc("write") /\ host.up
    /\ enqueued' = [enqueued EXCEPT ![op.nudge] = @ + 1]
    /\ Returns("unconfirmed")
    /\ UNCHANGED <<host, proxies, conn, shut, probed, wireFaults>>
\* A deadline, a host that went away, a caller that is gone: nothing, a prefix or all of the frame was taken.
claudePostFails ==
    /\ Pc("write")
    /\ \/ (~host.up \/ op.gone) /\ UNCHANGED wireFaults
       \/ WireMishap
    /\ \/ UNCHANGED enqueued
       \/ enqueued' = [enqueued EXCEPT ![op.nudge] = @ + 1]
    /\ Returns(IF op.gone THEN "cancelled" ELSE "failed")
    /\ UNCHANGED <<host, proxies, conn, shut, probed>>

-----------------------------------------------------------------------------
RequestStep(m) == Request(m) \/ RequestUnsent(m) \/ RequestLost(m) \/ RequestRefused(m)
OpStep ==
    \/ DialReuses \/ startCodexProxy \/ dialWS \/ selfExitedNoOutput \/ HandshakeBroken
    \/ \E m \in Methods : RequestStep(m)
    \/ Initialized \/ ListedHere \/ ListedFurther \/ NotListed \/ queueAdded
    \/ \E s \in Statuses : Attached(s)
    \/ claudeDial \/ claudeDialFails \/ claudePost \/ claudePostFails
TransportNext ==
    \/ \E n \in Nudges : Wake(n)
    \/ Probe \/ Close \/ InvalidTarget \/ CallerGone \/ OpStep \/ SessionMoves \/ SocketGone
    \/ \E p \in Proxies : Serve(p) \/ ProxyExits(p) \/ readLoop(p) \/ reapLoop(p)
TransportSpec == TransportInit /\ [][TransportNext]_wakeCallVars

-----------------------------------------------------------------------------
\* The session, the proxies and the call have their types.
TransportTypeOK ==
    /\ host \in [client : {"codex", "claude"}, up : BOOLEAN, status : Statuses]
    /\ proxies \in [Proxies -> Proxy]
    /\ conn \in Proxies \cup {"none"} /\ shut \in BOOLEAN
    /\ op \in Call
    /\ enqueued \in [Nudges -> Nat]
    /\ outcomes \in [Nudges -> Outcomes \cup {"none"}]
    /\ probed \in Nat /\ wireFaults \in Nat

\* Wake: a nudge reaches the host at most once, whatever is lost, late or retried; it has done so when Wake says so,
\* and it never does when Wake says busy or unavailable, upon which the listener refunds the attempt.
OutcomesAreHonest ==
    \A n \in Nudges :
        /\ enqueued[n] <= 1
        /\ outcomes[n] \in {"accepted", "unconfirmed"} => enqueued[n] = 1
        /\ outcomes[n] \in {"busy", "unavailable"} => enqueued[n] = 0

\* dropConn, dial, Close: a proxy process that runs belongs to the transport or to the dial that started it;
\* nothing runs once the transport is closed.
NoProxyIsLeft ==
    \A p \in Proxies : proxies[p].proc = "running" => ~shut /\ (p = conn \/ (Pc("upgrade") /\ p = op.proxy))

\* Wake's answers are true and no process outlives its transport.
TransportSafety == OutcomesAreHonest /\ NoProxyIsLeft
=============================================================================
