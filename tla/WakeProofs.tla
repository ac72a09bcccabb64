----------------------------- MODULE WakeProofs -----------------------------
(***************************************************************************)
(* The transports: a nudge reaches its session at most once and Wake's     *)
(* answer about it is true, for any number of nudges, proxies, retries and *)
(* faults.  The bridge: the host is nudged at most as often in a window as *)
(* the budget allows, by one generation, for any number of hooks, listeners*)
(* letters and faults.                                                     *)
(***************************************************************************)
EXTENDS WakeTransport, NativeWake, FiniteSetTheorems, SequenceTheorems, WellFoundedInduction, TLAPS

\* The request for nudge n is written through proxy p and the daemon has not
\* taken it.
OnWire(p, n) == proxies[p].asked = "add" /\ proxies[p].answer = "" /\ proxies[p].by = n

\* Nothing of nudge n has left the transport.
Clean(n) == enqueued[n] = 0 /\ \A p \in Proxies : ~OnWire(p, n)

\* Which connection a call runs on, and what it has written.
WireInv ==
    /\ \A p \in Proxies : proxies[p].asked = "add" => proxies[p].by \in Nudges
    /\ op.pc = "idle" => op = NoOp
    /\ op.pc # "idle" => ~shut
    /\ op.pc = "upgrade" => conn = "none" /\ op.proxy \in Proxies
    /\ op.pc \in Methods \cup {"await"} => op.proxy = conn /\ op.proxy \in Proxies
    /\ op.pc \in {"add", "write"} => op.nudge \in Nudges
    /\ op.pc = "await" => (op.wrote <=> proxies[op.proxy].asked = "add")
    /\ op.wrote => /\ op.pc = "await" /\ op.nudge \in Nudges
                   /\ proxies[op.proxy].by = op.nudge
                   /\ proxies[op.proxy].answer = "ok" => enqueued[op.nudge] = 1
    /\ op.nudge \in Nudges => outcomes[op.nudge] = "none"

\* Where the copies of a nudge are: on one wire or with the host, never both.
NudgeInv ==
    \A n \in Nudges :
        /\ enqueued[n] <= 1
        /\ \A p \in Proxies : OnWire(p, n) => enqueued[n] = 0 /\ \A q \in Proxies : OnWire(q, n) => p = q
        /\ outcomes[n] = "none" /\ ~(op.nudge = n /\ op.wrote) => Clean(n)
        /\ outcomes[n] \in {"busy", "unavailable"} => Clean(n)
        /\ outcomes[n] \in {"accepted", "unconfirmed"} => enqueued[n] = 1
        /\ op.nudge = n /\ op.wrote => \A p \in Proxies : OnWire(p, n) => p = op.proxy

Inv == TransportTypeOK /\ WireInv /\ NudgeInv /\ NoProxyIsLeft

-----------------------------------------------------------------------------
(* Records *)

LEMMA NoOpFacts ==
  /\ NoOp \in Call
  /\ NoOp.pc = "idle" /\ NoOp.nudge = "none" /\ NoOp.proxy = "none" /\ ~NoOp.wrote
BY DEF NoOp, Call

LEMMA NoProxyFacts ==
  /\ NoProxy \in Proxy
  /\ NoProxy.proc = "none" /\ NoProxy.asked = "" /\ NoProxy.answer = ""
BY DEF NoProxy, Proxy, Methods

\* The wire carries the same requests: a proxy's is as it was, or is gone
\* after its answer.
Same(p) == /\ proxies'[p].asked = proxies[p].asked
           /\ proxies'[p].by = proxies[p].by
           /\ proxies'[p].answer = proxies[p].answer
Over(p) == proxies'[p].asked # "add" /\ ~(proxies[p].asked = "add" /\ proxies[p].answer = "")
Quiet == \A p \in Proxies : Same(p) \/ Over(p)

\* dropConn, Close: the process ends, the wire keeps what was written.
LEMMA KilledFacts ==
  ASSUME proxies \in [Proxies -> Proxy], NEW x
  PROVE  /\ Killed(proxies, x) \in [Proxies -> Proxy]
         /\ \A p \in Proxies : /\ Killed(proxies, x)[p].asked = proxies[p].asked
                               /\ Killed(proxies, x)[p].by = proxies[p].by
                               /\ Killed(proxies, x)[p].answer = proxies[p].answer
                               /\ Killed(proxies, x)[p].proc = "running"
                                    => p # x /\ proxies[p].proc = "running"
<1>1. CASE x \in Proxies /\ proxies[x].proc = "running"
  <2> DEFINE q == [[proxies[x] EXCEPT !.proc = "killed"] EXCEPT !.done = TRUE]
  <2>1. proxies[x] \in Proxy
    BY <1>1
  <2>2. /\ q \in Proxy /\ q.proc = "killed" /\ q.asked = proxies[x].asked
        /\ q.by = proxies[x].by /\ q.answer = proxies[x].answer
    BY <2>1 DEF Proxy
  <2>3. Killed(proxies, x) = [proxies EXCEPT ![x] = q]
    BY <1>1 DEF Killed
  <2> HIDE DEF q
  <2> QED
    BY <1>1, <2>2, <2>3
<1>2. CASE ~(x \in Proxies /\ proxies[x].proc = "running")
  BY <1>2 DEF Killed
<1> QED
  BY <1>1, <1>2

-----------------------------------------------------------------------------
(* How a call ends or goes on *)

\* Probe or Wake returns without having touched the wire.
LEMMA ReturnKeeps ==
  ASSUME Inv, NEW kind, Returns(kind), op.pc # "idle",
         \/ kind \in {"busy", "unavailable"} /\ ~op.wrote
         \/ kind \in {"failed", "cancelled"}
         \/ kind = "accepted" /\ enqueued[op.nudge] = 1
         \/ op.nudge \notin Nudges,
         UNCHANGED <<enqueued, shut>>, Quiet,
         host' \in [client : {"codex", "claude"}, up : BOOLEAN, status : Statuses],
         proxies' \in [Proxies -> Proxy], conn' \in Proxies \cup {"none"},
         probed' \in Nat, wireFaults' \in Nat,
         \A p \in Proxies : proxies'[p].proc = "running" => p = conn' /\ ~shut
  PROVE  Inv'
<1>1. op' = NoOp /\ op'.pc = "idle" /\ op'.nudge \notin Nudges /\ ~op'.wrote /\ op' \in Call
  BY NoOpFacts, TransportConstants DEF Returns
<1>2. /\ outcomes' \in [Nudges -> Outcomes \cup {"none"}]
      /\ \A n \in Nudges : IF n = op.nudge THEN outcomes'[n] = kind ELSE outcomes'[n] = outcomes[n]
  BY DEF Returns, Inv, TransportTypeOK, Outcomes
<1>3. TransportTypeOK'
  BY <1>1, <1>2 DEF Inv, TransportTypeOK
<1>4. WireInv'
  BY <1>1, <1>3 DEF Inv, WireInv, Quiet, Same, Over, Methods
<1>5. \A p \in Proxies, n \in Nudges : OnWire(p, n)' <=> OnWire(p, n)
  BY DEF OnWire, Quiet, Same, Over
<1>6. NudgeInv'
  <2> SUFFICES ASSUME NEW n \in Nudges
               PROVE  /\ enqueued'[n] <= 1
                      /\ \A p \in Proxies : OnWire(p, n)' => enqueued'[n] = 0 /\ \A q \in Proxies : OnWire(q, n)' => p = q
                      /\ outcomes'[n] = "none" => Clean(n)'
                      /\ outcomes'[n] \in {"busy", "unavailable"} => Clean(n)'
                      /\ outcomes'[n] \in {"accepted", "unconfirmed"} => enqueued'[n] = 1
    BY <1>1 DEF NudgeInv
  <2>1. Clean(n)' <=> Clean(n)
    BY <1>5 DEF Clean
  <2>2. CASE n = op.nudge
    <3>1. outcomes[n] = "none"
      BY <2>2 DEF Inv, WireInv
    <3>2. ~op.wrote => Clean(n)
      BY <2>2, <3>1 DEF Inv, NudgeInv
    <3> QED
      BY <1>2, <1>5, <2>1, <2>2, <3>2 DEF Inv, NudgeInv
  <2>3. CASE n # op.nudge
    BY <1>2, <1>5, <2>1, <2>3 DEF Inv, NudgeInv
  <2> QED
    BY <2>2, <2>3
<1>7. NoProxyIsLeft'
  BY DEF NoProxyIsLeft
<1> QED
  BY <1>3, <1>4, <1>6, <1>7 DEF Inv

\* A call that has written nothing goes on.
LEMMA GoesOnKeeps ==
  ASSUME Inv, op.pc # "idle", ~op.wrote, UNCHANGED <<enqueued, outcomes, shut>>, Quiet,
         op' \in Call, op'.nudge = op.nudge, ~op'.wrote, op'.pc \notin {"idle", "await"},
         op'.pc = "upgrade" => conn' = "none" /\ op'.proxy \in Proxies,
         op'.pc \in Methods => op'.proxy = conn' /\ op'.proxy \in Proxies,
         op'.pc \in {"add", "write"} => op.nudge \in Nudges,
         host' \in [client : {"codex", "claude"}, up : BOOLEAN, status : Statuses],
         proxies' \in [Proxies -> Proxy], conn' \in Proxies \cup {"none"},
         probed' \in Nat, wireFaults' \in Nat,
         \A p \in Proxies : proxies'[p].proc = "running" => p = conn' \/ (op'.pc = "upgrade" /\ p = op'.proxy)
  PROVE  Inv'
<1>1. TransportTypeOK'
  BY DEF Inv, TransportTypeOK
<1>2. WireInv'
  BY <1>1 DEF Inv, WireInv, Quiet, Same, Over
<1>3. \A p \in Proxies, n \in Nudges : OnWire(p, n)' <=> OnWire(p, n)
  BY DEF OnWire, Quiet, Same, Over
<1>4. \A n \in Nudges : Clean(n)' <=> Clean(n)
  BY <1>3 DEF Clean
<1>5. NudgeInv'
  BY <1>3, <1>4 DEF Inv, NudgeInv
<1>6. NoProxyIsLeft'
  BY DEF Inv, WireInv, NoProxyIsLeft, Pc
<1> QED
  BY <1>1, <1>2, <1>5, <1>6 DEF Inv

LEMMA AgainFacts ==
  ASSUME Inv, Again
  PROVE  /\ op' \in Call /\ op'.nudge = op.nudge /\ ~op'.wrote /\ op'.pc = "dial"
         /\ UNCHANGED outcomes
<1> DEFINE one == 1
           q == [NoOp EXCEPT !.pc = "dial", !.nudge = op.nudge, !.attempt = one]
<1>1. op.nudge \in Nudges \cup {"none"}
  BY DEF Inv, TransportTypeOK, Call
<1>2. op' = q /\ UNCHANGED outcomes
  BY DEF Again
<1>3. one \in 0..1
  OBVIOUS
<1> HIDE DEF one
<1>4. q \in Call /\ q.nudge = op.nudge /\ q.wrote = NoOp.wrote /\ q.pc = "dial"
  BY <1>1, <1>3, NoOpFacts DEF Call
<1> HIDE DEF q
<1> QED
  BY <1>2, <1>4, NoOpFacts

\* The call stands still while the host, a process or the reaper moves.
LEMMA BystanderKeeps ==
  ASSUME Inv, UNCHANGED <<conn, shut, enqueued, outcomes>>, Quiet,
         op' = op \/ (op.pc # "idle" /\ op' \in Call /\ op'.pc = op.pc /\ op'.nudge = op.nudge
                      /\ op'.proxy = op.proxy /\ op'.wrote = op.wrote),
         op.proxy \in Proxies => Same(op.proxy),
         host' \in [client : {"codex", "claude"}, up : BOOLEAN, status : Statuses],
         proxies' \in [Proxies -> Proxy], probed' \in Nat, wireFaults' \in Nat,
         \A p \in Proxies : proxies'[p].proc = "running" => proxies[p].proc = "running"
  PROVE  Inv'
<1>0. op'.pc = op.pc /\ op'.nudge = op.nudge /\ op'.proxy = op.proxy /\ op'.wrote = op.wrote /\ op' \in Call
  BY DEF Inv, TransportTypeOK
<1>1. TransportTypeOK'
  BY <1>0 DEF Inv, TransportTypeOK
<1>2. WireInv'
  <2>1. \A p \in Proxies : proxies'[p].asked = "add" => proxies'[p].by \in Nudges
    BY DEF Inv, WireInv, Quiet, Same, Over
  <2>2. op.pc = "await" => op.proxy \in Proxies
    BY DEF Inv, WireInv
  <2>3. op.wrote => op.proxy \in Proxies
    BY <2>2 DEF Inv, WireInv
  <2>4. op'.pc = "await" => (op'.wrote <=> proxies'[op'.proxy].asked = "add")
    BY <1>0, <2>2 DEF Inv, WireInv, Same
  <2>5. op'.wrote => /\ op'.pc = "await" /\ op'.nudge \in Nudges
                     /\ proxies'[op'.proxy].by = op'.nudge
                     /\ proxies'[op'.proxy].answer = "ok" => enqueued'[op'.nudge] = 1
    BY <1>0, <2>3 DEF Inv, WireInv, Same
  <2> QED
    BY <1>0, <2>1, <2>4, <2>5 DEF Inv, WireInv
<1>3. \A p \in Proxies, n \in Nudges : OnWire(p, n)' <=> OnWire(p, n)
  BY DEF OnWire, Quiet, Same, Over
<1>4. \A n \in Nudges : Clean(n)' <=> Clean(n)
  BY <1>3 DEF Clean
<1>5. NudgeInv'
  BY <1>0, <1>3, <1>4 DEF Inv, NudgeInv
<1>6. NoProxyIsLeft'
  BY <1>0 DEF Inv, NoProxyIsLeft, Pc
<1> QED
  BY <1>1, <1>2, <1>5, <1>6 DEF Inv

\* A call begins.
LEMMA StartKeeps ==
  ASSUME Inv, Pc("idle"), ~shut, UNCHANGED <<host, proxies, conn, shut, enqueued, outcomes, wireFaults>>,
         op' \in Call, op'.pc = "dial", ~op'.wrote, op'.nudge \in Nudges => outcomes[op'.nudge] = "none",
         probed' \in Nat
  PROVE  Inv'
<1>0. op = NoOp /\ ~op.wrote
  BY NoOpFacts DEF Inv, WireInv, Pc
<1>1. TransportTypeOK'
  BY DEF Inv, TransportTypeOK
<1>2. WireInv'
  BY <1>1 DEF Inv, WireInv, Methods
<1>3. \A p \in Proxies, n \in Nudges : OnWire(p, n)' <=> OnWire(p, n)
  BY DEF OnWire
<1>4. \A n \in Nudges : Clean(n)' <=> Clean(n)
  BY <1>3 DEF Clean
<1>5. NudgeInv'
  BY <1>0, <1>3, <1>4 DEF Inv, NudgeInv
<1>6. NoProxyIsLeft'
  BY <1>0 DEF Inv, NoProxyIsLeft, Pc
<1> QED
  BY <1>1, <1>2, <1>5, <1>6 DEF Inv

\* The process of a failed call is gone and so is the connection.
LEMMA DropFacts ==
  ASSUME Inv, op.pc \in Methods \cup {"await", "upgrade"}, proxies' = dropConn(proxies)
  PROVE  /\ Quiet /\ proxies' \in [Proxies -> Proxy]
         /\ \A p \in Proxies : proxies'[p].proc # "running"
         /\ ~shut /\ op.pc # "idle" /\ (op.pc # "upgrade" => op.proxy = conn)
<1>1. proxies \in [Proxies -> Proxy]
  BY DEF Inv, TransportTypeOK
<1>2. /\ proxies' \in [Proxies -> Proxy]
      /\ \A p \in Proxies : /\ proxies'[p].asked = proxies[p].asked
                            /\ proxies'[p].by = proxies[p].by
                            /\ proxies'[p].answer = proxies[p].answer
                            /\ proxies'[p].proc = "running" => p # op.proxy /\ proxies[p].proc = "running"
  BY <1>1, KilledFacts DEF dropConn
<1>3. /\ op.pc # "idle" /\ ~shut
      /\ op.pc = "upgrade" => conn = "none"
      /\ op.pc # "upgrade" => op.proxy = conn
  BY DEF Inv, WireInv, Methods
<1>4. ASSUME NEW p \in Proxies, proxies'[p].proc = "running"
      PROVE  FALSE
  <2>1. p # op.proxy /\ proxies[p].proc = "running"
    BY <1>2, <1>4
  <2>2. p = conn
    BY <2>1 DEF Inv, NoProxyIsLeft
  <2> QED
    BY <1>3, <2>1, <2>2, TransportConstants
<1> QED
  BY <1>2, <1>3, <1>4 DEF Quiet, Same

LEMMA DialFailsKeeps ==
  ASSUME Inv, op.pc \in {"initialize", "await", "upgrade"}, ~op.wrote,
         NEW kind \in {"dead", "failed", "unavailable", "cancelled"}, DialFails(kind),
         UNCHANGED <<host, shut, enqueued, probed>>, wireFaults' \in Nat
  PROVE  Inv'
<1>1. proxies' = dropConn(proxies) /\ conn' = "none"
  BY DEF DialFails
<1>2. /\ Quiet /\ proxies' \in [Proxies -> Proxy]
      /\ \A p \in Proxies : proxies'[p].proc # "running"
      /\ ~shut /\ op.pc # "idle"
  BY <1>1, DropFacts DEF Methods
<1>3. /\ host' \in [client : {"codex", "claude"}, up : BOOLEAN, status : Statuses] /\ probed' \in Nat
  BY DEF Inv, TransportTypeOK
<1>4. CASE kind = "dead" /\ op.attempt = 0 /\ ~op.gone
  <2>1. Again
    BY <1>4 DEF DialFails
  <2>2. /\ op' \in Call /\ op'.nudge = op.nudge /\ ~op'.wrote /\ op'.pc = "dial" /\ UNCHANGED outcomes
    BY <2>1, AgainFacts
  <2> QED
    BY <1>1, <1>2, <1>3, <2>2, GoesOnKeeps DEF Methods
<1>5. CASE ~(kind = "dead" /\ op.attempt = 0 /\ ~op.gone)
  <2>1. PICK k \in {"cancelled", "failed", "unavailable"} : Returns(k)
    BY <1>5 DEF DialFails
  <2> QED
    BY <1>1, <1>2, <1>3, <2>1, ReturnKeeps
<1> QED
  BY <1>4, <1>5

LEMMA OpFailsKeeps ==
  ASSUME Inv, op.pc \in Methods \cup {"await"},
         NEW kind \in {"dead", "failed", "cancelled"}, OpFails(kind),
         UNCHANGED <<host, shut, enqueued, probed>>, wireFaults' \in Nat
  PROVE  Inv'
<1>3. /\ host' \in [client : {"codex", "claude"}, up : BOOLEAN, status : Statuses] /\ probed' \in Nat
  BY DEF Inv, TransportTypeOK
<1>4. CASE kind = "dead" \/ op.gone
  <2>1. proxies' = dropConn(proxies) /\ conn' = IF conn = op.proxy THEN "none" ELSE conn
    BY <1>4 DEF OpFails
  <2>2. /\ Quiet /\ proxies' \in [Proxies -> Proxy]
        /\ \A p \in Proxies : proxies'[p].proc # "running"
        /\ ~shut /\ op.pc # "idle"
    BY <2>1, DropFacts
  <2>3. conn' = "none"
    BY <2>1, DropFacts DEF Methods
  <2>4. CASE ~op.gone /\ MayReconnect
    <3>1. Again /\ ~op.wrote
      BY <1>4, <2>4 DEF OpFails, MayReconnect
    <3>2. /\ op' \in Call /\ op'.nudge = op.nudge /\ ~op'.wrote /\ op'.pc = "dial" /\ UNCHANGED outcomes
      BY <3>1, AgainFacts
    <3> QED
      BY <1>3, <2>2, <2>3, <3>1, <3>2, GoesOnKeeps DEF Methods
  <2>5. CASE op.gone \/ ~MayReconnect
    <3>1. PICK k \in {"cancelled", "failed"} : Returns(k)
      BY <1>4, <2>5 DEF OpFails
    <3> QED
      BY <1>3, <2>2, <2>3, <3>1, ReturnKeeps
  <2> QED
    BY <2>4, <2>5
<1>5. CASE ~(kind = "dead" \/ op.gone)
  <2>1. Returns(kind) /\ UNCHANGED <<proxies, conn>> /\ kind \in {"failed", "cancelled"}
    BY <1>5 DEF OpFails
  <2>2. Quiet
    BY <2>1 DEF Quiet, Same
  <2>3. op.pc \notin {"idle", "upgrade"}
    BY DEF Methods
  <2>4. \A p \in Proxies : proxies'[p].proc = "running" => p = conn' /\ ~shut
    BY <2>1, <2>3 DEF Inv, NoProxyIsLeft, Pc
  <2>5. proxies' \in [Proxies -> Proxy] /\ conn' \in Proxies \cup {"none"}
    BY <2>1 DEF Inv, TransportTypeOK
  <2> QED
    BY <1>3, <2>1, <2>2, <2>3, <2>4, <2>5, ReturnKeeps
<1> QED
  BY <1>4, <1>5

LEMMA FailsKeeps ==
  ASSUME Inv, NEW m \in Methods, op.pc = m \/ Awaiting(m),
         NEW kind \in {"dead", "failed", "cancelled"}, Fails(m, kind),
         UNCHANGED <<host, shut, enqueued, probed>>, wireFaults' \in Nat
  PROVE  Inv'
<1>1. op.pc \in Methods \cup {"await"} /\ (m = "initialize" => op.pc \in {"initialize", "await"} /\ ~op.wrote)
  BY DEF Awaiting, Pc, Inv, WireInv
<1> QED
  BY <1>1, DialFailsKeeps, OpFailsKeeps DEF Fails

-----------------------------------------------------------------------------
(* The actions *)

HostType == [client : {"codex", "claude"}, up : BOOLEAN, status : Statuses]

LEMMA Typed ==
  ASSUME Inv
  PROVE  /\ host \in HostType /\ proxies \in [Proxies -> Proxy] /\ conn \in Proxies \cup {"none"}
         /\ op \in Call /\ enqueued \in [Nudges -> Nat] /\ outcomes \in [Nudges -> Outcomes \cup {"none"}]
         /\ probed \in Nat /\ wireFaults \in Nat /\ wireFaults + 1 \in Nat
BY DEF Inv, TransportTypeOK, HostType

\* The request that is answered is taken off.
LEMMA TakeFacts ==
  ASSUME Inv, NEW m \in Methods, NEW a, a # "", TakeAnswer(m, a)
  PROVE  /\ proxies' \in [Proxies -> Proxy] /\ Quiet
         /\ \A p \in Proxies : proxies'[p].proc = "running" => p = conn /\ ~shut
         /\ op.pc = "await" /\ op.proxy = conn /\ op.proxy \in Proxies
         /\ op.wrote <=> m = "add"
         /\ UNCHANGED <<host, conn, shut, enqueued, probed, wireFaults>>
<1>1. /\ op.pc = "await" /\ proxies[op.proxy].asked = m /\ proxies[op.proxy].answer = a
      /\ UNCHANGED <<host, conn, shut, enqueued, probed, wireFaults>>
  BY DEF TakeAnswer, Awaiting, Pc
<1>2. op.proxy = conn /\ op.proxy \in Proxies /\ (op.wrote <=> m = "add")
  BY <1>1 DEF Inv, WireInv
<1> DEFINE x == op.proxy
           q == [[[proxies[x] EXCEPT !.asked = ""] EXCEPT !.by = "none"] EXCEPT !.answer = ""]
<1>3. proxies[x] \in Proxy
  BY <1>2, Typed
<1>4. q \in Proxy /\ q.proc = proxies[x].proc /\ q.asked = ""
  BY <1>3 DEF Proxy
<1>5. proxies' = [proxies EXCEPT ![x] = q]
  BY <1>2, Typed DEF TakeAnswer
<1> HIDE DEF q
<1>6. proxies' \in [Proxies -> Proxy] /\ \A p \in Proxies : proxies'[p].proc = proxies[p].proc
  BY <1>2, <1>4, <1>5, Typed
<1>7. Quiet
  BY <1>1, <1>2, <1>4, <1>5, Typed DEF Quiet, Same, Over
<1>8. \A p \in Proxies : proxies'[p].proc = "running" => p = conn /\ ~shut
  BY <1>1, <1>6 DEF Inv, NoProxyIsLeft, Pc
<1> QED
  BY <1>1, <1>2, <1>6, <1>7, <1>8

\* After its answer the call goes on over the same connection, or returns.
LEMMA TakeGoesOn ==
  ASSUME Inv, NEW m \in Methods \ {"add"}, NEW a, a # "", TakeAnswer(m, a), UNCHANGED outcomes,
         NEW pc \in Methods, op' \in Call, op'.pc = pc, op'.nudge = op.nudge, op'.wrote = op.wrote,
         op'.proxy = op.proxy, pc = "add" => op.nudge \in Nudges
  PROVE  Inv'
<1>1. m \in Methods /\ m # "add" /\ pc \notin {"upgrade", "write", "idle", "await"}
  BY DEF Methods
<1>2. /\ proxies' \in [Proxies -> Proxy] /\ Quiet
      /\ \A p \in Proxies : proxies'[p].proc = "running" => p = conn
      /\ op.pc # "idle" /\ op.proxy = conn /\ op.proxy \in Proxies
      /\ ~op.wrote
      /\ UNCHANGED <<host, conn, shut, enqueued, probed, wireFaults>>
  BY <1>1, TakeFacts
<1> QED
  BY <1>1, <1>2, Typed, GoesOnKeeps DEF HostType

LEMMA TakeReturns ==
  ASSUME Inv, NEW m \in Methods, NEW a, a # "", TakeAnswer(m, a), NEW kind, Returns(kind),
         \/ kind \in {"busy", "unavailable"} /\ m # "add"
         \/ kind = "accepted" /\ enqueued[op.nudge] = 1
         \/ op.nudge \notin Nudges
  PROVE  Inv'
<1>1. /\ proxies' \in [Proxies -> Proxy] /\ Quiet
      /\ \A p \in Proxies : proxies'[p].proc = "running" => p = conn /\ ~shut
      /\ op.pc # "idle" /\ (op.wrote <=> m = "add")
      /\ UNCHANGED <<host, conn, shut, enqueued, probed, wireFaults>>
  BY TakeFacts
<1> QED
  BY <1>1, Typed, ReturnKeeps DEF HostType

LEMMA OpGoesFacts ==
  ASSUME Inv, NEW pc \in Methods \cup {"idle", "dial", "upgrade", "await", "write"}, OpGoes(pc)
  PROVE  op' \in Call /\ op'.pc = pc /\ op'.nudge = op.nudge /\ op'.wrote = op.wrote /\ op'.proxy = op.proxy
BY Typed DEF Call, OpGoes

LEMMA DialKeeps ==
  ASSUME Inv, DialReuses \/ startCodexProxy \/ dialWS \/ selfExitedNoOutput \/ HandshakeBroken
  PROVE  Inv'
<1>0. ASSUME op.pc # "await"
      PROVE  ~op.wrote
  BY <1>0 DEF Inv, WireInv
<1>1. CASE DialReuses
  <2>1. /\ op.pc = "dial" /\ conn \in Proxies
        /\ UNCHANGED <<host, proxies, conn, shut, enqueued, outcomes, probed, wireFaults>>
    BY <1>1 DEF DialReuses, Pc, connAlive
  <2>2. /\ op' \in Call /\ op'.pc = "loaded" /\ op'.proxy = conn /\ op'.wrote = op.wrote /\ op'.nudge = op.nudge
    BY <1>1, <2>1, Typed DEF DialReuses, Call, Methods
  <2>3. Quiet /\ \A p \in Proxies : proxies'[p].proc = "running" => p = conn
    BY <2>1 DEF Quiet, Same, Inv, NoProxyIsLeft, Pc
  <2> QED
    BY <1>0, <2>1, <2>2, <2>3, Typed, GoesOnKeeps DEF HostType, Methods
<1>2. CASE startCodexProxy
  <2>1. /\ op.pc = "dial" /\ conn' = "none"
        /\ UNCHANGED <<host, shut, enqueued, outcomes, probed, wireFaults>>
    BY <1>2 DEF startCodexProxy, Pc
  <2>2. PICK p \in Proxies : /\ proxies[p] = NoProxy
                             /\ proxies' = [Killed(proxies, conn) EXCEPT ![p].proc = "running"]
                             /\ op' = [op EXCEPT !.pc = "upgrade", !.proxy = p]
    BY <1>2 DEF startCodexProxy
  <2> DEFINE ps == Killed(proxies, conn)
             q == [ps[p] EXCEPT !.proc = "running"]
  <2>3. /\ ps \in [Proxies -> Proxy]
        /\ \A x \in Proxies : /\ ps[x].asked = proxies[x].asked
                              /\ ps[x].by = proxies[x].by
                              /\ ps[x].answer = proxies[x].answer
                              /\ ps[x].proc = "running" => x # conn /\ proxies[x].proc = "running"
    BY Typed, KilledFacts
  <2>4. \A x \in Proxies : ps[x].proc # "running"
    BY <2>1, <2>3 DEF Inv, NoProxyIsLeft, Pc
  <2>5. proxies' = [ps EXCEPT ![p] = q]
    BY <2>2, <2>3
  <2> HIDE DEF ps
  <2>6. ps[p] \in Proxy
    BY <2>3
  <2>7. q \in Proxy /\ q.asked = ps[p].asked /\ q.by = ps[p].by /\ q.answer = ps[p].answer
    BY <2>6 DEF Proxy
  <2> HIDE DEF q
  <2>8. /\ proxies' \in [Proxies -> Proxy] /\ Quiet
        /\ \A x \in Proxies : proxies'[x].proc = "running" => x = p
    BY <2>3, <2>4, <2>5, <2>7 DEF Quiet, Same
  <2>9. /\ op' \in Call /\ op'.pc = "upgrade" /\ op'.proxy = p /\ op'.wrote = op.wrote /\ op'.nudge = op.nudge
    BY <2>2, Typed DEF Call
  <2> QED
    BY <1>0, <2>1, <2>8, <2>9, Typed, GoesOnKeeps DEF HostType, Methods
<1>3. CASE dialWS
  <2>1. /\ op.pc = "upgrade" /\ conn' = op.proxy /\ conn = "none" /\ op.proxy \in Proxies
        /\ UNCHANGED <<host, proxies, shut, enqueued, outcomes, probed, wireFaults>>
    BY <1>3 DEF dialWS, Pc, Inv, WireInv
  <2>2. op' \in Call /\ op'.pc = "initialize" /\ op'.proxy = op.proxy /\ op'.wrote = op.wrote /\ op'.nudge = op.nudge
    BY <1>3, OpGoesFacts DEF dialWS, Methods
  <2>3. Quiet /\ \A p \in Proxies : proxies'[p].proc = "running" => p = op.proxy
    BY <2>1, TransportConstants DEF Quiet, Same, Inv, NoProxyIsLeft, Pc
  <2> QED
    BY <1>0, <2>1, <2>2, <2>3, Typed, GoesOnKeeps DEF HostType, Methods
<1>4. CASE selfExitedNoOutput
  <2>1. op.pc = "upgrade" /\ UNCHANGED <<host, shut, enqueued, probed, wireFaults>>
    BY <1>4 DEF selfExitedNoOutput, Pc
  <2> QED
    BY <1>0, <1>4, <2>1, Typed, DialFailsKeeps DEF selfExitedNoOutput
<1>5. CASE HandshakeBroken
  <2>1. op.pc = "upgrade" /\ UNCHANGED <<host, shut, enqueued, probed>> /\ wireFaults' \in Nat
    BY <1>5, Typed DEF HandshakeBroken, Pc, WireMishap
  <2> QED
    BY <1>0, <1>5, <2>1, DialFailsKeeps DEF HandshakeBroken
<1> QED
  BY <1>1, <1>2, <1>3, <1>4, <1>5

LEMMA AnswersKeep ==
  ASSUME Inv, \/ Initialized \/ ListedHere \/ ListedFurther \/ NotListed \/ queueAdded
              \/ \E s \in Statuses : Attached(s)
  PROVE  Inv'
<1>1. CASE Initialized
  BY <1>1, OpGoesFacts, TakeGoesOn DEF Initialized, Methods
<1>2. CASE ListedHere
  BY <1>2, OpGoesFacts, TakeGoesOn DEF ListedHere, Methods
<1>3. CASE ListedFurther
  <2>1. CASE op.page + 1 < LoadedPages
    <3>0. op.page \in Nat
      BY Typed DEF Call
    <3> DEFINE pg == op.page + 1
    <3>1. pg \in Nat
      BY <3>0
    <3>2. TakeAnswer("loaded", "more") /\ op' = [op EXCEPT !.pc = "loaded", !.page = pg] /\ UNCHANGED outcomes
      BY <1>3, <2>1 DEF ListedFurther
    <3> HIDE DEF pg
    <3>3. /\ op' \in Call /\ op'.pc = "loaded" /\ op'.proxy = op.proxy /\ op'.wrote = op.wrote /\ op'.nudge = op.nudge
      BY <3>1, <3>2, Typed DEF Call, Methods
    <3> QED
      BY <3>2, <3>3, TakeGoesOn DEF Methods
  <2>2. CASE ~(op.page + 1 < LoadedPages)
    BY <1>3, <2>2, TakeReturns DEF ListedFurther, Methods
  <2> QED
    BY <2>1, <2>2
<1>4. CASE NotListed
  BY <1>4, TakeReturns DEF NotListed, Methods
<1>5. CASE queueAdded
  <2>1. TakeAnswer("add", "ok") /\ Returns("accepted")
    BY <1>5 DEF queueAdded
  <2>2. op.wrote /\ proxies[op.proxy].answer = "ok"
    BY <2>1, TakeFacts DEF Methods, TakeAnswer
  <2>3. enqueued[op.nudge] = 1
    BY <2>2 DEF Inv, WireInv
  <2> QED
    BY <2>1, <2>3, TakeReturns DEF Methods
<1>6. ASSUME NEW s \in Statuses, Attached(s)
      PROVE  Inv'
  <2>0. TakeAnswer("resume", s) /\ s # ""
    BY <1>6 DEF Attached, Statuses
  <2>1. CASE op.nudge \notin Nudges
    BY <1>6, <2>0, <2>1, TakeReturns DEF Attached, Methods
  <2>2. CASE op.nudge \in Nudges /\ s = "idle"
    <3>1. OpGoes("add") /\ UNCHANGED outcomes
      BY <1>6, <2>2 DEF Attached
    <3> QED
      BY <2>0, <2>2, <3>1, OpGoesFacts, TakeGoesOn DEF Methods
  <2>3. CASE op.nudge \in Nudges /\ s # "idle"
    <3>1. Returns("unavailable") \/ Returns("busy")
      BY <1>6, <2>3 DEF Attached, Statuses
    <3> QED
      BY <2>0, <3>1, TakeReturns DEF Methods
  <2> QED
    BY <2>1, <2>2, <2>3
<1> QED
  BY <1>1, <1>2, <1>3, <1>4, <1>5, <1>6

\* A request is written: for a nudge that has not left the transport.
LEMMA RequestKeeps ==
  ASSUME Inv, NEW m \in Methods, Request(m)
  PROVE  Inv'
<1>0. op.pc = m /\ UNCHANGED <<host, conn, shut, enqueued, outcomes, probed, wireFaults>>
  BY DEF Request, Pc
<1>1. /\ op.proxy = conn /\ op.proxy \in Proxies /\ ~op.wrote /\ ~shut
      /\ m = "add" => op.nudge \in Nudges
  BY <1>0 DEF Inv, WireInv, Methods
<1> DEFINE x == op.proxy
           w == (m = "add")
           q == [[[proxies[x] EXCEPT !.asked = m] EXCEPT !.by = op.nudge] EXCEPT !.answer = ""]
           o == [op EXCEPT !.pc = "await", !.wrote = w]
<1>2. proxies[x] \in Proxy /\ op.nudge \in Nudges \cup {"none"} /\ w \in BOOLEAN
  BY <1>1, Typed DEF Call
<1>3. proxies' = [proxies EXCEPT ![x] = q] /\ op' = o
  BY <1>1, Typed DEF Request
<1>4. q \in Proxy /\ q.proc = proxies[x].proc /\ q.asked = m /\ q.by = op.nudge /\ q.answer = ""
  BY <1>2 DEF Proxy
<1> HIDE DEF q, w
<1>5. o \in Call /\ o.pc = "await" /\ o.wrote = w /\ o.nudge = op.nudge /\ o.proxy = x
  BY <1>2, Typed DEF Call
<1> HIDE DEF o
<1>6. /\ proxies' \in [Proxies -> Proxy] /\ proxies'[x] = q
      /\ \A p \in Proxies \ {x} : proxies'[p] = proxies[p]
  BY <1>1, <1>3, <1>4, Typed
<1>7. TransportTypeOK'
  BY <1>0, <1>3, <1>5, <1>6 DEF Inv, TransportTypeOK
<1>8. WireInv'
  <2>1. \A p \in Proxies : proxies'[p].asked = "add" => proxies'[p].by \in Nudges
    BY <1>1, <1>4, <1>6 DEF Inv, WireInv
  <2> QED
    BY <1>0, <1>1, <1>3, <1>4, <1>5, <1>6, <2>1 DEF Inv, WireInv, Methods, w
<1>9. NudgeInv'
  <2> SUFFICES ASSUME NEW n \in Nudges
               PROVE  /\ enqueued'[n] <= 1
                      /\ \A p \in Proxies : OnWire(p, n)' => enqueued'[n] = 0 /\ \A y \in Proxies : OnWire(y, n)' => p = y
                      /\ outcomes'[n] = "none" /\ ~(op'.nudge = n /\ op'.wrote) => Clean(n)'
                      /\ outcomes'[n] \in {"busy", "unavailable"} => Clean(n)'
                      /\ outcomes'[n] \in {"accepted", "unconfirmed"} => enqueued'[n] = 1
                      /\ op'.nudge = n /\ op'.wrote => \A p \in Proxies : OnWire(p, n)' => p = op'.proxy
    BY DEF NudgeInv
  <2>1. \A p \in Proxies : OnWire(p, n)' => OnWire(p, n) \/ (p = x /\ m = "add" /\ n = op.nudge)
    BY <1>4, <1>6 DEF OnWire
  <2>2. CASE n = op.nudge
    <3>1. outcomes[n] = "none"
      BY <2>2 DEF Inv, WireInv
    <3>2. enqueued[n] = 0 /\ \A p \in Proxies : ~OnWire(p, n)
      BY <1>1, <3>1 DEF Inv, NudgeInv, Clean
    <3>3. \A p \in Proxies : OnWire(p, n)' => p = x /\ m = "add"
      BY <2>1, <3>2
    <3>4. enqueued'[n] = 0 /\ outcomes'[n] = "none" /\ op'.nudge = n /\ op'.proxy = x /\ op'.wrote = w
      BY <1>0, <1>3, <1>5, <2>2, <3>1, <3>2
    <3>5. m # "add" => Clean(n)'
      BY <3>3, <3>4 DEF Clean
    <3>6. w <=> m = "add"
      BY DEF w
    <3> QED
      BY <3>3, <3>4, <3>5, <3>6
  <2>3. CASE n # op.nudge
    <3>1. \A p \in Proxies : OnWire(p, n)' => OnWire(p, n)
      BY <2>1, <2>3
    <3>2. Clean(n) => Clean(n)'
      BY <1>0, <3>1 DEF Clean
    <3> QED
      BY <1>0, <1>3, <1>5, <2>3, <3>1, <3>2 DEF Inv, NudgeInv
  <2> QED
    BY <2>2, <2>3
<1>10. NoProxyIsLeft'
  <2>1. \A p \in Proxies : proxies'[p].proc = proxies[p].proc
    BY <1>4, <1>6
  <2>2. op.pc # "upgrade"
    BY <1>0 DEF Methods
  <2> QED
    BY <1>0, <2>1, <2>2 DEF Inv, NoProxyIsLeft, Pc
<1> QED
  BY <1>7, <1>8, <1>9, <1>10 DEF Inv

LEMMA RequestStepKeeps ==
  ASSUME Inv, NEW m \in Methods, RequestStep(m)
  PROVE  Inv'
<1>1. CASE Request(m)
  BY <1>1, RequestKeeps
<1>2. CASE RequestUnsent(m)
  <2>1. op.pc = m /\ Fails(m, "dead") /\ UNCHANGED <<host, shut, enqueued, probed, wireFaults>>
    BY <1>2 DEF RequestUnsent, Pc
  <2> QED
    BY <2>1, Typed, FailsKeeps
<1>3. CASE RequestLost(m)
  <2>1. PICK k \in {"cancelled", "dead"} : Fails(m, k)
    BY <1>3 DEF RequestLost
  <2>2. Awaiting(m) /\ UNCHANGED <<host, shut, enqueued, probed>> /\ wireFaults' \in Nat
    BY <1>3, Typed DEF RequestLost, WireMishap
  <2> QED
    BY <2>1, <2>2, FailsKeeps
<1>4. CASE RequestRefused(m)
  <2>1. Awaiting(m) /\ Fails(m, "failed") /\ UNCHANGED <<host, shut, enqueued, probed, wireFaults>>
    BY <1>4 DEF RequestRefused
  <2> QED
    BY <2>1, Typed, FailsKeeps
<1> QED
  BY <1>1, <1>2, <1>3, <1>4 DEF RequestStep

\* The daemon takes the one copy that is on the wire.
LEMMA ServeKeeps ==
  ASSUME Inv, NEW x \in Proxies, Serve(x)
  PROVE  Inv'
<1>0. /\ UNCHANGED <<host, conn, shut, op, outcomes, probed>> /\ wireFaults' \in Nat
      /\ proxies[x].asked \in Methods /\ proxies[x].answer = "" /\ proxies[x] \in Proxy
  BY Typed DEF Serve, WireMishap
<1>1. PICK b \in Statuses \cup {"ok", "listed", "more", "end", "error", "lost"} :
         /\ proxies' = [proxies EXCEPT ![x].answer = b]
         /\ \/ enqueued' = IF proxies[x].asked = "add" THEN [enqueued EXCEPT ![proxies[x].by] = @ + 1] ELSE enqueued
            \/ UNCHANGED enqueued /\ b = "error"
  <2> DEFINE m == proxies[x].asked
             page == IF host.status = "notLoaded" THEN "end" ELSE IF op.page < ListedOn THEN "more" ELSE "listed"
             a == CASE m \in {"initialize", "add"} -> "ok" [] m = "loaded" -> page [] m = "resume" -> host.status
             listening == proxies[x].proc = "running"
  <2>1. \/ /\ enqueued' = IF m = "add" THEN [enqueued EXCEPT ![proxies[x].by] = @ + 1] ELSE enqueued
           /\ proxies' = [proxies EXCEPT ![x].answer = IF listening THEN a ELSE "lost"]
        \/ proxies' = [proxies EXCEPT ![x].answer = "error"] /\ UNCHANGED enqueued
    BY DEF Serve
  <2>2. host.status \in Statuses
    BY Typed DEF HostType
  <2>3. m \in Methods
    BY <1>0
  <2>4. page \in {"end", "more", "listed"}
    OBVIOUS
  <2> HIDE DEF page, m
  <2>5. a \in Statuses \cup {"ok", "listed", "more", "end"}
    BY <2>2, <2>3, <2>4 DEF Methods
  <2> HIDE DEF a
  <2> QED
    BY <2>1, <2>5 DEF m
<1> DEFINE q == [proxies[x] EXCEPT !.answer = b]
<1>2. proxies' = [proxies EXCEPT ![x] = q]
  BY <1>1, Typed
<1>3. /\ q \in Proxy /\ q.proc = proxies[x].proc /\ q.asked = proxies[x].asked /\ q.by = proxies[x].by
      /\ q.answer = b /\ b # ""
  BY <1>0 DEF Proxy, Statuses
<1> HIDE DEF q
<1>4. /\ proxies' \in [Proxies -> Proxy] /\ proxies'[x] = q
      /\ \A p \in Proxies \ {x} : proxies'[p] = proxies[p]
  BY <1>2, <1>3, Typed
<1>5. \A p \in Proxies, n \in Nudges : OnWire(p, n)' <=> OnWire(p, n) /\ p # x
  BY <1>3, <1>4 DEF OnWire
<1>6. enqueued' \in [Nudges -> Nat] /\ \A n \in Nudges :
         \/ enqueued'[n] = enqueued[n] /\ (OnWire(x, n) => b = "error")
         \/ enqueued'[n] = enqueued[n] + 1 /\ OnWire(x, n)
  <2>1. CASE proxies[x].asked = "add"
    <3>1. proxies[x].by \in Nudges
      BY <2>1 DEF Inv, WireInv
    <3>2. \A n \in Nudges : OnWire(x, n) <=> n = proxies[x].by
      BY <1>0, <2>1 DEF OnWire
    <3>3. CASE UNCHANGED enqueued /\ b = "error"
      BY <3>3, Typed
    <3>4. CASE enqueued' = [enqueued EXCEPT ![proxies[x].by] = @ + 1]
      BY <3>1, <3>2, <3>4, Typed
    <3> QED
      BY <1>1, <2>1, <3>3, <3>4
  <2>2. CASE proxies[x].asked # "add"
    BY <1>1, <2>2, Typed DEF OnWire
  <2> QED
    BY <2>1, <2>2
<1>7. TransportTypeOK'
  BY <1>0, <1>4, <1>6 DEF Inv, TransportTypeOK
<1>8. NudgeInv'
  <2> SUFFICES ASSUME NEW n \in Nudges
               PROVE  /\ enqueued'[n] <= 1
                      /\ \A p \in Proxies : OnWire(p, n)' => enqueued'[n] = 0 /\ \A y \in Proxies : OnWire(y, n)' => p = y
                      /\ outcomes[n] = "none" /\ ~(op.nudge = n /\ op.wrote) => Clean(n)'
                      /\ outcomes[n] \in {"busy", "unavailable"} => Clean(n)'
                      /\ outcomes[n] \in {"accepted", "unconfirmed"} => enqueued'[n] = 1
                      /\ op.nudge = n /\ op.wrote => \A p \in Proxies : OnWire(p, n)' => p = op.proxy
    BY <1>0 DEF NudgeInv
  <2>1. CASE OnWire(x, n)
    <3>1. enqueued[n] = 0 /\ (\A p \in Proxies : OnWire(p, n) => p = x) /\ ~Clean(n)
      BY <2>1 DEF Inv, NudgeInv, Clean
    <3>2. \A p \in Proxies : ~OnWire(p, n)'
      BY <1>5, <3>1
    <3>3. enqueued'[n] \in {0, 1}
      BY <1>6, <3>1
    <3> QED
      BY <3>1, <3>2, <3>3 DEF Inv, NudgeInv
  <2>2. CASE ~OnWire(x, n)
    <3>1. enqueued'[n] = enqueued[n] /\ \A p \in Proxies : OnWire(p, n)' <=> OnWire(p, n)
      BY <1>5, <1>6, <2>2
    <3>2. Clean(n)' <=> Clean(n)
      BY <3>1 DEF Clean
    <3> QED
      BY <3>1, <3>2 DEF Inv, NudgeInv
  <2> QED
    BY <2>1, <2>2
<1>9. WireInv'
  <2>1. \A p \in Proxies : proxies'[p].asked = proxies[p].asked /\ proxies'[p].by = proxies[p].by
    BY <1>3, <1>4
  <2>2. op.wrote => op.proxy \in Proxies /\ op.nudge \in Nudges
    BY DEF Inv, WireInv
  <2>3. ASSUME op.wrote, proxies'[op.proxy].answer = "ok"
        PROVE  enqueued'[op.nudge] = 1
    <3>1. op.pc = "await" /\ proxies[op.proxy].asked = "add" /\ proxies[op.proxy].by = op.nudge
      BY <2>3 DEF Inv, WireInv
    <3>2. CASE op.proxy = x
      <4>1. OnWire(x, op.nudge)
        BY <1>0, <3>1, <3>2 DEF OnWire
      <4>2. enqueued[op.nudge] = 0
        BY <2>2, <2>3, <4>1 DEF Inv, NudgeInv
      <4>3. b # "error"
        BY <1>3, <1>4, <2>3, <3>2
      <4> QED
        BY <1>6, <2>2, <2>3, <4>1, <4>2, <4>3
    <3>3. CASE op.proxy # x
      <4>1. ~OnWire(x, op.nudge)
        BY <2>2, <2>3, <3>3 DEF Inv, NudgeInv
      <4>2. enqueued'[op.nudge] = enqueued[op.nudge]
        BY <1>6, <2>2, <2>3, <4>1
      <4>3. proxies[op.proxy].answer = "ok"
        BY <1>4, <2>2, <2>3, <3>3
      <4> QED
        BY <2>3, <4>2, <4>3 DEF Inv, WireInv
    <3> QED
      BY <3>2, <3>3
  <2>4. op.pc = "await" => op.proxy \in Proxies
    BY DEF Inv, WireInv
  <2> QED
    BY <1>0, <2>1, <2>2, <2>3, <2>4 DEF Inv, WireInv
<1>10. NoProxyIsLeft'
  <2>1. \A p \in Proxies : proxies'[p].proc = proxies[p].proc
    BY <1>3, <1>4
  <2> QED
    BY <1>0, <2>1 DEF Inv, NoProxyIsLeft, Pc
<1> QED
  BY <1>7, <1>8, <1>9, <1>10 DEF Inv

\* claude.go: the frame is written once, for a nudge of which nothing had
\* left.
LEMMA ClaudeKeeps ==
  ASSUME Inv, claudeDial \/ claudeDialFails \/ claudePost \/ claudePostFails
  PROVE  Inv'
<1>0. ASSUME op.pc \in {"dial", "write"}
      PROVE  ~op.wrote /\ ~shut /\ \A p \in Proxies : proxies[p].proc = "running" => p = conn
  BY <1>0 DEF Inv, WireInv, NoProxyIsLeft, Pc
<1>1. CASE claudeDial
  <2>1. op.pc = "dial" /\ UNCHANGED <<host, proxies, conn, shut, enqueued, probed, wireFaults>>
    BY <1>1 DEF claudeDial, Pc
  <2>2. Quiet
    BY <2>1 DEF Quiet, Same
  <2>3. CASE \E k \in {"cancelled", "unavailable"} : Returns(k)
    BY <1>0, <2>1, <2>2, <2>3, Typed, ReturnKeeps DEF HostType
  <2>4. CASE op.nudge \notin Nudges /\ Returns("ok")
    BY <1>0, <2>1, <2>2, <2>4, Typed, ReturnKeeps DEF HostType
  <2>5. CASE op.nudge \in Nudges /\ OpGoes("write") /\ UNCHANGED outcomes
    <3>1. op' \in Call /\ op'.pc = "write" /\ op'.nudge = op.nudge /\ op'.wrote = op.wrote
      BY <2>5, OpGoesFacts
    <3> QED
      BY <1>0, <2>1, <2>2, <2>5, <3>1, Typed, GoesOnKeeps DEF HostType, Methods
  <2> QED
    BY <1>1, <2>3, <2>4, <2>5 DEF claudeDial
<1>2. CASE claudeDialFails
  <2>1. /\ op.pc = "dial" /\ UNCHANGED <<host, proxies, conn, shut, enqueued, probed>>
        /\ wireFaults' \in Nat /\ Returns("failed")
    BY <1>2, Typed DEF claudeDialFails, Pc, WireMishap
  <2>2. Quiet
    BY <2>1 DEF Quiet, Same
  <2> QED
    BY <1>0, <2>1, <2>2, Typed, ReturnKeeps DEF HostType
<1>3. ASSUME Pc("write"), UNCHANGED <<host, proxies, conn, shut, probed>>, wireFaults' \in Nat,
             NEW kind \in {"unconfirmed", "failed", "cancelled"}, Returns(kind),
             enqueued' = [enqueued EXCEPT ![op.nudge] = @ + 1]
      PROVE  Inv'
  <2>0. op.pc = "write" /\ op.nudge \in Nudges /\ ~op.wrote /\ ~shut
    BY <1>3 DEF Pc, Inv, WireInv
  <2>1. Clean(op.nudge)
    BY <2>0 DEF Inv, WireInv, NudgeInv
  <2>2. /\ enqueued' \in [Nudges -> Nat] /\ enqueued'[op.nudge] = 1
        /\ \A n \in Nudges \ {op.nudge} : enqueued'[n] = enqueued[n]
    BY <1>3, <2>0, <2>1, Typed DEF Clean
  <2>3. /\ outcomes' \in [Nudges -> Outcomes \cup {"none"}] /\ outcomes'[op.nudge] = kind
        /\ \A n \in Nudges \ {op.nudge} : outcomes'[n] = outcomes[n]
    BY <1>3, <2>0, Typed DEF Returns, Outcomes
  <2>4. op' = NoOp /\ op'.pc = "idle" /\ op'.nudge \notin Nudges /\ ~op'.wrote /\ op' \in Call
    BY <1>3, NoOpFacts, TransportConstants DEF Returns
  <2>5. TransportTypeOK'
    BY <1>3, <2>2, <2>3, <2>4 DEF Inv, TransportTypeOK
  <2>6. WireInv'
    BY <1>3, <2>4, <2>5 DEF Inv, WireInv, Methods
  <2>7. \A p \in Proxies, n \in Nudges : OnWire(p, n)' <=> OnWire(p, n)
    BY <1>3 DEF OnWire
  <2>8. NudgeInv'
    <3> SUFFICES ASSUME NEW n \in Nudges
                 PROVE  /\ enqueued'[n] <= 1
                        /\ \A p \in Proxies : OnWire(p, n)' => enqueued'[n] = 0 /\ \A q \in Proxies : OnWire(q, n)' => p = q
                        /\ outcomes'[n] = "none" => Clean(n)'
                        /\ outcomes'[n] \in {"busy", "unavailable"} => Clean(n)'
                        /\ outcomes'[n] \in {"accepted", "unconfirmed"} => enqueued'[n] = 1
      BY <2>4 DEF NudgeInv
    <3>1. CASE n = op.nudge
      BY <2>1, <2>2, <2>3, <2>7, <3>1 DEF Clean
    <3>2. CASE n # op.nudge
      <4>1. enqueued'[n] = enqueued[n] /\ outcomes'[n] = outcomes[n]
        BY <2>2, <2>3, <3>2
      <4>2. Clean(n)' <=> Clean(n)
        BY <2>7, <4>1 DEF Clean
      <4> QED
        BY <2>0, <2>7, <4>1, <4>2 DEF Inv, NudgeInv
    <3> QED
      BY <3>1, <3>2
  <2>9. NoProxyIsLeft'
    BY <1>0, <1>3, <2>0 DEF Inv, NoProxyIsLeft, Pc
  <2> QED
    BY <2>5, <2>6, <2>8, <2>9 DEF Inv
<1>4. CASE claudePost
  BY <1>3, <1>4, Typed DEF claudePost
<1>5. CASE claudePostFails
  <2>1. PICK k \in {"cancelled", "failed"} : Returns(k)
    BY <1>5 DEF claudePostFails
  <2>2. op.pc = "write" /\ UNCHANGED <<host, proxies, conn, shut, probed>> /\ wireFaults' \in Nat
    BY <1>5, Typed DEF claudePostFails, Pc, WireMishap
  <2>3. CASE UNCHANGED enqueued
    <3>1. Quiet
      BY <2>2 DEF Quiet, Same
    <3> QED
      BY <1>0, <2>1, <2>2, <2>3, <3>1, Typed, ReturnKeeps DEF HostType
  <2>4. CASE enqueued' = [enqueued EXCEPT ![op.nudge] = @ + 1]
    BY <1>3, <2>1, <2>2, <2>4 DEF Pc
  <2> QED
    BY <1>5, <2>3, <2>4 DEF claudePostFails
<1> QED
  BY <1>1, <1>2, <1>4, <1>5

\* The calls, the host and the proxies' goroutines.
LEMMA OthersKeep ==
  ASSUME Inv, \/ \E n \in Nudges : Wake(n)
              \/ Probe \/ Close \/ InvalidTarget \/ CallerGone \/ SessionMoves \/ SocketGone
              \/ \E p \in Proxies : ProxyExits(p) \/ readLoop(p) \/ reapLoop(p)
  PROVE  Inv'
<1>1. ASSUME NEW n \in Nudges, Wake(n)
      PROVE  Inv'
  <2>1. op' \in Call /\ op'.pc = "dial" /\ op'.wrote = NoOp.wrote /\ op'.nudge = n
    BY <1>1, NoOpFacts DEF Wake, Call
  <2> QED
    BY <1>1, <2>1, NoOpFacts, Typed, StartKeeps DEF Wake
<1>2. CASE Probe
  <2>1. op' \in Call /\ op'.pc = "dial" /\ op'.wrote = NoOp.wrote /\ op'.nudge = NoOp.nudge
    BY <1>2, NoOpFacts DEF Probe, Call
  <2>2. probed' \in Nat
    BY <1>2, Typed DEF Probe
  <2> QED
    BY <1>2, <2>1, <2>2, NoOpFacts, TransportConstants, StartKeeps DEF Probe
<1>3. CASE Close
  <2>1. /\ op = NoOp /\ op.pc = "idle" /\ op.nudge \notin Nudges /\ ~op.wrote
        /\ shut' = TRUE /\ conn' = "none" /\ proxies' = Killed(proxies, conn)
        /\ UNCHANGED <<host, op, enqueued, outcomes, probed, wireFaults>>
    BY <1>3, NoOpFacts, TransportConstants DEF Close, Pc, Inv, WireInv
  <2>2. /\ proxies' \in [Proxies -> Proxy] /\ Quiet
        /\ \A p \in Proxies : proxies'[p].proc # "running"
    BY <2>1, Typed, KilledFacts DEF Quiet, Same, Inv, NoProxyIsLeft, Pc
  <2>3. TransportTypeOK'
    BY <2>1, <2>2 DEF Inv, TransportTypeOK
  <2>4. WireInv'
    BY <2>1, <2>2 DEF Inv, WireInv, Quiet, Same, Over, Methods
  <2>5. \A p \in Proxies, n \in Nudges : OnWire(p, n)' <=> OnWire(p, n)
    BY <2>2 DEF OnWire, Quiet, Same, Over
  <2>6. \A n \in Nudges : Clean(n)' <=> Clean(n)
    BY <2>1, <2>5 DEF Clean
  <2>7. NudgeInv'
    BY <2>1, <2>5, <2>6 DEF Inv, NudgeInv
  <2> QED
    BY <2>2, <2>3, <2>4, <2>7 DEF Inv, NoProxyIsLeft
<1>4. CASE InvalidTarget
  <2>1. /\ op.pc = "dial" /\ UNCHANGED <<host, proxies, conn, shut, enqueued, probed>>
        /\ wireFaults' \in Nat /\ Returns("unavailable")
    BY <1>4, Typed DEF InvalidTarget, Pc, WireMishap
  <2>2. Quiet /\ ~op.wrote /\ \A p \in Proxies : proxies'[p].proc = "running" => p = conn' /\ ~shut
    BY <2>1 DEF Quiet, Same, Inv, WireInv, NoProxyIsLeft, Pc
  <2> QED
    BY <2>1, <2>2, Typed, ReturnKeeps DEF HostType
<1>5. CASE CallerGone
  <2>1. /\ op.pc # "idle" /\ UNCHANGED <<host, proxies, conn, shut, enqueued, outcomes, probed>>
        /\ wireFaults' \in Nat
    BY <1>5, Typed DEF CallerGone, Pc, WireMishap
  <2>2. op' \in Call /\ op'.pc = op.pc /\ op'.nudge = op.nudge /\ op'.proxy = op.proxy /\ op'.wrote = op.wrote
    BY <1>5, Typed DEF CallerGone, Call
  <2>3. Quiet /\ (op.proxy \in Proxies => Same(op.proxy))
    BY <2>1 DEF Quiet, Same
  <2> QED
    BY <2>1, <2>2, <2>3, Typed, BystanderKeeps DEF HostType
<1>6. CASE SessionMoves \/ SocketGone
  <2>1. UNCHANGED <<proxies, conn, shut, op, enqueued, outcomes, probed>> /\ wireFaults' \in Nat
    BY <1>6, Typed DEF SessionMoves, SocketGone, WireMishap
  <2>2. host' \in HostType
    BY <1>6, Typed DEF SessionMoves, SocketGone, HostType
  <2>3. Quiet /\ (op.proxy \in Proxies => Same(op.proxy))
    BY <2>1 DEF Quiet, Same
  <2> QED
    BY <2>1, <2>2, <2>3, Typed, BystanderKeeps DEF HostType
<1>7. ASSUME NEW x \in Proxies, ProxyExits(x) \/ readLoop(x)
      PROVE  Inv'
  <2>1. UNCHANGED <<host, conn, shut, op, enqueued, outcomes, probed>> /\ wireFaults' \in Nat
    BY <1>7, Typed DEF ProxyExits, readLoop, WireMishap
  <2>2. PICK q \in Proxy : /\ proxies' = [proxies EXCEPT ![x] = q]
                           /\ q.asked = proxies[x].asked /\ q.by = proxies[x].by /\ q.answer = proxies[x].answer
                           /\ q.proc = "running" => proxies[x].proc = "running"
    <3> DEFINE e == [proxies[x] EXCEPT !.proc = "exited"]
               d == [proxies[x] EXCEPT !.done = TRUE]
    <3>1. proxies[x] \in Proxy
      BY Typed
    <3>2. e \in Proxy /\ e.asked = proxies[x].asked /\ e.by = proxies[x].by /\ e.answer = proxies[x].answer
          /\ e.proc = "exited"
      BY <3>1 DEF Proxy
    <3>3. d \in Proxy /\ d.asked = proxies[x].asked /\ d.by = proxies[x].by /\ d.answer = proxies[x].answer
          /\ d.proc = proxies[x].proc
      BY <3>1 DEF Proxy
    <3>4. proxies' = [proxies EXCEPT ![x] = e] \/ proxies' = [proxies EXCEPT ![x] = d]
      BY <1>7, Typed DEF ProxyExits, readLoop
    <3> HIDE DEF e, d
    <3> QED
      BY <3>2, <3>3, <3>4
  <2>3. /\ proxies' \in [Proxies -> Proxy] /\ Quiet /\ (op.proxy \in Proxies => Same(op.proxy))
        /\ \A p \in Proxies : proxies'[p].proc = "running" => proxies[p].proc = "running"
    BY <2>2, Typed DEF Quiet, Same
  <2> QED
    BY <2>1, <2>3, Typed, BystanderKeeps DEF HostType
<1>8. ASSUME NEW x \in Proxies, reapLoop(x)
      PROVE  Inv'
  <2>1. /\ UNCHANGED <<host, conn, shut, op, enqueued, outcomes, probed, wireFaults>>
        /\ x # op.proxy /\ (proxies[x].asked = "" \/ proxies[x].answer # "")
        /\ proxies' = [proxies EXCEPT ![x] = NoProxy]
    BY <1>8 DEF reapLoop
  <2>2. /\ proxies' \in [Proxies -> Proxy]
        /\ \A p \in Proxies : proxies'[p].proc = "running" => proxies[p].proc = "running"
    BY <2>1, Typed, NoProxyFacts
  <2>3. Quiet /\ (op.proxy \in Proxies => Same(op.proxy))
    BY <2>1, Typed, NoProxyFacts DEF Quiet, Same, Over
  <2> QED
    BY <2>1, <2>2, <2>3, Typed, BystanderKeeps DEF HostType
<1> QED
  BY <1>1, <1>2, <1>3, <1>4, <1>5, <1>6, <1>7, <1>8

-----------------------------------------------------------------------------

LEMMA InvInit == TransportInit => Inv
<1> SUFFICES ASSUME TransportInit PROVE Inv
  OBVIOUS
<1>1. /\ op = NoOp /\ op.pc = "idle" /\ op.nudge \notin Nudges /\ ~op.wrote /\ op \in Call
      /\ proxies = [p \in Proxies |-> NoProxy]
  BY NoOpFacts, TransportConstants DEF TransportInit
<1>2. TransportTypeOK
  BY <1>1, NoProxyFacts DEF TransportInit, TransportTypeOK, Statuses
<1>3. \A p \in Proxies : proxies[p].proc # "running" /\ proxies[p].asked = ""
  BY <1>1, NoProxyFacts
<1>4. WireInv
  BY <1>1, <1>3 DEF WireInv, Methods
<1>5. NudgeInv
  <2>1. \A n \in Nudges : enqueued[n] = 0 /\ outcomes[n] = "none"
    BY DEF TransportInit
  <2>2. \A p \in Proxies, n \in Nudges : ~OnWire(p, n)
    BY <1>3 DEF OnWire
  <2>3. \A n \in Nudges : Clean(n)
    BY <2>1, <2>2 DEF Clean
  <2> QED
    BY <2>1, <2>2, <2>3 DEF NudgeInv
<1> QED
  BY <1>2, <1>3, <1>4, <1>5 DEF Inv, NoProxyIsLeft

LEMMA InvNext == ASSUME Inv, [TransportNext]_wakeCallVars PROVE Inv'
<1>1. CASE OpStep
  BY <1>1, DialKeeps, AnswersKeep, ClaudeKeeps, RequestStepKeeps DEF OpStep
<1>2. ASSUME NEW p \in Proxies, Serve(p)
      PROVE  Inv'
  BY <1>2, ServeKeeps
<1>3. CASE UNCHANGED wakeCallVars
  <2>1. UNCHANGED <<host, proxies, conn, shut, op, enqueued, outcomes, probed, wireFaults>>
    BY <1>3 DEF wakeCallVars
  <2>2. Quiet /\ (op.proxy \in Proxies => Same(op.proxy))
    BY <2>1 DEF Quiet, Same
  <2> QED
    BY <2>1, <2>2, Typed, BystanderKeeps DEF HostType
<1> QED
  BY <1>1, <1>2, <1>3, OthersKeep DEF TransportNext

\* The session, the proxies and the call always have their types.
THEOREM TransportTypeCorrect == TransportSpec => []TransportTypeOK
<1>1. Inv => TransportTypeOK
  BY DEF Inv
<1> QED
  BY <1>1, InvInit, InvNext, PTL DEF TransportSpec

\* Wake: a nudge reaches the host at most once, whatever is lost, late or
\* retried; it has when Wake says so, and it never does when Wake says busy
\* or unavailable; and a proxy process that runs has an owner.  For any
\* number of nudges, proxies, pages and faults.
THEOREM WakeIsHonest == TransportSpec => []TransportSafety
<1>1. Inv => TransportSafety
  BY DEF Inv, NudgeInv, Clean, TransportSafety, OutcomesAreHonest
<1> QED
  BY <1>1, InvInit, InvNext, PTL DEF TransportSpec

-----------------------------------------------------------------------------
(* NativeWake: induction over a sequence of attempts *)

\* A set of numbers that has zero and every successor has all numbers.
LEMMA AllNumbers ==
    ASSUME NEW T, 0 \in T, \A n \in Nat : n \in T => n + 1 \in T
    PROVE  \A n \in Nat : n \in T
<1> DEFINE U == {n \in Nat : n \notin T}
<1> SUFFICES ASSUME U # {} PROVE FALSE
  OBVIOUS
<1>1. PICK n \in U : \A m \in U : ~(<<m, n>> \in OpToRel(<, Nat))
  <2>1. U \subseteq Nat
    OBVIOUS
  <2> HIDE DEF U
  <2> QED
    BY <2>1, WFMin, NatLessThanWellFounded
<1>2. n \in Nat /\ n # 0 /\ n - 1 \in Nat /\ (n - 1) + 1 = n
  <2>1. n \in Nat /\ n \notin T
    OBVIOUS
  <2>2. n # 0
    BY <2>1
  <2> QED
    BY <2>1, <2>2
<1>3. <<n - 1, n>> \in OpToRel(<, Nat)
  BY <1>2 DEF OpToRel
<1>4. n - 1 \in T
  BY <1>1, <1>2, <1>3
<1> QED
  BY <1>1, <1>2, <1>4

\* What pruneAttempts keeps of the first n attempts: nothing of none, and one more or the same for each.
KeptOne(v, kept) == IF v > 1 THEN Append(kept, v - 1) ELSE kept
Kept(s, n, f) == f = [i \in 0..n |-> IF i = 0 THEN <<>> ELSE KeptOne(s[i], f[i-1])]

\* The two sequences begin alike.
Begins(s, t, n) == \A i \in 1..n : s[i] = t[i]

\* The recursion is well founded.
LEMMA KeptExists ==
    ASSUME NEW s
    PROVE  \A n \in Nat : \E f : Kept(s, n, f)
<1> DEFINE T == {n \in Nat : \E f : Kept(s, n, f)}
<1>1. 0 \in T
  <2> DEFINE f == [i \in 0..0 |-> <<>>]
  <2>1. f = [i \in 0..0 |-> IF i = 0 THEN <<>> ELSE KeptOne(s[i], f[i-1])]
    OBVIOUS
  <2> QED
    BY <2>1 DEF Kept
<1>2. ASSUME NEW n \in Nat, n \in T PROVE n + 1 \in T
  <2>1. PICK f : Kept(s, n, f)
    BY <1>2
  <2> DEFINE g == [i \in 0..(n+1) |-> IF i = 0 THEN <<>> ELSE KeptOne(s[i], f[i-1])]
  <2>2. \A i \in 0..n : g[i] = f[i]
    BY <2>1 DEF Kept
  <2>3. \A i \in 0..(n+1) : i = 0 \/ i - 1 \in 0..n
    OBVIOUS
  <2>4. g = [i \in 0..(n+1) |-> IF i = 0 THEN <<>> ELSE KeptOne(s[i], g[i-1])]
    BY <2>2, <2>3
  <2>5. \E h : Kept(s, n + 1, h)
    BY <2>4 DEF Kept
  <2> QED
    BY <2>5
<1>3. \A n \in Nat : n \in T
  <2> HIDE DEF T
  <2> QED
    BY <1>1, <1>2, AllNumbers
<1> QED
  BY <1>3

\* Sequences that begin alike keep the same of what they begin with.
LEMMA KeptAgree ==
    \A s, t, f, g : \A N, M \in Nat : Kept(s, N, f) /\ Kept(t, M, g) /\ N <= M /\ Begins(s, t, N) => f[N] = g[N]
<1> SUFFICES ASSUME NEW s, NEW t, NEW f, NEW g, NEW N \in Nat, NEW M \in Nat, Kept(s, N, f), Kept(t, M, g),
                    N <= M, Begins(s, t, N)
             PROVE  f[N] = g[N]
  OBVIOUS
<1>0. \A i \in 1..N : s[i] = t[i]
  BY DEF Begins
<1> DEFINE T == {n \in Nat : n <= N => f[n] = g[n]}
<1>1. 0 \in T
  BY DEF Kept
<1>2. ASSUME NEW n \in Nat, n \in T PROVE n + 1 \in T
  <2> SUFFICES ASSUME n + 1 <= N PROVE f[n+1] = g[n+1]
    OBVIOUS
  <2>1. f[n] = g[n] /\ n + 1 \in 0..N /\ n + 1 \in 0..M /\ n + 1 # 0 /\ (n + 1) - 1 = n /\ s[n+1] = t[n+1]
    BY <1>0, <1>2
  <2>2. f[n+1] = KeptOne(s[n+1], f[n])
    BY <2>1 DEF Kept
  <2>3. g[n+1] = KeptOne(t[n+1], g[n])
    BY <2>1 DEF Kept
  <2> QED
    BY <2>1, <2>2, <2>3
<1>3. \A n \in Nat : n \in T
  <2> HIDE DEF T
  <2> QED
    BY <1>1, <1>2, AllNumbers
<1> QED
  BY <1>3

\* What AgedSeq computes.
LEMMA AgedIs ==
    ASSUME NEW s, Len(s) \in Nat
    PROVE  \E f : Kept(s, Len(s), f) /\ AgedSeq(s) = f[Len(s)]
<1>1. \E f : Kept(s, Len(s), f)
  BY KeptExists
<1> QED
  BY <1>1 DEF AgedSeq, Kept, KeptOne

\* Ageing nothing, and ageing one attempt more.
LEMMA AgedEmpty == AgedSeq(<<>>) = <<>>
<1>1. PICK f : Kept(<<>>, Len(<<>>), f) /\ AgedSeq(<<>>) = f[Len(<<>>)]
  BY AgedIs
<1> QED
  BY <1>1 DEF Kept

\* The last attempt is kept, a tick older, when it has more than one tick left.
LEMMA AgedAppend ==
    ASSUME NEW S, NEW s \in Seq(S), NEW v \in S
    PROVE  AgedSeq(Append(s, v)) = KeptOne(v, AgedSeq(s))
<1> DEFINE t == Append(s, v)
<1>1. /\ t \in Seq(S) /\ Len(t) = Len(s) + 1 /\ Len(s) \in Nat /\ t[Len(s)+1] = v
      /\ \A i \in 1..Len(s) : s[i] = t[i]
  OBVIOUS
<1> HIDE DEF t
<1>2. PICK f : Kept(s, Len(s), f) /\ AgedSeq(s) = f[Len(s)]
  BY <1>1, AgedIs
<1>3. PICK g : Kept(t, Len(t), g) /\ AgedSeq(t) = g[Len(t)]
  BY <1>1, AgedIs
<1>4. f[Len(s)] = g[Len(s)]
  <2>1. Len(s) \in Nat /\ Len(t) \in Nat /\ Len(s) <= Len(t)
    BY <1>1
  <2>2. Begins(s, t, Len(s))
    BY <1>1 DEF Begins
  <2> QED
    BY <1>2, <1>3, <2>1, <2>2, KeptAgree
<1>5. g[Len(t)] = KeptOne(v, g[Len(s)])
  BY <1>1, <1>3 DEF Kept
<1> QED
  BY <1>2, <1>3, <1>4, <1>5 DEF t

\* A set of sequences that has the empty one and every longer one has all of them.
LEMMA AllAttempts ==
    ASSUME NEW S, NEW T, <<>> \in T, \A s \in Seq(S), v \in S : s \in T => Append(s, v) \in T
    PROVE  \A s \in Seq(S) : s \in T
<1> DEFINE N == {n \in Nat : \A s \in Seq(S) : Len(s) = n => s \in T}
<1>1. 0 \in N
  BY EmptySeq
<1>2. ASSUME NEW n \in Nat, n \in N PROVE n + 1 \in N
  <2> SUFFICES ASSUME NEW s \in Seq(S), Len(s) = n + 1 PROVE s \in T
    OBVIOUS
  <2>1. s # <<>>
    OBVIOUS
  <2>2. PICK u \in Seq(S), v \in S : s = Append(u, v)
    BY <2>1, SequenceEmptyOrAppend
  <2>3. Len(u) = n
    BY <2>2
  <2> QED
    BY <1>2, <2>2, <2>3
<1>3. \A n \in Nat : n \in N
  <2> HIDE DEF N
  <2> QED
    BY <1>1, <1>2, AllNumbers
<1> QED
  BY <1>3

\* How many attempts have at least t ticks left.
CountFrom(s, t) == Cardinality({i \in 1..Len(s) : s[i] >= t})

\* Counting in the empty sequence, and with one attempt more.
LEMMA CountEmpty == \A t : CountFrom(<<>>, t) = 0
<1>1. ASSUME NEW t PROVE {i \in 1..Len(<<>>) : <<>>[i] >= t} = {}
  OBVIOUS
<1> QED
  BY <1>1, FS_EmptySet DEF CountFrom

\* A count is a number, and no more than all of them.
LEMMA CountType ==
    ASSUME NEW S, NEW s \in Seq(S), NEW t
    PROVE  CountFrom(s, t) \in Nat /\ CountFrom(s, t) <= Len(s) /\ IsFiniteSet({i \in 1..Len(s) : s[i] >= t})
<1> DEFINE I == {i \in 1..Len(s) : s[i] >= t}
<1>1. I \subseteq 1..Len(s) /\ Len(s) \in Nat
  OBVIOUS
<1> HIDE DEF I
<1>2. IsFiniteSet(1..Len(s)) /\ Cardinality(1..Len(s)) = Len(s)
  <2>1. \A n \in Nat : IsFiniteSet(1..n) /\ Cardinality(1..n) = n
    <3> SUFFICES ASSUME NEW n \in Nat PROVE IsFiniteSet(1..n) /\ Cardinality(1..n) = n
      OBVIOUS
    <3>1. 1 \in Int /\ n \in Int
      OBVIOUS
    <3>2. /\ IsFiniteSet(1..n)
          /\ Cardinality(1..n) = IF 1 > n THEN 0 ELSE n - 1 + 1
      BY <3>1, FS_Interval
    <3> QED
      BY <3>2
  <2> QED
    BY <1>1, <2>1
<1>3. IsFiniteSet(I) /\ Cardinality(I) <= Cardinality(1..Len(s))
  BY <1>1, <1>2, FS_Subset
<1>4. Cardinality(I) \in Nat
  BY <1>3, FS_CardinalityType
<1> QED
  BY <1>2, <1>3, <1>4 DEF CountFrom, I

\* One attempt more counts when it has t ticks left.
LEMMA CountAppend ==
    ASSUME NEW s \in Seq(Nat), NEW v \in Nat, NEW t \in Nat
    PROVE  CountFrom(Append(s, v), t) = CountFrom(s, t) + (IF v >= t THEN 1 ELSE 0)
<1> DEFINE I == {i \in 1..Len(s) : s[i] >= t}
           u == Append(s, v)
           J == {i \in 1..Len(u) : u[i] >= t}
<1>1. Len(u) = Len(s) + 1 /\ u[Len(s) + 1] = v /\ Len(s) \in Nat /\ \A i \in 1..Len(s) : u[i] = s[i]
  OBVIOUS
<1>2. J = IF v >= t THEN I \cup {Len(s) + 1} ELSE I
  BY <1>1
<1>3. Len(s) + 1 \notin I
  BY <1>1
<1>4. IsFiniteSet(I) /\ Cardinality(I) \in Nat
  BY CountType DEF CountFrom
<1>5. CountFrom(s, t) = Cardinality(I) /\ CountFrom(u, t) = Cardinality(J)
  BY DEF CountFrom
<1> HIDE DEF I, J, u
<1>6. Cardinality(I \cup {Len(s) + 1}) = Cardinality(I) + 1
  BY <1>3, <1>4, FS_AddElement
<1> QED
  BY <1>2, <1>4, <1>5, <1>6 DEF u

\* Ageing leaves attempts of the window.
LEMMA AgedType == ASSUME NEW s \in Seq(Life) PROVE AgedSeq(s) \in Seq(Life)
<1> DEFINE T == {x \in Seq(Life) : AgedSeq(x) \in Seq(Life)}
<1>1. <<>> \in T
  <2>1. <<>> \in Seq(Life)
    OBVIOUS
  <2> QED
    BY <2>1, AgedEmpty
<1>2. ASSUME NEW x \in Seq(Life), NEW v \in Life, x \in T PROVE Append(x, v) \in T
  <2>1. AgedSeq(Append(x, v)) = KeptOne(v, AgedSeq(x))
    BY AgedAppend
  <2>2. v > 1 => v - 1 \in Life
    BY WakeConstants DEF Life
  <2>3. AgedSeq(x) \in Seq(Life) /\ Append(x, v) \in Seq(Life)
    BY <1>2
  <2>4. AgedSeq(Append(x, v)) \in Seq(Life)
    BY <2>1, <2>2, <2>3 DEF KeptOne
  <2> QED
    BY <2>3, <2>4
<1>3. \A x \in Seq(Life) : x \in T
  <2> HIDE DEF T
  <2> QED
    BY <1>1, <1>2, AllAttempts
<1> QED
  BY <1>3

\* A tick later, as many attempts have t ticks left as had t + 1 before.
LEMMA CountAged ==
    ASSUME NEW s \in Seq(Life), NEW t \in Nat \ {0}
    PROVE  CountFrom(AgedSeq(s), t) = CountFrom(s, t + 1)
<1> DEFINE T == {x \in Seq(Life) : CountFrom(AgedSeq(x), t) = CountFrom(x, t + 1)}
<1>1. <<>> \in T
  BY AgedEmpty, CountEmpty
<1>2. ASSUME NEW x \in Seq(Life), NEW v \in Life, x \in T PROVE Append(x, v) \in T
  <2>0. Life \subseteq Nat
    BY WakeConstants DEF Life
  <2>1. AgedSeq(Append(x, v)) = KeptOne(v, AgedSeq(x))
    BY AgedAppend
  <2>2. AgedSeq(x) \in Seq(Life) /\ Append(x, v) \in Seq(Life)
    BY AgedType
  <2>3. AgedSeq(x) \in Seq(Nat) /\ x \in Seq(Nat) /\ v \in Nat
    BY <2>0, <2>2, SeqMonotonic
  <2>4. CountFrom(Append(x, v), t + 1) = CountFrom(x, t + 1) + (IF v >= t + 1 THEN 1 ELSE 0)
    BY <2>3, CountAppend
  <2>5. CountFrom(AgedSeq(x), t) = CountFrom(x, t + 1) /\ CountFrom(x, t + 1) \in Nat
    BY <1>2, CountType
  <2>6. CASE v > 1
    <3>1. v - 1 \in Nat
      BY <2>3, <2>6
    <3>2. CountFrom(Append(AgedSeq(x), v - 1), t) = CountFrom(AgedSeq(x), t) + (IF v - 1 >= t THEN 1 ELSE 0)
      BY <2>3, <3>1, CountAppend
    <3>3. AgedSeq(Append(x, v)) = Append(AgedSeq(x), v - 1)
      BY <2>1, <2>6 DEF KeptOne
    <3>4. v - 1 >= t <=> v >= t + 1
      BY <2>3
    <3>5. CountFrom(AgedSeq(Append(x, v)), t) = CountFrom(Append(x, v), t + 1)
      BY <2>4, <2>5, <3>2, <3>3, <3>4
    <3> QED
      BY <2>2, <3>5
  <2>7. CASE ~(v > 1)
    <3>1. AgedSeq(Append(x, v)) = AgedSeq(x) /\ ~(v >= t + 1)
      BY <2>1, <2>3, <2>7 DEF KeptOne
    <3>2. CountFrom(AgedSeq(Append(x, v)), t) = CountFrom(Append(x, v), t + 1)
      BY <2>4, <2>5, <3>1
    <3> QED
      BY <2>2, <3>2
  <2> QED
    BY <2>6, <2>7
<1>3. \A x \in Seq(Life) : x \in T
  <2> HIDE DEF T
  <2> QED
    BY <1>1, <1>2, AllAttempts
<1> QED
  BY <1>3

\* Every attempt has a tick left, so counting from one counts them all.
LEMMA CountAll == ASSUME NEW s \in Seq(Life) PROVE CountFrom(s, 1) = Len(s)
<1> DEFINE T == {x \in Seq(Life) : CountFrom(x, 1) = Len(x)}
<1>1. <<>> \in T
  BY CountEmpty
<1>2. ASSUME NEW x \in Seq(Life), NEW v \in Life, x \in T PROVE Append(x, v) \in T
  <2>1. x \in Seq(Nat) /\ v \in Nat /\ v >= 1
    BY WakeConstants, SeqMonotonic DEF Life
  <2>2. CountFrom(Append(x, v), 1) = CountFrom(x, 1) + 1
    BY <2>1, CountAppend
  <2>3. CountFrom(x, 1) = Len(x) /\ Append(x, v) \in Seq(Life) /\ Len(Append(x, v)) = Len(x) + 1
    BY <1>2
  <2> QED
    BY <2>2, <2>3
<1>3. \A x \in Seq(Life) : x \in T
  <2> HIDE DEF T
  <2> QED
    BY <1>1, <1>2, AllAttempts
<1> QED
  BY <1>3

\* Ageing never lengthens, and what bounds the attempts bounds them a tick later.
LEMMA AgedBounds ==
    ASSUME NEW s \in Seq(Life), NEW b \in Nat, \A i \in 1..Len(s) : s[i] <= b
    PROVE  /\ Len(AgedSeq(s)) <= Len(s)
           /\ \A i \in 1..Len(AgedSeq(s)) : AgedSeq(s)[i] <= Aged(b)
           /\ b = 0 => s = <<>>
<1> DEFINE T == {x \in Seq(Life) : /\ Len(AgedSeq(x)) <= Len(x)
                                   /\ (\A i \in 1..Len(x) : x[i] <= b) => \A i \in 1..Len(AgedSeq(x)) : AgedSeq(x)[i] <= Aged(b)}
<1>1. <<>> \in T
  BY AgedEmpty
<1>2. ASSUME NEW x \in Seq(Life), NEW v \in Life, x \in T PROVE Append(x, v) \in T
  <2> DEFINE u == Append(x, v)
             y == AgedSeq(x)
             z == AgedSeq(u)
  <2>1. z = KeptOne(v, y)
    BY AgedAppend
  <2>2. y \in Seq(Life) /\ u \in Seq(Life) /\ Len(u) = Len(x) + 1 /\ u[Len(x) + 1] = v /\ \A i \in 1..Len(x) : u[i] = x[i]
    BY AgedType
  <2>3. Len(y) <= Len(x) /\ ((\A i \in 1..Len(x) : x[i] <= b) => \A i \in 1..Len(y) : y[i] <= Aged(b))
    BY <1>2
  <2>4. v \in Nat
    BY WakeConstants DEF Life
  <2> HIDE DEF y, z, u
  <2>5. Len(z) <= Len(u)
    BY <2>1, <2>2, <2>3 DEF KeptOne
  <2>6. ASSUME \A i \in 1..Len(u) : u[i] <= b
        PROVE  \A i \in 1..Len(z) : z[i] <= Aged(b)
    <3>1. v <= b /\ \A i \in 1..Len(x) : x[i] <= b
      <4>1. Len(x) \in Nat
        OBVIOUS
      <4>2. Len(x) + 1 \in 1..Len(u) /\ \A i \in 1..Len(x) : i \in 1..Len(u)
        BY <2>2, <4>1
      <4> QED
        BY <2>2, <2>6, <4>2
    <3>2. \A i \in 1..Len(y) : y[i] <= Aged(b)
      BY <2>3, <3>1
    <3>3. CASE v > 1
      <4>1. z = Append(y, v - 1) /\ v - 1 <= Aged(b)
        BY <2>1, <2>4, <3>1, <3>3 DEF KeptOne, Aged
      <4>2. v - 1 \in Life
        BY WakeConstants, <3>3 DEF Life
      <4>3. Len(z) = Len(y) + 1 /\ z[Len(y) + 1] = v - 1 /\ \A i \in 1..Len(y) : z[i] = y[i]
        BY <2>2, <4>1, <4>2
      <4>4. \A i \in 1..Len(z) : i = Len(y) + 1 \/ i \in 1..Len(y)
        BY <2>2, <4>3
      <4> QED
        BY <3>2, <4>1, <4>3, <4>4
    <3>4. CASE ~(v > 1)
      BY <2>1, <3>2, <3>4 DEF KeptOne
    <3> QED
      BY <3>3, <3>4
  <2>7. u \in T
    BY <2>2, <2>5, <2>6 DEF z
  <2> QED
    BY <2>7 DEF u
<1>3. \A x \in Seq(Life) : x \in T
  <2> HIDE DEF T
  <2> QED
    BY <1>1, <1>2, AllAttempts
<1>4. ASSUME b = 0 PROVE s = <<>>
  <2>1. SUFFICES ASSUME s # <<>> PROVE FALSE
    OBVIOUS
  <2>2. 1 \in 1..Len(s) /\ s[1] \in Life
    BY <2>1
  <2> QED
    BY <1>4, <2>2, WakeConstants DEF Life
<1> QED
  BY <1>3, <1>4

-----------------------------------------------------------------------------
(* NativeWake: types *)

\* Where a hook subprocess is.
CallerPc == {"idle", "decide", "mint", "point", "spawn", "record", "restore", "leave", "stop", "teardown"}
\* Where a caller has the lifecycle lock.
Inside == CallerPc \ {"idle", "stop"}
ListenerPc == {"none", "start", "lock", "boot", "loop", "gate", "reserve", "wake", "schedule"}
\* Where a listener has the lock of the budget.
Active == ListenerPc \ {"none", "start", "lock"}

\* The records of the model, field by field.
AnyEndpoint == Endpoints \cup {NoEndpoint}
Due == -1..(WakeWindow + Cooldown)
CallerRecord == [pc : CallerPc, endpoint : AnyEndpoint, old : Record, alive : BOOLEAN, gen : 0..Gens]
Listener == [pc : ListenerPc, proof : BOOLEAN, mem : Budget, hint : BOOLEAN, due : Due,
             linked : BOOLEAN, scan : SUBSET Mail, since : 0..WakeWindow, stop : BOOLEAN]
Directory == [markers : SUBSET Gen, current : 0..Gens, record : Record, locked : BOOLEAN]
StateFile == [disk : Budget, holder : 0..Gens]

\* The types in the form in which a step keeps them.
WakeTypes ==
    /\ dir \in Directory
    /\ caller \in [Callers -> CallerRecord]
    /\ ledger \in StateFile
    /\ worker \in [Gen -> Listener]
    /\ mail \in [Mail -> {"unsent", "unread", "leased", "read"}]
    /\ nudged \in Seq(Life)
    /\ pardons \in [Gen -> Nat]
    /\ wakeMishaps \in 0..WakeFaults

\* At most one member.
AtMostOne(S) == \A g, h \in S : g = h

\* The lifecycle lock: one caller inside, who finds no marker once it has cancelled, and mints a generation
\* that no listener has; what it may restore is a generation.
LockInv ==
    /\ \A c \in Callers : caller[c].pc \in Inside => dir.locked
    /\ \A c, d \in Callers : caller[c].pc \in Inside /\ caller[d].pc \in Inside => c = d
    /\ \A c \in Callers : caller[c].pc \in {"mint", "restore"} => dir.markers = {}
    /\ \A c \in Callers : caller[c].pc \in {"point", "spawn"} => caller[c].gen \in Gen /\ worker[caller[c].gen].pc = "none"
    /\ \A c \in Callers : caller[c].pc \in {"mint", "point", "spawn", "restore"} /\ caller[c].alive => caller[c].old.gen \in Gen
    /\ \A c \in Callers : caller[c].pc = "restore" => caller[c].alive
    /\ AtMostOne(dir.markers)

\* A listener with its marker, or past its look at it, has not been pardoned.
SilenceInv ==
    \A g \in Gen : /\ g \in dir.markers \/ worker[g].pc \in {"reserve", "wake"} => pardons[g] = 0
                   /\ pardons[g] <= 1

\* The lock of the budget is held by the one active listener.
HolderInv == \A g \in Gen : worker[g].pc \in Active <=> ledger.holder = g

-----------------------------------------------------------------------------
(* Records of the callers and the listeners *)

\* What the constants are.
LEMMA WakeNumbers ==
    /\ Mails \in Nat /\ MaxWakes \in Nat /\ LogBudget \in Nat /\ WakeFaults \in Nat
    /\ Gens \in Nat \ {0} /\ WakeWindow \in Nat \ {0} /\ Cooldown \in Nat \ {0}
    /\ 0 \notin Gen /\ Gen \subseteq 0..Gens /\ Gen \subseteq Nat
    /\ Cooldown <= WakeWindow
  BY WakeConstants DEF Gen

\* The records of a process that starts.
LEMMA NewFacts ==
    /\ NoBudget \in Budget /\ NoBudget.attempts = <<>> /\ NoRecord \in Record
    /\ NewWorker \in Listener /\ NewWorker.pc = "none"
    /\ NewCaller \in CallerRecord /\ NewCaller.pc = "idle"
<1>1. NoBudget \in Budget /\ NoBudget.attempts = <<>>
  BY WakeNumbers DEF NoBudget, Budget
<1>2. NoRecord \in Record
  BY WakeNumbers DEF NoRecord, Record
<1>3. NewWorker \in Listener /\ NewWorker.pc = "none"
  <2>1. -1 \in Due /\ 0 \in 0..WakeWindow
    BY WakeNumbers DEF Due
  <2> QED
    BY <1>1, <2>1 DEF NewWorker, Listener, ListenerPc
<1>4. NewCaller \in CallerRecord /\ NewCaller.pc = "idle"
  BY <1>2, WakeNumbers DEF NewCaller, CallerRecord, CallerPc, AnyEndpoint
<1> QED
  BY <1>1, <1>2, <1>3, <1>4

\* A budget, changed where the actions change it.
LEMMA BudgetFacts ==
    ASSUME NEW b \in Budget
    PROVE  /\ AgedBudget(b) \in Budget /\ AgedBudget(b).attempts = AgedSeq(b.attempts)
           /\ b.attempts \in Seq(Life) /\ b.print \in SUBSET Mail /\ b.cool \in 0..Cooldown
           /\ \A s \in Seq(Life) : [b EXCEPT !.attempts = s] \in Budget /\ [b EXCEPT !.attempts = s].attempts = s
           /\ \A p \in SUBSET Mail, c \in 0..Cooldown :
                [b EXCEPT !.print = p, !.cool = c] \in Budget /\ [b EXCEPT !.print = p, !.cool = c].attempts = b.attempts
<1>1. b.attempts \in Seq(Life) /\ b.print \in SUBSET Mail /\ b.cool \in 0..Cooldown
  BY DEF Budget
<1>2. AgedSeq(b.attempts) \in Seq(Life) /\ Aged(b.cool) \in 0..Cooldown
  BY <1>1, AgedType, WakeNumbers DEF Aged
<1>3. AgedBudget(b) = [b EXCEPT !.attempts = AgedSeq(b.attempts), !.cool = Aged(b.cool)]
  BY DEF AgedBudget
<1>4. \A s \in Seq(Life), c \in 0..Cooldown :
        [b EXCEPT !.attempts = s, !.cool = c] \in Budget /\ [b EXCEPT !.attempts = s, !.cool = c].attempts = s
  BY DEF Budget
<1>5. \A s \in Seq(Life) : [b EXCEPT !.attempts = s] \in Budget /\ [b EXCEPT !.attempts = s].attempts = s
  BY DEF Budget
<1>6. \A p \in SUBSET Mail, c \in 0..Cooldown :
        [b EXCEPT !.print = p, !.cool = c] \in Budget /\ [b EXCEPT !.print = p, !.cool = c].attempts = b.attempts
  BY DEF Budget
<1>7. AgedBudget(b) \in Budget /\ AgedBudget(b).attempts = AgedSeq(b.attempts)
  <2> DEFINE s == AgedSeq(b.attempts)
             c == Aged(b.cool)
  <2> HIDE DEF s, c
  <2>1. s \in Seq(Life) /\ c \in 0..Cooldown /\ AgedBudget(b) = [b EXCEPT !.attempts = s, !.cool = c]
    BY <1>2, <1>3 DEF s, c
  <2>2. AgedBudget(b) \in Budget /\ AgedBudget(b).attempts = s
    BY <2>1, <1>4
  <2> QED
    BY <2>2 DEF s
<1> QED
  BY <1>1, <1>5, <1>6, <1>7

\* What a listener reserves and what it gets back.
LEMMA ReservedFacts ==
    ASSUME NEW w \in Listener
    PROVE  /\ Reserved(w) \in Budget
           /\ Reserved(w).attempts = IF w.since > 0 THEN Append(w.mem.attempts, w.since) ELSE w.mem.attempts
           /\ Refunded(w) \in Budget
           /\ w.mem.attempts = <<>> => Refunded(w).attempts = <<>>
           /\ \A s \in Seq(Life), v \in Life : w.mem.attempts = Append(s, v) => Refunded(w).attempts = s
<1>1. w.mem \in Budget /\ w.since \in 0..WakeWindow /\ w.mem.attempts \in Seq(Life)
  BY BudgetFacts DEF Listener
<1>2. w.since > 0 => w.since \in Life
  BY <1>1, WakeNumbers DEF Life
<1>3. (IF w.since > 0 THEN Append(w.mem.attempts, w.since) ELSE w.mem.attempts) \in Seq(Life)
  BY <1>1, <1>2
<1>4. Reserved(w) = [w.mem EXCEPT !.attempts = IF w.since > 0 THEN Append(w.mem.attempts, w.since) ELSE w.mem.attempts]
  BY DEF Reserved
<1> DEFINE back == IF w.mem.attempts = <<>> THEN w.mem.attempts ELSE Front(w.mem.attempts)
<1>5. Refunded(w) = [w.mem EXCEPT !.attempts = back]
  BY DEF Refunded
<1>6. back \in Seq(Life)
  BY <1>1 DEF Front
<1>7. Refunded(w) \in Budget /\ Refunded(w).attempts = back
  <2> HIDE DEF back
  <2>1. \A s \in Seq(Life) : [w.mem EXCEPT !.attempts = s] \in Budget /\ [w.mem EXCEPT !.attempts = s].attempts = s
    BY <1>1, BudgetFacts
  <2> QED
    BY <1>5, <1>6, <2>1
<1>8. ASSUME NEW s \in Seq(Life), NEW v \in Life, w.mem.attempts = Append(s, v)
      PROVE  back = s
  <2>1. Append(s, v) # <<>> /\ Front(Append(s, v)) = s
    BY DEF Front
  <2> QED
    BY <1>8, <2>1
<1>9. /\ Reserved(w) \in Budget
      /\ Reserved(w).attempts = IF w.since > 0 THEN Append(w.mem.attempts, w.since) ELSE w.mem.attempts
  <2> DEFINE more == IF w.since > 0 THEN Append(w.mem.attempts, w.since) ELSE w.mem.attempts
  <2> HIDE DEF more
  <2>1. \A s \in Seq(Life) : [w.mem EXCEPT !.attempts = s] \in Budget /\ [w.mem EXCEPT !.attempts = s].attempts = s
    BY <1>1, BudgetFacts
  <2>2. more \in Seq(Life) /\ Reserved(w) = [w.mem EXCEPT !.attempts = more]
    BY <1>3, <1>4 DEF more
  <2>3. Reserved(w) \in Budget /\ Reserved(w).attempts = more
    BY <2>1, <2>2
  <2> QED
    BY <2>3 DEF more
<1> QED
  BY <1>7, <1>8, <1>9

\* fetchUnread returns mail.
LEMMA FetchFacts == FetchUnread \in SUBSET Mail
<1>1. UnreadMail \subseteq Mail /\ Page \subseteq Mail
  BY DEF UnreadMail, Page
<1>2. \A k : LogScan(k) \subseteq Mail
  BY <1>1 DEF LogScan
<1>3. LogHits \subseteq Mail
  BY <1>2 DEF LogHits
<1> QED
  BY <1>1, <1>3 DEF FetchUnread

\* The nearer of the two ends that scheduleMaintenance looks at.
LEMMA MinFacts ==
    ASSUME NEW S, S \subseteq Nat, S # {}
    PROVE  Min(S) \in S
<1>1. \E x \in S : \A y \in S : ~(<<y, x>> \in OpToRel(<, Nat))
  BY WFMin, NatLessThanWellFounded
<1>2. PICK x \in S : \A y \in S : ~(<<y, x>> \in OpToRel(<, Nat))
  BY <1>1
<1>3. \A y \in S : x <= y
  <2> SUFFICES ASSUME NEW y \in S PROVE x <= y
    OBVIOUS
  <2>1. ~(<<y, x>> \in OpToRel(<, Nat))
    BY <1>2
  <2>2. ~(y < x)
    BY <2>1 DEF OpToRel
  <2> QED
    BY <2>2
<1> QED
  BY <1>3 DEF Min

-----------------------------------------------------------------------------
(* Every step keeps the types *)

\* A caller's record, changed where the actions change it.
LEMMA CallerFacts ==
    ASSUME NEW c \in CallerRecord
    PROVE  /\ c.pc \in CallerPc /\ c.endpoint \in AnyEndpoint /\ c.old \in Record /\ c.alive \in BOOLEAN /\ c.gen \in 0..Gens
           /\ \A p \in CallerPc : [c EXCEPT !.pc = p] \in CallerRecord
           /\ \A p \in CallerPc, g \in 0..Gens : [c EXCEPT !.pc = p, !.gen = g] \in CallerRecord
           /\ \A p \in CallerPc, r \in Record, a \in BOOLEAN : [c EXCEPT !.pc = p, !.old = r, !.alive = a] \in CallerRecord
           /\ \A p \in CallerPc, e \in AnyEndpoint : [c EXCEPT !.pc = p, !.endpoint = e] \in CallerRecord
           /\ [c EXCEPT !.old.young = FALSE] \in CallerRecord
<1>1. c.pc \in CallerPc /\ c.endpoint \in AnyEndpoint /\ c.old \in Record /\ c.alive \in BOOLEAN /\ c.gen \in 0..Gens
  BY DEF CallerRecord
<1>2. [c.old EXCEPT !.young = FALSE] \in Record
  BY <1>1 DEF Record
<1>3. \A r \in Record : [c EXCEPT !.old = r] \in CallerRecord
  BY DEF CallerRecord
<1>4. [c EXCEPT !.old.young = FALSE] = [c EXCEPT !.old = [c.old EXCEPT !.young = FALSE]]
  OBVIOUS
<1>5. [c EXCEPT !.old.young = FALSE] \in CallerRecord
  BY <1>2, <1>3, <1>4
<1> QED
  BY <1>1, <1>5 DEF CallerRecord

\* The state directory, changed where the actions change it.
LEMMA DirFacts ==
    ASSUME NEW d \in Directory
    PROVE  /\ d.markers \in SUBSET Gen /\ d.current \in 0..Gens /\ d.record \in Record /\ d.locked \in BOOLEAN
           /\ \A l \in BOOLEAN : [d EXCEPT !.locked = l] \in Directory
           /\ \A m \in SUBSET Gen : [d EXCEPT !.markers = m] \in Directory
           /\ \A g \in 0..Gens : [d EXCEPT !.current = g] \in Directory
           /\ \A m \in SUBSET Gen, g \in 0..Gens, r \in Record : [d EXCEPT !.markers = m, !.current = g, !.record = r] \in Directory
           /\ \A r \in Record, l \in BOOLEAN : [d EXCEPT !.record = r, !.locked = l] \in Directory
           /\ [d EXCEPT !.record.young = FALSE] \in Directory
<1>1. d.markers \in SUBSET Gen /\ d.current \in 0..Gens /\ d.record \in Record /\ d.locked \in BOOLEAN
  BY DEF Directory
<1>2. [d.record EXCEPT !.young = FALSE] \in Record
  BY <1>1 DEF Record
<1>3. \A r \in Record : [d EXCEPT !.record = r] \in Directory
  BY DEF Directory
<1>4. [d EXCEPT !.record.young = FALSE] = [d EXCEPT !.record = [d.record EXCEPT !.young = FALSE]]
  OBVIOUS
<1>5. [d EXCEPT !.record.young = FALSE] \in Directory
  BY <1>2, <1>3, <1>4
<1> QED
  BY <1>1, <1>5 DEF Directory

\* wakeWorkerRunning says so only of a generation.
LEMMA RunningFacts ==
    ASSUME NEW rec \in Record, Running(rec)
    PROVE  rec.gen \in Gen
  BY WakeNumbers DEF Running, Record, Gen

\* A lifecycle action leaves the types.
LEMMA LifecycleTypes ==
    ASSUME WakeTypes, NEW c \in Callers,
           (\E e \in AnyEndpoint : EnsureListener(c, e) \/ Stop(c, e)) \/ LifecycleStep(c) \/ CallerDies(c),
           caller[c].pc = "restore" => caller[c].old.gen \in Gen
    PROVE  WakeTypes'
<1> USE DEF CallerAt
<1>0. /\ caller[c] \in CallerRecord /\ dir \in Directory /\ dir.record \in Record /\ NewCaller \in CallerRecord /\ NoRecord \in Record
      /\ {} \in SUBSET Gen /\ 0 \in 0..Gens /\ Gen \subseteq 0..Gens
  <2>1. caller[c] \in CallerRecord /\ dir \in Directory
    BY DEF WakeTypes
  <2>2. dir.record \in Record
    BY <2>1, DirFacts
  <2>3. {} \in SUBSET Gen /\ 0 \in 0..Gens /\ Gen \subseteq 0..Gens
    BY WakeNumbers
  <2> QED
    BY <2>1, <2>2, <2>3, NewFacts
<1>m. ASSUME WakeMishap \/ UNCHANGED wakeMishaps PROVE wakeMishaps' \in 0..WakeFaults
  BY <1>m, WakeNumbers DEF WakeMishap, WakeTypes
<1>c. ASSUME CancelAll PROVE dir' \in Directory /\ worker' \in [Gen -> Listener]
  <2>1. dir' \in Directory
    BY <1>c, <1>0, DirFacts DEF CancelAll
  <2>2. \A w \in Listener : [w EXCEPT !.proof = FALSE] \in Listener
    BY DEF Listener
  <2>3. worker' \in [Gen -> Listener]
    BY <1>c, <2>2 DEF CancelAll, WakeTypes
  <2> QED
    BY <2>1, <2>3
<1>p. {"teardown", "decide", "mint", "point", "spawn", "record", "restore", "leave", "stop", "idle"} \subseteq CallerPc
  BY DEF CallerPc
<1>1. ASSUME NEW e \in AnyEndpoint, EnsureListener(c, e) PROVE WakeTypes'
  <2>1. dir' \in Directory
    BY <1>1, <1>0, DirFacts DEF EnsureListener
  <2>2. caller' \in [Callers -> CallerRecord]
    <3> DEFINE p == IF e = NoEndpoint THEN "teardown" ELSE "decide"
    <3>1. p \in CallerPc
      BY <1>p
    <3>2. [NewCaller EXCEPT !.endpoint = e, !.pc = p] \in CallerRecord
      BY <1>0, <3>1 DEF CallerRecord
    <3>3. caller' = [caller EXCEPT ![c] = [NewCaller EXCEPT !.endpoint = e, !.pc = p]]
      BY <1>1 DEF EnsureListener
    <3> HIDE DEF p
    <3> QED
      BY <3>2, <3>3 DEF WakeTypes
  <2> QED
    BY <1>1, <1>m, <2>1, <2>2 DEF EnsureListener, WakeTypes, Smooth
<1>2. ASSUME NEW e \in AnyEndpoint, Stop(c, e) PROVE WakeTypes'
  <2>1. [NewCaller EXCEPT !.pc = "stop", !.endpoint = e] \in CallerRecord
    BY <1>0, <1>p, CallerFacts
  <2>2. caller' \in [Callers -> CallerRecord]
    BY <1>2, <2>1 DEF Stop, WakeTypes
  <2> QED
    BY <1>2, <1>m, <2>2 DEF Stop, WakeTypes
<1>3. CASE KeepListener(c) \/ Leave(c)
  <2>1. dir' \in Directory /\ caller' \in [Callers -> CallerRecord]
    BY <1>3, <1>0, DirFacts DEF KeepListener, Leave, WakeTypes
  <2> QED
    BY <1>3, <2>1 DEF KeepListener, Leave, WakeTypes
<1>4. CASE SupersedeListener(c)
  <2>1. Running(dir.record) \in BOOLEAN
    BY DEF Running
  <2>2. [caller[c] EXCEPT !.pc = "mint", !.old = dir.record, !.alive = Running(dir.record)] \in CallerRecord
    BY <1>0, <1>p, <2>1, CallerFacts
  <2>3. caller' \in [Callers -> CallerRecord]
    BY <1>4, <2>2 DEF SupersedeListener, WakeTypes
  <2> QED
    BY <1>4, <1>c, <2>3 DEF SupersedeListener, WakeTypes
<1>5. CASE Mint(c)
  <2>1. PICK g \in Gen : /\ dir' = [dir EXCEPT !.markers = dir.markers \cup {g}]
                         /\ caller' = [caller EXCEPT ![c] = [caller[c] EXCEPT !.pc = "point", !.gen = g]]
                         /\ pardons' = [pardons EXCEPT ![g] = 0]
    BY <1>5 DEF Mint
  <2>2. dir.markers \cup {g} \in SUBSET Gen /\ g \in 0..Gens
    BY <1>0, DirFacts
  <2>3. dir' \in Directory
    BY <1>0, <2>1, <2>2, DirFacts
  <2>4. caller' \in [Callers -> CallerRecord]
    BY <1>0, <1>p, <2>1, <2>2, CallerFacts DEF WakeTypes
  <2> QED
    BY <1>5, <2>1, <2>3, <2>4 DEF Mint, WakeTypes
<1>6. CASE Point(c)
  <2>1. caller[c].gen \in 0..Gens
    BY <1>0, CallerFacts
  <2>2. dir' \in Directory
    BY <1>6, <1>0, <2>1, DirFacts DEF Point
  <2>3. caller' \in [Callers -> CallerRecord]
    BY <1>6, <1>0, <1>p, CallerFacts DEF Point, WakeTypes
  <2> QED
    BY <1>6, <2>2, <2>3 DEF Point, WakeTypes
<1>7. CASE Spawn(c)
  <2>1. [NewWorker EXCEPT !.pc = "start"] \in Listener
    BY NewFacts DEF Listener, ListenerPc
  <2>2. worker' \in [Gen -> Listener]
    BY <1>7, <2>1 DEF Spawn, WakeTypes
  <2>3. caller' \in [Callers -> CallerRecord]
    BY <1>7, <1>0, <1>p, CallerFacts DEF Spawn, WakeTypes
  <2> QED
    BY <1>7, <2>2, <2>3 DEF Spawn, WakeTypes
<1>8. CASE WriteRecord(c)
  <2>1. [gen |-> caller[c].gen, endpoint |-> caller[c].endpoint, young |-> TRUE] \in Record
    BY <1>0, CallerFacts DEF Record, AnyEndpoint
  <2>2. dir' \in Directory
    BY <1>8, <1>0, <2>1, DirFacts DEF WriteRecord
  <2>3. caller' \in [Callers -> CallerRecord]
    BY <1>8, <1>0 DEF WriteRecord, WakeTypes
  <2> QED
    BY <1>8, <2>2, <2>3 DEF WriteRecord, WakeTypes
<1>9. CASE SpawnFails(c)
  <2>1. caller' \in [Callers -> CallerRecord]
    BY <1>9, <1>0, <1>p, CallerFacts DEF SpawnFails, WakeTypes
  <2> QED
    BY <1>9, <1>c, <1>m, <2>1 DEF SpawnFails, WakeTypes
<1>10. CASE Restore(c)
  <2>1. caller[c].old \in Record /\ caller[c].old.gen \in Gen /\ caller[c].old.gen \in 0..Gens
    BY <1>10, <1>0, CallerFacts DEF Restore
  <2>2. dir.markers \cup {caller[c].old.gen} \in SUBSET Gen
    BY <1>0, <2>1, DirFacts
  <2>3. dir' \in Directory
    BY <1>10, <1>0, <2>1, <2>2, DirFacts DEF Restore
  <2>4. caller' \in [Callers -> CallerRecord]
    BY <1>10, <1>0, <1>p, CallerFacts DEF Restore, WakeTypes
  <2> QED
    BY <1>10, <2>3, <2>4 DEF Restore, WakeTypes
<1>11. CASE StopLocks(c)
  <2>1. dir' \in Directory /\ caller' \in [Callers -> CallerRecord]
    BY <1>11, <1>0, <1>p, DirFacts, CallerFacts DEF StopLocks, WakeTypes
  <2> QED
    BY <1>11, <2>1 DEF StopLocks, WakeTypes
<1>12. CASE Teardown(c)
  <2>1. caller' \in [Callers -> CallerRecord]
    BY <1>12, <1>0, <1>p, CallerFacts DEF Teardown, WakeTypes
  <2> QED
    BY <1>12, <1>c, <2>1 DEF Teardown, WakeTypes
<1>13. CASE CallerDies(c)
  <2>1. dir' \in Directory
    BY <1>13, <1>0, DirFacts DEF CallerDies
  <2>2. caller' \in [Callers -> CallerRecord]
    BY <1>13, <1>0 DEF CallerDies, WakeTypes
  <2> QED
    BY <1>13, <1>m, <2>1, <2>2 DEF CallerDies, WakeTypes
<1> QED
  BY <1>1, <1>2, <1>3, <1>4, <1>5, <1>6, <1>7, <1>8, <1>9, <1>10, <1>11, <1>12, <1>13 DEF LifecycleStep

\* A listener's record, changed where the actions change it.
LEMMA ListenerFacts ==
    ASSUME NEW w \in Listener
    PROVE  /\ w.pc \in ListenerPc /\ w.mem \in Budget /\ w.due \in Due /\ w.scan \in SUBSET Mail /\ w.since \in 0..WakeWindow
           /\ w.hint \in BOOLEAN /\ w.linked \in BOOLEAN /\ w.stop \in BOOLEAN
           /\ w.mem.attempts \in Seq(Life) /\ w.mem.cool \in 0..Cooldown
           /\ -1 \in Due /\ 0 \in Due
<1>1. /\ w.pc \in ListenerPc /\ w.mem \in Budget /\ w.due \in Due /\ w.scan \in SUBSET Mail /\ w.since \in 0..WakeWindow
      /\ w.hint \in BOOLEAN /\ w.linked \in BOOLEAN /\ w.stop \in BOOLEAN
  BY DEF Listener
<1>2. w.mem.attempts \in Seq(Life) /\ w.mem.cool \in 0..Cooldown
  BY <1>1, BudgetFacts
<1>3. -1 \in Due /\ 0 \in Due
  BY WakeNumbers DEF Due
<1> QED
  BY <1>1, <1>2, <1>3

\* What an action of listener g leaves to be shown.
LEMMA ListenerLeaves ==
    ASSUME WakeTypes, NEW g \in Gen, NEW w \in Listener, Put(g, w), ledger' \in StateFile, UNCHANGED <<dir, caller, mail>>,
           nudged' \in Seq(Life), pardons' \in [Gen -> Nat], WakeMishap \/ UNCHANGED wakeMishaps
    PROVE  WakeTypes'
<1>1. worker' \in [Gen -> Listener]
  BY DEF Put, WakeTypes
<1>2. wakeMishaps' \in 0..WakeFaults
  BY WakeNumbers DEF WakeMishap, WakeTypes
<1> QED
  BY <1>1, <1>2 DEF WakeTypes

\* The end of a listener keeps the types.
LEMMA EndTypes ==
    ASSUME WakeTypes, NEW g \in Gen, EndWorker(g), UNCHANGED <<dir, caller, mail, nudged, pardons>>,
           WakeMishap \/ UNCHANGED wakeMishaps
    PROVE  WakeTypes'
<1>1. ledger' \in StateFile
  <2>1. ledger \in StateFile /\ ledger.holder \in 0..Gens /\ 0 \in 0..Gens
    BY WakeNumbers DEF WakeTypes, StateFile
  <2>2. \A h \in 0..Gens : [ledger EXCEPT !.holder = h] \in StateFile
    BY <2>1 DEF StateFile
  <2> DEFINE h == IF ledger.holder = g THEN 0 ELSE ledger.holder
  <2>3. h \in 0..Gens /\ ledger' = [ledger EXCEPT !.holder = h]
    BY <2>1 DEF EndWorker
  <2> HIDE DEF h
  <2> QED
    BY <2>2, <2>3
<1>2. Put(g, NewWorker)
  BY DEF EndWorker
<1>3. nudged' \in Seq(Life) /\ pardons' \in [Gen -> Nat]
  BY DEF WakeTypes
<1> QED
  BY <1>1, <1>2, <1>3, NewFacts, ListenerLeaves

\* A nudge that reaches the host is an attempt of the window.
LEMMA ReachesTypes ==
    ASSUME WakeTypes, NEW g \in Gen, Reaches(g) \/ UNCHANGED <<nudged, pardons>>
    PROVE  nudged' \in Seq(Life) /\ pardons' \in [Gen -> Nat]
<1>1. worker[g].since \in 0..WakeWindow
  BY ListenerFacts DEF WakeTypes
<1>2. worker[g].since > 0 => worker[g].since \in Life
  BY <1>1, WakeNumbers DEF Life
<1>3. nudged' \in Seq(Life)
  BY <1>2 DEF Reaches, WakeTypes
<1>4. pardons' \in [Gen -> Nat]
  BY DEF Reaches, WakeTypes
<1> QED
  BY <1>3, <1>4

\* A save of the state file after the handoff.
LEMMA SaveTypes ==
    ASSUME WakeTypes, NEW m \in Budget, SaveBestEffort(m)
    PROVE  ledger' \in StateFile /\ (WakeMishap \/ UNCHANGED wakeMishaps)
<1>1. \A l \in StateFile : [l EXCEPT !.disk = m] \in StateFile
  BY DEF StateFile
<1> QED
  BY <1>1 DEF SaveBestEffort, WakeTypes, Smooth

\* A listener's action leaves the types.
LEMMA ListenerTypes ==
    ASSUME WakeTypes, NEW g \in Gen,
           \/ ListenerStep(g) \/ WatchControl(g) \/ ProbeFails(g) \/ StreamOpens(g)
           \/ StreamBreaks(g) \/ ReconcileTick(g) \/ WorkerDies(g),
           worker[g].pc = "schedule" => MaxWakes > 0
    PROVE  WakeTypes'
<1> USE DEF WorkerAt, Smooth
<1>0. worker[g] \in Listener /\ ledger \in StateFile /\ ledger.disk \in Budget
  <2>1. worker[g] \in Listener /\ ledger \in StateFile
    BY DEF WakeTypes
  <2> QED
    BY <2>1 DEF StateFile
<1>s. nudged \in Seq(Life) /\ pardons \in [Gen -> Nat]
  BY DEF WakeTypes
<1>f. /\ worker[g].pc \in ListenerPc /\ worker[g].mem \in Budget /\ worker[g].due \in Due /\ worker[g].scan \in SUBSET Mail
      /\ worker[g].since \in 0..WakeWindow /\ worker[g].mem.attempts \in Seq(Life) /\ worker[g].mem.cool \in 0..Cooldown
      /\ -1 \in Due /\ 0 \in Due
  BY <1>0, ListenerFacts
<1>p. {"none", "start", "lock", "boot", "loop", "gate", "reserve", "wake", "schedule"} \subseteq ListenerPc
  BY DEF ListenerPc
<1>1. CASE Begin(g)
  <2>1. [worker[g] EXCEPT !.pc = "lock", !.proof = TRUE] \in Listener
    BY <1>0, <1>p DEF Listener
  <2>2. CASE ControlOK(g)
    BY <1>1, <1>0, <1>s, <2>1, <2>2, ListenerLeaves DEF Begin
  <2>3. CASE ~ControlOK(g)
    BY <1>1, <2>3, EndTypes DEF Begin
  <2> QED
    BY <2>2, <2>3
<1>2. CASE TakeLedger(g)
  <2>1. [worker[g] EXCEPT !.pc = "boot", !.mem = ledger.disk] \in Listener
    BY <1>0, <1>p DEF Listener
  <2>2. ledger' \in StateFile
    BY <1>2, <1>0, WakeNumbers DEF TakeLedger, StateFile
  <2> QED
    BY <1>2, <1>s, <2>1, <2>2, ListenerLeaves DEF TakeLedger
<1>3. CASE GiveUp(g) \/ ProbeFails(g) \/ Cancelled(g) \/ WorkerDies(g)
  BY <1>3, EndTypes DEF GiveUp, ProbeFails, Cancelled, WorkerDies
<1>4. CASE Boot(g)
  <2>1. [worker[g] EXCEPT !.pc = "loop", !.hint = TRUE] \in Listener
    BY <1>0, <1>p DEF Listener
  <2> QED
    BY <1>4, <1>0, <1>s, <2>1, ListenerLeaves DEF Boot
<1>5. CASE WatchControl(g)
  <2>1. [worker[g] EXCEPT !.stop = TRUE] \in Listener
    BY <1>0 DEF Listener
  <2> QED
    BY <1>5, <1>0, <1>s, <2>1, ListenerLeaves DEF WatchControl
<1>6. CASE StreamOpens(g) \/ StreamBreaks(g) \/ ReconcileTick(g)
  <2>1. /\ [worker[g] EXCEPT !.linked = TRUE, !.hint = TRUE] \in Listener
        /\ [worker[g] EXCEPT !.linked = FALSE] \in Listener
        /\ [worker[g] EXCEPT !.hint = TRUE] \in Listener
    BY <1>0 DEF Listener
  <2> QED
    BY <1>6, <1>0, <1>s, <2>1, ListenerLeaves DEF StreamOpens, StreamBreaks, ReconcileTick
<1>7. ASSUME NEW byTimer \in BOOLEAN, Scan(g, byTimer) PROVE WakeTypes'
  <2> DEFINE w == IF byTimer THEN [worker[g] EXCEPT !.due = -1] ELSE [worker[g] EXCEPT !.hint = FALSE]
  <2>1. w \in Listener
    BY <1>0, <1>f DEF Listener
  <2>2. /\ UNCHANGED <<dir, caller, ledger, mail, nudged, pardons>>
        /\ \/ UNCHANGED wakeMishaps /\ Put(g, IF FetchUnread = {} THEN w ELSE [w EXCEPT !.pc = "gate", !.scan = FetchUnread])
           \/ WakeMishap /\ Put(g, [w EXCEPT !.due = 0])
    BY <1>7 DEF Scan
  <2> HIDE DEF w
  <2>3. [w EXCEPT !.pc = "gate", !.scan = FetchUnread] \in Listener /\ [w EXCEPT !.due = 0] \in Listener
    BY <2>1, <1>f, <1>p, FetchFacts DEF Listener
  <2> QED
    BY <1>0, <1>s, <2>1, <2>2, <2>3, ListenerLeaves
<1>8. CASE Gate(g)
  <2>1. /\ [worker[g] EXCEPT !.pc = "schedule", !.scan = {}] \in Listener
        /\ [worker[g] EXCEPT !.pc = "reserve", !.since = WakeWindow] \in Listener
    <3>1. WakeWindow \in 0..WakeWindow /\ {} \in SUBSET Mail
      BY WakeNumbers
    <3> QED
      BY <1>0, <1>p, <3>1 DEF Listener
  <2>2. /\ UNCHANGED <<dir, caller, mail, nudged, pardons, wakeMishaps>>
        /\ \/ Put(g, [worker[g] EXCEPT !.pc = "schedule", !.scan = {}]) /\ UNCHANGED ledger
           \/ Put(g, [worker[g] EXCEPT !.pc = "reserve", !.since = WakeWindow]) /\ UNCHANGED ledger
           \/ EndWorker(g)
    BY <1>8 DEF Gate
  <2> QED
    BY <1>0, <1>s, <2>1, <2>2, ListenerLeaves, EndTypes
<1>9. CASE ReserveAttempt(g)
  <2> DEFINE mem == Reserved(worker[g])
  <2>1. mem \in Budget
    BY <1>0, ReservedFacts
  <2>2. /\ UNCHANGED <<dir, caller, mail, nudged, pardons>>
        /\ \/ /\ UNCHANGED wakeMishaps
              /\ ledger' = [ledger EXCEPT !.disk = mem]
              /\ Put(g, [worker[g] EXCEPT !.pc = "wake", !.mem = mem])
           \/ /\ WakeMishap
              /\ Put(g, [worker[g] EXCEPT !.pc = "loop", !.mem = mem, !.due = 0, !.scan = {}])
              /\ UNCHANGED ledger
    BY <1>9 DEF ReserveAttempt
  <2> HIDE DEF mem
  <2>3. /\ [worker[g] EXCEPT !.pc = "wake", !.mem = mem] \in Listener
        /\ [worker[g] EXCEPT !.pc = "loop", !.mem = mem, !.due = 0, !.scan = {}] \in Listener
    BY <1>0, <1>f, <1>p, <2>1 DEF Listener
  <2>4. [ledger EXCEPT !.disk = mem] \in StateFile
    BY <1>0, <2>1 DEF StateFile
  <2> QED
    BY <1>0, <1>s, <2>2, <2>3, <2>4, ListenerLeaves
<1>10. CASE WakeAccepted(g)
  <2> DEFINE cool == Cooldown - (WakeWindow - worker[g].since)
             left == IF cool > 0 THEN cool ELSE 0
             mem == [worker[g].mem EXCEPT !.print = worker[g].scan, !.cool = left]
  <2>1. left \in 0..Cooldown
    <3>1. \A n \in 0..WakeWindow : (IF Cooldown - (WakeWindow - n) > 0 THEN Cooldown - (WakeWindow - n) ELSE 0) \in 0..Cooldown
      BY WakeNumbers
    <3> QED
      BY <1>f, <3>1
  <2>2. /\ UNCHANGED <<dir, caller, mail>> /\ Reaches(g) /\ SaveBestEffort(mem)
        /\ Put(g, [worker[g] EXCEPT !.pc = "schedule", !.mem = mem, !.scan = {}])
    BY <1>10 DEF WakeAccepted
  <2> HIDE DEF left
  <2>3. mem \in Budget
    BY <1>f, <2>1, BudgetFacts
  <2> HIDE DEF mem
  <2>4. [worker[g] EXCEPT !.pc = "schedule", !.mem = mem, !.scan = {}] \in Listener
    BY <1>0, <1>p, <2>3 DEF Listener
  <2>5. ledger' \in StateFile /\ (WakeMishap \/ UNCHANGED wakeMishaps)
    BY <2>2, <2>3, SaveTypes
  <2>6. nudged' \in Seq(Life) /\ pardons' \in [Gen -> Nat]
    BY <2>2, ReachesTypes
  <2> QED
    BY <2>2, <2>4, <2>5, <2>6, ListenerLeaves
<1>11. CASE WakeBusy(g)
  <2> DEFINE mem == Refunded(worker[g])
  <2>1. mem \in Budget
    BY <1>0, ReservedFacts
  <2>2. /\ UNCHANGED <<dir, caller, mail, nudged, pardons>> /\ SaveBestEffort(mem)
        /\ Put(g, [worker[g] EXCEPT !.pc = "loop", !.mem = mem, !.due = 0, !.scan = {}])
    BY <1>11 DEF WakeBusy
  <2> HIDE DEF mem
  <2>3. [worker[g] EXCEPT !.pc = "loop", !.mem = mem, !.due = 0, !.scan = {}] \in Listener
    BY <1>0, <1>f, <1>p, <2>1 DEF Listener
  <2>4. ledger' \in StateFile /\ (WakeMishap \/ UNCHANGED wakeMishaps)
    BY <2>1, <2>2, SaveTypes
  <2> QED
    BY <1>s, <2>2, <2>3, <2>4, ListenerLeaves
<1>12. CASE WakeUnavailable(g)
  <2>1. Refunded(worker[g]) \in Budget
    BY <1>0, ReservedFacts
  <2>2. ledger' \in StateFile
    BY <1>12, <1>0, <2>1, WakeNumbers DEF WakeUnavailable, StateFile
  <2> QED
    BY <1>12, <1>s, <2>2, NewFacts, ListenerLeaves DEF WakeUnavailable
<1>13. CASE WakeAmbiguous(g)
  <2>1. [worker[g] EXCEPT !.pc = "loop", !.due = 0, !.scan = {}] \in Listener
    BY <1>0, <1>f, <1>p DEF Listener
  <2>2. nudged' \in Seq(Life) /\ pardons' \in [Gen -> Nat]
    BY <1>13, ReachesTypes DEF WakeAmbiguous
  <2> QED
    BY <1>13, <1>0, <2>1, <2>2, ListenerLeaves DEF WakeAmbiguous
<1>14. CASE ScheduleMaintenance(g)
  <2> DEFINE mem == worker[g].mem
             ahead == (IF mem.cool > 0 THEN {mem.cool} ELSE {})
                      \cup (IF Len(mem.attempts) >= MaxWakes THEN {mem.attempts[1]} ELSE {})
             due == IF ahead = {} THEN worker[g].due ELSE Min(ahead)
  <2>1. Put(g, [worker[g] EXCEPT !.pc = "loop", !.due = due])
    BY <1>14 DEF ScheduleMaintenance
  <2>2. ahead \subseteq 0..WakeWindow
    <3>1. MaxWakes > 0
      BY <1>14 DEF ScheduleMaintenance
    <3>2. Len(mem.attempts) >= MaxWakes => mem.attempts[1] \in Life
      BY <1>f, <3>1, WakeNumbers
    <3>3. mem.cool \in 0..WakeWindow /\ Life \subseteq 0..WakeWindow
      BY <1>f, WakeNumbers DEF Life
    <3> QED
      BY <3>2, <3>3
  <2>3. due \in Due
    <3> HIDE DEF ahead
    <3>1. ahead # {} => Min(ahead) \in ahead
      BY <2>2, MinFacts, WakeNumbers
    <3>2. 0..WakeWindow \subseteq Due
      BY WakeNumbers DEF Due
    <3> QED
      BY <1>f, <2>2, <3>1, <3>2
  <2> HIDE DEF due
  <2>4. [worker[g] EXCEPT !.pc = "loop", !.due = due] \in Listener
    BY <1>0, <1>p, <2>3 DEF Listener
  <2> QED
    BY <1>14, <1>0, <1>s, <2>1, <2>4, ListenerLeaves DEF ScheduleMaintenance
<1> QED
  BY <1>1, <1>2, <1>3, <1>4, <1>5, <1>6, <1>7, <1>8, <1>9, <1>10, <1>11, <1>12, <1>13, <1>14 DEF ListenerStep

\* The rest of the steps: mail, and the clock.
LEMMA AroundTypes ==
    ASSUME WakeTypes, (\E m \in Mail : MailArrives(m) \/ HookReads(m)) \/ WakeTick
    PROVE  WakeTypes'
<1>1. ASSUME NEW m \in Mail, MailArrives(m) PROVE WakeTypes'
  <2>1. \A w \in Listener : [w EXCEPT !.hint = w.hint \/ w.linked] \in Listener
    BY DEF Listener
  <2>2. worker' = [g \in Gen |-> [worker[g] EXCEPT !.hint = worker[g].hint \/ worker[g].linked]]
    BY <1>1 DEF MailArrives
  <2>3. worker' \in [Gen -> Listener]
    BY <2>1, <2>2 DEF WakeTypes
  <2> QED
    BY <1>1, <2>3 DEF MailArrives, WakeTypes
<1>2. ASSUME NEW m \in Mail, HookReads(m) PROVE WakeTypes'
  <2>1. mail' \in [Mail -> {"unsent", "unread", "leased", "read"}]
    BY <1>2 DEF HookReads, WakeTypes
  <2> QED
    BY <1>2, <2>1 DEF HookReads, WakeTypes
<1>3. CASE WakeTick
  <2>1. \A w \in Listener : [w EXCEPT !.mem = AgedBudget(w.mem), !.due = Aged(w.due), !.since = Aged(w.since)] \in Listener
    <3> SUFFICES ASSUME NEW w \in Listener
                 PROVE  [w EXCEPT !.mem = AgedBudget(w.mem), !.due = Aged(w.due), !.since = Aged(w.since)] \in Listener
      OBVIOUS
    <3>1. w.mem \in Budget /\ w.due \in Due /\ w.since \in 0..WakeWindow
      BY ListenerFacts
    <3>2. AgedBudget(w.mem) \in Budget
      BY <3>1, BudgetFacts
    <3>3. Aged(w.due) \in Due /\ Aged(w.since) \in 0..WakeWindow
      BY <3>1, WakeNumbers DEF Aged, Due
    <3> QED
      BY <3>2, <3>3 DEF Listener
  <2>2. worker' \in [Gen -> Listener]
    BY <1>3, <2>1 DEF WakeTick, WakeTypes
  <2>3. ledger' \in StateFile
    <3>1. \A l \in StateFile : l.disk \in Budget /\ \A b \in Budget : [l EXCEPT !.disk = b] \in StateFile
      BY DEF StateFile
    <3>2. AgedBudget(ledger.disk) \in Budget
      BY <3>1, BudgetFacts DEF WakeTypes
    <3> QED
      BY <1>3, <3>1, <3>2 DEF WakeTick, WakeTypes
  <2>4. nudged' \in Seq(Life)
    BY <1>3, AgedType DEF WakeTick, WakeTypes
  <2>5. dir' \in Directory
    BY <1>3, DirFacts DEF WakeTick, WakeTypes
  <2>6. caller' \in [Callers -> CallerRecord]
    BY <1>3, CallerFacts DEF WakeTick, WakeTypes
  <2> QED
    BY <1>3, <2>2, <2>3, <2>4, <2>5, <2>6 DEF WakeTick, WakeTypes
<1> QED
  BY <1>1, <1>2, <1>3

\* The initial state has the types.
LEMMA WakeInitTypes == WakeInit => WakeTypes
<1> SUFFICES ASSUME WakeInit PROVE WakeTypes
  OBVIOUS
<1>1. dir \in Directory /\ ledger \in StateFile
  BY NewFacts, WakeNumbers DEF WakeInit, Directory, StateFile
<1>2. caller \in [Callers -> CallerRecord] /\ worker \in [Gen -> Listener]
  BY NewFacts DEF WakeInit
<1> QED
  BY <1>1, <1>2, WakeNumbers DEF WakeInit, WakeTypes

-----------------------------------------------------------------------------
(* NativeWake: the lifecycle lock, the lock of the budget and the marker *)

\* A listener is past its first scan only where nudging is not switched off.
AwakeInv == \A g \in Gen : worker[g].pc \in {"gate", "reserve", "wake", "schedule"} => MaxWakes > 0

\* What a caller's step may do to a listener: take its proof away, or start one that nobody runs.
Recast(w, v) == \/ v.pc = w.pc /\ v.mem = w.mem /\ v.since = w.since
                \/ w.pc = "none" /\ v.pc = "start"

\* No caller's step touches the budget, nor what a listener knows of it.
LEMMA CallersKeepOut ==
    ASSUME WakeTypes, LockInv, NEW c \in Callers,
           (\E e \in AnyEndpoint : EnsureListener(c, e) \/ Stop(c, e)) \/ LifecycleStep(c) \/ CallerDies(c)
    PROVE  /\ UNCHANGED <<ledger, nudged>>
           /\ \A g \in Gen : Recast(worker[g], worker'[g])
<1> USE DEF CallerAt
<1>1. UNCHANGED <<ledger, nudged>>
  BY DEF EnsureListener, Stop, LifecycleStep, CallerDies, KeepListener, SupersedeListener, Mint, Point, Spawn,
         WriteRecord, SpawnFails, Restore, Leave, StopLocks, Teardown
<1>2. ASSUME CancelAll PROVE \A g \in Gen : Recast(worker[g], worker'[g])
  <2>1. \A w \in Listener : Recast(w, [w EXCEPT !.proof = FALSE])
    BY DEF Recast, Listener
  <2> QED
    BY <1>2, <2>1 DEF CancelAll, WakeTypes
<1>4. CASE Spawn(c)
  <2>1. caller[c].gen \in Gen /\ worker[caller[c].gen].pc = "none"
    BY <1>4 DEF Spawn, LockInv
  <2>2. [NewWorker EXCEPT !.pc = "start"].pc = "start"
    BY DEF NewWorker
  <2> QED
    BY <1>4, <2>1, <2>2 DEF Spawn, WakeTypes, Recast
<1>5. CASE SupersedeListener(c) \/ SpawnFails(c) \/ Teardown(c)
  BY <1>2, <1>5 DEF SupersedeListener, SpawnFails, Teardown
<1>6. CASE ~(Spawn(c) \/ SupersedeListener(c) \/ SpawnFails(c) \/ Teardown(c))
  <2>1. UNCHANGED worker
    BY <1>6 DEF EnsureListener, Stop, LifecycleStep, CallerDies, KeepListener, Mint, Point,
         WriteRecord, Restore, Leave, StopLocks
  <2>2. \A w : Recast(w, w)
    BY DEF Recast
  <2> QED
    BY <1>1, <2>1, <2>2
<1> QED
  BY <1>1, <1>4, <1>5, <1>6

\* A step of the caller that is inside, or of one that finds the lock free, leaves the others outside.
LEMMA InsideStep ==
    ASSUME WakeTypes, LockInv, NEW c \in Callers, NEW x \in CallerRecord, caller' = [caller EXCEPT ![c] = x],
           caller[c].pc \in Inside \/ ~dir.locked,
           x.pc \in Inside => dir'.locked,
           x.pc \in {"mint", "restore"} => dir'.markers = {},
           x.pc \in {"point", "spawn"} => x.gen \in Gen /\ worker'[x.gen].pc = "none",
           x.pc \in {"mint", "point", "spawn", "restore"} /\ x.alive => x.old.gen \in Gen,
           x.pc = "restore" => x.alive,
           AtMostOne(dir'.markers)
    PROVE  LockInv'
<1>1. \A d \in Callers : caller'[d] = IF d = c THEN x ELSE caller[d]
  BY DEF WakeTypes
<1>2. \A d \in Callers : d # c => caller[d].pc \notin Inside
  BY DEF LockInv
<1>3. {"mint", "point", "spawn", "restore"} \subseteq Inside
  BY DEF Inside, CallerPc
<1>4. (\A d \in Callers : caller[d].pc \in Inside => dir.locked)'
  BY <1>1, <1>2
<1>5. (\A b, d \in Callers : caller[b].pc \in Inside /\ caller[d].pc \in Inside => b = d)'
  BY <1>1, <1>2
<1>6. (\A d \in Callers : caller[d].pc \in {"mint", "restore"} => dir.markers = {})'
  BY <1>1, <1>2, <1>3
<1>7. (\A d \in Callers : caller[d].pc \in {"point", "spawn"} => caller[d].gen \in Gen /\ worker[caller[d].gen].pc = "none")'
  BY <1>1, <1>2, <1>3
<1>8. (\A d \in Callers : caller[d].pc \in {"mint", "point", "spawn", "restore"} /\ caller[d].alive => caller[d].old.gen \in Gen)'
  BY <1>1, <1>2, <1>3
<1>9. (\A d \in Callers : caller[d].pc = "restore" => caller[d].alive)'
  BY <1>1, <1>2, <1>3
<1> QED
  BY <1>4, <1>5, <1>6, <1>7, <1>8, <1>9 DEF LockInv

\* A step of a caller that stays outside.
LEMMA OutsideStep ==
    ASSUME WakeTypes, LockInv, NEW c \in Callers, NEW x \in CallerRecord, caller' = [caller EXCEPT ![c] = x],
           x.pc \notin Inside, UNCHANGED <<dir, worker>>
    PROVE  LockInv'
<1>1. \A d \in Callers : caller'[d] = IF d = c THEN x ELSE caller[d]
  BY DEF WakeTypes
<1>3. {"mint", "point", "spawn", "restore"} \subseteq Inside
  BY DEF Inside, CallerPc
<1> QED
  BY <1>1, <1>3 DEF LockInv

\* The lifecycle's steps keep the lock and what it guards.
LEMMA CallersKeepLock ==
    ASSUME WakeTypes, WakeTypes', LockInv, NEW c \in Callers,
           (\E e \in AnyEndpoint : EnsureListener(c, e) \/ Stop(c, e)) \/ LifecycleStep(c) \/ CallerDies(c)
    PROVE  LockInv'
<1> USE DEF CallerAt
<1>0. /\ caller \in [Callers -> CallerRecord] /\ caller' \in [Callers -> CallerRecord]
      /\ caller[c] \in CallerRecord /\ dir \in Directory /\ dir' \in Directory
      /\ caller'[c] \in CallerRecord
  BY DEF WakeTypes
<1>n. NewCaller \in CallerRecord /\ NewCaller.pc = "idle"
  BY NewFacts
<1>i. /\ "idle" \notin Inside /\ "stop" \notin Inside /\ "teardown" \in Inside /\ "decide" \in Inside /\ "mint" \in Inside
      /\ "point" \in Inside /\ "spawn" \in Inside /\ "record" \in Inside /\ "restore" \in Inside /\ "leave" \in Inside
  BY DEF Inside, CallerPc
<1>l. caller[c].pc \in Inside => dir.locked
  BY DEF LockInv
<1>m. AtMostOne(dir.markers)
  BY DEF LockInv
<1>f. /\ dir.locked \in BOOLEAN
      /\ \A r \in CallerRecord, p \in CallerPc : [r EXCEPT !.pc = p].pc = p
  BY <1>0, DirFacts DEF CallerRecord
<1>1. ASSUME NEW e \in AnyEndpoint, EnsureListener(c, e) PROVE LockInv'
  <2> DEFINE x == [NewCaller EXCEPT !.endpoint = e, !.pc = IF e = NoEndpoint THEN "teardown" ELSE "decide"]
  <2>1. caller' = [caller EXCEPT ![c] = x] /\ dir' = [dir EXCEPT !.locked = TRUE] /\ ~dir.locked
    BY <1>1 DEF EnsureListener
  <2>2. x.pc \in {"teardown", "decide"}
    BY DEF NewCaller
  <2>3. x = caller'[c]
    BY <1>0, <2>1
  <2> HIDE DEF x
  <2>4. dir'.locked /\ dir'.markers = dir.markers
    BY <1>0, <2>1 DEF Directory
  <2> QED
    BY <1>0, <1>m, <2>1, <2>2, <2>3, <2>4, InsideStep
<1>2. ASSUME NEW e \in AnyEndpoint, Stop(c, e) PROVE LockInv'
  <2> DEFINE x == [NewCaller EXCEPT !.pc = "stop", !.endpoint = e]
  <2>1. caller' = [caller EXCEPT ![c] = x] /\ UNCHANGED <<dir, worker>>
    BY <1>2 DEF Stop
  <2>2. x.pc = "stop"
    BY DEF NewCaller
  <2>3. x = caller'[c]
    BY <1>0, <2>1
  <2> HIDE DEF x
  <2> QED
    BY <1>0, <1>i, <2>1, <2>2, <2>3, OutsideStep
<1>3. CASE KeepListener(c) \/ Leave(c) \/ WriteRecord(c)
  <2>1. caller' = [caller EXCEPT ![c] = NewCaller] /\ caller[c].pc \in Inside
    BY <1>3, <1>i DEF KeepListener, Leave, WriteRecord
  <2>2. dir'.markers = dir.markers
    BY <1>3, <1>0 DEF KeepListener, Leave, WriteRecord, Directory
  <2> QED
    BY <1>n, <1>i, <1>m, <2>1, <2>2, InsideStep
<1>c. ASSUME CancelAll PROVE dir'.markers = {} /\ dir'.locked = dir.locked /\ AtMostOne(dir'.markers)
  BY <1>c, <1>0 DEF CancelAll, Directory, AtMostOne
<1>4. CASE SupersedeListener(c)
  <2> DEFINE x == [caller[c] EXCEPT !.pc = "mint", !.old = dir.record, !.alive = Running(dir.record)]
  <2>1. caller' = [caller EXCEPT ![c] = x] /\ caller[c].pc \in Inside /\ CancelAll
    BY <1>4, <1>i DEF SupersedeListener
  <2>2. x.pc = "mint" /\ x.alive = Running(dir.record) /\ x.old = dir.record
    BY <1>0 DEF CallerRecord
  <2>3. x.alive => x.old.gen \in Gen
    BY <1>0, <2>2, RunningFacts, DirFacts
  <2>4. x = caller'[c]
    BY <1>0, <2>1
  <2> HIDE DEF x
  <2> QED
    BY <1>0, <1>l, <1>c, <2>1, <2>2, <2>3, <2>4, InsideStep
<1>5. CASE Mint(c)
  <2>1. PICK g \in Gen : /\ dir' = [dir EXCEPT !.markers = dir.markers \cup {g}]
                         /\ caller' = [caller EXCEPT ![c] = [caller[c] EXCEPT !.pc = "point", !.gen = g]]
                         /\ ~Lives(g) /\ caller[c].pc = "mint" /\ UNCHANGED worker
    BY <1>5 DEF Mint
  <2> DEFINE x == [caller[c] EXCEPT !.pc = "point", !.gen = g]
  <2>2. x.pc = "point" /\ x.gen = g /\ x.alive = caller[c].alive /\ x.old = caller[c].old
    BY <1>0 DEF CallerRecord
  <2>3. x = caller'[c]
    BY <1>0, <2>1
  <2> HIDE DEF x
  <2>4. dir.markers = {} /\ (caller[c].alive => caller[c].old.gen \in Gen)
    BY <2>1 DEF LockInv
  <2>5. dir'.markers = {g} /\ dir'.locked = dir.locked
    BY <1>0, <2>1, <2>4 DEF Directory
  <2>8. AtMostOne(dir'.markers)
    BY <2>5 DEF AtMostOne
  <2>6. worker'[g].pc = "none"
    BY <2>1 DEF Lives
  <2>7. caller' = [caller EXCEPT ![c] = x]
    BY <2>1 DEF x
  <2> QED
    <3>1. caller[c].pc \in Inside /\ dir'.locked /\ x \in CallerRecord
      BY <1>0, <1>i, <1>l, <2>1, <2>3, <2>5
    <3>2. x.pc = "point" /\ x.gen \in Gen /\ worker'[x.gen].pc = "none" /\ (x.alive => x.old.gen \in Gen)
      BY <2>2, <2>4, <2>6
    <3> QED
      BY <2>7, <2>8, <3>1, <3>2, InsideStep
<1>6. CASE Point(c)
  <2> DEFINE x == [caller[c] EXCEPT !.pc = "spawn"]
  <2>1. caller' = [caller EXCEPT ![c] = x] /\ caller[c].pc = "point" /\ UNCHANGED worker /\ dir' = [dir EXCEPT !.current = caller[c].gen]
    BY <1>6 DEF Point
  <2>2. x.pc = "spawn" /\ x.gen = caller[c].gen /\ x.alive = caller[c].alive /\ x.old = caller[c].old
    BY <1>0 DEF CallerRecord
  <2>3. x = caller'[c]
    BY <1>0, <2>1
  <2> HIDE DEF x
  <2>4. /\ caller[c].gen \in Gen /\ worker[caller[c].gen].pc = "none"
        /\ caller[c].alive => caller[c].old.gen \in Gen
    BY <2>1 DEF LockInv
  <2>5. dir'.markers = dir.markers /\ dir'.locked = dir.locked
    BY <1>0, <2>1 DEF Directory
  <2> QED
    BY <1>0, <1>i, <1>l, <1>m, <2>1, <2>2, <2>3, <2>4, <2>5, InsideStep
<1>7. CASE Spawn(c) \/ Teardown(c) \/ Restore(c)
  <2>1. PICK p \in {"record", "leave"} :
          caller' = [caller EXCEPT ![c] = [caller[c] EXCEPT !.pc = p]] /\ caller[c].pc \in Inside
    BY <1>7, <1>i DEF Spawn, Teardown, Restore
  <2> DEFINE x == [caller[c] EXCEPT !.pc = p]
  <2>2. x.pc = p
    BY <1>0 DEF CallerRecord
  <2>3. x = caller'[c]
    BY <1>0, <2>1
  <2>4. dir'.locked = dir.locked
    BY <1>0, <1>7, <1>c DEF Spawn, Teardown, Restore, Directory
  <2>5. AtMostOne(dir'.markers)
    <3>1. CASE Spawn(c) \/ Teardown(c)
      BY <3>1, <1>m, <1>c DEF Spawn, Teardown
    <3>2. CASE Restore(c)
      <4>1. dir.markers = {}
        BY <3>2 DEF Restore, LockInv
      <4>2. dir'.markers = {caller[c].old.gen}
        BY <3>2, <1>0, <4>1 DEF Restore, Directory
      <4> QED
        BY <4>2 DEF AtMostOne
    <3> QED
      BY <1>7, <3>1, <3>2
  <2> HIDE DEF x
  <2>6. caller' = [caller EXCEPT ![c] = x]
    BY <2>1 DEF x
  <2> QED
    <3>1. caller[c].pc \in Inside /\ dir'.locked /\ x \in CallerRecord
      BY <1>0, <1>l, <2>1, <2>3, <2>4
    <3>2. x.pc \notin {"mint", "restore", "point", "spawn"}
      BY <2>2
    <3> QED
      BY <2>5, <2>6, <3>1, <3>2, InsideStep
<1>8. CASE SpawnFails(c)
  <2> DEFINE p == IF caller[c].alive THEN "restore" ELSE "leave"
             x == [caller[c] EXCEPT !.pc = p]
  <2>1. caller' = [caller EXCEPT ![c] = x] /\ caller[c].pc = "spawn" /\ CancelAll
    BY <1>8 DEF SpawnFails
  <2>2. x.pc = p /\ x.alive = caller[c].alive /\ x.old = caller[c].old
    BY <1>0 DEF CallerRecord
  <2>3. x = caller'[c]
    BY <1>0, <2>1
  <2>4. caller[c].alive => caller[c].old.gen \in Gen
    BY <2>1 DEF LockInv
  <2>5. x.pc = "restore" => x.alive
    BY <2>2
  <2>6. x.pc \in {"restore", "leave"}
    BY <2>2
  <2> HIDE DEF x, p
  <2> QED
    BY <1>0, <1>i, <1>l, <1>c, <2>1, <2>2, <2>3, <2>4, <2>5, <2>6, InsideStep
<1>9. CASE StopLocks(c)
  <2> DEFINE x == [caller[c] EXCEPT !.pc = "teardown"]
  <2>1. caller' = [caller EXCEPT ![c] = x] /\ ~dir.locked /\ dir' = [dir EXCEPT !.locked = TRUE]
    BY <1>9 DEF StopLocks
  <2>2. x.pc = "teardown"
    BY <1>0 DEF CallerRecord
  <2>3. x = caller'[c]
    BY <1>0, <2>1
  <2> HIDE DEF x
  <2>4. dir'.locked /\ dir'.markers = dir.markers
    BY <1>0, <2>1 DEF Directory
  <2> QED
    BY <1>0, <1>m, <2>1, <2>2, <2>3, <2>4, InsideStep
<1>10. CASE CallerDies(c)
  <2>1. CASE caller[c].pc = "stop"
    <3>1. dir' = [dir EXCEPT !.locked = dir.locked] /\ UNCHANGED worker /\ caller' = [caller EXCEPT ![c] = NewCaller]
      BY <1>10, <2>1 DEF CallerDies
    <3>2. dir' = dir
      BY <1>0, <3>1 DEF Directory
    <3> QED
      BY <1>n, <1>i, <3>1, <3>2, OutsideStep
  <2>2. CASE caller[c].pc # "stop"
    <3>1. caller[c].pc \in Inside
      BY <1>0, <1>10, <2>2 DEF CallerDies, CallerRecord, Inside
    <3>2. caller' = [caller EXCEPT ![c] = NewCaller]
      BY <1>10 DEF CallerDies
    <3>3. dir'.markers = dir.markers
      BY <1>0, <1>10 DEF CallerDies, Directory
    <3> QED
      BY <1>n, <1>i, <1>m, <3>1, <3>2, <3>3, InsideStep
  <2> QED
    BY <2>1, <2>2
<1> QED
  BY <1>1, <1>2, <1>3, <1>4, <1>5, <1>6, <1>7, <1>8, <1>9, <1>10 DEF LifecycleStep

-----------------------------------------------------------------------------
(* How a listener moves *)

\* The steps that keep the lock of the budget as it is.
Move(p, q) == \/ p = q
              \/ <<p, q>> \in {<<"start", "lock">>, <<"boot", "loop">>, <<"gate", "schedule">>, <<"gate", "reserve">>,
                               <<"reserve", "wake">>, <<"reserve", "loop">>, <<"wake", "schedule">>, <<"wake", "loop">>,
                               <<"schedule", "loop">>}
              \/ p = "loop" /\ q = "gate" /\ MaxWakes > 0

\* A listener goes along, takes the budget's lock, or ends and lets go of it.
Goes(g, p, q) == \/ Move(p, q) /\ ledger'.holder = ledger.holder
                 \/ p = "lock" /\ q = "boot" /\ ledger.holder = 0 /\ ledger'.holder = g
                 \/ q = "none" /\ ledger'.holder = IF ledger.holder = g THEN 0 ELSE ledger.holder

\* It looks at its marker before it reserves, and counts what it hands over without one.
Looks(g, p, q) == /\ q = "reserve" /\ p # "reserve" => g \in dir.markers
                  /\ \/ UNCHANGED pardons
                     \/ p = "wake" /\ q \notin {"reserve", "wake"} /\ g \notin dir.markers
                        /\ pardons' = [pardons EXCEPT ![g] = pardons[g] + 1]

\* The step of one listener: the others, the directory and the callers stay.
ListenerMoved(g) ==
    /\ UNCHANGED <<dir, caller>>
    /\ \A h \in Gen \ {g} : worker'[h] = worker[h]
    /\ Goes(g, worker[g].pc, worker'[g].pc)
    /\ Looks(g, worker[g].pc, worker'[g].pc)

\* Every action of a listener is such a step.
LEMMA ListenerMoves ==
    ASSUME WakeTypes, HolderInv, NEW g \in Gen,
           \/ ListenerStep(g) \/ WatchControl(g) \/ ProbeFails(g) \/ StreamOpens(g)
           \/ StreamBreaks(g) \/ ReconcileTick(g) \/ WorkerDies(g)
    PROVE  ListenerMoved(g)
<1> USE DEF WorkerAt
<1>0. worker[g] \in Listener /\ ledger \in StateFile /\ worker \in [Gen -> Listener]
  BY DEF WakeTypes
<1>p. \A w \in Listener, p \in ListenerPc : [w EXCEPT !.pc = p].pc = p
  BY DEF Listener
\* What has to be said of an action that puts a record in place.
<1>a. ASSUME NEW w, Put(g, w), UNCHANGED <<dir, caller>>, Goes(g, worker[g].pc, w.pc), Looks(g, worker[g].pc, w.pc)
      PROVE  ListenerMoved(g)
  <2>1. worker'[g] = w /\ \A h \in Gen \ {g} : worker'[h] = worker[h]
    BY <1>a, <1>0 DEF Put
  <2> QED
    BY <1>a, <2>1 DEF ListenerMoved
<1>e. ASSUME EndWorker(g), UNCHANGED <<dir, caller, pardons>> PROVE ListenerMoved(g)
  <2>1. NewWorker.pc = "none" /\ Put(g, NewWorker)
    BY <1>e, NewFacts DEF EndWorker
  <2>2. ledger'.holder = IF ledger.holder = g THEN 0 ELSE ledger.holder
    BY <1>e, <1>0 DEF EndWorker, StateFile
  <2>3. Goes(g, worker[g].pc, NewWorker.pc) /\ Looks(g, worker[g].pc, NewWorker.pc)
    BY <1>e, <2>1, <2>2 DEF Goes, Looks
  <2> QED
    BY <1>a, <1>e, <2>1, <2>3
\* An action that keeps the holder and counts nothing.
<1>k. ASSUME NEW w, Put(g, w), UNCHANGED <<dir, caller, pardons>>, ledger'.holder = ledger.holder, Move(worker[g].pc, w.pc),
             w.pc # "reserve"
      PROVE  ListenerMoved(g)
  <2>1. Goes(g, worker[g].pc, w.pc) /\ Looks(g, worker[g].pc, w.pc)
    BY <1>k DEF Goes, Looks
  <2> QED
    BY <1>a, <1>k, <2>1
\* An action that keeps the place.
<1>h. ASSUME NEW w, Put(g, w), UNCHANGED <<dir, caller, pardons, ledger>>, w.pc = worker[g].pc PROVE ListenerMoved(g)
  <2>1. Goes(g, worker[g].pc, w.pc) /\ Looks(g, worker[g].pc, w.pc)
    BY <1>h DEF Goes, Looks, Move
  <2> QED
    BY <1>a, <1>h, <2>1
<1>s. ASSUME NEW m, SaveBestEffort(m) PROVE ledger'.holder = ledger.holder
  BY <1>s, <1>0 DEF SaveBestEffort, StateFile
<1>1. CASE Begin(g)
  <2>1. CASE ControlOK(g)
    <3>1. [worker[g] EXCEPT !.pc = "lock", !.proof = TRUE].pc = "lock"
      BY <1>0 DEF Listener
    <3> QED
      BY <1>1, <2>1, <3>1, <1>k DEF Begin, Move
  <2>2. CASE ~ControlOK(g)
    BY <1>1, <2>2, <1>e DEF Begin
  <2> QED
    BY <2>1, <2>2
<1>2. CASE TakeLedger(g)
  <2> DEFINE w == [worker[g] EXCEPT !.pc = "boot", !.mem = ledger.disk]
  <2>1. w.pc = "boot" /\ ledger'.holder = g /\ ledger.holder = 0
    BY <1>0, <1>2 DEF Listener, StateFile, TakeLedger
  <2>2. Put(g, w) /\ UNCHANGED <<dir, caller, pardons>> /\ worker[g].pc = "lock"
    BY <1>2 DEF TakeLedger
  <2> HIDE DEF w
  <2>3. Goes(g, worker[g].pc, w.pc) /\ Looks(g, worker[g].pc, w.pc)
    BY <2>1, <2>2 DEF Goes, Looks
  <2> QED
    BY <1>a, <2>2, <2>3
<1>3. CASE GiveUp(g) \/ ProbeFails(g) \/ Cancelled(g) \/ WorkerDies(g)
  BY <1>3, <1>e DEF GiveUp, ProbeFails, Cancelled, WorkerDies
<1>4. CASE Boot(g)
  <2>1. [worker[g] EXCEPT !.pc = "loop", !.hint = TRUE].pc = "loop"
    BY <1>0 DEF Listener
  <2> QED
    BY <1>4, <2>1, <1>k DEF Boot, Move
<1>5. CASE WatchControl(g)
  <2>1. [worker[g] EXCEPT !.stop = TRUE].pc = worker[g].pc
    BY <1>0 DEF Listener
  <2> QED
    BY <1>5, <2>1, <1>h DEF WatchControl
<1>6. CASE StreamOpens(g) \/ StreamBreaks(g) \/ ReconcileTick(g)
  <2>1. /\ [worker[g] EXCEPT !.linked = TRUE, !.hint = TRUE].pc = worker[g].pc
        /\ [worker[g] EXCEPT !.linked = FALSE].pc = worker[g].pc
        /\ [worker[g] EXCEPT !.hint = TRUE].pc = worker[g].pc
    BY <1>0 DEF Listener
  <2> QED
    BY <1>6, <2>1, <1>h DEF StreamOpens, StreamBreaks, ReconcileTick
<1>7. ASSUME NEW byTimer \in BOOLEAN, Scan(g, byTimer) PROVE ListenerMoved(g)
  <2> DEFINE w == IF byTimer THEN [worker[g] EXCEPT !.due = -1] ELSE [worker[g] EXCEPT !.hint = FALSE]
  <2>1. w \in [pc : {"loop"}, proof : BOOLEAN, mem : {w.mem}, hint : {w.hint}, due : {w.due}, linked : {w.linked}, scan : {w.scan},
               since : {w.since}, stop : {w.stop}]
    BY <1>0, <1>7 DEF Listener, Scan
  <2>2. /\ UNCHANGED <<dir, caller, ledger, pardons>> /\ MaxWakes > 0 /\ worker[g].pc = "loop"
        /\ \/ Put(g, w)
           \/ Put(g, [w EXCEPT !.pc = "gate", !.scan = FetchUnread])
           \/ Put(g, [w EXCEPT !.due = 0])
    BY <1>7 DEF Scan
  <2> HIDE DEF w
  <2>3. w.pc = "loop" /\ [w EXCEPT !.pc = "gate", !.scan = FetchUnread].pc = "gate" /\ [w EXCEPT !.due = 0].pc = "loop"
    BY <2>1
  <2>4. Move("loop", "gate")
    BY <2>2 DEF Move
  <2> QED
    BY <2>2, <2>3, <2>4, <1>h, <1>k
<1>8. CASE Gate(g)
  <2>1. /\ [worker[g] EXCEPT !.pc = "schedule", !.scan = {}].pc = "schedule"
        /\ [worker[g] EXCEPT !.pc = "reserve", !.since = WakeWindow].pc = "reserve"
    BY <1>0 DEF Listener
  <2>2. /\ UNCHANGED <<dir, caller, pardons>> /\ worker[g].pc = "gate"
        /\ \/ Put(g, [worker[g] EXCEPT !.pc = "schedule", !.scan = {}]) /\ UNCHANGED ledger
           \/ Put(g, [worker[g] EXCEPT !.pc = "reserve", !.since = WakeWindow]) /\ UNCHANGED ledger /\ g \in dir.markers
           \/ EndWorker(g)
    BY <1>8 DEF Gate, ControlOK
  <2>3. Move("gate", "schedule") /\ Move("gate", "reserve")
    BY DEF Move
  <2>4. CASE Put(g, [worker[g] EXCEPT !.pc = "reserve", !.since = WakeWindow]) /\ UNCHANGED ledger /\ g \in dir.markers
    <3> DEFINE w == [worker[g] EXCEPT !.pc = "reserve", !.since = WakeWindow]
    <3>1. Put(g, w) /\ w.pc = "reserve"
      BY <2>1, <2>4
    <3> HIDE DEF w
    <3>2. Goes(g, worker[g].pc, w.pc) /\ Looks(g, worker[g].pc, w.pc)
      BY <2>2, <2>3, <2>4, <3>1 DEF Goes, Looks
    <3> QED
      BY <1>a, <2>2, <3>1, <3>2
  <2> QED
    BY <1>e, <1>k, <2>1, <2>2, <2>3, <2>4
<1>9. CASE ReserveAttempt(g)
  <2> DEFINE mem == Reserved(worker[g])
  <2>2. /\ UNCHANGED <<dir, caller, pardons>> /\ worker[g].pc = "reserve"
        /\ \/ /\ ledger' = [ledger EXCEPT !.disk = mem]
              /\ Put(g, [worker[g] EXCEPT !.pc = "wake", !.mem = mem])
           \/ /\ Put(g, [worker[g] EXCEPT !.pc = "loop", !.mem = mem, !.due = 0, !.scan = {}])
              /\ UNCHANGED ledger
    BY <1>9 DEF ReserveAttempt
  <2> HIDE DEF mem
  <2>3. /\ [worker[g] EXCEPT !.pc = "wake", !.mem = mem].pc = "wake"
        /\ [worker[g] EXCEPT !.pc = "loop", !.mem = mem, !.due = 0, !.scan = {}].pc = "loop"
        /\ ledger'.holder = ledger.holder
    BY <1>0, <2>2 DEF Listener, StateFile
  <2>4. Move("reserve", "wake") /\ Move("reserve", "loop")
    BY DEF Move
  <2> QED
    BY <1>k, <2>2, <2>3, <2>4
<1>r. ASSUME NEW w, Put(g, w), Reaches(g) \/ UNCHANGED <<nudged, pardons>>, UNCHANGED <<dir, caller>>, ledger'.holder = ledger.holder,
             worker[g].pc = "wake", w.pc \in {"loop", "schedule"}
      PROVE  ListenerMoved(g)
  <2>1. Goes(g, worker[g].pc, w.pc)
    BY <1>r DEF Goes, Move
  <2>2. Looks(g, worker[g].pc, w.pc)
    BY <1>r DEF Looks, Reaches, ControlOK
  <2> QED
    BY <1>a, <1>r, <2>1, <2>2
<1>10. CASE WakeAccepted(g)
  <2>1. PICK m : /\ UNCHANGED <<dir, caller>> /\ Reaches(g) /\ SaveBestEffort(m) /\ worker[g].pc = "wake"
                 /\ Put(g, [worker[g] EXCEPT !.pc = "schedule", !.mem = m, !.scan = {}])
    BY <1>10 DEF WakeAccepted
  <2>2. [worker[g] EXCEPT !.pc = "schedule", !.mem = m, !.scan = {}].pc = "schedule"
    BY <1>0 DEF Listener
  <2> QED
    BY <1>r, <1>s, <2>1, <2>2
<1>11. CASE WakeBusy(g)
  <2> DEFINE m == Refunded(worker[g])
  <2>1. /\ UNCHANGED <<dir, caller, nudged, pardons>> /\ SaveBestEffort(m) /\ worker[g].pc = "wake"
        /\ Put(g, [worker[g] EXCEPT !.pc = "loop", !.mem = m, !.due = 0, !.scan = {}])
    BY <1>11 DEF WakeBusy
  <2> HIDE DEF m
  <2>2. [worker[g] EXCEPT !.pc = "loop", !.mem = m, !.due = 0, !.scan = {}].pc = "loop"
    BY <1>0 DEF Listener
  <2> QED
    BY <1>r, <1>s, <2>1, <2>2
<1>12. CASE WakeUnavailable(g)
  <2>1. ledger'.holder = 0 /\ UNCHANGED <<dir, caller, pardons>> /\ Put(g, NewWorker) /\ worker[g].pc = "wake"
    BY <1>12 DEF WakeUnavailable
  <2>2. ledger.holder = g
    BY <2>1 DEF HolderInv, Active, ListenerPc
  <2>3. Goes(g, worker[g].pc, NewWorker.pc) /\ Looks(g, worker[g].pc, NewWorker.pc)
    BY <2>1, <2>2, NewFacts DEF Goes, Looks
  <2> QED
    BY <1>a, <2>1, <2>3
<1>13. CASE WakeAmbiguous(g)
  <2>1. /\ UNCHANGED <<dir, caller, ledger>> /\ (Reaches(g) \/ UNCHANGED <<nudged, pardons>>) /\ worker[g].pc = "wake"
        /\ Put(g, [worker[g] EXCEPT !.pc = "loop", !.due = 0, !.scan = {}])
    BY <1>13 DEF WakeAmbiguous
  <2>2. [worker[g] EXCEPT !.pc = "loop", !.due = 0, !.scan = {}].pc = "loop"
    BY <1>0 DEF Listener
  <2> QED
    BY <1>r, <2>1, <2>2
<1>14. CASE ScheduleMaintenance(g)
  <2>1. PICK due : Put(g, [worker[g] EXCEPT !.pc = "loop", !.due = due])
    BY <1>14 DEF ScheduleMaintenance
  <2>2. UNCHANGED <<dir, caller, ledger, pardons>> /\ worker[g].pc = "schedule"
    BY <1>14 DEF ScheduleMaintenance
  <2>3. [worker[g] EXCEPT !.pc = "loop", !.due = due].pc = "loop" /\ Move("schedule", "loop")
    BY <1>0 DEF Listener, Move
  <2> QED
    BY <1>k, <2>1, <2>2, <2>3
<1> QED
  BY <1>1, <1>2, <1>3, <1>4, <1>5, <1>6, <1>7, <1>8, <1>9, <1>10, <1>11, <1>12, <1>13, <1>14 DEF ListenerStep

\* What a listener's step leaves of the four invariants: each in turn.
LEMMA ListenersKeepLock ==
    ASSUME WakeTypes, LockInv, NEW g \in Gen, ListenerMoved(g)
    PROVE  LockInv'
<1>1. UNCHANGED <<dir, caller>> /\ \A h \in Gen \ {g} : worker'[h] = worker[h]
  BY DEF ListenerMoved
<1>2. worker[g].pc = "none" => worker'[g].pc = "none"
  BY DEF ListenerMoved, Goes, Move
<1>3. \A h \in Gen : worker[h].pc = "none" => worker'[h].pc = "none"
  BY <1>1, <1>2
<1> QED
  BY <1>1, <1>3 DEF LockInv

\* The lock of the budget is held by the listener that is active.
LEMMA ListenersKeepHolder ==
    ASSUME WakeTypes, HolderInv, NEW g \in Gen, ListenerMoved(g)
    PROVE  HolderInv'
<1>1. \A h \in Gen \ {g} : worker'[h] = worker[h]
  BY DEF ListenerMoved
<1>2. 0 \notin Gen
  BY WakeNumbers
<1>3. CASE Move(worker[g].pc, worker'[g].pc) /\ ledger'.holder = ledger.holder
  <2>1. worker[g].pc \in Active <=> worker'[g].pc \in Active
    BY <1>3 DEF Move, Active, ListenerPc
  <2> QED
    BY <1>1, <1>3, <2>1 DEF HolderInv
<1>4. CASE worker[g].pc = "lock" /\ worker'[g].pc = "boot" /\ ledger.holder = 0 /\ ledger'.holder = g
  <2>1. worker'[g].pc \in Active /\ \A h \in Gen \ {g} : worker[h].pc \notin Active
    BY <1>2, <1>4 DEF HolderInv, Active, ListenerPc
  <2> QED
    BY <1>1, <1>4, <2>1 DEF HolderInv
<1>5. CASE worker'[g].pc = "none" /\ ledger'.holder = IF ledger.holder = g THEN 0 ELSE ledger.holder
  <2>1. worker'[g].pc \notin Active
    BY <1>5 DEF Active
  <2> QED
    BY <1>1, <1>2, <1>5, <2>1 DEF HolderInv
<1> QED
  BY <1>3, <1>4, <1>5 DEF ListenerMoved, Goes

\* Nudging goes on only where it is switched on.
LEMMA ListenersKeepAwake ==
    ASSUME WakeTypes, AwakeInv, NEW g \in Gen, ListenerMoved(g)
    PROVE  AwakeInv'
<1>1. \A h \in Gen \ {g} : worker'[h] = worker[h]
  BY DEF ListenerMoved
<1>2. worker'[g].pc \in {"gate", "reserve", "wake", "schedule"} => MaxWakes > 0
  BY DEF ListenerMoved, Goes, Move, AwakeInv
<1> QED
  BY <1>1, <1>2 DEF AwakeInv

\* A listener is counted at most once after its marker went away.
LEMMA ListenersKeepSilent ==
    ASSUME WakeTypes, SilenceInv, NEW g \in Gen, ListenerMoved(g)
    PROVE  SilenceInv'
<1>1. UNCHANGED dir /\ \A h \in Gen \ {g} : worker'[h] = worker[h]
  BY DEF ListenerMoved
<1>2. pardons \in [Gen -> Nat]
  BY DEF WakeTypes
<1>3. CASE UNCHANGED pardons
  <2>1. worker'[g].pc \in {"reserve", "wake"} => worker[g].pc \in {"reserve", "wake"} \/ g \in dir.markers
    BY DEF ListenerMoved, Goes, Move, Looks
  <2> QED
    BY <1>1, <1>3, <2>1 DEF SilenceInv
<1>4. CASE /\ worker[g].pc = "wake" /\ worker'[g].pc \notin {"reserve", "wake"} /\ g \notin dir.markers
           /\ pardons' = [pardons EXCEPT ![g] = pardons[g] + 1]
  <2>1. pardons[g] = 0
    BY <1>4 DEF SilenceInv
  <2>2. pardons'[g] = 1 /\ \A h \in Gen \ {g} : pardons'[h] = pardons[h]
    BY <1>2, <1>4, <2>1
  <2> QED
    BY <1>1, <1>4, <2>2 DEF SilenceInv
<1> QED
  BY <1>3, <1>4 DEF ListenerMoved, Looks

\* What the callers leave of them.
LEMMA CallersKeepListeners ==
    ASSUME WakeTypes, LockInv, HolderInv, AwakeInv, SilenceInv, NEW c \in Callers,
           (\E e \in AnyEndpoint : EnsureListener(c, e) \/ Stop(c, e)) \/ LifecycleStep(c) \/ CallerDies(c)
    PROVE  HolderInv' /\ AwakeInv' /\ SilenceInv'
<1> USE DEF CallerAt
<1>1. UNCHANGED <<ledger, nudged>> /\ \A g \in Gen : Recast(worker[g], worker'[g])
  BY CallersKeepOut
<1>2. \A g \in Gen : \/ worker'[g].pc = worker[g].pc
                     \/ worker[g].pc = "none" /\ worker'[g].pc = "start"
  BY <1>1 DEF Recast
<1>3. HolderInv'
  BY <1>1, <1>2 DEF HolderInv, Active
<1>4. AwakeInv'
  BY <1>2 DEF AwakeInv
<1>5. \A g \in Gen : worker'[g].pc \in {"reserve", "wake"} => worker[g].pc \in {"reserve", "wake"}
  BY <1>2
<1>0. dir \in Directory /\ pardons \in [Gen -> Nat]
  BY DEF WakeTypes
<1>6. CASE Mint(c) \/ Restore(c)
  <2>1. PICK g \in Gen : dir'.markers = dir.markers \cup {g} /\ pardons' = [pardons EXCEPT ![g] = 0]
    <3>1. CASE Mint(c)
      BY <3>1, <1>0 DEF Mint, Directory
    <3>2. CASE Restore(c)
      <4>1. caller[c].old.gen \in Gen
        BY <3>2 DEF Restore, LockInv
      <4> QED
        BY <3>2, <4>1, <1>0 DEF Restore, Directory
    <3> QED
      BY <1>6, <3>1, <3>2
  <2>2. \A h \in Gen : pardons'[h] = IF h = g THEN 0 ELSE pardons[h]
    BY <1>0, <2>1
  <2>3. SilenceInv'
    BY <1>5, <2>1, <2>2 DEF SilenceInv
  <2> QED
    BY <1>3, <1>4, <2>3
<1>7. CASE ~(Mint(c) \/ Restore(c))
  <2>1. UNCHANGED pardons
    BY <1>7 DEF EnsureListener, Stop, LifecycleStep, CallerDies, KeepListener, SupersedeListener, Point, Spawn,
         WriteRecord, SpawnFails, Leave, StopLocks, Teardown
  <2>2. dir'.markers \subseteq dir.markers
    <3>1. \/ dir' = dir \/ (\E l : dir' = [dir EXCEPT !.locked = l])
          \/ CancelAll \/ (\E x : dir' = [dir EXCEPT !.current = x])
          \/ \E x : dir' = [dir EXCEPT !.record = x, !.locked = FALSE]
      <4>1. CASE KeepListener(c) \/ Leave(c) \/ CallerDies(c) \/ StopLocks(c)
        BY <4>1 DEF KeepListener, Leave, CallerDies, StopLocks
      <4>2. CASE Point(c) \/ Spawn(c) \/ WriteRecord(c)
        BY <4>2 DEF Point, Spawn, WriteRecord
      <4>3. CASE SupersedeListener(c) \/ SpawnFails(c) \/ Teardown(c)
        BY <4>3 DEF SupersedeListener, SpawnFails, Teardown
      <4>4. CASE \E e \in AnyEndpoint : EnsureListener(c, e) \/ Stop(c, e)
        BY <4>4 DEF EnsureListener, Stop
      <4> QED
        BY <1>7, <4>1, <4>2, <4>3, <4>4 DEF LifecycleStep
    <3>2. CancelAll => dir'.markers = {}
      BY <1>0 DEF CancelAll, Directory
    <3>3. /\ \A l : [dir EXCEPT !.locked = l].markers = dir.markers
          /\ \A x : [dir EXCEPT !.current = x].markers = dir.markers
          /\ \A x : [dir EXCEPT !.record = x, !.locked = FALSE].markers = dir.markers
      BY <1>0 DEF Directory
    <3> QED
      BY <3>1, <3>2, <3>3
  <2>3. SilenceInv'
    BY <1>5, <2>1, <2>2 DEF SilenceInv
  <2> QED
    BY <1>3, <1>4, <2>3
<1> QED
  BY <1>6, <1>7

\* What mail and the clock leave of them.
LEMMA AroundKeeps ==
    ASSUME WakeTypes, LockInv, HolderInv, AwakeInv, SilenceInv, (\E m \in Mail : MailArrives(m) \/ HookReads(m)) \/ WakeTick
    PROVE  LockInv' /\ HolderInv' /\ AwakeInv' /\ SilenceInv'
<1>0. dir \in Directory /\ caller \in [Callers -> CallerRecord] /\ ledger \in StateFile /\ worker \in [Gen -> Listener]
  BY DEF WakeTypes
<1>1. UNCHANGED pardons
  BY DEF MailArrives, HookReads, WakeTick
<1>2. dir'.markers = dir.markers /\ dir'.locked = dir.locked /\ ledger'.holder = ledger.holder
  <2>1. CASE \E m \in Mail : MailArrives(m) \/ HookReads(m)
    BY <2>1 DEF MailArrives, HookReads
  <2>2. CASE WakeTick
    <3>1. dir' = [dir EXCEPT !.record.young = FALSE] /\ ledger' = [ledger EXCEPT !.disk = AgedBudget(ledger.disk)]
      BY <2>2 DEF WakeTick
    <3>2. \A b : [ledger EXCEPT !.disk = b].holder = ledger.holder
      BY <1>0 DEF StateFile
    <3>3. [dir EXCEPT !.record.young = FALSE].markers = dir.markers /\ [dir EXCEPT !.record.young = FALSE].locked = dir.locked
      BY <1>0 DEF Directory
    <3> QED
      BY <3>1, <3>2, <3>3
  <2> QED
    BY <2>1, <2>2
<1>3. \A g \in Gen : worker'[g].pc = worker[g].pc
  <2>1. CASE \E m \in Mail : MailArrives(m) \/ HookReads(m)
    BY <1>0, <2>1 DEF MailArrives, HookReads, Listener
  <2>2. CASE WakeTick
    <3>2. \A g \in Gen : worker'[g] = [worker[g] EXCEPT !.mem = AgedBudget(worker[g].mem), !.due = Aged(worker[g].due),
                                                       !.since = Aged(worker[g].since)]
      BY <2>2 DEF WakeTick
    <3> SUFFICES ASSUME NEW g \in Gen PROVE worker'[g].pc = worker[g].pc
      OBVIOUS
    <3> DEFINE b == AgedBudget(worker[g].mem)
               n == Aged(worker[g].due)
               s == Aged(worker[g].since)
    <3>3. worker[g] \in Listener /\ worker'[g] = [worker[g] EXCEPT !.mem = b, !.due = n, !.since = s]
      BY <1>0, <3>2
    <3> HIDE DEF b, n, s
    <3> QED
      BY <3>3 DEF Listener
  <2> QED
    BY <2>1, <2>2
<1>4. \A c \in Callers : /\ caller'[c].pc = caller[c].pc /\ caller'[c].gen = caller[c].gen /\ caller'[c].alive = caller[c].alive
                         /\ caller'[c].old.gen = caller[c].old.gen
  <2>1. CASE \E m \in Mail : MailArrives(m) \/ HookReads(m)
    BY <2>1 DEF MailArrives, HookReads
  <2>2. CASE WakeTick
    <3>1. \A x \in CallerRecord : LET y == [x EXCEPT !.old.young = FALSE] IN
            y.pc = x.pc /\ y.gen = x.gen /\ y.alive = x.alive /\ y.old.gen = x.old.gen
      BY DEF CallerRecord, Record
    <3> QED
      BY <1>0, <2>2, <3>1 DEF WakeTick
  <2> QED
    BY <2>1, <2>2
<1>5. LockInv'
  BY <1>2, <1>3, <1>4 DEF LockInv
<1>6. HolderInv' /\ AwakeInv'
  BY <1>2, <1>3 DEF HolderInv, AwakeInv
<1>7. SilenceInv'
  BY <1>1, <1>2, <1>3 DEF SilenceInv
<1> QED
  BY <1>5, <1>6, <1>7

-----------------------------------------------------------------------------
(* The storm cap: every nudge of the window is an attempt of the budget *)

\* At any age, the attempts of s are at least as many as those of n.
Within(n, s) == \A t \in Nat \ {0} : CountFrom(n, t) <= CountFrom(s, t)

\* The nudges with the one that is under way.
Reached(n, v) == IF v > 0 THEN Append(n, v) ELSE n
Bounded(s, v) == \A i \in 1..Len(s) : s[i] <= v
Ends(s, v) == \E r \in Seq(Life) : s = Append(r, v)

\* What a listener that has the budget's lock knows of it.
Accounted(w, disk, n) ==
    LET s == w.mem.attempts IN
    /\ w.pc \in Active => Within(n, s) /\ Len(s) <= MaxWakes
    /\ w.pc = "reserve" => Len(s) < MaxWakes
    /\ w.pc \in {"reserve", "wake"} => Bounded(s, w.since)
    /\ w.pc = "wake" => /\ Within(Reached(n, w.since), s) /\ Within(Reached(n, w.since), disk)
                        /\ w.since > 0 => Ends(s, w.since)

\* The inductive form of the storm cap: the nudges are within what is on disk, which is within the cap.
BudgetInv ==
    /\ Within(nudged, ledger.disk.attempts) /\ Len(ledger.disk.attempts) <= MaxWakes
    /\ \A g \in Gen : Accounted(worker[g], ledger.disk.attempts, nudged)

\* A reservation covers the nudge that it is made for.
LEMMA WithinAppend ==
    ASSUME NEW n \in Seq(Life), NEW s \in Seq(Life), NEW v \in Life, Within(n, s)
    PROVE  Within(n, Append(s, v)) /\ Within(Append(n, v), Append(s, v))
<1>0. n \in Seq(Nat) /\ s \in Seq(Nat) /\ v \in Nat
  BY WakeNumbers, SeqMonotonic DEF Life
<1> SUFFICES ASSUME NEW t \in Nat \ {0}
             PROVE  CountFrom(n, t) <= CountFrom(Append(s, v), t) /\ CountFrom(Append(n, v), t) <= CountFrom(Append(s, v), t)
  BY DEF Within
<1>1. /\ CountFrom(Append(s, v), t) = CountFrom(s, t) + (IF v >= t THEN 1 ELSE 0)
      /\ CountFrom(Append(n, v), t) = CountFrom(n, t) + (IF v >= t THEN 1 ELSE 0)
  BY <1>0, CountAppend
<1>2. CountFrom(s, t) \in Nat /\ CountFrom(n, t) \in Nat /\ CountFrom(n, t) <= CountFrom(s, t)
  BY CountType DEF Within
<1> QED
  BY <1>1, <1>2

\* What covers a nudge and the others covers the others, also without its reservation.
LEMMA WithinLess ==
    ASSUME NEW n \in Seq(Life), NEW s \in Seq(Life), NEW v \in Life
    PROVE  /\ Within(Append(n, v), s) => Within(n, s)
           /\ Within(Append(n, v), Append(s, v)) => Within(n, s)
<1>0. n \in Seq(Nat) /\ s \in Seq(Nat) /\ v \in Nat
  BY WakeNumbers, SeqMonotonic DEF Life
<1>1. \A t \in Nat \ {0} : /\ CountFrom(Append(s, v), t) = CountFrom(s, t) + (IF v >= t THEN 1 ELSE 0)
                           /\ CountFrom(Append(n, v), t) = CountFrom(n, t) + (IF v >= t THEN 1 ELSE 0)
                           /\ CountFrom(s, t) \in Nat /\ CountFrom(n, t) \in Nat
  <2> SUFFICES ASSUME NEW t \in Nat \ {0}
               PROVE  /\ CountFrom(Append(s, v), t) = CountFrom(s, t) + (IF v >= t THEN 1 ELSE 0)
                      /\ CountFrom(Append(n, v), t) = CountFrom(n, t) + (IF v >= t THEN 1 ELSE 0)
                      /\ CountFrom(s, t) \in Nat /\ CountFrom(n, t) \in Nat
    OBVIOUS
  <2>1. CountFrom(s, t) \in Nat /\ CountFrom(n, t) \in Nat
    BY CountType
  <2> QED
    BY <1>0, <2>1, CountAppend
<1>2. ASSUME Within(Append(n, v), s) PROVE Within(n, s)
  <2> SUFFICES ASSUME NEW t \in Nat \ {0} PROVE CountFrom(n, t) <= CountFrom(s, t)
    BY DEF Within
  <2>1. CountFrom(Append(n, v), t) <= CountFrom(s, t)
    BY <1>2 DEF Within
  <2> QED
    BY <1>1, <2>1
<1>3. ASSUME Within(Append(n, v), Append(s, v)) PROVE Within(n, s)
  <2> SUFFICES ASSUME NEW t \in Nat \ {0} PROVE CountFrom(n, t) <= CountFrom(s, t)
    BY DEF Within
  <2>1. CountFrom(Append(n, v), t) <= CountFrom(Append(s, v), t)
    BY <1>3 DEF Within
  <2> QED
    BY <1>1, <2>1
<1> QED
  BY <1>2, <1>3

\* Time passes for both alike.
LEMMA WithinAged ==
    ASSUME NEW n \in Seq(Life), NEW s \in Seq(Life), Within(n, s)
    PROVE  Within(AgedSeq(n), AgedSeq(s))
<1> SUFFICES ASSUME NEW t \in Nat \ {0} PROVE CountFrom(AgedSeq(n), t) <= CountFrom(AgedSeq(s), t)
  BY DEF Within
<1>1. CountFrom(AgedSeq(n), t) = CountFrom(n, t + 1) /\ CountFrom(AgedSeq(s), t) = CountFrom(s, t + 1)
  BY CountAged
<1>2. t + 1 \in Nat \ {0}
  OBVIOUS
<1> QED
  BY <1>1, <1>2 DEF Within

\* The nudge under way ages with the others.
LEMMA ReachedFacts ==
    ASSUME NEW n \in Seq(Life), NEW v \in 0..WakeWindow
    PROVE  /\ v > 0 => v \in Life
           /\ Reached(n, v) \in Seq(Life)
           /\ AgedSeq(Reached(n, v)) = Reached(AgedSeq(n), Aged(v))
           /\ Aged(v) \in 0..WakeWindow /\ (Aged(v) > 0 => v > 1 /\ Aged(v) = v - 1)
<1>0. AgedSeq(n) \in Seq(Life)
  BY AgedType
<1>1. v > 0 => v \in Life
  BY WakeNumbers DEF Life
<1>2. Reached(n, v) \in Seq(Life)
  BY <1>1 DEF Reached
<1>3. Aged(v) \in 0..WakeWindow /\ (Aged(v) > 0 => v > 1 /\ Aged(v) = v - 1)
  BY WakeNumbers DEF Aged
<1>4. CASE v = 0
  BY <1>4 DEF Reached, Aged
<1>5. CASE v > 0
  <2>1. AgedSeq(Append(n, v)) = KeptOne(v, AgedSeq(n))
    BY <1>1, <1>5, AgedAppend
  <2>2. KeptOne(v, AgedSeq(n)) = Reached(AgedSeq(n), Aged(v))
    BY <1>5, WakeNumbers DEF KeptOne, Reached, Aged
  <2> QED
    BY <1>1, <1>2, <1>3, <1>5, <2>1, <2>2 DEF Reached
<1>6. v = 0 \/ v > 0
  BY WakeNumbers
<1> QED
  BY <1>1, <1>2, <1>3, <1>4, <1>5, <1>6

\* So does what a listener knows.
LEMMA AccountedAges ==
    ASSUME NEW w \in Listener, NEW v \in Listener, NEW d \in Seq(Life), NEW n \in Seq(Life), Accounted(w, d, n),
           v.pc = w.pc, v.mem.attempts = AgedSeq(w.mem.attempts), v.since = Aged(w.since)
    PROVE  Accounted(v, AgedSeq(d), AgedSeq(n))
<1> DEFINE s == w.mem.attempts
<1>0. s \in Seq(Life) /\ w.since \in 0..WakeWindow
  BY ListenerFacts
<1> HIDE DEF s
<1>1. ASSUME w.pc \in Active PROVE Within(AgedSeq(n), AgedSeq(s)) /\ Len(AgedSeq(s)) <= MaxWakes
  <2>1. Within(n, s) /\ Len(s) <= MaxWakes
    BY <1>1 DEF Accounted, s
  <2>2. \A i \in 1..Len(s) : s[i] <= WakeWindow
    BY <1>0, WakeNumbers DEF Life
  <2>3. Len(AgedSeq(s)) <= Len(s)
    BY <1>0, <2>2, AgedBounds, WakeNumbers
  <2>4. Len(AgedSeq(s)) \in Nat /\ Len(s) \in Nat
    BY <1>0, AgedType
  <2> QED
    BY <1>0, <2>1, <2>3, <2>4, WithinAged, WakeNumbers
<1>2. ASSUME w.pc \in {"reserve", "wake"} PROVE Bounded(AgedSeq(s), Aged(w.since)) /\ Len(AgedSeq(s)) <= Len(s)
  <2>1. \A i \in 1..Len(s) : s[i] <= w.since
    BY <1>2 DEF Accounted, Bounded, s
  <2>2. w.since \in Nat
    BY <1>0, WakeNumbers
  <2> QED
    BY <1>0, <2>1, <2>2, AgedBounds DEF Bounded
<1>3. ASSUME w.pc = "reserve" PROVE Len(AgedSeq(s)) < MaxWakes
  <2>1. Len(s) < MaxWakes
    BY <1>3 DEF Accounted, s
  <2>2. Len(AgedSeq(s)) \in Nat /\ Len(s) \in Nat
    BY <1>0, AgedType
  <2> QED
    BY <1>2, <1>3, <2>1, <2>2, WakeNumbers
<1>4. ASSUME w.pc = "wake"
      PROVE  /\ Within(Reached(AgedSeq(n), Aged(w.since)), AgedSeq(s)) /\ Within(Reached(AgedSeq(n), Aged(w.since)), AgedSeq(d))
             /\ Aged(w.since) > 0 => Ends(AgedSeq(s), Aged(w.since))
  <2>1. /\ Within(Reached(n, w.since), s) /\ Within(Reached(n, w.since), d)
        /\ w.since > 0 => Ends(s, w.since)
    BY <1>4 DEF Accounted, s
  <2>2. /\ Reached(n, w.since) \in Seq(Life) /\ AgedSeq(Reached(n, w.since)) = Reached(AgedSeq(n), Aged(w.since))
        /\ Aged(w.since) > 0 => w.since > 1 /\ Aged(w.since) = w.since - 1
    BY <1>0, ReachedFacts
  <2>3. Within(AgedSeq(Reached(n, w.since)), AgedSeq(s)) /\ Within(AgedSeq(Reached(n, w.since)), AgedSeq(d))
    BY <1>0, <2>1, <2>2, WithinAged
  <2>4. ASSUME Aged(w.since) > 0 PROVE Ends(AgedSeq(s), Aged(w.since))
    <3>1. w.since > 1 /\ w.since > 0 /\ w.since \in Life /\ Aged(w.since) = w.since - 1
      BY <1>0, <2>2, <2>4, WakeNumbers DEF Life
    <3>2. PICK r \in Seq(Life) : s = Append(r, w.since)
      BY <2>1, <3>1 DEF Ends
    <3>3. AgedSeq(s) = Append(AgedSeq(r), w.since - 1)
      BY <3>1, <3>2, AgedAppend DEF KeptOne
    <3>4. AgedSeq(r) \in Seq(Life)
      BY AgedType
    <3> QED
      BY <3>1, <3>3, <3>4 DEF Ends
  <2> QED
    BY <2>2, <2>3, <2>4
<1> QED
  BY <1>1, <1>2, <1>3, <1>4 DEF Accounted, s

\* A listener's step: the others have no budget, so what counts is what it leaves and what is on disk.
LEMMA BudgetStep ==
    ASSUME WakeTypes, HolderInv, BudgetInv, NEW g \in Gen, NEW w, Put(g, w),
           worker[g].pc \in Active \/ (ledger'.disk = ledger.disk /\ UNCHANGED nudged),
           Within(nudged', ledger'.disk.attempts), Len(ledger'.disk.attempts) <= MaxWakes,
           Accounted(w, ledger'.disk.attempts, nudged')
    PROVE  BudgetInv'
<1>1. \A h \in Gen : worker'[h] = IF h = g THEN w ELSE worker[h]
  BY DEF Put, WakeTypes
<1>2. ASSUME NEW h \in Gen, h # g PROVE Accounted(worker[h], ledger'.disk.attempts, nudged')
  <2>1. CASE worker[g].pc \in Active
    <3>1. worker[h].pc \notin Active
      BY <1>2, <2>1 DEF HolderInv
    <3> QED
      BY <3>1 DEF Accounted, Active, ListenerPc
  <2>2. CASE ledger'.disk = ledger.disk /\ UNCHANGED nudged
    BY <2>2 DEF BudgetInv
  <2> QED
    BY <2>1, <2>2
<1>3. \A h \in Gen : Accounted(worker'[h], ledger'.disk.attempts, nudged')
  BY <1>1, <1>2
<1> QED
  BY <1>3 DEF BudgetInv

\* A listener that is as far as it was, and knows what it knew.
LEMMA SameAccount ==
    ASSUME NEW w, NEW v, NEW d, NEW n, Accounted(w, d, n), v.mem = w.mem, v.since = w.since, v.pc = w.pc
    PROVE  Accounted(v, d, n)
  BY DEF Accounted

\* One that goes to a place where nothing more is asked of it.
LEMMA FreeAccount ==
    ASSUME NEW w, NEW d, NEW n, w.pc \notin {"reserve", "wake"},
           w.pc \in Active => Within(n, w.mem.attempts) /\ Len(w.mem.attempts) <= MaxWakes
    PROVE  Accounted(w, d, n)
  BY DEF Accounted

\* The steps of a listener.
LEMMA ListenersKeepBudget ==
    ASSUME WakeTypes, HolderInv, BudgetInv, NEW g \in Gen,
           \/ ListenerStep(g) \/ WatchControl(g) \/ ProbeFails(g) \/ StreamOpens(g)
           \/ StreamBreaks(g) \/ ReconcileTick(g) \/ WorkerDies(g)
    PROVE  BudgetInv'
<1> USE DEF WorkerAt
<1>0. worker[g] \in Listener /\ ledger \in StateFile /\ worker \in [Gen -> Listener] /\ nudged \in Seq(Life)
  BY DEF WakeTypes
<1>f. worker[g].mem \in Budget /\ worker[g].mem.attempts \in Seq(Life) /\ worker[g].since \in 0..WakeWindow
  BY <1>0, ListenerFacts
<1>b. /\ Within(nudged, ledger.disk.attempts) /\ Len(ledger.disk.attempts) <= MaxWakes
      /\ Accounted(worker[g], ledger.disk.attempts, nudged)
  BY DEF BudgetInv
<1>y. /\ {"boot", "loop", "gate", "reserve", "wake", "schedule"} \subseteq Active
      /\ "none" \notin Active /\ "start" \notin Active /\ "lock" \notin Active
  BY DEF Active, ListenerPc
<1>u. worker[g].pc \in Active => Within(nudged, worker[g].mem.attempts) /\ Len(worker[g].mem.attempts) <= MaxWakes
  BY <1>b DEF Accounted
\* Nothing on disk changes and nothing is asked.
<1>a. ASSUME NEW w, Put(g, w), UNCHANGED nudged, ledger'.disk = ledger.disk, w.pc \notin {"reserve", "wake"},
             w.pc \in Active => worker[g].pc \in Active /\ w.mem = worker[g].mem
      PROVE  BudgetInv'
  <2>1. Accounted(w, ledger'.disk.attempts, nudged')
    BY <1>a, <1>u, FreeAccount
  <2> QED
    BY <1>a, <1>b, <2>1, BudgetStep
<1>h. ASSUME NEW w, Put(g, w), UNCHANGED nudged, UNCHANGED ledger, w.pc = worker[g].pc, w.mem = worker[g].mem, w.since = worker[g].since
      PROVE  BudgetInv'
  <2>1. Accounted(w, ledger'.disk.attempts, nudged')
    BY <1>h, <1>b, SameAccount
  <2> QED
    BY <1>h, <1>b, <2>1, BudgetStep
<1>e. ASSUME EndWorker(g), UNCHANGED nudged PROVE BudgetInv'
  <2>1. Put(g, NewWorker) /\ ledger'.disk = ledger.disk
    BY <1>e, <1>0 DEF EndWorker, StateFile
  <2> QED
    BY <1>a, <1>e, <1>y, <2>1, NewFacts
<1>s. ASSUME NEW m, SaveBestEffort(m) PROVE ledger'.disk \in {m, ledger.disk}
  BY <1>s, <1>0 DEF SaveBestEffort, StateFile
<1>1. CASE Begin(g)
  <2>1. CASE ControlOK(g)
    <3>1. [worker[g] EXCEPT !.pc = "lock", !.proof = TRUE].pc = "lock"
      BY <1>0 DEF Listener
    <3> QED
      BY <1>1, <2>1, <3>1, <1>a, <1>y DEF Begin
  <2>2. CASE ~ControlOK(g)
    BY <1>1, <2>2, <1>e DEF Begin
  <2> QED
    BY <2>1, <2>2
<1>2. CASE TakeLedger(g)
  <2> DEFINE w == [worker[g] EXCEPT !.pc = "boot", !.mem = ledger.disk]
  <2>1. w.pc = "boot" /\ w.mem = ledger.disk /\ ledger'.disk = ledger.disk
    BY <1>0, <1>2 DEF Listener, StateFile, TakeLedger
  <2>2. Put(g, w) /\ UNCHANGED nudged
    BY <1>2 DEF TakeLedger
  <2> HIDE DEF w
  <2>3. Accounted(w, ledger'.disk.attempts, nudged')
    BY <1>b, <2>1, <2>2, FreeAccount
  <2> QED
    BY <1>b, <2>1, <2>2, <2>3, BudgetStep
<1>3. CASE GiveUp(g) \/ ProbeFails(g) \/ Cancelled(g) \/ WorkerDies(g)
  BY <1>3, <1>e DEF GiveUp, ProbeFails, Cancelled, WorkerDies
<1>4. CASE Boot(g)
  <2>1. [worker[g] EXCEPT !.pc = "loop", !.hint = TRUE].pc = "loop" /\ [worker[g] EXCEPT !.pc = "loop", !.hint = TRUE].mem = worker[g].mem
    BY <1>0 DEF Listener
  <2> QED
    BY <1>4, <1>y, <2>1, <1>a DEF Boot
<1>5. CASE WatchControl(g) \/ StreamOpens(g) \/ StreamBreaks(g) \/ ReconcileTick(g)
  <2>1. PICK w : /\ Put(g, w) /\ UNCHANGED <<nudged, ledger>>
                 /\ w \in {[worker[g] EXCEPT !.stop = TRUE], [worker[g] EXCEPT !.linked = TRUE, !.hint = TRUE],
                           [worker[g] EXCEPT !.linked = FALSE], [worker[g] EXCEPT !.hint = TRUE]}
    BY <1>5 DEF WatchControl, StreamOpens, StreamBreaks, ReconcileTick
  <2>2. w.pc = worker[g].pc /\ w.mem = worker[g].mem /\ w.since = worker[g].since
    BY <1>0, <2>1 DEF Listener
  <2> QED
    BY <1>h, <2>1, <2>2
<1>7. ASSUME NEW byTimer \in BOOLEAN, Scan(g, byTimer) PROVE BudgetInv'
  <2>1. PICK v \in {[worker[g] EXCEPT !.due = -1], [worker[g] EXCEPT !.hint = FALSE]} :
          Put(g, v) \/ Put(g, [v EXCEPT !.pc = "gate", !.scan = FetchUnread]) \/ Put(g, [v EXCEPT !.due = 0])
    BY <1>7 DEF Scan
  <2>2. UNCHANGED <<nudged, ledger>> /\ worker[g].pc = "loop"
    BY <1>7 DEF Scan
  <2>3. \E w : Put(g, w) /\ w.pc \in {"loop", "gate"} /\ w.mem = worker[g].mem
    <3>2. v.pc = "loop" /\ v.mem = worker[g].mem
      BY <1>0, <2>1, <2>2 DEF Listener
    <3>3. [v EXCEPT !.pc = "gate", !.scan = FetchUnread].pc = "gate" /\ [v EXCEPT !.pc = "gate", !.scan = FetchUnread].mem = worker[g].mem
      BY <1>0, <2>1 DEF Listener
    <3>4. [v EXCEPT !.due = 0].pc = "loop" /\ [v EXCEPT !.due = 0].mem = worker[g].mem
      BY <1>0, <2>1, <2>2 DEF Listener
    <3> QED
      BY <2>1, <3>2, <3>3, <3>4
  <2> QED
    BY <1>a, <1>y, <2>2, <2>3
<1>8. CASE Gate(g)
  <2>1. worker[g].pc = "gate" /\ UNCHANGED nudged
    BY <1>8 DEF Gate
  <2>2. \/ Put(g, [worker[g] EXCEPT !.pc = "schedule", !.scan = {}]) /\ UNCHANGED ledger
        \/ EndWorker(g)
        \/ /\ Put(g, [worker[g] EXCEPT !.pc = "reserve", !.since = WakeWindow]) /\ UNCHANGED ledger
           /\ ~(Len(worker[g].mem.attempts) >= MaxWakes)
    BY <1>8 DEF Gate
  <2>3. CASE Put(g, [worker[g] EXCEPT !.pc = "schedule", !.scan = {}]) /\ UNCHANGED ledger
    <3>1. [worker[g] EXCEPT !.pc = "schedule", !.scan = {}].pc = "schedule" /\ [worker[g] EXCEPT !.pc = "schedule", !.scan = {}].mem = worker[g].mem
      BY <1>0 DEF Listener
    <3> QED
      BY <1>a, <1>y, <2>1, <2>3, <3>1
  <2>4. CASE Put(g, [worker[g] EXCEPT !.pc = "reserve", !.since = WakeWindow]) /\ UNCHANGED ledger
             /\ ~(Len(worker[g].mem.attempts) >= MaxWakes)
    <3> DEFINE w == [worker[g] EXCEPT !.pc = "reserve", !.since = WakeWindow]
    <3>1. w.pc = "reserve" /\ w.mem = worker[g].mem /\ w.since = WakeWindow
      BY <1>0 DEF Listener
    <3>2. Put(g, w)
      BY <2>4
    <3> HIDE DEF w
    <3>3. Bounded(w.mem.attempts, w.since)
      BY <1>f, <3>1, WakeNumbers DEF Bounded, Life
    <3>4. Len(w.mem.attempts) < MaxWakes
      BY <1>f, <2>4, <3>1, WakeNumbers
    <3>5. Within(nudged, w.mem.attempts) /\ Len(w.mem.attempts) <= MaxWakes
      BY <1>u, <1>y, <2>1, <3>1
    <3>6. Accounted(w, ledger.disk.attempts, nudged)
      BY <3>1, <3>3, <3>4, <3>5 DEF Accounted
    <3>7. ledger' = ledger /\ nudged' = nudged
      BY <2>1, <2>4
    <3> QED
      BY <1>b, <3>2, <3>6, <3>7, BudgetStep
  <2> QED
    BY <1>e, <2>1, <2>2, <2>3, <2>4
<1>9. CASE ReserveAttempt(g)
  <2> DEFINE mem == Reserved(worker[g])
             s == worker[g].mem.attempts
             v == worker[g].since
  <2>0. worker[g].pc = "reserve" /\ UNCHANGED nudged
    BY <1>9 DEF ReserveAttempt
  <2>1. \/ /\ ledger' = [ledger EXCEPT !.disk = mem]
           /\ Put(g, [worker[g] EXCEPT !.pc = "wake", !.mem = mem])
        \/ /\ Put(g, [worker[g] EXCEPT !.pc = "loop", !.mem = mem, !.due = 0, !.scan = {}])
           /\ UNCHANGED ledger
    BY <1>9 DEF ReserveAttempt
  <2>2. mem \in Budget /\ mem.attempts = IF v > 0 THEN Append(s, v) ELSE s
    BY <1>0, ReservedFacts
  <2>3. Within(nudged, s) /\ Len(s) < MaxWakes /\ Bounded(s, v)
    BY <1>b, <2>0, <1>y DEF Accounted
  <2> HIDE DEF mem
  <2>4. v > 0 => v \in Life
    BY <1>0, <1>f, ReachedFacts
  <2> DEFINE t == mem.attempts
  <2>5. s \in Seq(Life) /\ v \in 0..WakeWindow
    BY <1>f
  <2> HIDE DEF s, v
  <2>6. t \in Seq(Life) /\ Len(t) <= MaxWakes /\ Bounded(t, v)
    <3>1. CASE v > 0
      <4>1. t = Append(s, v)
        BY <2>2, <3>1
      <4>2. t \in Seq(Life) /\ Len(t) = Len(s) + 1 /\ \A i \in 1..Len(t) : t[i] = IF i = Len(s) + 1 THEN v ELSE s[i]
        BY <2>4, <2>5, <3>1, <4>1
      <4>3. Len(s) \in Nat /\ v \in Nat
        BY <2>5, WakeNumbers
      <4>4. Len(t) <= MaxWakes
        BY <2>3, <4>2, <4>3, WakeNumbers
      <4>5. ASSUME NEW i \in 1..Len(t) PROVE t[i] <= v
        <5>1. i = Len(s) + 1 \/ i \in 1..Len(s)
          BY <4>2, <4>3
        <5> QED
          BY <2>3, <4>2, <4>3, <5>1 DEF Bounded
      <4> QED
        BY <4>2, <4>4, <4>5 DEF Bounded
    <3>2. CASE ~(v > 0)
      <4>1. t = s /\ Len(s) \in Nat
        BY <2>2, <2>5, <3>2
      <4> QED
        BY <2>3, <2>5, <4>1, WakeNumbers
    <3> QED
      BY <3>1, <3>2
  <2>7. Within(nudged, t) /\ Within(Reached(nudged, v), t)
    BY <1>0, <2>2, <2>3, <2>4, <2>5, WithinAppend DEF Reached
  <2>8. v > 0 => Ends(t, v)
    BY <2>2, <2>5 DEF Ends
  <2>9. CASE ledger' = [ledger EXCEPT !.disk = mem] /\ Put(g, [worker[g] EXCEPT !.pc = "wake", !.mem = mem])
    <3> DEFINE w == [worker[g] EXCEPT !.pc = "wake", !.mem = mem]
    <3>1. w.pc = "wake" /\ w.mem = mem /\ w.since = v /\ ledger'.disk = mem
      BY <1>0, <2>9 DEF Listener, StateFile, v
    <3>2. Put(g, w)
      BY <2>9
    <3> HIDE DEF w
    <3>3. Accounted(w, mem.attempts, nudged)
      BY <2>6, <2>7, <2>8, <3>1 DEF Accounted
    <3> QED
      BY <1>y, <2>0, <2>6, <2>7, <3>1, <3>2, <3>3, BudgetStep
  <2>10. CASE Put(g, [worker[g] EXCEPT !.pc = "loop", !.mem = mem, !.due = 0, !.scan = {}]) /\ UNCHANGED ledger
    <3> DEFINE w == [worker[g] EXCEPT !.pc = "loop", !.mem = mem, !.due = 0, !.scan = {}]
    <3>1. w.pc = "loop" /\ w.mem = mem
      BY <1>0 DEF Listener
    <3>2. Put(g, w) /\ ledger' = ledger /\ nudged' = nudged
      BY <2>0, <2>10
    <3> HIDE DEF w
    <3>3. Accounted(w, ledger.disk.attempts, nudged)
      BY <2>6, <2>7, <3>1, FreeAccount
    <3> QED
      BY <1>b, <3>2, <3>3, BudgetStep
  <2> QED
    BY <2>1, <2>9, <2>10
\* The handoff: what reaches the host has been reserved, in memory and on disk.
<1>w. ASSUME worker[g].pc = "wake", Reaches(g) \/ UNCHANGED <<nudged, pardons>>
      PROVE  Within(nudged', worker[g].mem.attempts) /\ Within(nudged', ledger.disk.attempts)
  <2>1. nudged' = nudged \/ nudged' = Reached(nudged, worker[g].since)
    BY <1>w DEF Reaches, Reached
  <2>2. Within(Reached(nudged, worker[g].since), worker[g].mem.attempts) /\ Within(Reached(nudged, worker[g].since), ledger.disk.attempts)
    BY <1>b, <1>w DEF Accounted
  <2> QED
    BY <1>b, <1>u, <1>w, <1>y, <2>1, <2>2
<1>10. CASE WakeAccepted(g)
  <2> DEFINE cool == Cooldown - (WakeWindow - worker[g].since)
             left == IF cool > 0 THEN cool ELSE 0
             mem == [worker[g].mem EXCEPT !.print = worker[g].scan, !.cool = left]
             w == [worker[g] EXCEPT !.pc = "schedule", !.mem = mem, !.scan = {}]
  <2>1. worker[g].pc = "wake" /\ Reaches(g) /\ SaveBestEffort(mem) /\ Put(g, w)
    BY <1>10 DEF WakeAccepted
  <2> HIDE DEF left
  <2>2. mem.attempts = worker[g].mem.attempts
    BY <1>f DEF Budget
  <2> HIDE DEF mem
  <2>3. w.pc = "schedule" /\ w.mem = mem
    BY <1>0 DEF Listener
  <2> HIDE DEF w
  <2>4. ledger'.disk \in {mem, ledger.disk}
    BY <1>s, <2>1
  <2>5. Within(nudged', worker[g].mem.attempts) /\ Within(nudged', ledger.disk.attempts) /\ Len(worker[g].mem.attempts) <= MaxWakes
    BY <1>u, <1>w, <1>y, <2>1
  <2>6. Within(nudged', ledger'.disk.attempts) /\ Len(ledger'.disk.attempts) <= MaxWakes
    BY <1>b, <2>2, <2>4, <2>5
  <2>7. Accounted(w, ledger'.disk.attempts, nudged')
    BY <2>2, <2>3, <2>5, FreeAccount
  <2> QED
    BY <1>y, <2>1, <2>6, <2>7, BudgetStep
\* The refund takes back what was reserved last, and the nudges are still accounted for.
<1>r. ASSUME worker[g].pc = "wake"
      PROVE  Within(nudged, Refunded(worker[g]).attempts) /\ Len(Refunded(worker[g]).attempts) <= MaxWakes
  <2> DEFINE s == worker[g].mem.attempts
             v == worker[g].since
  <2>1. Within(Reached(nudged, v), s) /\ Len(s) <= MaxWakes /\ Bounded(s, v) /\ (v > 0 => Ends(s, v)) /\ Within(nudged, s)
    BY <1>b, <1>r, <1>y DEF Accounted
  <2>2. CASE v > 0
    <3>1. v \in Life
      BY <1>0, <1>f, <2>2, ReachedFacts
    <3>2. PICK r \in Seq(Life) : s = Append(r, v)
      BY <2>1, <2>2 DEF Ends
    <3>3. Refunded(worker[g]).attempts = r
      BY <1>0, <3>1, <3>2, ReservedFacts
    <3>4. Within(Append(nudged, v), Append(r, v))
      BY <2>1, <2>2, <3>2 DEF Reached
    <3>5. Within(nudged, r)
      BY <1>0, <3>1, <3>4, WithinLess
    <3>6. Len(r) <= MaxWakes
      <4>1. Len(s) = Len(r) + 1 /\ Len(r) \in Nat
        BY <3>2
      <4> HIDE DEF s
      <4> QED
        BY <2>1, <4>1, WakeNumbers
    <3> QED
      BY <3>3, <3>5, <3>6
  <2>3. CASE ~(v > 0)
    <3>1. v = 0
      BY <1>f, <2>3, WakeNumbers
    <3>2. s = <<>>
      BY <1>f, <2>1, <3>1, AgedBounds DEF Bounded
    <3>3. Refunded(worker[g]).attempts = <<>>
      BY <1>0, <3>2, ReservedFacts
    <3> QED
      BY <2>1, <3>2, <3>3
  <2> QED
    BY <2>2, <2>3
<1>11. CASE WakeBusy(g)
  <2> DEFINE mem == Refunded(worker[g])
             w == [worker[g] EXCEPT !.pc = "loop", !.mem = mem, !.due = 0, !.scan = {}]
  <2>1. worker[g].pc = "wake" /\ UNCHANGED nudged /\ SaveBestEffort(mem) /\ Put(g, w)
    BY <1>11 DEF WakeBusy
  <2>2. Within(nudged, mem.attempts) /\ Len(mem.attempts) <= MaxWakes
    BY <1>r, <2>1
  <2> HIDE DEF mem
  <2>3. w.pc = "loop" /\ w.mem = mem
    BY <1>0 DEF Listener
  <2> HIDE DEF w
  <2>4. ledger'.disk \in {mem, ledger.disk}
    BY <1>s, <2>1
  <2>5. Within(nudged', ledger'.disk.attempts) /\ Len(ledger'.disk.attempts) <= MaxWakes
    BY <1>b, <2>1, <2>2, <2>4
  <2>6. Accounted(w, ledger'.disk.attempts, nudged')
    BY <2>1, <2>2, <2>3, FreeAccount
  <2> QED
    BY <1>y, <2>1, <2>5, <2>6, BudgetStep
<1>12. CASE WakeUnavailable(g)
  <2>1. worker[g].pc = "wake" /\ UNCHANGED nudged /\ Put(g, NewWorker) /\ ledger'.disk \in {ledger.disk, Refunded(worker[g])}
    BY <1>12 DEF WakeUnavailable
  <2>2. Within(nudged', ledger'.disk.attempts) /\ Len(ledger'.disk.attempts) <= MaxWakes
    BY <1>b, <1>r, <2>1
  <2>3. Accounted(NewWorker, ledger'.disk.attempts, nudged')
    BY <1>y, NewFacts, FreeAccount
  <2> QED
    BY <1>y, <2>1, <2>2, <2>3, BudgetStep
<1>13. CASE WakeAmbiguous(g)
  <2> DEFINE w == [worker[g] EXCEPT !.pc = "loop", !.due = 0, !.scan = {}]
  <2>1. worker[g].pc = "wake" /\ (Reaches(g) \/ UNCHANGED <<nudged, pardons>>) /\ Put(g, w) /\ UNCHANGED ledger
    BY <1>13 DEF WakeAmbiguous
  <2>2. w.pc = "loop" /\ w.mem = worker[g].mem
    BY <1>0 DEF Listener
  <2> HIDE DEF w
  <2>3. Within(nudged', worker[g].mem.attempts) /\ Within(nudged', ledger.disk.attempts) /\ Len(worker[g].mem.attempts) <= MaxWakes
    BY <1>u, <1>w, <1>y, <2>1
  <2>4. Accounted(w, ledger.disk.attempts, nudged')
    BY <2>2, <2>3, FreeAccount
  <2> QED
    BY <1>b, <1>y, <2>1, <2>3, <2>4, BudgetStep
<1>14. CASE ScheduleMaintenance(g)
  <2>1. PICK due : Put(g, [worker[g] EXCEPT !.pc = "loop", !.due = due])
    BY <1>14 DEF ScheduleMaintenance
  <2>2. UNCHANGED <<nudged, ledger>> /\ worker[g].pc = "schedule"
    BY <1>14 DEF ScheduleMaintenance
  <2>3. [worker[g] EXCEPT !.pc = "loop", !.due = due].pc = "loop" /\ [worker[g] EXCEPT !.pc = "loop", !.due = due].mem = worker[g].mem
    BY <1>0 DEF Listener
  <2> QED
    BY <1>a, <1>y, <2>1, <2>2, <2>3
<1> QED
  BY <1>1, <1>2, <1>3, <1>4, <1>5, <1>7, <1>8, <1>9, <1>10, <1>11, <1>12, <1>13, <1>14 DEF ListenerStep

\* The callers, the mail and the clock.
LEMMA OthersKeepBudget ==
    ASSUME WakeTypes, WakeTypes', LockInv, BudgetInv,
           \/ \E c \in Callers : (\E e \in AnyEndpoint : EnsureListener(c, e) \/ Stop(c, e)) \/ LifecycleStep(c) \/ CallerDies(c)
           \/ \E m \in Mail : MailArrives(m) \/ HookReads(m)
           \/ WakeTick
    PROVE  BudgetInv'
<1>0. /\ worker \in [Gen -> Listener] /\ worker' \in [Gen -> Listener] /\ ledger \in StateFile /\ nudged \in Seq(Life)
      /\ ledger.disk \in Budget /\ ledger.disk.attempts \in Seq(Life)
  <2>1. worker \in [Gen -> Listener] /\ worker' \in [Gen -> Listener] /\ ledger \in StateFile /\ nudged \in Seq(Life)
    BY DEF WakeTypes
  <2>2. ledger.disk \in Budget
    BY <2>1 DEF StateFile
  <2> QED
    BY <2>1, <2>2, BudgetFacts
<1>b. /\ Within(nudged, ledger.disk.attempts) /\ Len(ledger.disk.attempts) <= MaxWakes
      /\ \A g \in Gen : Accounted(worker[g], ledger.disk.attempts, nudged)
  BY DEF BudgetInv
<1>1. ASSUME UNCHANGED <<ledger, nudged>>, \A g \in Gen : Recast(worker[g], worker'[g]) PROVE BudgetInv'
  <2>1. ASSUME NEW g \in Gen PROVE Accounted(worker'[g], ledger.disk.attempts, nudged)
    <3>1. CASE worker'[g].pc = worker[g].pc /\ worker'[g].mem = worker[g].mem /\ worker'[g].since = worker[g].since
      BY <1>b, <3>1, SameAccount
    <3>2. CASE worker'[g].pc = "start"
      <4>1. "start" \notin Active
        BY DEF Active
      <4> QED
        BY <3>2, <4>1, FreeAccount
    <3> QED
      BY <1>1, <3>1, <3>2 DEF Recast
  <2>2. ledger' = ledger /\ nudged' = nudged
    BY <1>1
  <2>3. \A g \in Gen : Accounted(worker'[g], ledger'.disk.attempts, nudged')
    BY <2>1, <2>2
  <2> QED
    BY <1>b, <2>2, <2>3 DEF BudgetInv
<1>2. CASE \E c \in Callers : (\E e \in AnyEndpoint : EnsureListener(c, e) \/ Stop(c, e)) \/ LifecycleStep(c) \/ CallerDies(c)
  BY <1>1, <1>2, CallersKeepOut
<1>3. CASE \E m \in Mail : MailArrives(m) \/ HookReads(m)
  <2>1. UNCHANGED <<ledger, nudged>>
    BY <1>3 DEF MailArrives, HookReads
  <2>2. \A w \in Listener : \A b : Recast(w, [w EXCEPT !.hint = b]) /\ Recast(w, w)
    BY DEF Recast, Listener
  <2>3. \A g \in Gen : worker'[g] = worker[g] \/ \E b : worker'[g] = [worker[g] EXCEPT !.hint = b]
    BY <1>0, <1>3 DEF MailArrives, HookReads
  <2>4. ASSUME NEW g \in Gen PROVE Recast(worker[g], worker'[g])
    <3>1. worker[g] \in Listener
      BY <1>0
    <3>2. CASE worker'[g] = worker[g]
      BY <2>2, <3>1, <3>2
    <3>3. CASE worker'[g] # worker[g]
      <4>1. PICK b : worker'[g] = [worker[g] EXCEPT !.hint = b]
        BY <2>3, <3>3
      <4> QED
        BY <2>2, <3>1, <4>1
    <3> QED
      BY <3>2, <3>3
  <2> QED
    BY <1>1, <2>1, <2>4
<1>4. CASE WakeTick
  <2> DEFINE s == ledger.disk.attempts
  <2>1. nudged' = AgedSeq(nudged)
    BY <1>4 DEF WakeTick
  <2>2. ledger'.disk.attempts = AgedSeq(s)
    <3>1. ledger' = [ledger EXCEPT !.disk = AgedBudget(ledger.disk)]
      BY <1>4 DEF WakeTick
    <3>2. ledger'.disk = AgedBudget(ledger.disk)
      BY <1>0, <3>1 DEF StateFile
    <3> QED
      BY <1>0, <3>2, BudgetFacts
  <2>3. Within(nudged', ledger'.disk.attempts)
    BY <1>0, <1>b, <2>1, <2>2, WithinAged
  <2>4. Len(ledger'.disk.attempts) <= MaxWakes
    <3>1. \A i \in 1..Len(s) : s[i] <= WakeWindow
      BY <1>0, WakeNumbers DEF Life
    <3>2. Len(AgedSeq(s)) <= Len(s) /\ Len(AgedSeq(s)) \in Nat /\ Len(s) \in Nat
      <4>1. s \in Seq(Life) /\ WakeWindow \in Nat
        BY <1>0, WakeNumbers
      <4>2. AgedSeq(s) \in Seq(Life)
        BY <4>1, AgedType
      <4> HIDE DEF s
      <4> QED
        <5>1. Len(AgedSeq(s)) <= Len(s)
          BY <3>1, <4>1, AgedBounds
        <5> QED
          BY <4>1, <4>2, <5>1
    <3> QED
      BY <1>b, <2>2, <3>2, WakeNumbers
  <2>5. ASSUME NEW g \in Gen PROVE Accounted(worker'[g], ledger'.disk.attempts, nudged')
    <3> DEFINE b == AgedBudget(worker[g].mem)
               n == Aged(worker[g].due)
               v == Aged(worker[g].since)
    <3>0. worker'[g] = [worker[g] EXCEPT !.mem = b, !.due = n, !.since = v] /\ worker[g] \in Listener /\ worker'[g] \in Listener
      BY <1>0, <1>4 DEF WakeTick
    <3>1. b.attempts = AgedSeq(worker[g].mem.attempts)
      BY <3>0, ListenerFacts, BudgetFacts
    <3> HIDE DEF b, n
    <3>2. worker'[g].pc = worker[g].pc /\ worker'[g].mem = b /\ worker'[g].since = v
      BY <3>0 DEF Listener
    <3>3. Accounted(worker'[g], AgedSeq(s), AgedSeq(nudged))
      BY <1>0, <1>b, <3>0, <3>1, <3>2, AccountedAges
    <3> QED
      BY <2>1, <2>2, <3>3
  <2> QED
    BY <2>3, <2>4, <2>5 DEF BudgetInv
<1> QED
  BY <1>2, <1>3, <1>4

\* The inductive invariant of the wake bridge.
WakeInv == WakeTypes /\ LockInv /\ HolderInv /\ AwakeInv /\ SilenceInv /\ BudgetInv

\* It holds at first.
LEMMA WakeInvInit == WakeInit => WakeInv
<1> SUFFICES ASSUME WakeInit PROVE WakeInv
  OBVIOUS
<1>1. WakeTypes
  BY WakeInitTypes
<1>2. /\ dir.markers = {} /\ ledger.holder = 0 /\ ledger.disk.attempts = <<>> /\ nudged = <<>>
      /\ \A c \in Callers : caller[c].pc = "idle"
      /\ \A g \in Gen : worker[g].pc = "none" /\ pardons[g] = 0
  BY NewFacts DEF WakeInit
<1>3. "idle" \notin Inside /\ "none" \notin Active /\ 0 \notin Gen
  BY WakeNumbers DEF Inside, Active
<1>4. LockInv
  BY <1>2, <1>3 DEF LockInv, AtMostOne
<1>5. HolderInv /\ AwakeInv
  BY <1>2, <1>3 DEF HolderInv, AwakeInv
<1>6. SilenceInv
  BY <1>2 DEF SilenceInv
<1>7. BudgetInv
  <2>1. Within(nudged, ledger.disk.attempts)
    BY <1>2, CountEmpty DEF Within
  <2>2. Len(ledger.disk.attempts) <= MaxWakes
    BY <1>2, WakeNumbers
  <2>3. \A g \in Gen : Accounted(worker[g], ledger.disk.attempts, nudged)
    BY <1>2, <1>3, FreeAccount
  <2> QED
    BY <2>1, <2>2, <2>3 DEF BudgetInv
<1> QED
  BY <1>1, <1>4, <1>5, <1>6, <1>7 DEF WakeInv

\* Every step keeps it.
LEMMA WakeInvStep == WakeInv /\ [WakeNext]_wakeVars => WakeInv'
<1> SUFFICES ASSUME WakeInv, [WakeNext]_wakeVars PROVE WakeInv'
  OBVIOUS
<1>0. WakeTypes /\ LockInv /\ HolderInv /\ AwakeInv /\ SilenceInv /\ BudgetInv
  BY DEF WakeInv
<1>1. ASSUME NEW c \in Callers, (\E e \in AnyEndpoint : EnsureListener(c, e) \/ Stop(c, e)) \/ LifecycleStep(c) \/ CallerDies(c)
      PROVE  WakeInv'
  <2>1. caller[c].pc = "restore" => caller[c].old.gen \in Gen
    BY <1>0 DEF LockInv
  <2>2. WakeTypes'
    BY <1>0, <1>1, <2>1, LifecycleTypes
  <2>3. LockInv'
    BY <1>0, <1>1, <2>2, CallersKeepLock
  <2>4. HolderInv' /\ AwakeInv' /\ SilenceInv'
    BY <1>0, <1>1, CallersKeepListeners
  <2>5. BudgetInv'
    BY <1>0, <1>1, <2>2, OthersKeepBudget
  <2> QED
    BY <2>2, <2>3, <2>4, <2>5 DEF WakeInv
<1>2. ASSUME NEW g \in Gen,
             \/ ListenerStep(g) \/ WatchControl(g) \/ ProbeFails(g) \/ StreamOpens(g)
             \/ StreamBreaks(g) \/ ReconcileTick(g) \/ WorkerDies(g)
      PROVE  WakeInv'
  <2>1. worker[g].pc = "schedule" => MaxWakes > 0
    BY <1>0 DEF AwakeInv
  <2>2. WakeTypes'
    BY <1>0, <1>2, <2>1, ListenerTypes
  <2>3. ListenerMoved(g)
    BY <1>0, <1>2, ListenerMoves
  <2>4. LockInv' /\ HolderInv' /\ AwakeInv' /\ SilenceInv'
    BY <1>0, <2>3, ListenersKeepLock, ListenersKeepHolder, ListenersKeepAwake, ListenersKeepSilent
  <2>5. BudgetInv'
    BY <1>0, <1>2, ListenersKeepBudget
  <2> QED
    BY <2>2, <2>4, <2>5 DEF WakeInv
<1>3. CASE (\E m \in Mail : MailArrives(m) \/ HookReads(m)) \/ WakeTick
  <2>1. WakeTypes'
    BY <1>0, <1>3, AroundTypes
  <2>2. LockInv' /\ HolderInv' /\ AwakeInv' /\ SilenceInv'
    BY <1>0, <1>3, AroundKeeps
  <2>3. BudgetInv'
    BY <1>0, <1>3, <2>1, OthersKeepBudget
  <2> QED
    BY <2>1, <2>2, <2>3 DEF WakeInv
<1>4. CASE UNCHANGED wakeVars
  <2>1. UNCHANGED <<dir, caller, ledger, worker, mail, nudged, pardons, wakeMishaps>>
    BY <1>4 DEF wakeVars
  <2>2. WakeTypes' /\ LockInv' /\ HolderInv' /\ AwakeInv' /\ SilenceInv'
    BY <1>0, <2>1 DEF WakeTypes, LockInv, HolderInv, AwakeInv, SilenceInv
  <2>3. BudgetInv'
    BY <1>0, <2>1 DEF BudgetInv
  <2> QED
    BY <2>2, <2>3 DEF WakeInv
<1> QED
  BY <1>1, <1>2, <1>3, <1>4 DEF WakeNext, AnyEndpoint

\* It has the promises as consequences.
LEMMA WakeInvSafe == WakeInv => WakeTypeOK /\ WakeSafety
<1> SUFFICES ASSUME WakeInv PROVE WakeTypeOK /\ WakeSafety
  OBVIOUS
<1>0. WakeTypes /\ LockInv /\ SilenceInv /\ BudgetInv
  BY DEF WakeInv
<1>1. WakeTypeOK
  <2>1. dir.markers \subseteq Gen /\ dir.current \in 0..Gens /\ dir.record \in Record /\ dir.locked \in BOOLEAN
    BY <1>0, DirFacts DEF WakeTypes
  <2>2. ledger.disk \in Budget /\ ledger.holder \in 0..Gens
    BY <1>0 DEF WakeTypes, StateFile
  <2>3. \A c \in Callers : caller[c].old \in Record /\ caller[c].gen \in 0..Gens
    BY <1>0, CallerFacts DEF WakeTypes
  <2>4. \A g \in Gen : worker[g].mem \in Budget /\ worker[g].scan \subseteq Mail /\ worker[g].due \in Due /\ worker[g].since \in 0..WakeWindow
    BY <1>0, ListenerFacts DEF WakeTypes
  <2> QED
    BY <1>0, <2>1, <2>2, <2>3, <2>4 DEF WakeTypes, WakeTypeOK, Due
<1>2. StormCap
  <2> DEFINE s == ledger.disk.attempts
  <2>1. nudged \in Seq(Life) /\ s \in Seq(Life)
    <3>1. ledger.disk \in Budget
      BY <1>0 DEF WakeTypes, StateFile
    <3> QED
      BY <1>0, <3>1, BudgetFacts DEF WakeTypes
  <2>2. CountFrom(nudged, 1) <= CountFrom(s, 1) /\ Len(s) <= MaxWakes
    BY <1>0 DEF BudgetInv, Within
  <2>3. CountFrom(nudged, 1) = Len(nudged) /\ CountFrom(s, 1) = Len(s)
    BY <2>1, CountAll
  <2>4. Len(nudged) \in Nat /\ Len(s) \in Nat
    BY <2>1
  <2> QED
    BY <2>2, <2>3, <2>4, WakeNumbers DEF StormCap
<1>3. OneGeneration
  <2>1. CASE dir.markers = {}
    BY <2>1, FS_EmptySet DEF OneGeneration
  <2>2. CASE dir.markers # {}
    <3>1. PICK g \in dir.markers : TRUE
      BY <2>2
    <3>2. dir.markers = {g}
      BY <1>0, <3>1 DEF LockInv, AtMostOne
    <3>3. Cardinality({g}) = 1
      BY FS_Singleton
    <3> QED
      BY <3>2, <3>3 DEF OneGeneration
  <2> QED
    BY <2>1, <2>2
<1>4. SupersededIsSilent
  BY <1>0 DEF SilenceInv, SupersededIsSilent
<1> QED
  BY <1>1, <1>2, <1>3, <1>4 DEF WakeSafety

\* For any number of hooks, generations, letters and faults, and whatever the budget: the types hold.
THEOREM WakeTypeCorrect == WakeSpec => []WakeTypeOK
  BY WakeInvInit, WakeInvStep, WakeInvSafe, PTL DEF WakeSpec

\* And the listener keeps its promises: the host is nudged at most MaxWakes times in a window, however often
\* listeners crash, are replaced or fail to save; one generation has its marker; a superseded one is silent.
THEOREM WakeKeepsItsPromises == WakeSpec => []WakeSafety
  BY WakeInvInit, WakeInvStep, WakeInvSafe, PTL DEF WakeSpec
=============================================================================
