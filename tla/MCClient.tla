----------------------------- MODULE MCClient ------------------------------
(***************************************************************************)
(* The client side of punk for TLC: connect and login, the capture hooks,  *)
(* verify and doctor over Codex's scopes, and the streams that clients     *)
(* hold open.  They share no state while they run; a behaviour exercises   *)
(* one of them, "part", and leaves the others where they start.            *)
(***************************************************************************)
EXTENDS ClientConfig, SessionCapture, CodexScopes, MessageStreams

CONSTANT Parts
VARIABLE part

clientVars == <<part, configVars, captureVars, scopeVars, vars>>

\* A part at rest starts in one of its initial states.
AtRest ==
    /\ part # "config" => agent = CHOOSE a \in AgentClients : TRUE
    /\ part # "capture" => host = CHOOSE h \in Hosts : TRUE
    /\ part # "scopes" => ~aliased /\ environ = [K |-> "", V |-> ""] /\ probe = [key |-> "", honours |-> TRUE]

ClientInit == part \in Parts /\ ConfigInit /\ CaptureInit /\ ScopeInit /\ Init /\ AtRest

ClientNext ==
    /\ UNCHANGED part
    /\ \/ part = "config" /\ ConfigNext /\ UNCHANGED <<captureVars, scopeVars, vars>>
       \/ part = "capture" /\ CaptureNext /\ UNCHANGED <<configVars, scopeVars, vars>>
       \/ part = "scopes" /\ ScopeNext /\ UNCHANGED <<configVars, captureVars, vars>>
       \/ part = "streams" /\ Next /\ UNCHANGED <<configVars, captureVars, scopeVars>>

ClientSpec == ClientInit /\ [][ClientNext]_clientVars

\* Type correctness of every part.
ClientTypeOK ==
    /\ part = "config" => ConfigTypeOK
    /\ part = "capture" => CaptureTypeOK
    /\ part = "scopes" => ScopeTypeOK
    /\ part = "streams" => TypeOK
=============================================================================
