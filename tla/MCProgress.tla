---------------------------- MODULE MCProgress -----------------------------
(***************************************************************************)
(* What must happen in the end, for TLC: the listener, the bridge, the     *)
(* streams and the fact pipeline, with one process of each kind.  A        *)
(* behaviour exercises one of them, "part", and leaves the others where    *)
(* they start.                                                             *)
(***************************************************************************)
EXTENDS NativeWake, InboxBridge, MessageStreams, FactPipeline

CONSTANT Parts
VARIABLE part

progressVars == <<part, wakeVars, bridgeVars, vars, pipeVars>>

ProgressInit == part \in Parts /\ WakeInit /\ BridgeInit /\ Init /\ PipeInit

OnlyWake == UNCHANGED <<part, bridgeVars, vars, pipeVars>>
OnlyBridge == UNCHANGED <<part, wakeVars, vars, pipeVars>>
OnlyStreams == UNCHANGED <<part, wakeVars, bridgeVars, pipeVars>>
OnlyFacts == UNCHANGED <<part, wakeVars, bridgeVars, vars>>

ProgressNext ==
    \/ part = "wake" /\ WakeNext /\ OnlyWake
    \/ part = "bridge" /\ BridgeNext /\ OnlyBridge
    \/ part = "streams" /\ Next /\ OnlyStreams
    \/ part = "facts" /\ PipeNext /\ OnlyFacts

\* The fairness of the four modules.  Only one part moves in a behaviour, so a
\* condition on the i-th action of each is the condition on the one that moves.
Recurs(i) ==
    \/ part = "wake" /\ (\E c \in Callers, g \in Gen : WakeRecurs(i, c, g)) /\ OnlyWake
    \/ part = "bridge" /\ (\E o \in Obj : BridgeRecurs(i, o)) /\ OnlyBridge
    \/ part = "streams" /\ (\E s \in Streams : TimerFires(i, s)) /\ OnlyStreams
    \/ part = "facts" /\ (\E w \in Enrichers, k \in Sources : PipeRecurs(i, w, k)) /\ OnlyFacts

Proceeds(i) ==
    \/ part = "wake" /\ (\E c \in Callers, g \in Gen : WakeProceeds(i, c, g)) /\ OnlyWake
    \/ part = "bridge" /\ (\E o \in Obj : BridgeProceeds(i, o)) /\ OnlyBridge
    \/ part = "streams" /\ i = 1 /\ (\E s \in Streams : Proceed(s)) /\ OnlyStreams
    \/ part = "facts" /\ (\E w \in Enrichers : PipeProceeds(i, w)) /\ OnlyFacts

ProgressSpec ==
    /\ ProgressInit /\ [][ProgressNext]_progressVars
    /\ \A i \in 1..7 : WF_progressVars(Proceeds(i))
    /\ \A i \in 1..5 : SF_progressVars(Recurs(i))
=============================================================================
