---------------------------- MODULE MCDelivery -----------------------------
(***************************************************************************)
(* The ways mail reaches a session, for TLC: the hooks, the listener and   *)
(* its transport, and the plugins' bridge.  They run in processes of their *)
(* own and share only the server's inbox, which each of these modules      *)
(* abstracts for itself; so a behaviour exercises one of them, "part", and *)
(* leaves the others where they start.  The hooks have two parts: "hook"   *)
(* with every event and letters that come one by one, in the first window, *)
(* and "stops" where stop hooks compete for continuations over mail that   *)
(* is all there and the window slides. So has the listener: "wake" with    *)
(* mail, and "endpoints" where the session moves between native endpoints  *)
(* and no mail comes.                                                      *)
(***************************************************************************)
EXTENDS HookInbox, NativeWake, InboxBridge, WakeTransport, TLC

CONSTANTS Parts,
          Late,       \* the letters only the part "stops" has
          Lasting     \* the endpoints a listener with mail may be bound to
VARIABLE part

allVars == <<part, hookVars, wakeVars, bridgeVars, wakeCallVars>>

DeliveryInit ==
    /\ part \in Parts
    /\ HookInit /\ WakeInit /\ BridgeInit /\ TransportInit
    /\ part # "transport" => host.client = "codex"

DeliveryNext ==
    /\ UNCHANGED part
    /\ \/ /\ part \in {"hook", "stops"} /\ HookNext
          /\ part = "hook" =>
                /\ hookTime' < Window
                /\ \A m \in Late : box'[m].st = "unsent"
          /\ part = "stops" =>
                /\ (\E m \in Letter : box'[m].st = "unsent") => hook' = hook /\ hookTime' = hookTime
                /\ \A p \in Hooks : hook'[p].pc = "peek" => hook'[p].event = "stop" /\ hook'[p].mode = "context"
          /\ UNCHANGED <<wakeVars, bridgeVars, wakeCallVars>>
       \/ /\ part \in {"wake", "endpoints"} /\ WakeNext
          /\ part = "wake" => \A c \in Callers : caller'[c].endpoint \in Lasting \cup {NoEndpoint}
          /\ part = "endpoints" => mail' = mail
          /\ UNCHANGED <<hookVars, bridgeVars, wakeCallVars>>
       \/ part = "bridge" /\ BridgeNext /\ UNCHANGED <<hookVars, wakeVars, wakeCallVars>>
       \/ part = "transport" /\ TransportNext /\ UNCHANGED <<hookVars, wakeVars, bridgeVars>>

DeliverySpec == DeliveryInit /\ [][DeliveryNext]_allVars

\* Type correctness of every part.
DeliveryTypeOK ==
    /\ part \in {"hook", "stops"} => HookTypeOK
    /\ part \in {"wake", "endpoints"} => WakeTypeOK
    /\ part = "bridge" => BridgeTypeOK
    /\ part = "transport" => TransportTypeOK

Symmetry == Permutations(Hooks)
=============================================================================
