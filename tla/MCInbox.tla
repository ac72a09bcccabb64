------------------------------ MODULE MCInbox -------------------------------
(* Inbox for TLC: calls, contents and invocations are interchangeable. *)
EXTENDS Inbox, TLC

Symmetry == Permutations(Requests) \cup Permutations(Consumers)
            \cup Permutations(Bodies)
=============================================================================
