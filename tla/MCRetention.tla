------------------------------- MODULE MCRetention -------------------------------
(* Two tickets, one of them with an attachment from before versions were    *)
(* recorded, and a policy with and one without a class for messages.        *)
EXTENDS Retention, TLC

CONSTANTS o1, o2, o3

MCInitialRows == {o1 :> 1, o1 :> 1 @@ o2 :> 1 @@ o3 :> 2}
MCOneRow == {o1 :> 1}
MCPolicies == {[ticket |-> 1, ticket_message |-> 1]}
MCAllPolicies == MCPolicies \union {[ticket |-> 1]}
=============================================================================
