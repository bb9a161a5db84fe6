------------------------------ MODULE MCTokens ------------------------------
(* A small instance of Tokens: a stored token that may mint and revoke, and *)
(* an ephemeral one for the second account.                                 *)
EXTENDS Tokens, TLC

Powers == {"image:read", "token:issue", "token:revoke"}
Store  == [op |-> "create", scopes |-> Powers, issuable |-> Powers, stored |-> TRUE,
           subject |-> "own"]
Link   == [op |-> "create", scopes |-> {"token:issue", "report:read"}, issuable |-> {},
           stored |-> FALSE, subject |-> "a2"]
MCBodies == {Store, Link, [Store EXCEPT !.op = "use"], [Store EXCEPT !.op = "revoke"]}

Symmetry == Permutations(Replicas) \cup Permutations(Clients) \cup Permutations(Ids)

Rotating == \E r \in Replicas : stage[r] > 1
Looked   == {r \in Replicas : \E id \in Ids : lookup[r][id] # "off"}

\* One token meets the clock, the failures and the rotation on all replicas;
\* two meet revocation and the look-ups of one replica, which is enough for a
\* token to mint or revoke another, and the second account acts through tokens
\* only; a third token matters to the limit alone.
Bounded == /\ \A id \in Made : claims[id].expires = 1
           /\ \A c \in Clients : request[c].token \in Made \cup {"none"}
           /\ \A c \in Clients : request[c].account = "a2" => request[c].via # "provider"
           /\ Rotating => faults = 0 /\ acked = {}
           /\ Cardinality(Made) >= 2 => now = 0 /\ faults = 0 /\ ~Rotating
                                       /\ Cardinality(Looked) <= 1
           /\ Cardinality(Made) >= 3 => Looked = {} /\ acked = {}
=============================================================================
