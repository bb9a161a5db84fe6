------------------------- MODULE SchematicRegister -------------------------
(***************************************************************************)
(* What the schematic store promises to the callers of Factory.Put and     *)
(* Factory.Get, with the in-memory cache, the flights and the registry     *)
(* protocol abstracted away.                                               *)
(*                                                                         *)
(* A schematic is identified by the hash of its content, so all there is   *)
(* to remember of an id is whether its content is stored.  Each replica    *)
(* settles an id the first time it answers a call about it with success;   *)
(* from then on it may not deny the schematic to a call that starts later. *)
(* Replicas that have not settled an id may still answer "missing" for a   *)
(* stored one: their negative cache entry can be older than the write.     *)
(***************************************************************************)

CONSTANTS Replicas,   \* instances of the service sharing one registry
          Ids,        \* schematic ids
          Clients     \* concurrent callers of the factory

VARIABLES stored,     \* ids whose content is in the registry
          settled,    \* settled[r]: ids replica r has answered with success
          call        \* call[c]: the last call of client c and its answer

vars == <<stored, settled, call>>

Ops     == {"put", "get"}
Answers == {"found", "missing", "failed"}
NoCall  == [state |-> "idle"]

OpenCall(op, r, i) ==
    [state |-> "open", op |-> op, at |-> r, id |-> i, sure |-> i \in settled[r]]

Closed(cl, ans) ==
    [state |-> "done", op |-> cl.op, at |-> cl.at, id |-> cl.id,
     sure |-> cl.sure, answer |-> ans]

Init == /\ stored = {}
        /\ settled = [r \in Replicas |-> {}]
        /\ call = [c \in Clients |-> NoCall]

Begin(c, op, r, i) ==
    /\ call[c].state # "open"
    /\ call' = [call EXCEPT ![c] = OpenCall(op, r, i)]
    /\ UNCHANGED <<stored, settled>>

\* The content of an id becomes readable while some put of it is open.
Store(i) ==
    /\ \E c \in Clients : call[c].state = "open" /\ call[c].op = "put" /\ call[c].id = i
    /\ stored' = stored \cup {i}
    /\ UNCHANGED <<settled, call>>

\* A set of open calls about the same id at the same replica is answered.
\* Success needs the content; "missing" is for reads of ids the replica had
\* not settled when the read began.
Reply(S, r, i, ans) ==
    /\ \A c \in S : call[c].state = "open" /\ call[c].at = r /\ call[c].id = i
    /\ ans = "found" => i \in stored
    /\ ans = "missing" => \A c \in S : call[c].op = "get" /\ ~call[c].sure
    /\ settled' = IF ans = "found"
                     THEN [settled EXCEPT ![r] = @ \cup {i}] ELSE settled
    /\ call' = [c \in Clients |-> IF c \in S THEN Closed(call[c], ans) ELSE call[c]]
    /\ UNCHANGED stored

\* The calls a crashed replica was serving fail.
Drop(S) ==
    /\ \A c \in S : call[c].state = "open"
    /\ call' = [c \in Clients |-> IF c \in S THEN Closed(call[c], "failed") ELSE call[c]]
    /\ UNCHANGED <<stored, settled>>

Next == \/ \E c \in Clients, op \in Ops, r \in Replicas, i \in Ids : Begin(c, op, r, i)
        \/ \E i \in Ids : Store(i)
        \/ \E S \in SUBSET Clients, r \in Replicas, i \in Ids, ans \in Answers :
              Reply(S, r, i, ans)
        \/ \E S \in SUBSET Clients : Drop(S)

Spec == Init /\ [][Next]_vars
=============================================================================
