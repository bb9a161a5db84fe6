-------------------------- MODULE SchematicStore --------------------------
(***************************************************************************)
(* The schematic factory (internal/schematic), its in-memory cache         *)
(* (internal/schematic/storage/cache) and the OCI registry storage         *)
(* (internal/schematic/storage/registry), for several replicas of the      *)
(* service that share nothing but the registry.                            *)
(*                                                                         *)
(* Factory.Put and Factory.Get of one id share one singleflight key, so at *)
(* one replica at most one flight per id runs; callers that arrive while   *)
(* it runs wait for its result (sf.Do has no context: a waiting call       *)
(* cannot be abandoned).  The inner flight of the cache is only entered    *)
(* from an outer one and is therefore never shared; it is not a variable.  *)
(*                                                                         *)
(* Content is abstracted to the id: the id is the hash of the content.     *)
(***************************************************************************)
EXTENDS Naturals

CONSTANTS Replicas,   \* instances of the service
          Ids,        \* schematic ids
          Clients,    \* concurrent requests
          MaxCalls,   \* bound: calls each client makes
          MaxFaults   \* bound: registry failures and crashes in a behaviour

ASSUME BoundsAssumption == MaxCalls \in Nat /\ MaxFaults \in Nat

VARIABLES blobs,      \* ids whose layer is in the registry
          tagged,     \* ids whose layer a pushed image manifest references
          entry,      \* entry[r][i]: the TTL cache's item: none, absent, present
          flight,     \* flight[r][i]: the singleflight call of id i at replica r
          call,       \* call[c]: the request of client c and its answer
          settled,    \* history: settled[r] = ids replica r has confirmed
          calls,      \* calls[c]: calls made, bounded by MaxCalls
          faults      \* faults so far, bounded by MaxFaults

vars == <<blobs, tagged, entry, flight, call, settled, calls, faults>>

Ops   == {"put", "get"}
Items == {"none", "absent", "present"}
Steps == {"idle", "lookup", "fetch", "sawfound", "sawmissing", "layer", "manifest"}

NoFlight == [kind |-> "none", step |-> "idle", waiters |-> {}]
NoCall   == [state |-> "idle"]

Flights == [kind : Ops \cup {"none"}, step : Steps, waiters : SUBSET Clients]
Calls   == [state : {"calling", "waiting"}, op : Ops, at : Replicas, id : Ids,
            sure : BOOLEAN]
Replies == [state : {"done"}, op : Ops, at : Replicas, id : Ids,
            sure : BOOLEAN, answer : {"found", "missing", "failed"}]

TypeOK ==
    /\ blobs \in SUBSET Ids
    /\ tagged \in SUBSET Ids
    /\ entry \in [Replicas -> [Ids -> Items]]
    /\ flight \in [Replicas -> [Ids -> Flights]]
    /\ call \in [Clients -> Calls \cup Replies \cup {NoCall}]
    /\ settled \in [Replicas -> SUBSET Ids]
    /\ calls \in [Clients -> Nat]
    /\ faults \in Nat

Init ==
    /\ blobs = {} /\ tagged = {}
    /\ entry = [r \in Replicas |-> [i \in Ids |-> "none"]]
    /\ flight = [r \in Replicas |-> [i \in Ids |-> NoFlight]]
    /\ call = [c \in Clients |-> NoCall]
    /\ settled = [r \in Replicas |-> {}]
    /\ calls = [c \in Clients |-> 0]
    /\ faults = 0

---------------------------------------------------------------------------
(* Callers *)

NewCall(op, r, i) ==
    [state |-> "calling", op |-> op, at |-> r, id |-> i, sure |-> i \in settled[r]]

Answered(cl, ans) ==
    [state |-> "done", op |-> cl.op, at |-> cl.at, id |-> cl.id,
     sure |-> cl.sure, answer |-> ans]

\* A request reaches Factory.Put or Factory.Get of a replica.
Request(c, op, r, i) ==
    /\ call[c].state \in {"idle", "done"}
    /\ calls[c] < MaxCalls
    /\ call' = [call EXCEPT ![c] = NewCall(op, r, i)]
    /\ calls' = [calls EXCEPT ![c] = @ + 1]
    /\ UNCHANGED <<blobs, tagged, entry, flight, settled, faults>>

\* A wrong variant of Do: whoever joins a flight is not told its result.
Do_Forgotten(c) ==
    LET r == call[c].at
        i == call[c].id
    IN /\ call[c].state = "calling"
       /\ flight' = [flight EXCEPT ![r][i] =
              IF @.step = "idle"
                 THEN [kind |-> call[c].op, step |-> "lookup", waiters |-> {c}] ELSE @]
       /\ call' = [call EXCEPT ![c].state = "waiting"]
       /\ UNCHANGED <<blobs, tagged, entry, settled, calls, faults>>

\* s.sf.Do(id, ...): lead a new flight, or wait for the one that runs.
Do(c) ==
    LET r == call[c].at
        i == call[c].id
        f == flight[r][i]
    IN /\ call[c].state = "calling"
       /\ flight' = [flight EXCEPT ![r][i] =
              IF f.step = "idle"
                 THEN [kind |-> call[c].op, step |-> "lookup", waiters |-> {c}]
                 ELSE [f EXCEPT !.waiters = @ \cup {c}]]
       /\ call' = [call EXCEPT ![c].state = "waiting"]
       /\ UNCHANGED <<blobs, tagged, entry, settled, calls, faults>>

\* A wrong variant of Outcome: the retry loop of Put is gone.
AnswerAll_NoRetry(cl, kind, ans) == Answered(cl, ans)

\* What a waiter makes of the result of a flight of the given kind: a Put
\* that joined a failed Get goes round its loop again.
Outcome(cl, kind, ans) ==
    IF cl.op = "put" /\ kind = "get" /\ ans # "found"
       THEN [cl EXCEPT !.state = "calling"]
       ELSE Answered(cl, ans)

\* The flight returns; every waiter gets its result.
Finish(r, i, ans) ==
    LET f == flight[r][i]
    IN /\ flight' = [flight EXCEPT ![r][i] = NoFlight]
       /\ call' = [c \in Clients |->
                     IF c \in f.waiters THEN Outcome(call[c], f.kind, ans) ELSE call[c]]
       /\ settled' = IF ans = "found"
                        THEN [settled EXCEPT ![r] = @ \cup {i}] ELSE settled

Goto(r, i, step) ==
    /\ flight' = [flight EXCEPT ![r][i].step = step]
    /\ UNCHANGED <<call, settled>>

Fault == faults < MaxFaults /\ faults' = faults + 1

---------------------------------------------------------------------------
(* The flight of one id at one replica *)

\* A Get that finds nothing returns the storage's answer; a Put goes on to
\* store the schematic, whatever the reason its Head failed for.
NotThere(r, i, ans) ==
    IF flight[r][i].kind = "put" THEN Goto(r, i, "layer") ELSE Finish(r, i, ans)

\* The TTL cache is consulted (Head and Get of the cache storage).
Lookup(r, i) ==
    /\ flight[r][i].step = "lookup"
    /\ \/ entry[r][i] = "present" /\ Finish(r, i, "found")
       \/ entry[r][i] = "absent" /\ NotThere(r, i, "missing")
       \/ entry[r][i] = "none" /\ Goto(r, i, "fetch")
    /\ UNCHANGED <<blobs, tagged, entry, calls, faults>>

\* underlying.Get: the layer is read from the registry by its digest.
Fetch(r, i) ==
    /\ flight[r][i].step = "fetch"
    /\ Goto(r, i, IF i \in blobs THEN "sawfound" ELSE "sawmissing")
    /\ UNCHANGED <<blobs, tagged, entry, calls, faults>>

FetchFails(r, i) ==
    /\ flight[r][i].step = "fetch"
    /\ Fault
    /\ NotThere(r, i, "failed")
    /\ UNCHANGED <<blobs, tagged, entry, calls>>

\* TTL.GetOrSet: an item that is there is never overwritten.
FillItem(old, new) == IF old = "none" THEN new ELSE old

FillFound(r, i) ==
    /\ flight[r][i].step = "sawfound"
    /\ entry' = [entry EXCEPT ![r][i] = FillItem(@, "present")]
    /\ Finish(r, i, "found")
    /\ UNCHANGED <<blobs, tagged, calls, faults>>

FillMissing(r, i) ==
    /\ flight[r][i].step = "sawmissing"
    /\ entry' = [entry EXCEPT ![r][i] = FillItem(@, "absent")]
    /\ NotThere(r, i, "missing")
    /\ UNCHANGED <<blobs, tagged, calls, faults>>

\* underlying.Put pushes an image whose only layer is the schematic: the
\* pusher uploads the layer first and the manifest after it.
PushLayer(r, i) ==
    /\ flight[r][i].step = "layer"
    /\ blobs' = blobs \cup {i}
    /\ Goto(r, i, "manifest")
    /\ UNCHANGED <<tagged, entry, calls, faults>>

\* A wrong variant of PushedItem: GetOrSet in the place of Set.
PushedItem_Kept(old) == old

\* TTL.Set(id, Some(data), -1) after a successful push.
PushedItem(old) == "present"

PushManifest(r, i) ==
    /\ flight[r][i].step = "manifest"
    /\ tagged' = tagged \cup {i}
    /\ entry' = [entry EXCEPT ![r][i] = PushedItem(@)]
    /\ Finish(r, i, "found")
    /\ UNCHANGED <<blobs, calls, faults>>

\* A wrong variant of PushFails: the error of the push is dropped.
PushFails_Acknowledged(r, i) ==
    /\ flight[r][i].step \in {"layer", "manifest"}
    /\ Fault
    /\ Finish(r, i, "found")
    /\ UNCHANGED <<blobs, tagged, entry, calls>>

\* Either upload fails; what was uploaded before stays in the registry.
PushFails(r, i) ==
    /\ flight[r][i].step \in {"layer", "manifest"}
    /\ Fault
    /\ Finish(r, i, "failed")
    /\ UNCHANGED <<blobs, tagged, entry, calls>>

---------------------------------------------------------------------------
(* The cache's own events, and the process *)

\* A wrong variant of Expire: a negative item without a TTL.
Expire_Never(r, i) == FALSE /\ UNCHANGED vars

\* A negative item reaches the end of its negativeTTL.
Expire(r, i) ==
    /\ entry[r][i] = "absent"
    /\ entry' = [entry EXCEPT ![r][i] = "none"]
    /\ UNCHANGED <<blobs, tagged, flight, call, settled, calls, faults>>

\* The cache is at its capacity and another id takes the place of this one.
Evict(r, i) ==
    /\ entry[r][i] = "present"
    /\ entry' = [entry EXCEPT ![r][i] = "none"]
    /\ UNCHANGED <<blobs, tagged, flight, call, settled, calls, faults>>

\* The process dies: its requests fail, its memory is gone.
Crash(r) ==
    /\ Fault
    /\ entry' = [entry EXCEPT ![r] = [i \in Ids |-> "none"]]
    /\ flight' = [flight EXCEPT ![r] = [i \in Ids |-> NoFlight]]
    /\ call' = [c \in Clients |->
                  IF call[c].state \in {"calling", "waiting"} /\ call[c].at = r
                     THEN Answered(call[c], "failed") ELSE call[c]]
    /\ UNCHANGED <<blobs, tagged, settled, calls>>

FlightStep(r, i) ==
    \/ Lookup(r, i)
    \/ Fetch(r, i)
    \/ FetchFails(r, i)
    \/ FillFound(r, i)
    \/ FillMissing(r, i)
    \/ PushLayer(r, i)
    \/ PushManifest(r, i)
    \/ PushFails(r, i)

Next ==
    \/ \E c \in Clients, op \in Ops, r \in Replicas, i \in Ids : Request(c, op, r, i)
    \/ \E c \in Clients : Do(c)
    \/ \E r \in Replicas, i \in Ids : FlightStep(r, i) \/ Expire(r, i) \/ Evict(r, i)
    \/ \E r \in Replicas : Crash(r)

Spec == Init /\ [][Next]_vars

\* Goroutines that can run do run (the Go scheduler is preemptive), registry
\* calls return, and the TTL of a negative item passes.
Fairness ==
    /\ \A c \in Clients : WF_vars(Do(c))
    /\ \A r \in Replicas, i \in Ids :
          WF_vars(FlightStep(r, i)) /\ WF_vars(Expire(r, i))

FairSpec == Spec /\ Fairness

---------------------------------------------------------------------------
(* Properties *)

Acknowledged == {i \in Ids : \E c \in Clients :
                    /\ call[c].state = "done" /\ call[c].op = "put"
                    /\ call[c].answer = "found" /\ call[c].id = i}

\* A schematic whose Put was acknowledged, and every schematic a replica's
\* cache claims to exist, is in the registry: neither joining a flight, nor a
\* failed upload, nor a crash makes a promise the registry does not back.
StoredBehindPromise ==
    /\ Acknowledged \subseteq blobs
    /\ \A r \in Replicas : settled[r] \subseteq blobs
    /\ \A r \in Replicas, i \in Ids : entry[r][i] = "present" => i \in blobs

\* Read your writes, and reads that do not go back, at one replica: a Get
\* that begins after the replica confirmed the id (to a Put or to a Get) is
\* never answered "not found", in spite of the negative cache, of evictions,
\* of the flights shared by Puts and Gets and of crashes.
ConfirmedStaysFound ==
    \A c \in Clients :
        call[c].state = "done" /\ call[c].sure => call[c].answer # "missing"

\* A Put never reports what some other call's read found: it is answered
\* with success or with its own (or another Put's) failure, also when it
\* joined the flight of a Get that found nothing.
PutNeverMissing ==
    \A c \in Clients :
        call[c].state = "done" /\ call[c].op = "put" => call[c].answer # "missing"

\* An acknowledged schematic is referenced by an image manifest, so that the
\* registry's garbage collection keeps its layer (the comment above the
\* manifest push in storage/registry/registry.go).
AcknowledgedIsReferenced == Acknowledged \subseteq tagged

\* Every call is answered: the retry loop of Put ends although it can join
\* one failed Get after another (each client makes finitely many calls).
CallsAnswered ==
    \A c \in Clients : (call[c].state = "calling") ~> (call[c].state = "done")

\* An acknowledged schematic becomes visible at every replica for good: no
\* negative item outlives the write for ever.
EventuallyVisible ==
    \A i \in Ids : (i \in blobs) ~> [](\A r \in Replicas : entry[r][i] # "absent")

---------------------------------------------------------------------------
(* Refinement *)

AbstractCall(cl) ==
    IF cl.state \in {"calling", "waiting"}
       THEN [state |-> "open", op |-> cl.op, at |-> cl.at, id |-> cl.id, sure |-> cl.sure]
       ELSE cl

Register == INSTANCE SchematicRegister
               WITH stored <- blobs,
                    call   <- [c \in Clients |-> AbstractCall(call[c])]

\* The factory over its cache and registry implements the register: what
\* callers see of Put and Get, at every replica, is what SchematicRegister
\* allows.
ImplementsRegister == Register!Spec
=============================================================================
