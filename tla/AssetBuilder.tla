--------------------------- MODULE AssetBuilder ---------------------------
(***************************************************************************)
(* The boot asset builder of one process (internal/asset): Builder.Build   *)
(* of every request, the singleflight group keyed by the profile hash, the *)
(* detached flight of buildAndCache and the semaphore that limits how many *)
(* profiles are built at a time.                                           *)
(*                                                                         *)
(* The cache behind it is a set of profiles here, its calls atomic;        *)
(* AssetCache models what its implementations do.                          *)
(***************************************************************************)
EXTENDS Naturals, Sequences, FiniteSets, SequencesExt

CONSTANTS Clients,
          Profiles,           \* profile hashes
          NoProfile,
          AllowedConcurrency, \* capacity of the semaphore
          GetAfterPut,        \* S3: the cache may fail and redirects
          MaxRequests,        \* bound: requests of each client
          MaxFaults           \* bound: errors, timeouts and evictions

ASSUME BuilderAssumption ==
    /\ NoProfile \notin Profiles
    /\ AllowedConcurrency \in Nat \ {0}
    /\ GetAfterPut \in BOOLEAN
    /\ MaxRequests \in Nat /\ MaxFaults \in Nat

VARIABLES cached,    \* profiles a Get of the cache finds
          flight,    \* flight[p]: the singleflight call of profile p
          queue,     \* flights blocked on the semaphore, first come first served
          slots,     \* tokens in the semaphore
          request,   \* request[c]: the request of client c and its result
          requests, faults

vars == <<cached, flight, queue, slots, request, requests, faults>>

FlightSteps  == {"idle", "queue", "build", "put", "reget"}
RequestSteps == {"idle", "lookup", "join", "wait", "done"}
Results      == {"none", "cached", "built", "failed", "canceled"}

NoFlight == [step |-> "idle", waiters |-> {}]

TypeOK ==
    /\ cached \subseteq Profiles
    /\ flight \in [Profiles -> [step : FlightSteps, waiters : SUBSET Clients]]
    /\ queue \in Seq(Profiles)
    /\ slots \in 0 .. AllowedConcurrency
    /\ request \in [Clients -> [step : RequestSteps, profile : Profiles \cup {NoProfile},
                                result : Results]]
    /\ requests \in [Clients -> Nat]
    /\ faults \in Nat

Init ==
    /\ cached = {}
    /\ flight = [p \in Profiles |-> NoFlight]
    /\ queue = <<>> /\ slots = 0
    /\ request = [c \in Clients |-> [step |-> "idle", profile |-> NoProfile, result |-> "none"]]
    /\ requests = [c \in Clients |-> 0]
    /\ faults = 0

Fault == faults < MaxFaults /\ faults' = faults + 1

Running(p)  == flight[p].step # "idle"
Building    == {p \in Profiles : flight[p].step = "build"}

---------------------------------------------------------------------------
(* Builder.Build *)

Ask(c, p) ==
    /\ request[c].step \in {"idle", "done"}
    /\ requests[c] < MaxRequests
    /\ requests' = [requests EXCEPT ![c] = @ + 1]
    /\ request' = [request EXCEPT ![c] = [step |-> "lookup", profile |-> p, result |-> "none"]]
    /\ UNCHANGED <<cached, flight, queue, slots, faults>>

ToStep(c, step) == request' = [request EXCEPT ![c].step = step]

End(c, result) == request' = [request EXCEPT ![c].step = "done", ![c].result = result]

\* cache.Get of the profile.
Lookup(c) ==
    /\ request[c].step = "lookup"
    /\ IF request[c].profile \in cached THEN End(c, "cached") ELSE ToStep(c, "join")
    /\ UNCHANGED <<cached, flight, queue, slots, requests, faults>>

\* An error other than ErrCacheNotFound ends the request, unless the cache is
\* one that may fail.
LookupFails(c) ==
    /\ request[c].step = "lookup"
    /\ Fault
    /\ IF GetAfterPut THEN ToStep(c, "join") ELSE End(c, "failed")
    /\ UNCHANGED <<cached, flight, queue, slots, requests>>

\* sf.DoChan: the first caller starts the flight, which runs on a goroutine
\* and a context of its own and first of all wants a slot.
Join(c) ==
    LET p == request[c].profile
    IN /\ request[c].step = "join"
       /\ flight' = [flight EXCEPT ![p] =
                       [step    |-> IF Running(p) THEN @.step ELSE "queue",
                        waiters |-> @.waiters \cup {c}]]
       /\ queue' = IF Running(p) THEN queue ELSE Append(queue, p)
       /\ ToStep(c, "wait")
       /\ UNCHANGED <<cached, slots, requests, faults>>

\* A wrong variant of Cancel: the flight goes away with the request.
Cancel_Flight(c) ==
    LET p == request[c].profile
    IN /\ request[c].step = "wait"
       /\ flight' = [flight EXCEPT ![p] = NoFlight]
       /\ request' = [d \in Clients |->
                        IF d \in flight[p].waiters
                           THEN [request[d] EXCEPT !.step = "done",
                                     !.result = IF d = c THEN "canceled" ELSE "failed"]
                           ELSE request[d]]
       /\ queue' = Remove(queue, p)
       /\ slots' = IF flight[p].step = "build" THEN slots - 1 ELSE slots
       /\ UNCHANGED <<cached, requests, faults>>

\* ctx.Done of the request wins the select; the flight is not told.
Cancel(c) ==
    /\ request[c].step = "wait"
    /\ flight' = [flight EXCEPT ![request[c].profile].waiters = @ \ {c}]
    /\ End(c, "canceled")
    /\ UNCHANGED <<cached, queue, slots, requests, faults>>

---------------------------------------------------------------------------
(* buildAndCache and build *)

Goto(p, step) ==
    /\ flight' = [flight EXCEPT ![p].step = step]
    /\ UNCHANGED request

EndFlight(p, result) ==
    /\ flight' = [flight EXCEPT ![p] = NoFlight]
    /\ request' = [c \in Clients |->
                     IF c \in flight[p].waiters
                        THEN [request[c] EXCEPT !.step = "done", !.result = result]
                        ELSE request[c]]

\* b.semaphore <- struct{}{}
Acquire(p) ==
    /\ queue # <<>> /\ Head(queue) = p
    /\ slots < AllowedConcurrency
    /\ queue' = Tail(queue)
    /\ slots' = slots + 1
    /\ Goto(p, "build")
    /\ UNCHANGED <<cached, requests, faults>>

\* p gives up its place in the queue.
Leave(p) == \E i \in DOMAIN queue : queue[i] = p /\ queue' = RemoveAt(queue, i)

\* A wrong variant of QueueTimeout: the flight ends, its place in the queue stays.
QueueTimeout_StaysQueued(p) ==
    /\ flight[p].step = "queue"
    /\ Fault
    /\ EndFlight(p, "failed")
    /\ UNCHANGED <<cached, queue, slots, requests>>

\* The twenty minutes of the flight end while it waits for its slot.
QueueTimeout(p) ==
    /\ flight[p].step = "queue"
    /\ Fault
    /\ Leave(p)
    /\ EndFlight(p, "failed")
    /\ UNCHANGED <<cached, slots, requests>>

\* The inputs are fetched and the imager runs; the slot is given back before
\* the asset is pushed to the cache.
BuildDone(p) ==
    /\ flight[p].step = "build"
    /\ slots' = slots - 1
    /\ Goto(p, "put")
    /\ UNCHANGED <<cached, queue, requests, faults>>

\* A wrong variant of BuildFails: the slot of a failed build is not given back.
BuildFails_KeepsSlot(p) ==
    /\ flight[p].step = "build"
    /\ Fault
    /\ EndFlight(p, "failed")
    /\ UNCHANGED <<cached, queue, slots, requests>>

BuildFails(p) ==
    /\ flight[p].step = "build"
    /\ Fault
    /\ slots' = slots - 1
    /\ EndFlight(p, "failed")
    /\ UNCHANGED <<cached, queue, requests>>

\* What follows the Put, whether it succeeded or not: its error is logged.
AfterPut(p) == IF GetAfterPut THEN Goto(p, "reget") ELSE EndFlight(p, "built")

Put(p) ==
    /\ flight[p].step = "put"
    /\ cached' = cached \cup {p}
    /\ AfterPut(p)
    /\ UNCHANGED <<queue, slots, requests, faults>>

PutFails(p) ==
    /\ flight[p].step = "put"
    /\ Fault
    /\ AfterPut(p)
    /\ UNCHANGED <<cached, queue, slots, requests>>

\* The cached asset is preferred, since a client can be redirected to it; the
\* built one is returned if the cache does not have it.
Reget(p) ==
    /\ flight[p].step = "reget"
    /\ EndFlight(p, IF p \in cached THEN "cached" ELSE "built")
    /\ UNCHANGED <<cached, queue, slots, requests, faults>>

RegetFails(p) ==
    /\ flight[p].step = "reget"
    /\ Fault
    /\ EndFlight(p, "built")
    /\ UNCHANGED <<cached, queue, slots, requests>>

\* The cache loses an asset: a lifecycle rule of the bucket, a registry
\* clean-up.
Lose(p) ==
    /\ p \in cached
    /\ Fault
    /\ cached' = cached \ {p}
    /\ UNCHANGED <<flight, queue, slots, request, requests>>

ClientStep(c) == Lookup(c) \/ LookupFails(c) \/ Join(c)

FlightStep(p) ==
    \/ Acquire(p)
    \/ BuildDone(p)
    \/ Put(p)
    \/ Reget(p)

FlightFails(p) ==
    \/ QueueTimeout(p)
    \/ BuildFails(p)
    \/ PutFails(p)
    \/ RegetFails(p)

Next ==
    \/ \E c \in Clients, p \in Profiles : Ask(c, p)
    \/ \E c \in Clients : ClientStep(c) \/ Cancel(c)
    \/ \E p \in Profiles : FlightStep(p) \/ FlightFails(p) \/ Lose(p)

Spec == Init /\ [][Next]_vars

\* Request and flight goroutines run and cache calls return.
\* Failures and cancellations are not promised.
Fairness ==
    /\ \A c \in Clients : WF_vars(ClientStep(c))
    /\ \A p \in Profiles : WF_vars(FlightStep(p))

FairSpec == Spec /\ Fairness

---------------------------------------------------------------------------
(* Properties *)

\* "A concurrency limit is enforced": never more builds than the semaphore
\* has room for, and no token is lost or given back twice by a build that
\* ended, failed or never got its slot.
BuildsWithinLimit ==
    /\ slots = Cardinality(Building)
    /\ slots <= AllowedConcurrency

WaitersListed ==
    /\ \A c \in Clients, p \in Profiles :
          c \in flight[p].waiters <=> request[c].step = "wait" /\ request[c].profile = p
    /\ \A p \in Profiles : flight[p].waiters # {} => Running(p)

QueueAccounted ==
    /\ \A p \in Profiles : flight[p].step = "queue" <=> p \in ToSet(queue)
    /\ IsInjective(queue)

\* Requests, flights and the semaphore agree on who waits for what: whoever
\* waits is listed in the running flight of its own profile, a flight that
\* ends tells nobody that has left, or by now asks for something else, and
\* the flights blocked on the semaphore are those it will admit, once each.
NobodyOrphaned == WaitersListed /\ QueueAccounted

NoRefusal ==
    \A p \in Profiles : flight[p].step \in {"put", "reget"} =>
        \A c \in flight[p].waiters : request'[c].result # "failed"

\* "The request still succeeds" when the Put fails, and also when the Get
\* after it does: once the asset is built, nobody who waits is refused it.
PutNeverFails == [][NoRefusal]_vars

\* Every request is answered, however many profiles compete for a slot.
RequestsEnd ==
    \A c \in Clients : (request[c].step = "lookup") ~> (request[c].step = "done")

\* "the asset is built no matter if the request is canceled": a flight that
\* was started puts its asset into the cache unless something fails.
BuildsLand ==
    \A p \in Profiles : Running(p) ~> (p \in cached \/ faults > 0)
=============================================================================
