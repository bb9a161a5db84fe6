--------------------------- MODULE TalosVersions ---------------------------
(***************************************************************************)
(* The list of Talos versions the artifacts manager offers                 *)
(* (internal/artifacts): GetTalosVersions, the shared flight that lists    *)
(* the tags of the imager repository, the filter of fetchTalosVersions,    *)
(* and validateTalosVersion, which every other operation starts with.      *)
(*                                                                         *)
(* Time is counted in ticks.  A flight may take some of them, so the list  *)
(* is older than its time stamp says.                                      *)
(***************************************************************************)
EXTENDS Integers

CONSTANTS Callers,
          Versions,      \* the versions there may be
          Rejected,      \* below MinVersion, broken, or of another form
          Recheck,       \* TalosVersionRecheckInterval, in ticks
          FetchTimeout,  \* in ticks
          MaxTime,       \* bound: ticks in a behaviour
          MaxRequests,   \* bound: requests of each caller
          MaxFaults      \* bound: failed listings

ASSUME VersionsAssumption ==
    /\ Versions \subseteq [minor : Nat, pre : BOOLEAN]
    /\ Versions # {} /\ Rejected \subseteq Versions
    /\ Recheck \in Nat \ {0} /\ FetchTimeout \in Nat
    /\ MaxTime \in Nat /\ MaxRequests \in Nat /\ MaxFaults \in Nat

VARIABLES now,
          published,   \* versions with a tag in the registry
          known,       \* talosVersions, the list in memory
          stamp,       \* talosVersionsTimestamp
          flight,      \* the singleflight call of "talos-versions"
          request,     \* request[c]: is a version available?
          lastIn,      \* history: the last time v was to be listed ...
          lastOut,     \* ... and the last time it was not
          requests, faults

vars == <<now, published, known, stamp, flight, request, lastIn, lastOut, requests, faults>>
World  == <<now, published, lastIn, lastOut>>
Cached == <<known, stamp>>

Flights  == [step : {"idle", "list", "store"}, began : Int, got : SUBSET Versions,
             waiters : SUBSET Callers]
Requests == [step : {"idle", "check", "join", "wait", "read", "done"}, version : Versions,
             start : Int, result : {"none", "available", "unavailable", "failed", "canceled"}]

NoFlight == [step |-> "idle", began |-> 0, got |-> {}, waiters |-> {}]

\* Releases are listed, and of the newest minor version the pre-releases.
Listable(S) ==
    {v \in S \ Rejected : v.pre => \A w \in S : w.minor <= v.minor}

LongAgo == 0 - (Recheck + FetchTimeout)

TypeOK ==
    /\ now \in Int /\ stamp \in Int
    /\ published \subseteq Versions /\ known \subseteq Versions
    /\ flight \in Flights
    /\ request \in [Callers -> Requests]
    /\ lastIn \in [Versions -> Int] /\ lastOut \in [Versions -> Int]
    /\ requests \in [Callers -> Nat] /\ faults \in Nat

\* The zero time stamp is older than any interval.  Some tag is published:
\* slices.MaxFunc panics on a registry without one.
Init ==
    /\ now = 0
    /\ published \in SUBSET Versions /\ published # {}
    /\ known = {} /\ stamp = 0 - Recheck
    /\ flight = NoFlight
    /\ request = [c \in Callers |-> [step |-> "idle", version |-> CHOOSE v \in Versions : TRUE,
                                    start |-> 0, result |-> "none"]]
    /\ lastIn = [v \in Versions |-> IF v \in Listable(published) THEN 0 ELSE LongAgo]
    /\ lastOut = [v \in Versions |-> IF v \in Listable(published) THEN LongAgo ELSE 0]
    /\ requests = [c \in Callers |-> 0]
    /\ faults = 0

---------------------------------------------------------------------------
(* The registry, and time *)

\* The histories when S is what is published at time t.
Observe(S, t) ==
    /\ lastIn' = [v \in Versions |-> IF v \in Listable(S) THEN t ELSE lastIn[v]]
    /\ lastOut' = [v \in Versions |-> IF v \in Listable(S) THEN lastOut[v] ELSE t]

\* A version is released.
Publish(v) ==
    /\ v \notin published
    /\ published' = published \cup {v}
    /\ Observe(published \cup {v}, now)
    /\ UNCHANGED <<now, Cached, flight, request, requests, faults>>

\* No flight outlives its context: the listing ends with it, and what follows
\* the listing takes no time.
Tick ==
    /\ now < MaxTime
    /\ flight.step # "idle" => now - flight.began < FetchTimeout
    /\ now' = now + 1
    /\ Observe(published, now + 1)
    /\ UNCHANGED <<published, Cached, flight, request, requests, faults>>

---------------------------------------------------------------------------
(* GetTalosVersions and validateTalosVersion *)

Ask(c, v) ==
    /\ request[c].step \in {"idle", "done"}
    /\ requests[c] < MaxRequests
    /\ requests' = [requests EXCEPT ![c] = @ + 1]
    /\ request' = [request EXCEPT ![c] =
                     [step |-> "check", version |-> v, start |-> now, result |-> "none"]]
    /\ UNCHANGED <<World, Cached, flight, faults>>

Ended(q, result) == [q EXCEPT !.step = "done", !.result = result]

\* slices.ContainsFunc(availableVersion, version.Equals)
Validated(q, list) ==
    Ended(q, IF q.version \in list THEN "available" ELSE "unavailable")

\* The list is recent enough, or has to be fetched.
Check(c) ==
    /\ request[c].step = "check"
    /\ request' = [request EXCEPT ![c] =
                     IF now - stamp < Recheck THEN Validated(@, known)
                                              ELSE [@ EXCEPT !.step = "join"]]
    /\ UNCHANGED <<World, Cached, flight, requests, faults>>

\* sf.DoChan("talos-versions", m.fetchTalosVersions)
Join(c) ==
    LET new == [NoFlight EXCEPT !.step = "list", !.began = now, !.waiters = {c}]
    IN /\ request[c].step = "join"
       /\ flight' = IF flight.step = "idle" THEN new
                    ELSE [flight EXCEPT !.waiters = @ \cup {c}]
       /\ request' = [request EXCEPT ![c].step = "wait"]
       /\ UNCHANGED <<World, Cached, requests, faults>>

Cancel(c) ==
    /\ request[c].step = "wait"
    /\ flight' = [flight EXCEPT !.waiters = @ \ {c}]
    /\ request' = [request EXCEPT ![c] = Ended(@, "canceled")]
    /\ UNCHANGED <<World, Cached, requests, faults>>

\* After the flight the list is read again, by now perhaps a later one.
Read(c) ==
    /\ request[c].step = "read"
    /\ request' = [request EXCEPT ![c] = Validated(@, known)]
    /\ UNCHANGED <<World, Cached, flight, requests, faults>>

---------------------------------------------------------------------------
(* fetchTalosVersions *)

ListTags ==
    /\ flight.step = "list"
    /\ flight' = [flight EXCEPT !.step = "store", !.got = published]
    /\ UNCHANGED <<World, Cached, request, requests, faults>>

Waken(q) ==
    [c \in Callers |-> IF c \in flight.waiters THEN q[c] ELSE request[c]]

Store ==
    /\ flight.step = "store"
    /\ known' = Listable(flight.got) /\ stamp' = now
    /\ request' = Waken([c \in Callers |-> [request[c] EXCEPT !.step = "read"]])
    /\ flight' = NoFlight
    /\ UNCHANGED <<World, requests, faults>>

\* A wrong variant of ListFails: a failed listing counts as a recent one.
ListFails_Stamped ==
    /\ flight.step = "list"
    /\ faults < MaxFaults /\ faults' = faults + 1
    /\ request' = Waken([c \in Callers |-> Ended(request[c], "failed")])
    /\ flight' = NoFlight
    /\ stamp' = now
    /\ UNCHANGED <<World, known, requests>>

\* The listing fails or its context ends: the old list stays as it is.
ListFails ==
    /\ flight.step = "list"
    /\ faults < MaxFaults /\ faults' = faults + 1
    /\ request' = Waken([c \in Callers |-> Ended(request[c], "failed")])
    /\ flight' = NoFlight
    /\ UNCHANGED <<World, Cached, requests>>

CallerStep(c) == Check(c) \/ Join(c) \/ Read(c)

FlightStep == ListTags \/ Store

Next ==
    \/ \E v \in Versions : Publish(v)
    \/ Tick
    \/ \E c \in Callers, v \in Versions : Ask(c, v)
    \/ \E c \in Callers : CallerStep(c) \/ Cancel(c)
    \/ FlightStep
    \/ ListFails

Spec == Init /\ [][Next]_vars

\* Goroutines run and the listing returns; time may stand still.
Fairness ==
    /\ \A c \in Callers : WF_vars(CallerStep(c))
    /\ WF_vars(FlightStep)

FairSpec == Spec /\ Fairness

---------------------------------------------------------------------------
(* Properties *)

\* "The interval at which the image factory rechecks available Talos
\* versions", as a caller sees it: an answer about a version was true at some
\* moment since the interval and the time a listing takes before the request
\* began, whoever fetched the list, whenever the caller reads it, and however
\* often the listing failed.
AnswersRecent ==
    \A c \in Callers :
        LET q == request[c]
            oldest == q.start - (Recheck + FetchTimeout)
        IN /\ q.result = "available" => lastIn[q.version] > oldest
           /\ q.result = "unavailable" => lastOut[q.version] > oldest

ReleasesKept == \A v \in known : ~v.pre => v \in known'

\* A release that was offered is offered for good: lists are stored in the
\* order they were fetched, and a failure takes nothing away.  (Pre-releases
\* do go away, with the next minor version.)
ReleasesStay == [][ReleasesKept]_vars
=============================================================================
