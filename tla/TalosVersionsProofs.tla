------------------------ MODULE TalosVersionsProofs ------------------------
(***************************************************************************)
(* Proofs about TalosVersions: its types, that an answer is never older    *)
(* than the recheck interval and one listing, and that releases stay.      *)
(***************************************************************************)
EXTENDS TalosVersions, TLAPS

\* Every version was seen in S, or out of it, at time t or later.
SeenSince(S, t) ==
    \A v \in Versions : /\ v \in S => lastIn[v] >= t
                        /\ v \notin S => lastOut[v] >= t

\* Time stamps lie in the past, and no flight is older than its time limit.
Clock ==
    /\ stamp <= now
    /\ \A c \in Callers : request[c].start <= now
    /\ flight.step # "idle" => /\ flight.began <= now
                               /\ now - flight.began <= FetchTimeout

\* What is published was last seen now.
History ==
    /\ \A v \in Versions : lastIn[v] <= now /\ lastOut[v] <= now
    /\ SeenSince(Listable(published), now)

\* The versions of a flight were true since it began ...
FlightTrue == flight.step = "store" => SeenSince(Listable(flight.got), flight.began)

\* ... and those of the list since one time limit before its time stamp.
KnownTrue == SeenSince(known, stamp - FetchTimeout)

\* Who waited for a flight reads a list stored since the request began.
ReadFresh == \A c \in Callers : request[c].step = "read" => stamp >= request[c].start

\* The inductive invariant of AnswersRecent.
IInv == TypeOK /\ Clock /\ History /\ FlightTrue /\ KnownTrue /\ ReadFresh /\ AnswersRecent

---------------------------------------------------------------------------

\* The list of versions is a set of versions (fetchTalosVersions).
LEMMA ListableType == \A S \in SUBSET Versions : Listable(S) \in SUBSET Versions
  BY DEF Listable

\* What a listing kept is something it saw (the filter of fetchTalosVersions).
LEMMA ListableSub == \A S : Listable(S) \subseteq S \ Rejected
  BY DEF Listable

LEMMA EndedType ==
  ASSUME NEW q \in Requests, NEW r \in {"none", "available", "unavailable", "failed", "canceled"}
  PROVE  /\ Ended(q, r) \in Requests
         /\ Ended(q, r).step = "done" /\ Ended(q, r).result = r
         /\ Ended(q, r).version = q.version /\ Ended(q, r).start = q.start
  BY DEF Ended, Requests

LEMMA ValidatedType ==
  ASSUME NEW q \in Requests, NEW S
  PROVE  /\ Validated(q, S) \in Requests
         /\ Validated(q, S).step = "done" /\ Validated(q, S).version = q.version
         /\ Validated(q, S).start = q.start
         /\ q.version \in S => Validated(q, S).result = "available"
         /\ q.version \notin S => Validated(q, S).result = "unavailable"
<1>1. CASE q.version \in S
  BY <1>1, EndedType DEF Validated
<1>2. CASE q.version \notin S
  BY <1>2, EndedType DEF Validated
<1>. QED BY <1>1, <1>2

\* Waking the waiters of a flight gives each a request of the new form.
LEMMA WakenType ==
  ASSUME TypeOK, NEW q \in [Callers -> Requests]
  PROVE  /\ Waken(q) \in [Callers -> Requests]
         /\ \A c \in Callers : Waken(q)[c] = IF c \in flight.waiters THEN q[c] ELSE request[c]
  BY DEF Waken, TypeOK

LEMMA NoFlightType == NoFlight \in Flights /\ NoFlight.step = "idle"
  BY DEF NoFlight, Flights

---------------------------------------------------------------------------

LEMMA TypeInit == Init => TypeOK
  BY VersionsAssumption, NoFlightType DEF Init, TypeOK, Requests, LongAgo

\* Every action leaves the state well-typed.
LEMMA TypeStep == TypeOK /\ [Next]_vars => TypeOK'
<1> SUFFICES ASSUME TypeOK, [Next]_vars PROVE TypeOK'
  OBVIOUS
<1> USE VersionsAssumption
<1>a. flight \in Flights /\ flight.began \in Int /\ flight.waiters \in SUBSET Callers
      /\ flight.got \in SUBSET Versions
  BY DEF TypeOK, Flights
<1>b. \A c \in Callers : request[c] \in Requests
  BY DEF TypeOK
<1>o. ASSUME NEW S, NEW t \in Int, Observe(S, t)
      PROVE  lastIn' \in [Versions -> Int] /\ lastOut' \in [Versions -> Int]
  BY <1>o DEF Observe, TypeOK
<1>w. ASSUME NEW q, \A c \in Callers : q[c] \in Requests, q = [c \in Callers |-> q[c]]
      PROVE  Waken(q) \in [Callers -> Requests]
  BY <1>w DEF Waken, TypeOK
<1>1. ASSUME NEW v \in Versions, Publish(v) PROVE TypeOK'
  BY <1>1, <1>o DEF Publish, TypeOK, Cached
<1>2. CASE Tick
  <2>1. now + 1 \in Int
    BY DEF TypeOK
  <2>. QED BY <1>2, <1>o, <2>1 DEF Tick, TypeOK, Cached
<1>3. ASSUME NEW c \in Callers, NEW v \in Versions, Ask(c, v) PROVE TypeOK'
  BY <1>3 DEF Ask, TypeOK, World, Cached, Requests
<1>4. ASSUME NEW c \in Callers, Check(c) PROVE TypeOK'
  <2>1. Validated(request[c], known) \in Requests
    BY <1>b, ValidatedType
  <2>2. [request[c] EXCEPT !.step = "join"] \in Requests
    BY <1>b DEF Requests
  <2>3. request' \in [Callers -> Requests]
    BY <1>4, <2>1, <2>2 DEF Check, TypeOK
  <2>. QED BY <1>4, <2>3 DEF Check, TypeOK, World, Cached
<1>5. ASSUME NEW c \in Callers, Join(c) PROVE TypeOK'
  <2>1. [NoFlight EXCEPT !.step = "list", !.began = now, !.waiters = {c}] \in Flights
    BY DEF NoFlight, Flights, TypeOK
  <2>2. [flight EXCEPT !.waiters = @ \cup {c}] \in Flights
    BY <1>a DEF Flights
  <2>3. flight' \in Flights
    BY <1>5, <2>1, <2>2 DEF Join
  <2>4. request' \in [Callers -> Requests]
    BY <1>5, <1>b DEF Join, TypeOK, Requests
  <2>. QED BY <1>5, <2>3, <2>4 DEF Join, TypeOK, World, Cached
<1>6. ASSUME NEW c \in Callers, Read(c) PROVE TypeOK'
  <2>1. Validated(request[c], known) \in Requests
    BY <1>b, ValidatedType
  <2>. QED BY <1>6, <2>1 DEF Read, TypeOK, World, Cached
<1>7. ASSUME NEW c \in Callers, Cancel(c) PROVE TypeOK'
  <2>1. Ended(request[c], "canceled") \in Requests
    BY <1>b, EndedType
  <2>2. [flight EXCEPT !.waiters = @ \ {c}] \in Flights
    BY <1>a DEF Flights
  <2>. QED BY <1>7, <2>1, <2>2 DEF Cancel, TypeOK, World, Cached
<1>8. CASE ListTags
  <2>1. [flight EXCEPT !.step = "store", !.got = published] \in Flights
    BY <1>a DEF Flights, TypeOK
  <2>. QED BY <1>8, <2>1 DEF ListTags, TypeOK, World, Cached
<1>9. CASE Store
  <2>1. \A c \in Callers : [request[c] EXCEPT !.step = "read"] \in Requests
    BY <1>b DEF Requests
  <2>2. request' \in [Callers -> Requests]
    BY <1>9, <2>1, <1>w DEF Store
  <2>. QED BY <1>9, <1>a, <2>2, ListableType, NoFlightType DEF Store, TypeOK, World
<1>10. CASE ListFails
  <2>1. \A c \in Callers : Ended(request[c], "failed") \in Requests
    BY <1>b, EndedType
  <2>2. request' \in [Callers -> Requests]
    BY <1>10, <2>1, <1>w DEF ListFails
  <2>. QED BY <1>10, <2>2, NoFlightType DEF ListFails, TypeOK, World, Cached
<1>11. CASE UNCHANGED vars
  BY <1>11 DEF vars, TypeOK
<1>. QED BY <1>1, <1>2, <1>3, <1>4, <1>5, <1>6, <1>7, <1>8, <1>9, <1>10, <1>11
         DEF Next, CallerStep, FlightStep

\* The state is well-typed.
THEOREM TypeCorrect == Spec => []TypeOK
  BY TypeInit, TypeStep, PTL DEF Spec

---------------------------------------------------------------------------

\* What was seen since t stays seen since t, as the world goes on.
LEMMA SeenGoesOn ==
  ASSUME TypeOK, History, NEW S, NEW t \in Int, NEW u \in Int, SeenSince(S, t), u <= t,
         \A v \in Versions : lastIn'[v] >= lastIn[v] /\ lastOut'[v] >= lastOut[v],
         TypeOK'
  PROVE  \A v \in Versions : /\ v \in S => lastIn'[v] >= u
                             /\ v \notin S => lastOut'[v] >= u
  BY DEF SeenSince, TypeOK

\* An answer from a list stored at t or later, and read by then, is recent.
LEMMA AnswerFromList ==
  ASSUME TypeOK, KnownTrue, NEW c \in Callers, stamp > request[c].start - Recheck
  PROVE  LET q == Validated(request[c], known)
             oldest == q.start - (Recheck + FetchTimeout)
         IN  /\ q.result = "available" => lastIn[q.version] > oldest
             /\ q.result = "unavailable" => lastOut[q.version] > oldest
<1> DEFINE q == Validated(request[c], known)
<1>1. request[c] \in Requests
  BY DEF TypeOK
<1>2. q.version = request[c].version /\ q.start = request[c].start
  BY <1>1, ValidatedType
<1>3. q.version \in Versions /\ q.start \in Int
  BY <1>1, <1>2 DEF Requests
<1>4. q.version \in known => q.result = "available"
  BY <1>1, <1>2, ValidatedType
<1>5. q.version \notin known => q.result = "unavailable"
  BY <1>1, <1>2, ValidatedType
<1> HIDE DEF q
<1>6. /\ q.version \in known => lastIn[q.version] >= stamp - FetchTimeout
      /\ q.version \notin known => lastOut[q.version] >= stamp - FetchTimeout
  BY <1>3 DEF KnownTrue, SeenSince
<1>7. /\ lastIn[q.version] \in Int /\ lastOut[q.version] \in Int
      /\ stamp \in Int /\ FetchTimeout \in Int /\ Recheck \in Int
  BY <1>3, VersionsAssumption DEF TypeOK
<1>8. stamp - FetchTimeout > q.start - (Recheck + FetchTimeout)
  BY <1>2, <1>3, <1>7
<1>. QED BY <1>3, <1>4, <1>5, <1>6, <1>7, <1>8 DEF q

---------------------------------------------------------------------------

LEMMA RecentInit == Init => IInv
<1> SUFFICES ASSUME Init PROVE IInv
  OBVIOUS
<1> USE VersionsAssumption
<1>1. TypeOK
  BY TypeInit
<1>2. \A c \in Callers : request[c].step = "idle" /\ request[c].start = 0
                         /\ request[c].result = "none"
  BY DEF Init
<1>3. Clock
  BY <1>2, NoFlightType DEF Clock, Init
<1>4. History
  BY DEF History, SeenSince, Init, LongAgo
<1>5. FlightTrue
  BY NoFlightType DEF FlightTrue, Init
<1>6. KnownTrue
  BY DEF KnownTrue, SeenSince, Init, LongAgo
<1>7. ReadFresh /\ AnswersRecent
  BY <1>2 DEF ReadFresh, AnswersRecent
<1>. QED BY <1>1, <1>3, <1>4, <1>5, <1>6, <1>7 DEF IInv

\* A step of the world: time passes, or a version is released.
LEMMA RecentWorld ==
  ASSUME IInv, TypeOK',
         UNCHANGED <<Cached, flight, request>>,
         now' >= now, Observe(published', now'),
         flight.step # "idle" => now' - flight.began <= FetchTimeout
  PROVE  IInv'
<1> USE DEF IInv
<1>1. Clock'
  <2>1. \A c \in Callers : request[c].start \in Int
    BY DEF TypeOK, Requests
  <2>2. flight.began \in Int
    BY DEF TypeOK, Flights
  <2>. QED BY <2>1, <2>2 DEF Clock, TypeOK, Cached
<1>2. \A v \in Versions : lastIn'[v] >= lastIn[v] /\ lastOut'[v] >= lastOut[v]
  BY DEF History, Observe, TypeOK
<1>3. History'
  BY DEF History, SeenSince, Observe, TypeOK
<1>4. FlightTrue'
  <2>1. flight.began \in Int
    BY DEF TypeOK, Flights
  <2>2. flight' = flight /\ Listable(flight.got)' = Listable(flight.got)
    BY DEF Listable
  <2>. QED BY <1>2, <2>1, <2>2, SeenGoesOn DEF FlightTrue, SeenSince
<1>5. KnownTrue'
  <2>1. stamp - FetchTimeout \in Int
    BY VersionsAssumption DEF TypeOK
  <2>2. stamp' = stamp /\ known' = known
    BY DEF Cached
  <2>. QED BY <1>2, <2>1, <2>2, SeenGoesOn DEF KnownTrue, SeenSince
<1>6. ReadFresh'
  BY DEF ReadFresh, Cached
<1>7. AnswersRecent'
  <2>1. ASSUME NEW c \in Callers
        PROVE  /\ request[c].version \in Versions
               /\ request[c].start - (Recheck + FetchTimeout) \in Int
    BY VersionsAssumption DEF TypeOK, Requests
  <2>2. \A v \in Versions : lastIn[v] \in Int /\ lastOut[v] \in Int
                            /\ lastIn'[v] \in Int /\ lastOut'[v] \in Int
    BY DEF TypeOK
  <2>. QED BY <1>2, <2>1, <2>2 DEF AnswersRecent
<1>. QED BY <1>1, <1>3, <1>4, <1>5, <1>6, <1>7

\* A step that changes the requests alone, none of which waits to read: each
\* keeps the time it began at and its answer, or gets a recent one.
LEMMA RecentCaller ==
  ASSUME IInv, TypeOK', UNCHANGED <<World, Cached>>,
         NEW c \in Callers, \A d \in Callers \ {c} : request'[d] = request[d],
         request'[c].start <= now, request'[c].step # "read",
         LET q == request'[c]
             oldest == q.start - (Recheck + FetchTimeout)
         IN  /\ q.result = "available" => lastIn[q.version] > oldest
             /\ q.result = "unavailable" => lastOut[q.version] > oldest,
         \/ /\ flight'.step = flight.step /\ flight'.began = flight.began
            /\ flight'.got = flight.got
         \/ flight'.step = "list" /\ flight'.began = now
  PROVE  IInv'
<1> USE DEF IInv
<1>1. Clock'
  BY VersionsAssumption DEF Clock, World, Cached, TypeOK
<1>2. History' /\ KnownTrue'
  BY DEF History, KnownTrue, SeenSince, World, Cached, Listable
<1>3. FlightTrue'
  <2>1. flight'.step = "store" => Listable(flight.got)' = Listable(flight.got)
                                  /\ flight'.began = flight.began /\ flight.step = "store"
    BY DEF Listable
  <2>. QED BY <2>1 DEF FlightTrue, SeenSince, World
<1>4. ReadFresh'
  BY DEF ReadFresh, Cached
<1>5. AnswersRecent'
  BY DEF AnswersRecent, World
<1>. QED BY <1>1, <1>2, <1>3, <1>4, <1>5

\* A flight ends and wakes its waiters; the list is as it was or as true.
LEMMA RecentEnd ==
  ASSUME IInv, TypeOK', UNCHANGED World, flight' = NoFlight,
         KnownTrue', stamp' >= stamp, stamp' <= now,
         NEW W \in SUBSET Callers, \A c \in Callers \ W : request'[c] = request[c],
         \A c \in W : /\ request'[c].start = request[c].start
                      /\ request'[c].step = "read" => stamp' = now
                      /\ \/ request'[c].result \notin {"available", "unavailable"}
                         \/ /\ request'[c].result = request[c].result
                            /\ request'[c].version = request[c].version
  PROVE  IInv'
<1> USE DEF IInv
<1>1. \A c \in Callers : request'[c].start = request[c].start /\ request[c].start \in Int
  BY DEF TypeOK, Requests
<1>2. Clock'
  BY <1>1, NoFlightType DEF Clock, World
<1>3. History' /\ FlightTrue'
  BY NoFlightType DEF History, FlightTrue, SeenSince, World, Listable
<1>4. ReadFresh'
  BY <1>1 DEF ReadFresh, Clock, World, TypeOK
<1>5. AnswersRecent'
  BY <1>1 DEF AnswersRecent, World
<1>. QED BY <1>2, <1>3, <1>4, <1>5

\* Every step keeps the invariant.
LEMMA RecentStep == IInv /\ [Next]_vars => IInv'
<1> SUFFICES ASSUME IInv, [Next]_vars PROVE IInv'
  OBVIOUS
<1> USE VersionsAssumption
<1>t. TypeOK /\ TypeOK'
  BY TypeStep DEF IInv
<1>a. /\ now \in Int /\ stamp \in Int /\ flight \in Flights /\ flight.began \in Int
      /\ \A c \in Callers : request[c] \in Requests /\ request[c].start \in Int
  BY <1>t DEF TypeOK, Flights, Requests
<1>c. \A c \in Callers : request[c].start <= now
  BY DEF IInv, Clock
<1>1. ASSUME NEW v \in Versions, Publish(v) PROVE IInv'
  <2>1. flight.step # "idle" => now - flight.began <= FetchTimeout
    BY DEF IInv, Clock
  <2>2. UNCHANGED <<Cached, flight, request>> /\ now' = now /\ Observe(published', now')
    BY <1>1 DEF Publish
  <2>. QED BY <1>a, <1>t, <2>1, <2>2, RecentWorld
<1>2. CASE Tick
  <2>1. UNCHANGED <<Cached, flight, request>> /\ now' = now + 1 /\ Observe(published', now')
    BY <1>2 DEF Tick
  <2>2. flight.step # "idle" => now' - flight.began <= FetchTimeout
    BY <1>2, <1>a DEF Tick
  <2>. QED BY <1>a, <1>t, <2>1, <2>2, RecentWorld
<1>3. ASSUME NEW c \in Callers, NEW v \in Versions, Ask(c, v) PROVE IInv'
  <2>1. UNCHANGED <<World, Cached, flight>>
    BY <1>3 DEF Ask
  <2>2. \A d \in Callers \ {c} : request'[d] = request[d]
    BY <1>3, <1>t DEF Ask, TypeOK
  <2>3. request'[c] = [step |-> "check", version |-> v, start |-> now, result |-> "none"]
    BY <1>3, <1>t DEF Ask, TypeOK
  <2>. QED BY <1>a, <1>t, <2>1, <2>2, <2>3, RecentCaller
<1>4. ASSUME NEW c \in Callers, Check(c) PROVE IInv'
  <2>1. UNCHANGED <<World, Cached, flight>>
    BY <1>4 DEF Check
  <2>2. \A d \in Callers \ {c} : request'[d] = request[d]
    BY <1>4, <1>t DEF Check, TypeOK
  <2>3. CASE now - stamp < Recheck
    <3>1. request'[c] = Validated(request[c], known)
      BY <1>4, <1>t, <2>3 DEF Check, TypeOK
    <3>2. stamp > request[c].start - Recheck
      BY <1>a, <1>c, <2>3
    <3>. QED BY <1>a, <1>c, <1>t, <2>1, <2>2, <3>1, <3>2, AnswerFromList, ValidatedType,
                RecentCaller DEF IInv
  <2>4. CASE ~(now - stamp < Recheck)
    <3>1. request'[c] = [request[c] EXCEPT !.step = "join"]
      BY <1>4, <1>t, <2>4 DEF Check, TypeOK
    <3>2. request'[c].step = "join" /\ request'[c].start = request[c].start
          /\ request'[c].result = request[c].result /\ request'[c].version = request[c].version
      BY <1>a, <3>1 DEF Requests
    <3>. QED BY <1>c, <1>t, <2>1, <2>2, <3>2, RecentCaller DEF IInv, AnswersRecent
  <2>. QED BY <2>3, <2>4
<1>5. ASSUME NEW c \in Callers, Join(c) PROVE IInv'
  <2>1. UNCHANGED <<World, Cached>>
    BY <1>5 DEF Join
  <2>2. \A d \in Callers \ {c} : request'[d] = request[d]
    BY <1>5, <1>t DEF Join, TypeOK
  <2>3. request'[c].step = "wait" /\ request'[c].start = request[c].start
        /\ request'[c].result = request[c].result /\ request'[c].version = request[c].version
    BY <1>5, <1>t, <1>a DEF Join, TypeOK, Requests
  <2>4. \/ /\ flight'.step = flight.step /\ flight'.began = flight.began
           /\ flight'.got = flight.got
        \/ flight'.step = "list" /\ flight'.began = now
    BY <1>5, <1>a DEF Join, Flights, NoFlight
  <2>. QED BY <1>c, <1>t, <2>1, <2>2, <2>3, <2>4, RecentCaller DEF IInv, AnswersRecent
<1>6. ASSUME NEW c \in Callers, Read(c) PROVE IInv'
  <2>1. UNCHANGED <<World, Cached, flight>>
    BY <1>6 DEF Read
  <2>2. \A d \in Callers \ {c} : request'[d] = request[d]
    BY <1>6, <1>t DEF Read, TypeOK
  <2>3. request'[c] = Validated(request[c], known)
    BY <1>6, <1>t DEF Read, TypeOK
  <2>4. stamp > request[c].start - Recheck
    BY <1>a, <1>6 DEF Read, IInv, ReadFresh
  <2>. QED BY <1>a, <1>c, <1>t, <2>1, <2>2, <2>3, <2>4, AnswerFromList, ValidatedType,
              RecentCaller DEF IInv
<1>7. ASSUME NEW c \in Callers, Cancel(c) PROVE IInv'
  <2>1. UNCHANGED <<World, Cached>>
    BY <1>7 DEF Cancel
  <2>2. \A d \in Callers \ {c} : request'[d] = request[d]
    BY <1>7, <1>t DEF Cancel, TypeOK
  <2>3. request'[c] = Ended(request[c], "canceled")
    BY <1>7, <1>t DEF Cancel, TypeOK
  <2>4. request'[c].step = "done" /\ request'[c].result = "canceled"
        /\ request'[c].start = request[c].start
    BY <1>a, <2>3, EndedType
  <2>5. flight'.step = flight.step /\ flight'.began = flight.began /\ flight'.got = flight.got
    BY <1>7, <1>a DEF Cancel, Flights
  <2>. QED BY <1>c, <1>t, <2>1, <2>2, <2>4, <2>5, RecentCaller
<1>8. CASE ListTags
  <2>1. UNCHANGED <<World, Cached, request>>
    BY <1>8 DEF ListTags
  <2>2. flight'.step = "store" /\ flight'.began = flight.began /\ flight'.got = published
    BY <1>8, <1>a DEF ListTags, Flights
  <2>3. flight.began <= now /\ now - flight.began <= FetchTimeout
    BY <1>8 DEF ListTags, IInv, Clock
  <2>4. Clock' /\ ReadFresh' /\ AnswersRecent'
    BY <2>1, <2>2, <2>3 DEF IInv, Clock, ReadFresh, AnswersRecent, World, Cached
  <2>5. History' /\ KnownTrue'
    BY <2>1 DEF IInv, History, KnownTrue, SeenSince, World, Cached, Listable
  <2>6. Listable(flight.got)' = Listable(published)
    BY <2>2 DEF Listable
  <2>7. lastIn' = lastIn /\ lastOut' = lastOut
        /\ \A v \in Versions : lastIn[v] \in Int /\ lastOut[v] \in Int
    BY <1>t, <2>1 DEF World, TypeOK
  <2>8. FlightTrue'
    BY <1>a, <2>2, <2>3, <2>6, <2>7 DEF FlightTrue, IInv, History, SeenSince
  <2>. QED BY <1>t, <2>4, <2>5, <2>8 DEF IInv
<1>9. CASE Store
  <2>1. UNCHANGED World /\ flight' = NoFlight /\ stamp' = now /\ now' = now
        /\ known' = Listable(flight.got) /\ lastIn' = lastIn /\ lastOut' = lastOut
    BY <1>9 DEF Store, World
  <2>2. flight.began <= now /\ now - flight.began <= FetchTimeout
    BY <1>9 DEF Store, IInv, Clock
  <2>3. SeenSince(Listable(flight.got), flight.began)
    BY <1>9 DEF Store, IInv, FlightTrue
  <2>4. now - FetchTimeout <= flight.began
    BY <1>a, <2>2
  <2>5. KnownTrue'
    BY <1>a, <1>t, <2>1, <2>3, <2>4 DEF KnownTrue, SeenSince, TypeOK
  <2>6. stamp <= now
    BY DEF IInv, Clock
  <2>7. flight.waiters \in SUBSET Callers
    BY <1>a DEF Flights
  <2>8. \A c \in Callers : [request[c] EXCEPT !.step = "read"] \in Requests
    BY <1>a DEF Requests
  <2>9. \A c \in Callers : request'[c] = IF c \in flight.waiters
                             THEN [request[c] EXCEPT !.step = "read"] ELSE request[c]
    BY <1>9, <1>t, <2>8, WakenType DEF Store
  <2>10. \A c \in flight.waiters : /\ request'[c].start = request[c].start
                                   /\ request'[c].result = request[c].result
                                   /\ request'[c].version = request[c].version
    BY <1>a, <2>7, <2>9 DEF Requests
  <2>11. \A c \in Callers \ flight.waiters : request'[c] = request[c]
    BY <2>9
  <2>12. stamp' >= stamp /\ stamp' <= now
    BY <1>a, <2>1, <2>6
  <2>. QED BY <1>t, <2>1, <2>5, <2>7, <2>10, <2>11, <2>12, RecentEnd
<1>10. CASE ListFails
  <2>1. UNCHANGED <<World, Cached>> /\ flight' = NoFlight
    BY <1>10 DEF ListFails
  <2>2. KnownTrue'
    BY <2>1 DEF IInv, KnownTrue, SeenSince, World, Cached
  <2>3. stamp' = stamp /\ stamp <= now
    BY <2>1 DEF IInv, Clock, Cached
  <2>4. flight.waiters \in SUBSET Callers
    BY <1>a DEF Flights
  <2>5. \A c \in Callers : Ended(request[c], "failed") \in Requests
    BY <1>a, EndedType
  <2>6. \A c \in Callers : request'[c] = IF c \in flight.waiters
                             THEN Ended(request[c], "failed") ELSE request[c]
    BY <1>10, <1>t, <2>5, WakenType DEF ListFails
  <2>7. \A c \in flight.waiters : /\ request'[c].start = request[c].start
                                  /\ request'[c].result = "failed"
                                  /\ request'[c].step = "done"
    BY <1>a, <2>4, <2>6, EndedType
  <2>. QED BY <1>a, <1>t, <2>1, <2>2, <2>3, <2>4, <2>6, <2>7, RecentEnd
<1>11. CASE UNCHANGED vars
  BY <1>11, <1>t DEF vars, IInv, Clock, History, FlightTrue, KnownTrue, SeenSince, ReadFresh,
                     AnswersRecent, Listable
<1>. QED BY <1>1, <1>2, <1>3, <1>4, <1>5, <1>6, <1>7, <1>8, <1>9, <1>10, <1>11
         DEF Next, CallerStep, FlightStep

\* Every answer was true since the recheck interval and the time limit of one
\* listing before the request began, for any number of callers and versions
\* and any interval and limit.
THEOREM AnswersAreRecent == Spec => []AnswersRecent
<1>1. IInv => AnswersRecent
  BY DEF IInv
<1>. QED BY <1>1, RecentInit, RecentStep, PTL DEF Spec

---------------------------------------------------------------------------

\* What is offered has a tag and is not rejected, and a flight that has listed
\* the tags has seen everything that was offered by then.
Offered ==
    /\ known \subseteq published \ Rejected
    /\ flight.step = "store" => known \subseteq flight.got /\ flight.got \subseteq published

LEMMA OfferedInit == Init => Offered
  BY NoFlightType DEF Init, Offered

LEMMA OfferedStep == TypeOK /\ Offered /\ [Next]_vars => Offered'
<1> SUFFICES ASSUME TypeOK, Offered, [Next]_vars PROVE Offered'
  OBVIOUS
<1>a. flight \in Flights
  BY DEF TypeOK
<1>1. ASSUME NEW v \in Versions, Publish(v) PROVE Offered'
  BY <1>1 DEF Publish, Offered, Cached
<1>2. CASE UNCHANGED <<published, known, flight>>
  BY <1>2 DEF Offered
<1>3. ASSUME NEW c \in Callers, Join(c) PROVE Offered'
  <2>1. UNCHANGED <<published, known>>
    BY <1>3 DEF Join, World, Cached
  <2>2. \/ flight'.step = flight.step /\ flight'.got = flight.got
        \/ flight'.step = "list"
    BY <1>3, <1>a DEF Join, Flights, NoFlight
  <2>. QED BY <2>1, <2>2 DEF Offered
<1>4. ASSUME NEW c \in Callers, Cancel(c) PROVE Offered'
  <2>1. UNCHANGED <<published, known>>
    BY <1>4 DEF Cancel, World, Cached
  <2>2. flight'.step = flight.step /\ flight'.got = flight.got
    BY <1>4, <1>a DEF Cancel, Flights
  <2>. QED BY <2>1, <2>2 DEF Offered
<1>5. CASE ListTags
  <2>1. UNCHANGED <<published, known>>
    BY <1>5 DEF ListTags, World, Cached
  <2>2. flight'.got = published
    BY <1>5, <1>a DEF ListTags, Flights
  <2>. QED BY <2>1, <2>2 DEF Offered
<1>6. CASE Store
  <2>1. published' = published /\ known' = Listable(flight.got) /\ flight' = NoFlight
    BY <1>6 DEF Store, World
  <2>2. flight.got \subseteq published
    BY <1>6 DEF Store, Offered
  <2>. QED BY <2>1, <2>2, ListableSub, NoFlightType DEF Offered
<1>7. CASE ListFails
  <2>1. UNCHANGED <<published, known>> /\ flight' = NoFlight
    BY <1>7 DEF ListFails, World, Cached
  <2>. QED BY <2>1, NoFlightType DEF Offered
<1>8. Tick \/ (\E c \in Callers, v \in Versions : Ask(c, v))
      \/ (\E c \in Callers : Check(c) \/ Read(c)) \/ UNCHANGED vars
        => UNCHANGED <<published, known, flight>>
  BY DEF Tick, Ask, Check, Read, vars, World, Cached
<1>. QED BY <1>1, <1>2, <1>3, <1>4, <1>5, <1>6, <1>7, <1>8 DEF Next, CallerStep, FlightStep

\* No step takes a release off the list.
LEMMA KeptStep == TypeOK /\ Offered /\ [Next]_vars => ReleasesKept
<1> SUFFICES ASSUME TypeOK, Offered, [Next]_vars PROVE ReleasesKept
  OBVIOUS
<1>1. CASE Store
  <2>1. known' = Listable(flight.got) /\ flight.step = "store"
    BY <1>1 DEF Store
  <2>2. known \subseteq flight.got \ Rejected
    BY <2>1 DEF Offered
  <2>. QED BY <2>1, <2>2 DEF ReleasesKept, Listable
<1>2. CASE known' = known
  BY <1>2 DEF ReleasesKept
<1>3. Store \/ known' = known
  BY DEF Next, CallerStep, FlightStep, Publish, Tick, Ask, Check, Join, Cancel, Read, ListTags,
         ListFails, vars, World, Cached
<1>. QED BY <1>1, <1>2, <1>3

\* A release that was offered is offered for good.
THEOREM ReleasesAreKept == Spec => ReleasesStay
<1>1. TypeOK /\ Offered /\ [Next]_vars => [ReleasesKept]_vars
  BY KeptStep
<1>. QED BY <1>1, TypeInit, TypeStep, OfferedInit, OfferedStep, PTL DEF Spec, ReleasesStay

---------------------------------------------------------------------------

\* Who waits is known to the flight, and the flight runs.
WaitersKnown ==
    /\ \A c \in Callers : c \in flight.waiters <=> request[c].step = "wait"
    /\ flight.waiters # {} => flight.step # "idle"

\* A flight that ends leaves nobody waiting.
LEMMA WakenAll ==
  ASSUME TypeOK, WaitersKnown, flight' = NoFlight,
         \A c \in Callers : request'[c] = request[c] \/ request'[c].step # "wait",
         \A c \in flight.waiters : request'[c].step # "wait"
  PROVE  WaitersKnown'
<1>1. flight'.waiters = {}
  BY DEF NoFlight
<1>2. ASSUME NEW c \in Callers PROVE request'[c].step # "wait"
  BY DEF WaitersKnown
<1>. QED BY <1>1, <1>2 DEF WaitersKnown

LEMMA WaitersStep == TypeOK /\ WaitersKnown /\ [Next]_vars => WaitersKnown'
<1> SUFFICES ASSUME TypeOK, WaitersKnown, [Next]_vars PROVE WaitersKnown'
  OBVIOUS
<1>1. flight \in Flights /\ flight.waiters \in SUBSET Callers /\ request \in [Callers -> Requests]
  BY DEF TypeOK, Flights
<1>2. CASE flight' = flight /\ \A c \in Callers : request'[c].step = "wait" <=> request[c].step = "wait"
  BY <1>2 DEF WaitersKnown
<1>3. CASE Tick \/ (\E v \in Versions : Publish(v)) \/ UNCHANGED vars
  BY <1>2, <1>3 DEF Tick, Publish, vars
<1>4. ASSUME NEW c \in Callers, (\E v \in Versions : Ask(c, v)) \/ Check(c) \/ Read(c)
      PROVE  WaitersKnown'
  <2>1. flight' = flight /\ \A d \in Callers \ {c} : request'[d] = request[d]
    BY <1>1, <1>4 DEF Ask, Check, Read
  <2>2. request[c].step # "wait" /\ request'[c].step # "wait"
    <3>1. request[c] \in Requests
      BY <1>1
    <3>2. Validated(request[c], known).step # "wait" /\ [request[c] EXCEPT !.step = "join"].step # "wait"
      BY <3>1, ValidatedType DEF Requests
    <3>3. CASE Check(c)
      <4>1. request[c].step = "check"
            /\ request'[c] \in {Validated(request[c], known), [request[c] EXCEPT !.step = "join"]}
        BY <1>1, <3>3 DEF Check
      <4>. QED BY <3>2, <4>1
    <3>4. CASE Read(c)
      BY <1>1, <3>2, <3>4 DEF Read
    <3>5. CASE \E v \in Versions : Ask(c, v)
      BY <1>1, <3>5 DEF Ask
    <3>. QED BY <1>4, <3>3, <3>4, <3>5
  <2>. QED BY <1>2, <2>1, <2>2
<1>5. ASSUME NEW c \in Callers, Join(c) PROVE WaitersKnown'
  <2>1. request'[c].step = "wait" /\ \A d \in Callers \ {c} : request'[d] = request[d]
    BY <1>1, <1>5 DEF Join, Requests
  <2>2. flight'.waiters = flight.waiters \cup {c} /\ flight'.step # "idle"
    <3>1. CASE flight.step = "idle"
      BY <1>5, <3>1 DEF Join, NoFlight, WaitersKnown
    <3>2. CASE flight.step # "idle"
      BY <1>1, <1>5, <3>2 DEF Join, Flights
    <3>. QED BY <3>1, <3>2
  <2>. QED BY <2>1, <2>2 DEF WaitersKnown
<1>6. ASSUME NEW c \in Callers, Cancel(c) PROVE WaitersKnown'
  <2>1. request[c] \in Requests
    BY <1>1
  <2>2. request'[c].step = "done" /\ \A d \in Callers \ {c} : request'[d] = request[d]
    BY <1>1, <1>6, <2>1, EndedType DEF Cancel
  <2>3. flight'.waiters = flight.waiters \ {c} /\ flight'.step = flight.step
    BY <1>1, <1>6 DEF Cancel, Flights
  <2>. QED BY <2>2, <2>3 DEF WaitersKnown
<1>7. CASE ListTags
  <2>1. flight'.waiters = flight.waiters /\ flight'.step = "store" /\ request' = request
    BY <1>1, <1>7 DEF ListTags, Flights
  <2>. QED BY <2>1 DEF WaitersKnown
<1>8. CASE Store
  <2>1. \A c \in Callers : request'[c] = IF c \in flight.waiters THEN [request[c] EXCEPT !.step = "read"]
                                         ELSE request[c]
    BY <1>8 DEF Store, Waken
  <2>2. \A c \in Callers : [request[c] EXCEPT !.step = "read"].step = "read"
    BY <1>1 DEF Requests
  <2>. QED BY <1>1, <1>8, <2>1, <2>2, WakenAll DEF Store
<1>9. CASE ListFails
  <2>1. \A c \in Callers : request'[c] = IF c \in flight.waiters THEN Ended(request[c], "failed")
                                         ELSE request[c]
    BY <1>9 DEF ListFails, Waken
  <2>2. \A c \in Callers : Ended(request[c], "failed").step = "done"
    BY <1>1, EndedType
  <2>. QED BY <1>1, <1>9, <2>1, <2>2, WakenAll DEF ListFails
<1>. QED BY <1>3, <1>4, <1>5, <1>6, <1>7, <1>8, <1>9 DEF Next, CallerStep, FlightStep

\* Every caller of GetTalosVersions that waits is told by a flight that runs,
\* whichever callers came and went before (the channel of sf.DoChan): what the
\* end of all requests rests on.
THEOREM NobodyForgotten == Spec => []WaitersKnown
<1>1. Init => TypeOK /\ WaitersKnown
  BY TypeInit DEF Init, WaitersKnown, NoFlight
<1>. QED BY <1>1, TypeStep, WaitersStep, PTL DEF Spec
=============================================================================
