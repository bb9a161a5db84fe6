---------------------------- MODULE ProcessProofs ----------------------------
(***************************************************************************)
(* What runs detached in one process: the builds of boot assets, and the   *)
(* vulnerability scans with their database.                                *)
(*                                                                         *)
(* The asset builder never runs more builds than its semaphore has room    *)
(* for, loses no request and refuses nobody an asset that was built, for   *)
(* any number of clients and profiles and any capacity.                    *)
(*                                                                         *)
(* The tokens in the semaphore are the flights that build: that is         *)
(* inductive only because the queue of the semaphore and the flights that  *)
(* wait for a slot are the same, each once.                                *)
(*                                                                         *)
(* The scanner never closes a database under a scan, keeps no result that  *)
(* a swap of the database should have dropped, and leaves no handle open   *)
(* when it stops, for any number of requests, keys and databases: at any   *)
(* time the one open handle is the scanner's own.                          *)
(***************************************************************************)
EXTENDS Process, FiniteSetTheorems, SequenceTheorems, TLAPS

\* A request that has not ended is for some profile and has no result.
PendingInv ==
    \A c \in Clients : request[c].step \in {"lookup", "join", "wait"} =>
        request[c].result = "none" /\ request[c].profile \in Profiles

\* The queue without its i-th element.
LEMMA RemoveAtProperties ==
    ASSUME NEW S, NEW s \in Seq(S), NEW i \in DOMAIN s
    PROVE  /\ RemoveAt(s, i) \in Seq(S)
           /\ Len(RemoveAt(s, i)) = Len(s) - 1
           /\ \A j \in 1 .. Len(s) - 1 :
                 RemoveAt(s, i)[j] = IF j < i THEN s[j] ELSE s[j + 1]
<1>1. i \in 1 .. Len(s) /\ Len(s) \in Nat
  BY LenProperties
<1> DEFINE a == SubSeq(s, 1, i - 1)
           b == SubSeq(s, i + 1, Len(s))
<1>2. a \in Seq(S) /\ Len(a) = i - 1 /\ \A j \in 1 .. i - 1 : a[j] = s[j]
  BY <1>1, SubSeqProperties, ElementOfSeq
<1>3. b \in Seq(S) /\ Len(b) = Len(s) - i /\ \A j \in 1 .. Len(s) - i : b[j] = s[i + j]
  BY <1>1, SubSeqProperties, ElementOfSeq
<1>4. RemoveAt(s, i) = a \o b
  BY DEF RemoveAt
<1> HIDE DEF a, b
<1> QED BY <1>1, <1>2, <1>3, <1>4, ConcatProperties

\* Leaving the queue, from its head or from the middle, and joining it.
LEMMA LeavesQueue ==
    ASSUME NEW S, NEW s \in Seq(S), IsInjective(s), NEW i \in DOMAIN s
    PROVE  /\ RemoveAt(s, i) \in Seq(S)
           /\ IsInjective(RemoveAt(s, i))
           /\ ToSet(RemoveAt(s, i)) = ToSet(s) \ {s[i]}
<1> DEFINE t == RemoveAt(s, i)
<1>1. t \in Seq(S) /\ Len(t) = Len(s) - 1
  BY RemoveAtProperties
<1>2. \A j \in 1 .. Len(s) - 1 : t[j] = IF j < i THEN s[j] ELSE s[j + 1]
  BY RemoveAtProperties
<1>3. DOMAIN t = 1 .. Len(s) - 1 /\ DOMAIN s = 1 .. Len(s) /\ Len(s) \in Nat
  BY <1>1, LenProperties
<1> HIDE DEF t
<1>4. IsInjective(t)
  BY <1>2, <1>3 DEF IsInjective
<1>5. ASSUME NEW x \in ToSet(t) PROVE x \in ToSet(s) \ {s[i]}
  <2>1. PICK j \in 1 .. Len(s) - 1 : x = t[j]
    BY <1>3, <1>5 DEF ToSet
  <2>2. x = IF j < i THEN s[j] ELSE s[j + 1]
    BY <1>2, <2>1
  <2> QED BY <1>3, <2>1, <2>2 DEF ToSet, IsInjective
<1>6. ASSUME NEW x \in ToSet(s), x # s[i] PROVE x \in ToSet(t)
  <2>1. PICK j \in 1 .. Len(s) : x = s[j]
    BY <1>3 DEF ToSet
  <2>2. CASE j < i
    BY <1>2, <1>3, <2>1, <2>2 DEF ToSet
  <2>3. CASE j > i
    <3>1. j - 1 \in 1 .. Len(s) - 1 /\ t[j - 1] = s[j]
      BY <1>2, <1>3, <2>3
    <3> QED BY <1>3, <2>1, <3>1 DEF ToSet
  <2> QED BY <1>3, <1>6, <2>1, <2>2, <2>3
<1> QED BY <1>1, <1>4, <1>5, <1>6 DEF t

LEMMA HeadLeavesQueue ==
    ASSUME NEW S, NEW s \in Seq(S), IsInjective(s), s # << >>
    PROVE  /\ Tail(s) \in Seq(S)
           /\ IsInjective(Tail(s))
           /\ ToSet(Tail(s)) = ToSet(s) \ {Head(s)}
<1>1. Tail(s) \in Seq(S) /\ Len(Tail(s)) = Len(s) - 1 /\ Head(s) = s[1]
  BY HeadTailProperties
<1>2. \A j \in 1 .. Len(s) - 1 : Tail(s)[j] = s[j + 1]
  BY HeadTailProperties
<1>3. DOMAIN Tail(s) = 1 .. Len(s) - 1 /\ DOMAIN s = 1 .. Len(s) /\ Len(s) \in Nat \ {0}
  BY <1>1, LenProperties, EmptySeq
<1> DEFINE t == Tail(s)
<1> HIDE DEF t
<1>4. IsInjective(t)
  BY <1>2, <1>3 DEF IsInjective, t
<1>5. ASSUME NEW x \in ToSet(t) PROVE x \in ToSet(s) \ {s[1]}
  <2>1. PICK j \in 1 .. Len(s) - 1 : x = s[j + 1]
    BY <1>2, <1>3, <1>5 DEF ToSet, t
  <2> QED BY <1>3, <2>1 DEF ToSet, IsInjective
<1>6. ASSUME NEW x \in ToSet(s), x # s[1] PROVE x \in ToSet(t)
  <2>1. PICK j \in 1 .. Len(s) : x = s[j]
    BY <1>3 DEF ToSet
  <2>2. j - 1 \in 1 .. Len(s) - 1 /\ t[j - 1] = s[j]
    BY <1>2, <1>3, <1>6, <2>1 DEF t
  <2> QED BY <1>3, <2>1, <2>2 DEF ToSet, t
<1> QED BY <1>1, <1>4, <1>5, <1>6 DEF t

LEMMA JoinsQueue ==
    ASSUME NEW S, NEW s \in Seq(S), IsInjective(s), NEW x \in S, x \notin ToSet(s)
    PROVE  /\ Append(s, x) \in Seq(S)
           /\ IsInjective(Append(s, x))
           /\ ToSet(Append(s, x)) = ToSet(s) \cup {x}
<1> DEFINE t == Append(s, x)
<1>1. t \in Seq(S) /\ Len(t) = Len(s) + 1 /\ t[Len(s) + 1] = x
  BY AppendProperties
<1>2. \A j \in 1 .. Len(s) : t[j] = s[j]
  BY AppendProperties
<1>3. DOMAIN t = 1 .. Len(s) + 1 /\ DOMAIN s = 1 .. Len(s) /\ Len(s) \in Nat
  BY <1>1, LenProperties
<1> HIDE DEF t
<1>4. IsInjective(t)
  BY <1>1, <1>2, <1>3 DEF IsInjective, ToSet
<1>5. ToSet(t) = ToSet(s) \cup {x}
  BY <1>1, <1>2, <1>3 DEF ToSet
<1> QED BY <1>1, <1>4, <1>5 DEF t

---------------------------------------------------------------------------
(* The semaphore *)

SlotsInv == IsFiniteSet(Building) /\ BuildsWithinLimit

\* Only the flight of p moved.
OnlyMoved(p) == \A q \in Profiles \ {p} : flight'[q].step = flight[q].step

LEMMA SlotTaken ==
    ASSUME SlotsInv, NEW p \in Profiles, OnlyMoved(p), slots < AllowedConcurrency,
           flight[p].step # "build", flight'[p].step = "build", slots' = slots + 1
    PROVE  SlotsInv' /\ slots' \in 0 .. AllowedConcurrency
<1>1. Building' = Building \cup {p} /\ p \notin Building
  BY DEF Building, OnlyMoved
<1>2. IsFiniteSet(Building') /\ Cardinality(Building') = slots + 1
  BY <1>1, FS_AddElement DEF SlotsInv, BuildsWithinLimit
<1>3. slots \in Nat
  BY FS_CardinalityType DEF SlotsInv, BuildsWithinLimit
<1> QED BY <1>2, <1>3, BuilderAssumption DEF SlotsInv, BuildsWithinLimit

LEMMA SlotGivenBack ==
    ASSUME SlotsInv, NEW p \in Profiles, OnlyMoved(p),
           flight[p].step = "build", flight'[p].step # "build", slots' = slots - 1
    PROVE  SlotsInv' /\ slots' \in 0 .. AllowedConcurrency
<1>1. Building' = Building \ {p} /\ p \in Building
  BY DEF Building, OnlyMoved
<1>2. IsFiniteSet(Building') /\ Cardinality(Building') = slots - 1
  BY <1>1, FS_RemoveElement DEF SlotsInv, BuildsWithinLimit
<1>3. slots \in Nat /\ Cardinality(Building') \in Nat
  BY <1>2, FS_CardinalityType DEF SlotsInv, BuildsWithinLimit
<1> QED BY <1>2, <1>3, BuilderAssumption DEF SlotsInv, BuildsWithinLimit

LEMMA SlotsAlone ==
    ASSUME SlotsInv, NEW p \in Profiles, OnlyMoved(p),
           flight[p].step # "build", flight'[p].step # "build", slots' = slots
    PROVE  SlotsInv'
<1>1. Building' = Building
  BY DEF Building, OnlyMoved
<1> QED BY <1>1 DEF SlotsInv, BuildsWithinLimit

LEMMA QueueAlone ==
    ASSUME QueueAccounted, NEW p \in Profiles, OnlyMoved(p),
           flight[p].step # "queue", flight'[p].step # "queue", queue' = queue
    PROVE  QueueAccounted'
BY DEF QueueAccounted, OnlyMoved

---------------------------------------------------------------------------
(* Requests and the flights they wait for *)

\* What a step leaves in the flights and requests is well formed.
StepTyped ==
    /\ flight' \in [Profiles -> [step : FlightSteps, waiters : SUBSET Clients]]
    /\ request' \in [Clients -> [step : RequestSteps, profile : Profiles \cup {NoProfile},
                                 result : Results]]

\* A flight that goes on keeps its waiters.
LEMMA GotoInv ==
    ASSUME TypeOK, WaitersListed, PendingInv, NEW p \in Profiles,
           NEW step \in FlightSteps \ {"idle"}, Goto(p, step)
    PROVE  StepTyped /\ WaitersListed' /\ PendingInv' /\ OnlyMoved(p) /\ flight'[p].step = step
<1>1. \A q \in Profiles : flight'[q] = IF q = p THEN [flight[p] EXCEPT !.step = step] ELSE flight[q]
  BY DEF Goto, TypeOK
<1>2. \A q \in Profiles : flight'[q].waiters = flight[q].waiters
  BY <1>1 DEF TypeOK
<1>3. flight'[p].step = step /\ OnlyMoved(p)
  BY <1>1 DEF TypeOK, OnlyMoved
<1>4. StepTyped
  <2>1. [flight[p] EXCEPT !.step = step] \in [step : FlightSteps, waiters : SUBSET Clients]
    BY DEF TypeOK
  <2> QED BY <2>1 DEF Goto, TypeOK, StepTyped
<1>5. WaitersListed'
  BY <1>2, <1>3 DEF WaitersListed, Running, Goto, OnlyMoved
<1> QED BY <1>3, <1>4, <1>5 DEF PendingInv, Goto

\* A flight that ends leaves nobody waiting.
LEMMA EndFlightInv ==
    ASSUME TypeOK, WaitersListed, PendingInv, NEW p \in Profiles,
           NEW result \in Results, EndFlight(p, result)
    PROVE  StepTyped /\ WaitersListed' /\ PendingInv' /\ OnlyMoved(p) /\ flight'[p].step = "idle"
<1>1. \A q \in Profiles : flight'[q] = IF q = p THEN NoFlight ELSE flight[q]
  BY DEF EndFlight, TypeOK
<1>2. \A c \in Clients : request'[c] =
         IF c \in flight[p].waiters
            THEN [request[c] EXCEPT !.step = "done", !.result = result] ELSE request[c]
  BY DEF EndFlight
<1>3. flight'[p].step = "idle" /\ flight'[p].waiters = {} /\ OnlyMoved(p)
  BY <1>1 DEF NoFlight, OnlyMoved
<1>4. StepTyped
  <2>1. NoFlight \in [step : FlightSteps, waiters : SUBSET Clients]
    BY DEF NoFlight, FlightSteps
  <2>2. ASSUME NEW c \in Clients
        PROVE  [request[c] EXCEPT !.step = "done", !.result = result] \in
                  [step : RequestSteps, profile : Profiles \cup {NoProfile}, result : Results]
    BY DEF TypeOK, RequestSteps
  <2> QED BY <2>1, <2>2 DEF EndFlight, TypeOK, StepTyped
<1>5. \A c \in Clients : c \in flight[p].waiters => request'[c].step = "done"
  BY <1>2 DEF TypeOK
<1>6. \A c \in Clients : c \notin flight[p].waiters => request'[c] = request[c]
  BY <1>2
<1>7. WaitersListed'
  <2>1. ASSUME NEW c \in Clients, NEW q \in Profiles
        PROVE  c \in flight'[q].waiters <=> request'[c].step = "wait" /\ request'[c].profile = q
    <3>1. CASE c \in flight[p].waiters
      <4>1. request[c].step = "wait" /\ request[c].profile = p
        BY <3>1 DEF WaitersListed
      <4>2. c \notin flight'[q].waiters
        BY <1>1, <1>3, <4>1 DEF WaitersListed
      <4> QED BY <1>5, <3>1, <4>2
    <3>2. CASE c \notin flight[p].waiters
      BY <1>1, <1>3, <1>6, <3>2 DEF WaitersListed
    <3> QED BY <3>1, <3>2
  <2>2. \A q \in Profiles : flight'[q].waiters # {} => flight'[q].step # "idle"
    BY <1>1, <1>3 DEF WaitersListed, Running
  <2> QED BY <2>1, <2>2 DEF WaitersListed, Running
<1>8. PendingInv'
  BY <1>5, <1>6 DEF PendingInv
<1> QED BY <1>3, <1>4, <1>7, <1>8

\* A request that neither waited nor waits now may change by itself.
LEMMA RequestAlone ==
    ASSUME TypeOK, WaitersListed, PendingInv, UNCHANGED flight, NEW c \in Clients,
           NEW q \in [step : RequestSteps \ {"wait"}, profile : Profiles \cup {NoProfile},
                      result : Results],
           q.step \in {"lookup", "join"} => q.result = "none" /\ q.profile \in Profiles,
           request[c].step # "wait", request' = [request EXCEPT ![c] = q]
    PROVE  StepTyped /\ WaitersListed' /\ PendingInv'
<1>1. \A d \in Clients : request'[d] = IF d = c THEN q ELSE request[d]
  BY DEF TypeOK
<1>2. StepTyped
  BY DEF TypeOK, StepTyped
<1>3. WaitersListed'
  BY <1>1 DEF WaitersListed, Running
<1>4. PendingInv'
  BY <1>1 DEF PendingInv
<1> QED BY <1>2, <1>3, <1>4

---------------------------------------------------------------------------
(* The inductive invariant *)

IInv == TypeOK /\ SlotsInv /\ NobodyOrphaned /\ PendingInv

LEMMA InitInv == Init => IInv
<1> SUFFICES ASSUME Init PROVE IInv
  OBVIOUS
<1>1. TypeOK
  BY BuilderAssumption, EmptySeq
     DEF Init, TypeOK, NoFlight, FlightSteps, RequestSteps, Results
<1>2. SlotsInv
  <2>1. Building = {}
    BY DEF Init, Building, NoFlight
  <2> QED BY <2>1, FS_EmptySet, BuilderAssumption DEF Init, SlotsInv, BuildsWithinLimit
<1>3. WaitersListed /\ PendingInv
  BY DEF Init, WaitersListed, Running, NoFlight, PendingInv
<1>4. QueueAccounted
  BY DEF Init, QueueAccounted, NoFlight, ToSet, IsInjective
<1> QED BY <1>1, <1>2, <1>3, <1>4 DEF IInv, NobodyOrphaned

\* Steps that move no flight keep what is said of slots and queue.
LEMMA FlightsStay ==
    ASSUME SlotsInv, QueueAccounted, UNCHANGED <<flight, slots, queue>>
    PROVE  SlotsInv' /\ QueueAccounted'
BY DEF SlotsInv, BuildsWithinLimit, Building, QueueAccounted

LEMMA FaultType == TypeOK /\ Fault => faults' \in Nat
BY DEF TypeOK, Fault

LEMMA LookupInv ==
    ASSUME IInv, NEW c \in Clients,
           (\E p \in Profiles : Ask(c, p)) \/ Lookup(c) \/ LookupFails(c)
    PROVE  IInv'
<1>t. TypeOK /\ WaitersListed /\ PendingInv /\ SlotsInv /\ QueueAccounted
  BY DEF IInv, NobodyOrphaned
<1>c. request[c] \in [step : RequestSteps, profile : Profiles \cup {NoProfile}, result : Results]
  BY <1>t DEF TypeOK
<1> DEFINE Asking == [step : RequestSteps \ {"wait"}, profile : Profiles \cup {NoProfile},
                      result : Results]
<1>1. ASSUME NEW p \in Profiles, Ask(c, p) PROVE IInv'
  <2> DEFINE q == [step |-> "lookup", profile |-> p, result |-> "none"]
  <2>1. q \in Asking /\ q.result = "none" /\ q.profile \in Profiles /\ request' = [request EXCEPT ![c] = q]
    BY <1>1 DEF Ask, RequestSteps, Results
  <2>2. request[c].step # "wait" /\ UNCHANGED <<cached, flight, queue, slots, faults>>
    BY <1>1 DEF Ask
  <2>3. requests' \in [Clients -> Nat]
    BY <1>1, <1>t DEF Ask, TypeOK
  <2> HIDE DEF q
  <2>4. StepTyped /\ WaitersListed' /\ PendingInv'
    BY <1>t, <2>1, <2>2, RequestAlone
  <2>5. SlotsInv' /\ QueueAccounted'
    BY <1>t, <2>2, FlightsStay
  <2>6. TypeOK'
    BY <1>t, <2>2, <2>3, <2>4 DEF TypeOK, StepTyped
  <2> QED BY <2>4, <2>5, <2>6 DEF IInv, NobodyOrphaned
<1>2. ASSUME Lookup(c) \/ LookupFails(c) PROVE IInv'
  <2> DEFINE Moves(q) ==
         /\ q \in Asking
         /\ q.step \in {"lookup", "join"} => q.result = "none" /\ q.profile \in Profiles
         /\ request' = [request EXCEPT ![c] = q]
  <2>0. \E q : Moves(q)
    <3>1. CASE request' = [request EXCEPT ![c].step = "join"]
      <4>1. request[c].result = "none" /\ request[c].profile \in Profiles
        BY <1>2, <1>t DEF Lookup, LookupFails, PendingInv
      <4> DEFINE j == [request[c] EXCEPT !.step = "join"]
      <4>2. j \in Asking /\ j.result = "none" /\ j.profile \in Profiles
        BY <1>c, <4>1 DEF RequestSteps
      <4>3. request' = [request EXCEPT ![c] = j]
        BY <3>1
      <4> HIDE DEF j, Asking
      <4> QED BY <4>2, <4>3
    <3>2. ASSUME NEW res \in {"cached", "failed"}, End(c, res) PROVE \E q : Moves(q)
      <4>1. [request[c] EXCEPT !.step = "done", !.result = res] \in Asking
        BY <1>c DEF RequestSteps, Results
      <4>2. [request[c] EXCEPT !.step = "done", !.result = res].step = "done"
        BY <1>c
      <4> QED BY <3>2, <4>1, <4>2 DEF End
    <3>3. \/ request' = [request EXCEPT ![c].step = "join"]
          \/ End(c, "cached") \/ End(c, "failed")
      BY <1>2 DEF Lookup, LookupFails, ToStep
    <3> HIDE DEF Moves
    <3> QED BY <3>1, <3>2, <3>3
  <2>1. PICK q : Moves(q)
    BY <2>0
  <2>2. request[c].step # "wait" /\ UNCHANGED <<cached, flight, queue, slots, requests>>
    BY <1>2 DEF Lookup, LookupFails
  <2>3. faults' \in Nat
    BY <1>2, <1>t, FaultType DEF Lookup, LookupFails, TypeOK
  <2>4. StepTyped /\ WaitersListed' /\ PendingInv'
    BY <1>t, <2>1, <2>2, RequestAlone
  <2>5. SlotsInv' /\ QueueAccounted'
    BY <1>t, <2>2, FlightsStay
  <2>6. TypeOK'
    BY <1>t, <2>2, <2>3, <2>4 DEF TypeOK, StepTyped
  <2> QED BY <2>4, <2>5, <2>6 DEF IInv, NobodyOrphaned
<1> QED BY <1>1, <1>2

\* Who joins is listed in a flight that runs; a flight that starts queues up.
LEMMA JoinInv == ASSUME IInv, NEW c \in Clients, Join(c) PROVE IInv'
<1>t. TypeOK /\ WaitersListed /\ PendingInv /\ SlotsInv /\ QueueAccounted
  BY DEF IInv, NobodyOrphaned
<1> DEFINE p == request[c].profile
           f == [step    |-> IF Running(p) THEN flight[p].step ELSE "queue",
                 waiters |-> flight[p].waiters \cup {c}]
           r == [request[c] EXCEPT !.step = "wait"]
<1>1. request[c].step = "join" /\ p \in Profiles /\ request[c].result = "none"
  BY <1>t DEF Join, PendingInv
<1>2. flight' = [flight EXCEPT ![p] = f] /\ request' = [request EXCEPT ![c] = r]
  BY DEF Join, ToStep
<1>3. flight[p] \in [step : FlightSteps, waiters : SUBSET Clients]
  BY <1>1, <1>t DEF TypeOK
<1>4. f \in [step : FlightSteps, waiters : SUBSET Clients] /\ f.step # "idle"
  BY <1>3 DEF FlightSteps, Running
<1>5. request[c] \in [step : RequestSteps, profile : Profiles \cup {NoProfile}, result : Results]
  BY <1>t DEF TypeOK
<1>6. /\ r \in [step : RequestSteps, profile : Profiles \cup {NoProfile}, result : Results]
      /\ r.step = "wait" /\ r.result = "none" /\ r.profile = p
  BY <1>1, <1>5 DEF RequestSteps
<1>7. f.waiters = flight[p].waiters \cup {c} /\ f.step = IF Running(p) THEN flight[p].step ELSE "queue"
  OBVIOUS
<1> HIDE DEF f, r, p
<1>8. \A q \in Profiles : flight'[q] = IF q = p THEN f ELSE flight[q]
  BY <1>1, <1>2, <1>t DEF TypeOK
<1>9. \A d \in Clients : request'[d] = IF d = c THEN r ELSE request[d]
  BY <1>2, <1>t DEF TypeOK
<1>10. StepTyped
  BY <1>1, <1>2, <1>4, <1>6, <1>t DEF TypeOK, StepTyped
<1>11. PendingInv'
  BY <1>1, <1>6, <1>9, <1>t DEF PendingInv
<1>12. WaitersListed'
  <2>1. ASSUME NEW d \in Clients, NEW q \in Profiles
        PROVE  d \in flight'[q].waiters <=> request'[d].step = "wait" /\ request'[d].profile = q
    <3>1. CASE d = c
      BY <1>1, <1>6, <1>7, <1>8, <1>9, <1>t, <3>1 DEF WaitersListed
    <3>2. CASE d # c
      BY <1>7, <1>8, <1>9, <1>t, <3>2 DEF WaitersListed
    <3> QED BY <3>1, <3>2
  <2>2. \A q \in Profiles : flight'[q].waiters # {} => flight'[q].step # "idle"
    BY <1>4, <1>8, <1>t DEF WaitersListed, Running
  <2> QED BY <2>1, <2>2 DEF WaitersListed, Running
<1>13. OnlyMoved(p) /\ flight'[p].step = f.step
  BY <1>1, <1>8 DEF OnlyMoved
<1>14. /\ UNCHANGED <<cached, slots, requests, faults>>
       /\ queue' = IF Running(p) THEN queue ELSE Append(queue, p)
  BY DEF Join, p
<1>15. SlotsInv' /\ QueueAccounted' /\ queue' \in Seq(Profiles)
  <2>1. CASE Running(p)
    <3>1. \A q \in Profiles : flight'[q].step = flight[q].step
      BY <1>7, <1>13, <2>1 DEF OnlyMoved
    <3>2. Building' = Building
      BY <3>1 DEF Building
    <3> QED BY <1>14, <1>t, <2>1, <3>1, <3>2
            DEF SlotsInv, BuildsWithinLimit, QueueAccounted, TypeOK
  <2>2. CASE ~Running(p)
    <3>1. flight[p].step = "idle" /\ flight'[p].step = "queue"
      BY <1>7, <1>13, <2>2 DEF Running
    <3>2. p \notin ToSet(queue)
      BY <1>1, <1>t, <3>1 DEF QueueAccounted
    <3>3. /\ queue' \in Seq(Profiles) /\ IsInjective(queue')
          /\ ToSet(queue') = ToSet(queue) \cup {p}
      BY <1>1, <1>14, <1>t, <2>2, <3>2, JoinsQueue DEF TypeOK, QueueAccounted
    <3>4. SlotsInv'
      BY <1>1, <1>13, <1>14, <1>t, <3>1, SlotsAlone
    <3>5. QueueAccounted'
      BY <1>13, <1>t, <3>1, <3>3 DEF QueueAccounted, OnlyMoved
    <3> QED BY <3>3, <3>4, <3>5
  <2> QED BY <2>1, <2>2
<1>16. TypeOK'
  BY <1>10, <1>14, <1>15, <1>t DEF TypeOK, StepTyped
<1> QED BY <1>11, <1>12, <1>15, <1>16 DEF IInv, NobodyOrphaned

\* Who leaves is struck from its flight, which goes on.
LEMMA CancelInv == ASSUME IInv, NEW c \in Clients, Cancel(c) PROVE IInv'
<1>t. TypeOK /\ WaitersListed /\ PendingInv /\ SlotsInv /\ QueueAccounted
  BY DEF IInv, NobodyOrphaned
<1> DEFINE p == request[c].profile
           f == [flight[p] EXCEPT !.waiters = @ \ {c}]
           r == [request[c] EXCEPT !.step = "done", !.result = "canceled"]
<1>1. request[c].step = "wait" /\ p \in Profiles
  BY <1>t DEF Cancel, PendingInv
<1>2. flight' = [flight EXCEPT ![p] = f] /\ request' = [request EXCEPT ![c] = r]
  BY DEF Cancel, End
<1>3. flight[p] \in [step : FlightSteps, waiters : SUBSET Clients]
  BY <1>1, <1>t DEF TypeOK
<1>4. /\ f \in [step : FlightSteps, waiters : SUBSET Clients]
      /\ f.step = flight[p].step /\ f.waiters = flight[p].waiters \ {c}
  BY <1>3
<1>5. request[c] \in [step : RequestSteps, profile : Profiles \cup {NoProfile}, result : Results]
  BY <1>t DEF TypeOK
<1>6. /\ r \in [step : RequestSteps, profile : Profiles \cup {NoProfile}, result : Results]
      /\ r.step = "done"
  BY <1>5 DEF RequestSteps, Results
<1> HIDE DEF f, r
<1>7. \A q \in Profiles : flight'[q] = IF q = p THEN f ELSE flight[q]
  BY <1>1, <1>2, <1>t DEF TypeOK
<1>8. \A d \in Clients : request'[d] = IF d = c THEN r ELSE request[d]
  BY <1>2, <1>t DEF TypeOK
<1>9. StepTyped
  BY <1>1, <1>2, <1>4, <1>6, <1>t DEF TypeOK, StepTyped
<1>10. PendingInv'
  BY <1>6, <1>8, <1>t DEF PendingInv
<1>11. WaitersListed'
  <2>1. ASSUME NEW d \in Clients, NEW q \in Profiles
        PROVE  d \in flight'[q].waiters <=> request'[d].step = "wait" /\ request'[d].profile = q
    <3>1. CASE d = c
      BY <1>1, <1>4, <1>6, <1>7, <1>8, <1>t, <3>1 DEF WaitersListed
    <3>2. CASE d # c
      BY <1>4, <1>7, <1>8, <1>t, <3>2 DEF WaitersListed
    <3> QED BY <3>1, <3>2
  <2>2. \A q \in Profiles : flight'[q].waiters # {} => flight'[q].step # "idle"
    BY <1>4, <1>7, <1>t DEF WaitersListed, Running
  <2> QED BY <2>1, <2>2 DEF WaitersListed, Running
<1>12. \A q \in Profiles : flight'[q].step = flight[q].step
  BY <1>4, <1>7
<1>13. UNCHANGED <<cached, queue, slots, requests, faults>>
  BY DEF Cancel
<1>14. SlotsInv' /\ QueueAccounted'
  <2>1. Building' = Building
    BY <1>12 DEF Building
  <2> QED BY <1>12, <1>13, <1>t, <2>1 DEF SlotsInv, BuildsWithinLimit, QueueAccounted
<1>15. TypeOK'
  BY <1>9, <1>13, <1>t DEF TypeOK, StepTyped
<1> QED BY <1>10, <1>11, <1>14, <1>15 DEF IInv, NobodyOrphaned

LEMMA FlightInv ==
    ASSUME IInv, NEW p \in Profiles, FlightStep(p) \/ FlightFails(p)
    PROVE  IInv'
<1>t. TypeOK /\ WaitersListed /\ PendingInv /\ SlotsInv /\ QueueAccounted
  BY DEF IInv, NobodyOrphaned
<1>e. ASSUME StepTyped, WaitersListed', PendingInv', SlotsInv', QueueAccounted',
             cached' \subseteq Profiles, queue' \in Seq(Profiles),
             slots' \in 0 .. AllowedConcurrency,
             UNCHANGED requests, faults' \in Nat
      PROVE  IInv'
  <2>1. TypeOK'
    BY <1>e, <1>t DEF TypeOK, StepTyped
  <2> QED BY <1>e, <2>1 DEF IInv, NobodyOrphaned
\* The semaphore admits the head of its queue.
<1>1. ASSUME Acquire(p) PROVE IInv'
  <2>1. /\ queue # << >> /\ Head(queue) = p /\ slots < AllowedConcurrency
        /\ queue' = Tail(queue) /\ slots' = slots + 1 /\ Goto(p, "build")
        /\ UNCHANGED <<cached, requests, faults>>
    BY <1>1 DEF Acquire
  <2>2. StepTyped /\ WaitersListed' /\ PendingInv' /\ OnlyMoved(p) /\ flight'[p].step = "build"
    BY <1>t, <2>1, GotoInv DEF FlightSteps
  <2>3. /\ queue' \in Seq(Profiles) /\ IsInjective(queue')
        /\ ToSet(queue') = ToSet(queue) \ {p}
    BY <1>t, <2>1, HeadLeavesQueue DEF TypeOK, QueueAccounted
  <2>4. p \in ToSet(queue)
    <3>1. queue \in Seq(Profiles) /\ Len(queue) \in Nat \ {0} /\ DOMAIN queue = 1 .. Len(queue)
      BY <1>t, <2>1, LenProperties, EmptySeq DEF TypeOK
    <3>2. Head(queue) = queue[1] /\ 1 \in DOMAIN queue
      BY <3>1
    <3> QED BY <2>1, <3>2 DEF ToSet
  <2>5. flight[p].step = "queue"
    BY <1>t, <2>4 DEF QueueAccounted
  <2>6. SlotsInv' /\ slots' \in 0 .. AllowedConcurrency
    BY <1>t, <2>1, <2>2, <2>5, SlotTaken
  <2>7. QueueAccounted'
    BY <1>t, <2>2, <2>3 DEF QueueAccounted, OnlyMoved
  <2>8. cached' \subseteq Profiles /\ faults' \in Nat
    BY <1>t, <2>1 DEF TypeOK
  <2> QED BY <1>e, <2>1, <2>2, <2>3, <2>6, <2>7, <2>8
\* A flight that gives up waiting leaves the queue.
<1>2. ASSUME QueueTimeout(p) PROVE IInv'
  <2>1. /\ flight[p].step = "queue" /\ Fault /\ EndFlight(p, "failed")
        /\ UNCHANGED <<cached, slots, requests>>
    BY <1>2 DEF QueueTimeout
  <2>2. PICK i \in DOMAIN queue : queue[i] = p /\ queue' = RemoveAt(queue, i)
    BY <1>2 DEF QueueTimeout, Leave
  <2>3. StepTyped /\ WaitersListed' /\ PendingInv' /\ OnlyMoved(p) /\ flight'[p].step = "idle"
    BY <1>t, <2>1, EndFlightInv DEF Results
  <2>4. /\ queue' \in Seq(Profiles) /\ IsInjective(queue')
        /\ ToSet(queue') = ToSet(queue) \ {p}
    BY <1>t, <2>2, LeavesQueue DEF TypeOK, QueueAccounted
  <2>5. QueueAccounted'
    BY <1>t, <2>3, <2>4 DEF QueueAccounted, OnlyMoved
  <2>6. SlotsInv'
    BY <1>t, <2>1, <2>3, SlotsAlone
  <2>7. /\ cached' \subseteq Profiles /\ faults' \in Nat
        /\ slots' \in 0 .. AllowedConcurrency
    BY <1>t, <2>1, FaultType DEF TypeOK
  <2> QED BY <1>e, <2>1, <2>3, <2>4, <2>5, <2>6, <2>7
\* A build that ends, well or not, gives its token back.
<1>3. ASSUME BuildDone(p) \/ BuildFails(p) PROVE IInv'
  <2>1. /\ flight[p].step = "build" /\ slots' = slots - 1
        /\ UNCHANGED <<cached, queue, requests>>
        /\ UNCHANGED faults \/ Fault
        /\ Goto(p, "put") \/ EndFlight(p, "failed")
    BY <1>3 DEF BuildDone, BuildFails
  <2>2. /\ StepTyped /\ WaitersListed' /\ PendingInv' /\ OnlyMoved(p)
        /\ flight'[p].step \in {"put", "idle"}
    <3>1. CASE Goto(p, "put")
      BY <1>t, <3>1, GotoInv DEF FlightSteps
    <3>2. CASE EndFlight(p, "failed")
      BY <1>t, <3>2, EndFlightInv DEF Results
    <3> QED BY <2>1, <3>1, <3>2
  <2>3. SlotsInv' /\ slots' \in 0 .. AllowedConcurrency
    BY <1>t, <2>1, <2>2, SlotGivenBack
  <2>4. QueueAccounted'
    BY <1>t, <2>1, <2>2, QueueAlone
  <2>5. /\ cached' \subseteq Profiles /\ faults' \in Nat
        /\ queue' \in Seq(Profiles)
    BY <1>t, <2>1, FaultType DEF TypeOK
  <2> QED BY <1>e, <2>1, <2>2, <2>3, <2>4, <2>5
\* What comes after the build touches neither the semaphore nor its queue.
<1>4. ASSUME Put(p) \/ PutFails(p) \/ Reget(p) \/ RegetFails(p) PROVE IInv'
  <2>1. /\ flight[p].step \in {"put", "reget"} /\ cached' \in {cached, cached \cup {p}}
        /\ UNCHANGED <<queue, slots, requests>>
        /\ UNCHANGED faults \/ Fault
        /\ \/ Goto(p, "reget") \/ EndFlight(p, "built") \/ EndFlight(p, "cached")
    BY <1>4 DEF Put, PutFails, AfterPut, Reget, RegetFails
  <2>2. /\ StepTyped /\ WaitersListed' /\ PendingInv' /\ OnlyMoved(p)
        /\ flight'[p].step \in {"reget", "idle"}
    <3>1. CASE Goto(p, "reget")
      BY <1>t, <3>1, GotoInv DEF FlightSteps
    <3>2. CASE EndFlight(p, "built") \/ EndFlight(p, "cached")
      BY <1>t, <3>2, EndFlightInv DEF Results
    <3> QED BY <2>1, <3>1, <3>2
  <2>3. SlotsInv'
    BY <1>t, <2>1, <2>2, SlotsAlone
  <2>4. QueueAccounted'
    BY <1>t, <2>1, <2>2, QueueAlone
  <2>5. /\ cached' \subseteq Profiles /\ faults' \in Nat
        /\ queue' \in Seq(Profiles) /\ slots' \in 0 .. AllowedConcurrency
    BY <1>t, <2>1, FaultType DEF TypeOK
  <2> QED BY <1>e, <2>1, <2>2, <2>3, <2>4, <2>5
<1> QED BY <1>1, <1>2, <1>3, <1>4 DEF FlightStep, FlightFails

LEMMA NextInv == IInv /\ [Next]_vars => IInv'
<1> SUFFICES ASSUME IInv, [Next]_vars PROVE IInv'
  OBVIOUS
<1>1. ASSUME NEW p \in Profiles, Lose(p) PROVE IInv'
  <2>1. /\ UNCHANGED <<flight, queue, slots, request, requests>>
        /\ Fault /\ cached' = cached \ {p}
    BY <1>1 DEF Lose
  <2>2. SlotsInv' /\ QueueAccounted'
    BY <2>1, FlightsStay DEF IInv, NobodyOrphaned
  <2>3. WaitersListed' /\ PendingInv'
    BY <2>1 DEF IInv, NobodyOrphaned, WaitersListed, PendingInv, Running
  <2>4. TypeOK'
    BY <2>1, FaultType DEF IInv, TypeOK
  <2> QED BY <2>2, <2>3, <2>4 DEF IInv, NobodyOrphaned
<1>2. CASE UNCHANGED vars
  BY <1>2 DEF vars, IInv, TypeOK, SlotsInv, BuildsWithinLimit, Building, NobodyOrphaned,
              WaitersListed, QueueAccounted, Running, PendingInv
<1> QED BY <1>1, <1>2, LookupInv, JoinInv, CancelInv, FlightInv DEF Next, ClientStep

\* The state of Builder and of its singleflight group is well formed.
THEOREM TypeCorrect == Spec => []TypeOK
<1>1. IInv => TypeOK
  BY DEF IInv
<1> QED BY <1>1, InitInv, NextInv, PTL DEF Spec

\* The semaphore of Builder: never more builds than allowed, no token lost.
THEOREM LimitRespected == Spec => []BuildsWithinLimit
<1>1. IInv => BuildsWithinLimit
  BY DEF IInv, SlotsInv
<1> QED BY <1>1, InitInv, NextInv, PTL DEF Spec

\* Requests, flights and the semaphore's queue agree on who waits for what.
THEOREM RequestsAccounted == Spec => []NobodyOrphaned
<1>1. IInv => NobodyOrphaned
  BY DEF IInv
<1> QED BY <1>1, InitInv, NextInv, PTL DEF Spec

\* Once the asset is built no request that waits for it is refused
\* (buildAndCache logs the errors of the cache and returns the asset).
THEOREM BuiltIsServed == Spec => PutNeverFails
<1>1. ASSUME IInv, Next PROVE NoRefusal
  <2> SUFFICES ASSUME NEW q \in Profiles, flight[q].step \in {"put", "reget"},
                      NEW c \in flight[q].waiters
               PROVE  request'[c].result # "failed"
    BY DEF NoRefusal
  <2>1. TypeOK /\ WaitersListed /\ PendingInv /\ QueueAccounted
    BY <1>1 DEF IInv, NobodyOrphaned
  <2>2. c \in Clients
    BY <2>1 DEF TypeOK
  <2>3. request[c].step = "wait" /\ request[c].profile = q /\ request[c].result = "none"
    BY <2>1, <2>2 DEF WaitersListed, PendingInv
  <2>s. ASSUME request'[c] = request[c] PROVE request'[c].result # "failed"
    BY <2>3, <2>s
  \* Another client's step is not this one's.
  <2>4. ASSUME NEW d \in Clients, (\E p \in Profiles : Ask(d, p)) \/ ClientStep(d)
        PROVE  request'[c].result # "failed"
    <3>1. d # c
      BY <2>3, <2>4 DEF Ask, ClientStep, Lookup, LookupFails, Join
    <3>2. \A e \in Clients \ {d} : request'[e] = request[e]
      BY <2>1, <2>4 DEF TypeOK, Ask, ClientStep, Lookup, LookupFails, Join, ToStep, End
    <3> QED BY <2>2, <2>s, <3>1, <3>2
  <2>5. ASSUME NEW d \in Clients, Cancel(d) PROVE request'[c].result # "failed"
    <3>1. CASE d = c
      <4>1. request' = [request EXCEPT ![c] = [request[c] EXCEPT !.step = "done",
                                                               !.result = "canceled"]]
        BY <2>5, <3>1 DEF Cancel, End
      <4>2. request'[c].result = "canceled"
        BY <2>1, <2>2, <4>1 DEF TypeOK
      <4> QED BY <4>2
    <3>2. CASE d # c
      <4>1. request'[c] = request[c]
        BY <2>1, <2>2, <2>5, <3>2 DEF TypeOK, Cancel, End
      <4> QED BY <2>s, <4>1
    <3> QED BY <3>1, <3>2
  \* A flight that ends answers its own waiters.
  <2>6. ASSUME NEW p \in Profiles, NEW res \in Results, EndFlight(p, res),
               p = q => res # "failed"
        PROVE  request'[c].result # "failed"
    <3>1. request'[c] = IF c \in flight[p].waiters
                           THEN [request[c] EXCEPT !.step = "done", !.result = res]
                           ELSE request[c]
      BY <2>2, <2>6 DEF EndFlight
    <3>2. CASE c \in flight[p].waiters
      <4>1. p = q
        BY <2>1, <2>2, <2>3, <3>2 DEF WaitersListed
      <4>2. request'[c].result = res
        BY <2>1, <2>2, <3>1, <3>2 DEF TypeOK
      <4> QED BY <2>6, <4>1, <4>2
    <3>3. CASE c \notin flight[p].waiters
      BY <2>s, <3>1, <3>3
    <3> QED BY <3>2, <3>3
  <2>7. ASSUME NEW p \in Profiles, FlightStep(p) \/ FlightFails(p) \/ Lose(p)
        PROVE  request'[c].result # "failed"
    <3>1. \/ UNCHANGED request
          \/ EndFlight(p, "failed") /\ flight[p].step \in {"queue", "build"}
          \/ EndFlight(p, "built") \/ EndFlight(p, "cached")
      BY <2>7 DEF FlightStep, FlightFails, Lose, Acquire, QueueTimeout, BuildDone, BuildFails,
                  Put, PutFails, AfterPut, Reget, RegetFails, Goto
    <3>2. "failed" \in Results /\ "built" \in Results /\ "cached" \in Results
      BY DEF Results
    <3>3. CASE EndFlight(p, "failed") /\ flight[p].step \in {"queue", "build"}
      <4>1. p # q
        BY <3>3
      <4> QED BY <2>6, <3>2, <3>3, <4>1
    <3>4. CASE EndFlight(p, "built") \/ EndFlight(p, "cached")
      BY <2>6, <3>2, <3>4
    <3> QED BY <2>s, <3>1, <3>3, <3>4
  <2> QED BY <1>1, <2>4, <2>5, <2>7 DEF Next
<1> QED BY <1>1, InitInv, NextInv, PTL DEF Spec, PutNeverFails

---------------------------------------------------------------------------
(* The scanner and its database *)

\* The handle of the scanner is the only one.  Nothing is loaded before the
\* first load has ended, nor while the old database is closed for a new one,
\* and nobody loads any more once Stop has closed the last one.  The scanner is
\* nil only where there is nothing to serve from, or under the lock.
HandleInv ==
    /\ open = IF scanner = 0 THEN {} ELSE {scanner}
    /\ init = "loading" => scanner = 0 /\ loader \in {"waiting", "off"}
    /\ loader = "reopening" => scanner = 0
    /\ life.scanner = "stopped" => scanner = 0 /\ init # "loading" /\ loader = "off"
    /\ db.kept /\ life.scanner # "stopped" /\ loader # "reopening" => scanner # 0

\* A scan that matches holds the lock, so the scanner stays what it was; one
\* that has matched is marked when the scanner is replaced, and so is the
\* result it leaves.
ScanInv ==
    \A k \in Keys :
        /\ flights[k].stage = "matching" => scanner # 0 /\ flights[k].db = scanner
        /\ flights[k].stage = "matched" /\ scanner # 0 /\ flights[k].db # scanner => flights[k].crossed
        /\ results[k].db # 0 /\ scanner # 0 /\ results[k].db # scanner => results[k].crossed
        /\ init = "loading" => results[k].db = 0 /\ flights[k].stage \notin {"matching", "matched"}

DBs == [published : 0..MaxDB, installed : 0..MaxDB, kept : BOOLEAN]
ScanStages == {"none", "sbom", "vex", "ready", "matching", "matched"}
ScanFlights == [stage : ScanStages, db : 0..MaxDB, crossed : BOOLEAN]
ScanResults == [db : 0..MaxDB, crossed : BOOLEAN]
Reports == [stage : R!RequestStages, key : Keys \cup {"none"}, answer : R!Outcomes \cup {"none"},
            serving : BOOLEAN]
Lives == [cancelled : BOOLEAN, servers : SUBSET R!Servers,
          scanner : {"up", "closing", "stopped"}, exited : BOOLEAN]

\* R!TypeOK, with its sets named.
ReportsTyped ==
    /\ db \in DBs /\ open \subseteq 1..MaxDB /\ scanner \in 0..MaxDB
    /\ init \in {"loading", "loaded", "failed"}
    /\ loader \in {"waiting", "sleeping", "updating", "locking", "reopening", "retrying", "off"}
    /\ results \in [Keys -> ScanResults] /\ flights \in [Keys -> ScanFlights]
    /\ reports \in [Askers -> Reports] /\ life \in Lives

ReportsInv == ReportsTyped /\ HandleInv /\ ScanInv /\ SwapTurnsNoneAway

\* The answers stay what they are where the requests do.
LEMMA AnswersStay == SwapTurnsNoneAway /\ reports' = reports => SwapTurnsNoneAway'
BY DEF SwapTurnsNoneAway, R!SwapTurnsNoneAway

\* One request goes on: if it is refused there is nothing to serve from.
LEMMA AnswersMove ==
    ASSUME ReportsTyped, SwapTurnsNoneAway, NEW r \in Askers, NEW x, reports' = [reports EXCEPT ![r] = x],
           x.answer \in R!Refusals => ~x.serving
    PROVE  SwapTurnsNoneAway'
<1>1. reports'[r] = x /\ \A q \in Askers \ {r} : reports'[q] = reports[q]
  BY DEF ReportsTyped
<1> QED BY <1>1 DEF SwapTurnsNoneAway, R!SwapTurnsNoneAway

LEMMA ReportsType == ReportsTyped <=> R!TypeOK
BY DEF R!TypeOK, ReportsTyped, DBs, ScanFlights, ScanStages, ScanResults, Reports, Lives

\* With no handle open, what is loaded is the database that is installed, and
\* its handle becomes the scanner's.
LEMMA LoadFacts ==
    ASSUME ReportsTyped, open = {}, R!LoadDB(open)
    PROVE  /\ scanner' \in 1..MaxDB /\ open' = {scanner'}
           /\ db' \in DBs
<1>1. PICK installed \in {db.published, db.installed} \ {0} :
          /\ db' = [db EXCEPT !.installed = installed, !.kept = TRUE]
          /\ open' = {} \cup {R!Opened(installed, {})}
          /\ scanner' = R!Opened(installed, {})
  BY DEF R!LoadDB
<1>2. R!Opened(installed, {}) = installed
  BY DEF R!Opened
<1>3. db \in DBs /\ MaxDB \in Nat
  BY ReportsConstants DEF R!ReportsAssumption, ReportsTyped
<1>4. installed \in 1..MaxDB
  BY <1>3 DEF DBs
<1>5. db' \in DBs
  BY <1>1, <1>3, <1>4 DEF DBs
<1> QED BY <1>1, <1>2, <1>4, <1>5

\* The steps of the database: its publication, the first load, and the loop
\* that refreshes it.
LEMMA DatabaseInv ==
    ASSUME ReportsInv, R!Publish \/ R!InitScanner \/ R!Refresh
    PROVE  ReportsInv'
<1> USE DEF ReportsInv
<1>t. /\ db \in DBs /\ open \subseteq 1..MaxDB /\ scanner \in 0..MaxDB
      /\ results \in [Keys -> ScanResults] /\ flights \in [Keys -> ScanFlights]
      /\ reports \in [Askers -> Reports] /\ life \in Lives
  BY DEF ReportsTyped
<1>m. MaxDB \in Nat \ {0}
  BY ReportsConstants DEF R!ReportsAssumption
<1>1. CASE R!Publish
  <2>1. db' \in DBs /\ db'.kept = db.kept
    BY <1>1, <1>t, <1>m DEF R!Publish, DBs
  <2>2. ReportsTyped'
    BY <1>1, <2>1 DEF ReportsTyped, R!Publish
  <2> QED BY <1>1, <2>1, <2>2, AnswersStay DEF R!Publish, HandleInv, ScanInv
<1>2. CASE R!InitScanner
  <2>1. CASE init' = "loaded" /\ R!LoadDB(open)
    <3>1. open = {} /\ scanner = 0 /\ init = "loading" /\ loader \in {"waiting", "off"}
      BY <1>2 DEF R!InitScanner, HandleInv
    <3>2. scanner' \in 1..MaxDB /\ open' = {scanner'} /\ db' \in DBs
      BY <2>1, <3>1, LoadFacts
    <3>3. UNCHANGED <<loader, results, flights, reports, life>>
      BY <1>2 DEF R!InitScanner
    <3>4. ReportsTyped'
      BY <2>1, <3>2, <3>3 DEF ReportsTyped
    <3>5. HandleInv'
      BY <2>1, <3>1, <3>2, <3>3 DEF HandleInv
    <3>6. ScanInv'
      BY <2>1, <3>1, <3>3 DEF ScanInv
    <3> QED BY <3>3, <3>4, <3>5, <3>6, AnswersStay
  <2>2. CASE init' = "failed" /\ UNCHANGED <<db, open, scanner>>
    <3>1. UNCHANGED <<loader, results, flights, reports, life>>
      BY <1>2 DEF R!InitScanner
    <3>2. ReportsTyped'
      BY <2>2, <3>1 DEF ReportsTyped
    <3> QED BY <2>2, <3>1, <3>2, AnswersStay DEF HandleInv, ScanInv
  <2> QED BY <1>2, <2>1, <2>2 DEF R!InitScanner
<1>3. CASE R!Refresh
  <2>q. ASSUME NEW from, NEW to \in {"sleeping", "updating", "locking", "retrying", "off"},
               R!LoaderMoves(from, to), UNCHANGED <<open, scanner, results, flights>>,
               db' \in DBs, db'.kept => db.kept /\ from # "reopening", from \in {"sleeping", "updating", "locking", "reopening", "retrying"}
                            \/ (from = "waiting" /\ (to = "off" \/ init # "loading"))
        PROVE  ReportsInv'
    <3>1. loader = from /\ loader' = to /\ UNCHANGED <<init, reports, life>>
      BY <2>q DEF R!LoaderMoves
    <3>2. ReportsTyped'
      BY <2>q, <3>1 DEF ReportsTyped
    <3>3. HandleInv'
      BY <2>q, <3>1 DEF HandleInv
    <3>4. ScanInv'
      BY <2>q, <3>1 DEF ScanInv
    <3> QED BY <3>1, <3>2, <3>3, <3>4, AnswersStay
  <2>1. CASE R!AwaitInit
    BY <1>t, <2>1, <2>q DEF R!AwaitInit
  <2>2. CASE \E from \in {"sleeping", "retrying"} : R!Timer(from)
    BY <1>t, <2>2, <2>q DEF R!Timer
  <2>3. CASE \E from \in {"waiting", "sleeping", "retrying"} : R!Interrupted(from)
    BY <1>t, <2>3, <2>q DEF R!Interrupted
  <2>4. CASE R!UpdateDB
    <3>1. db' \in DBs /\ db'.kept = db.kept
      BY <1>t, <1>m, <2>4 DEF R!UpdateDB, DBs
    <3> QED BY <2>4, <2>q, <3>1 DEF R!UpdateDB
  <2>5. CASE R!UpdateFails
    BY <1>t, <2>5, <2>q DEF R!UpdateFails
  <2>6. CASE R!CloseOld
    <3>1. /\ scanner' = 0 /\ open' = {} /\ loader' = "reopening" /\ loader = "locking"
          /\ UNCHANGED <<db, init, results, flights, reports, life>>
      BY <2>6 DEF R!CloseOld, R!LoaderMoves, HandleInv
    <3>2. \A k \in Keys : flights[k].stage # "matching"
      BY <2>6 DEF R!CloseOld, R!Readers
    <3>3. ReportsTyped'
      BY <1>m, <3>1 DEF ReportsTyped
    <3>4. HandleInv'
      BY <3>1 DEF HandleInv
    <3>5. ScanInv'
      BY <3>1, <3>2 DEF ScanInv
    <3> QED BY <3>1, <3>3, <3>4, <3>5, AnswersStay
  <2>7. CASE R!Reopen
    <3>1. /\ loader = "reopening" /\ loader' = "sleeping" /\ UNCHANGED <<init, reports, life>>
          /\ results' = [k \in Keys |-> R!NoResult] /\ R!LoadDB(open)
          /\ flights' = [k \in Keys |-> [flights[k] EXCEPT !.crossed = flights[k].stage = "matched"]]
      BY <2>7 DEF R!Reopen, R!LoaderMoves
    <3>2. open = {} /\ scanner = 0
      BY <3>1 DEF HandleInv
    <3>3. scanner' \in 1..MaxDB /\ open' = {scanner'} /\ db' \in DBs
      BY <3>1, <3>2, LoadFacts
    <3>4. results' \in [Keys -> ScanResults]
      BY <1>m, <3>1 DEF R!NoResult, ScanResults
    <3>5. ASSUME NEW k \in Keys
          PROVE  /\ flights'[k] \in ScanFlights /\ flights'[k].stage = flights[k].stage
                 /\ flights'[k].db = flights[k].db
                 /\ flights'[k].crossed = (flights[k].stage = "matched")
      BY <1>t, <3>1 DEF ScanFlights
    <3>6. flights' \in [Keys -> ScanFlights]
      BY <3>1, <3>5
    <3>7. ReportsTyped'
      BY <1>m, <3>1, <3>3, <3>4, <3>6 DEF ReportsTyped
    <3>8. HandleInv'
      BY <3>1, <3>3 DEF HandleInv
    <3>9. ScanInv'
      <4> SUFFICES ASSUME NEW k \in Keys
                   PROVE  /\ flights'[k].stage # "matching"
                          /\ flights'[k].stage = "matched" => flights'[k].crossed
                          /\ results'[k].db = 0
                          /\ init' # "loading"
        BY DEF ScanInv
      <4>1. flights[k].stage # "matching"
        BY <3>2 DEF ScanInv
      <4>2. results'[k].db = 0
        BY <3>1 DEF R!NoResult
      <4>3. init' # "loading"
        BY <3>1 DEF HandleInv
      <4> QED BY <3>5, <4>1, <4>2, <4>3
    <3> QED BY <3>1, <3>7, <3>8, <3>9, AnswersStay
  <2>8. CASE R!ReopenFails
    <3>1. db' \in DBs /\ ~db'.kept
      BY <1>t, <2>8 DEF R!ReopenFails, DBs
    <3> QED BY <2>8, <2>q, <3>1 DEF R!ReopenFails
  <2> QED BY <1>3, <2>1, <2>2, <2>3, <2>4, <2>5, <2>6, <2>7, <2>8 DEF R!Refresh
<1> QED BY <1>1, <1>2, <1>3

\* The scan of a key that a step moves, and its flight afterwards.
MovesFlight(k, f) == flights' = [flights EXCEPT ![k] = f]

\* What one flight becomes decides the rest of a step that leaves the database
\* and the results alone.
LEMMA FlightMoves ==
    ASSUME ReportsInv, NEW k \in Keys, NEW f \in ScanFlights, MovesFlight(k, f),
           UNCHANGED <<db, open, scanner, init, loader, results, life>>,
           reports' \in [Askers -> Reports], SwapTurnsNoneAway',
           f.stage = "matching" => scanner # 0 /\ f.db = scanner,
           f.stage = "matched" => flights[k].stage = "matching" /\ f.db = flights[k].db
    PROVE  ReportsInv'
<1>t. ReportsTyped /\ HandleInv /\ ScanInv
  BY DEF ReportsInv
<1>1. flights' \in [Keys -> ScanFlights]
  BY <1>t DEF MovesFlight, ReportsTyped
<1>2. ReportsTyped'
  BY <1>t, <1>1 DEF ReportsTyped
<1>3. HandleInv'
  BY <1>t DEF HandleInv
<1>4. ScanInv'
  <2> SUFFICES ASSUME NEW q \in Keys
               PROVE  /\ flights'[q].stage = "matching" => scanner # 0 /\ flights'[q].db = scanner
                      /\ flights'[q].stage = "matched" /\ scanner # 0 /\ flights'[q].db # scanner
                            => flights'[q].crossed
                      /\ results[q].db # 0 /\ scanner # 0 /\ results[q].db # scanner => results[q].crossed
                      /\ init = "loading" => results[q].db = 0 /\ flights'[q].stage \notin {"matching", "matched"}
    BY DEF ScanInv
  <2>1. /\ flights[q].stage = "matching" => scanner # 0 /\ flights[q].db = scanner
        /\ flights[q].stage = "matched" /\ scanner # 0 /\ flights[q].db # scanner => flights[q].crossed
        /\ results[q].db # 0 /\ scanner # 0 /\ results[q].db # scanner => results[q].crossed
        /\ init = "loading" => results[q].db = 0 /\ flights[q].stage \notin {"matching", "matched"}
    BY <1>t DEF ScanInv
  <2>2. init = "loading" => scanner = 0
    BY <1>t DEF HandleInv
  <2>3. CASE q = k
    <3>1. flights'[q] = f
      BY <1>t, <2>3 DEF MovesFlight, ReportsTyped
    <3> QED BY <2>1, <2>2, <2>3, <3>1
  <2>4. CASE q # k
    <3>1. flights'[q] = flights[q]
      BY <1>t, <2>4 DEF MovesFlight, ReportsTyped
    <3> QED BY <2>1, <3>1
  <2> QED BY <2>3, <2>4
<1> QED BY <1>2, <1>3, <1>4 DEF ReportsInv

\* A flight that ends answers the requests that wait for it, and is gone.
LEMMA EndedFacts ==
    ASSUME ReportsTyped, SwapTurnsNoneAway, NEW k \in Keys, NEW answer \in R!Outcomes, R!Ended(k, answer),
           answer \in R!Refusals => ~R!Serving
    PROVE  /\ MovesFlight(k, R!NoFlight) /\ R!NoFlight \in ScanFlights
           /\ reports' \in [Askers -> Reports] /\ SwapTurnsNoneAway'
<1>1. R!NoFlight \in ScanFlights
  BY ReportsConstants DEF R!NoFlight, ScanFlights, ScanStages, R!ReportsAssumption
<1>2. R!Answered(answer) \in Reports
  BY DEF R!Answered, Reports, R!RequestStages
<1>3. reports' \in [Askers -> Reports]
  BY <1>2 DEF R!Ended, ReportsTyped
<1>4. R!Answered(answer).answer \in R!Refusals => ~R!Answered(answer).serving
  BY DEF R!Answered
<1>5. \A r \in Askers : reports'[r] \in {R!Answered(answer), reports[r]}
  BY DEF R!Ended
<1> HIDE DEF R!Answered
<1>6. SwapTurnsNoneAway'
  BY <1>4, <1>5 DEF SwapTurnsNoneAway, R!SwapTurnsNoneAway
<1> QED BY <1>1, <1>3, <1>6 DEF R!Ended, MovesFlight

LEMMA ScanStepInv ==
    ASSUME ReportsInv, NEW k \in Keys, R!Scan(k)
    PROVE  ReportsInv'
<1>t. ReportsTyped /\ HandleInv /\ ScanInv /\ SwapTurnsNoneAway
  BY DEF ReportsInv
<1>f. /\ flights[k] \in ScanFlights /\ scanner \in 0..MaxDB
      /\ reports \in [Askers -> Reports]
  BY <1>t DEF ReportsTyped
<1>1. CASE R!ScanFails(k)
  <2>1. R!Ended(k, "error") /\ UNCHANGED <<db, open, scanner, init, loader, results, life>>
    BY <1>1 DEF R!ScanFails, R!dbVars
  <2>2. /\ MovesFlight(k, R!NoFlight) /\ R!NoFlight \in ScanFlights
        /\ reports' \in [Askers -> Reports] /\ SwapTurnsNoneAway'
    BY <1>t, <2>1, EndedFacts DEF R!Outcomes, R!Refusals
  <2> QED BY <2>1, <2>2, FlightMoves DEF R!NoFlight
<1>2. CASE R!BuildSBOM(k) \/ R!BuildVEX(k) \/ R!EndMatch(k)
  <2>1. PICK to \in {"vex", "ready", "matched"} :
            /\ flights' = [flights EXCEPT ![k].stage = to]
            /\ to = "matched" => flights[k].stage = "matching"
            /\ UNCHANGED <<db, open, scanner, init, loader, results, reports, life>>
    BY <1>2 DEF R!BuildSBOM, R!BuildVEX, R!Prepare, R!EndMatch, R!dbVars
  <2> DEFINE f == [flights[k] EXCEPT !.stage = to]
  <2>2. f \in ScanFlights /\ f.stage = to /\ f.db = flights[k].db
    BY <1>f DEF ScanFlights, ScanStages
  <2>3. MovesFlight(k, f)
    BY <2>1 DEF MovesFlight
  <2> HIDE DEF f
  <2>4. reports' \in [Askers -> Reports] /\ SwapTurnsNoneAway'
    BY <1>t, <1>f, <2>1, AnswersStay
  <2>5. to # "matching"
    OBVIOUS
  <2> QED BY <2>1, <2>2, <2>3, <2>4, <2>5, FlightMoves
<1>3. CASE R!StartMatch(k)
  <2>0. UNCHANGED <<db, open, scanner, init, loader, results, life>>
    BY <1>3 DEF R!StartMatch, R!dbVars
  <2>1. CASE scanner = 0
    <3>0. ~R!Serving
      BY <1>t, <1>3, <2>1 DEF R!StartMatch, R!Locked, R!Serving, HandleInv
    <3>1. R!Ended(k, "notready")
      BY <1>3, <2>1 DEF R!StartMatch
    <3>2. /\ MovesFlight(k, R!NoFlight) /\ R!NoFlight \in ScanFlights
          /\ reports' \in [Askers -> Reports] /\ SwapTurnsNoneAway'
      BY <1>t, <3>0, <3>1, EndedFacts DEF R!Outcomes, R!Refusals
    <3> QED BY <2>0, <3>2, FlightMoves DEF R!NoFlight
  <2>2. CASE scanner # 0
    <3> DEFINE f == [flights[k] EXCEPT !.stage = "matching", !.db = scanner]
    <3>1. f \in ScanFlights /\ f.stage = "matching" /\ f.db = scanner
      BY <1>f DEF ScanFlights, ScanStages
    <3>2. MovesFlight(k, f) /\ UNCHANGED reports
      BY <1>3, <2>2 DEF R!StartMatch, MovesFlight
    <3> HIDE DEF f
    <3>3. reports' \in [Askers -> Reports] /\ SwapTurnsNoneAway'
      BY <1>t, <1>f, <3>2, AnswersStay
    <3> QED BY <2>0, <2>2, <3>1, <3>2, <3>3, FlightMoves
  <2> QED BY <2>1, <2>2
<1>4. CASE R!Store(k)
  <2>1. /\ flights[k].stage = "matched" /\ R!Ended(k, "report")
        /\ results' = [results EXCEPT ![k] = [db |-> flights[k].db, crossed |-> flights[k].crossed]]
        /\ UNCHANGED <<db, open, scanner, init, loader, life>>
    BY <1>4 DEF R!Store, R!dbVars
  <2>2. /\ MovesFlight(k, R!NoFlight) /\ R!NoFlight \in ScanFlights
        /\ reports' \in [Askers -> Reports] /\ SwapTurnsNoneAway'
    BY <1>t, <2>1, EndedFacts DEF R!Outcomes, R!Refusals
  <2>3. [db |-> flights[k].db, crossed |-> flights[k].crossed] \in ScanResults
    BY <1>f DEF ScanFlights, ScanResults
  <2>4. flights' \in [Keys -> ScanFlights] /\ results' \in [Keys -> ScanResults]
    BY <1>t, <2>1, <2>2, <2>3 DEF ReportsTyped, MovesFlight
  <2>5. ReportsTyped'
    BY <1>t, <2>1, <2>2, <2>4 DEF ReportsTyped
  <2>6. HandleInv'
    BY <1>t, <2>1 DEF HandleInv
  <2>7. ScanInv'
    <3> SUFFICES ASSUME NEW q \in Keys
                 PROVE  /\ flights'[q].stage = "matching" => scanner # 0 /\ flights'[q].db = scanner
                        /\ flights'[q].stage = "matched" /\ scanner # 0 /\ flights'[q].db # scanner
                              => flights'[q].crossed
                        /\ results'[q].db # 0 /\ scanner # 0 /\ results'[q].db # scanner
                              => results'[q].crossed
                        /\ init = "loading" => results'[q].db = 0 /\ flights'[q].stage \notin {"matching", "matched"}
      BY <2>1 DEF ScanInv
    <3>1. CASE q = k
      <4>1. flights'[q].stage = "none"
        BY <1>t, <2>2, <3>1 DEF ReportsTyped, MovesFlight, R!NoFlight
      <4>2. results'[q].db = flights[k].db /\ results'[q].crossed = flights[k].crossed
        BY <1>t, <2>1, <3>1 DEF ReportsTyped
      <4>3. /\ scanner # 0 /\ flights[k].db # scanner => flights[k].crossed
            /\ init # "loading"
        BY <1>t, <2>1 DEF ScanInv
      <4> QED BY <4>1, <4>2, <4>3
    <3>2. CASE q # k
      <4>1. flights'[q] = flights[q] /\ results'[q] = results[q]
        BY <1>t, <2>1, <2>2, <3>2 DEF ReportsTyped, MovesFlight
      <4> QED BY <1>t, <4>1 DEF ScanInv
    <3> QED BY <3>1, <3>2
  <2> QED BY <2>2, <2>5, <2>6, <2>7 DEF ReportsInv
<1> QED BY <1>1, <1>2, <1>3, <1>4 DEF R!Scan

\* A request starts at most a scan; the database and the results are not its to
\* change.
LEMMA RequestInv ==
    ASSUME ReportsInv, NEW r \in Askers, R!Request(r)
    PROVE  ReportsInv'
<1>t. ReportsTyped /\ HandleInv /\ ScanInv /\ SwapTurnsNoneAway
  BY DEF ReportsInv
<1>f. reports \in [Askers -> Reports] /\ reports[r] \in Reports
  BY <1>t DEF ReportsTyped
<1>a. ASSUME NEW x \in Reports, reports' = [reports EXCEPT ![r] = x],
             x.answer \in R!Refusals => ~x.serving
      PROVE  reports' \in [Askers -> Reports] /\ SwapTurnsNoneAway'
  BY <1>t, <1>f, <1>a, AnswersMove
<1>o. ASSUME NEW answer \in R!Outcomes, answer \in R!Refusals => ~R!Serving
      PROVE  /\ R!Answered(answer) \in Reports
             /\ R!Answered(answer).answer \in R!Refusals => ~R!Answered(answer).serving
  BY <1>o DEF R!Answered, Reports, R!RequestStages
<1>u. ASSUME UNCHANGED <<db, open, scanner, init, loader, results, flights, life>>,
             reports' \in [Askers -> Reports], SwapTurnsNoneAway'
      PROVE  ReportsInv'
  <2>1. ReportsTyped'
    BY <1>t, <1>u DEF ReportsTyped
  <2> QED BY <1>t, <1>u, <2>1 DEF ReportsInv, HandleInv, ScanInv
<1>1. CASE R!Arrive(r)
  <2>0. UNCHANGED <<db, open, scanner, init, loader, results, flights, life>>
    BY <1>1 DEF R!Arrive, R!ReadyForScan, R!dbVars
  <2>1. R!Unready \in R!Outcomes
    BY DEF R!Unready, R!Outcomes, R!Refusals
  <2>2. \E x \in Reports : /\ reports' = [reports EXCEPT ![r] = x]
                           /\ x.answer \in R!Refusals => ~x.serving
    <3>1. CASE scanner = 0
      <4>1. ~R!Serving
        BY <1>t, <1>1, <3>1 DEF R!Arrive, R!ReadyForScan, R!Locked, R!Serving, HandleInv
      <4> QED BY <1>1, <1>o, <2>1, <3>1, <4>1 DEF R!Arrive, R!ReadyForScan, R!Answer
    <3>2. CASE scanner # 0
      <4>1. PICK k \in Keys : reports' = R!Sent(r, "hashing", k)
        BY <1>1, <3>2 DEF R!Arrive, R!ReadyForScan
      <4>2. [stage |-> "hashing", key |-> k, answer |-> "none", serving |-> FALSE] \in Reports
        BY DEF Reports, R!RequestStages
      <4> QED BY <4>1, <4>2 DEF R!Sent, R!Refusals
    <3> QED BY <3>1, <3>2
  <2> QED BY <1>a, <1>u, <2>0, <2>2
<1>2. CASE R!LookUp(r) \/ R!Cancel(r)
  <2>0. UNCHANGED <<db, open, scanner, init, loader, results, flights, life>>
    BY <1>2 DEF R!LookUp, R!Cancel, R!dbVars
  <2>1. /\ [reports[r] EXCEPT !.stage = "missed"] \in Reports
        /\ [reports[r] EXCEPT !.stage = "missed"].answer = reports[r].answer
        /\ [reports[r] EXCEPT !.stage = "missed"].serving = reports[r].serving
    BY <1>f DEF Reports, R!RequestStages
  <2>2. \E x \in Reports : /\ reports' = [reports EXCEPT ![r] = x]
                           /\ x.answer \in R!Refusals => ~x.serving
    <3>1. CASE reports' = [reports EXCEPT ![r].stage = "missed"]
      BY <1>t, <2>1, <3>1 DEF SwapTurnsNoneAway, R!SwapTurnsNoneAway
    <3>2. CASE \E answer \in {"report", "error"} : reports' = R!Answer(r, answer)
      BY <1>o, <3>2 DEF R!Answer, R!Outcomes, R!Refusals
    <3> QED BY <1>2, <3>1, <3>2 DEF R!LookUp, R!Cancel
  <2> QED BY <1>a, <1>u, <2>0, <2>2
<1>3. CASE R!Join(r)
  <2> DEFINE k == reports[r].key
  <2>0. /\ UNCHANGED <<db, open, scanner, init, loader, results, life>>
        /\ reports' = [reports EXCEPT ![r].stage = "waiting"]
    BY <1>3 DEF R!Join, R!dbVars
  <2>1. reports' \in [Askers -> Reports] /\ SwapTurnsNoneAway'
    <3>1. /\ [reports[r] EXCEPT !.stage = "waiting"] \in Reports
          /\ [reports[r] EXCEPT !.stage = "waiting"].answer = reports[r].answer
          /\ [reports[r] EXCEPT !.stage = "waiting"].serving = reports[r].serving
      BY <1>f DEF Reports, R!RequestStages
    <3>2. reports[r].answer \in R!Refusals => ~reports[r].serving
      BY <1>t DEF SwapTurnsNoneAway, R!SwapTurnsNoneAway
    <3> QED BY <1>a, <2>0, <3>1, <3>2
  <2>2. CASE k \in Keys /\ flights[k].stage = "none"
    <3> DEFINE f == [flights[k] EXCEPT !.stage = "sbom"]
    <3>1. f \in ScanFlights /\ f.stage = "sbom"
      BY <1>t, <2>2 DEF ReportsTyped, ScanFlights, ScanStages
    <3>2. MovesFlight(k, f)
      BY <1>3, <2>2 DEF R!Join, MovesFlight
    <3> HIDE DEF f
    <3> QED BY <2>0, <2>1, <2>2, <3>1, <3>2, FlightMoves
  <2>3. CASE ~(k \in Keys /\ flights[k].stage = "none")
    <3>1. flights' = flights
      BY <1>t, <1>3, <2>3 DEF R!Join, ReportsTyped
    <3> QED BY <1>u, <2>0, <2>1, <3>1
  <2> QED BY <2>2, <2>3
<1> QED BY <1>1, <1>2, <1>3 DEF R!Request

\* What happens to the process and to its cache of results by itself.
LEMMA LifeInv ==
    ASSUME ReportsInv, \/ R!CancelProcess \/ R!Shutdown
                       \/ \E k \in Keys : R!Expire(k)
    PROVE  ReportsInv'
<1>t. ReportsTyped /\ HandleInv /\ ScanInv /\ SwapTurnsNoneAway
  BY DEF ReportsInv
<1>l. life \in Lives
  BY <1>t DEF ReportsTyped
<1>1. ASSUME NEW k \in Keys, R!Expire(k) PROVE ReportsInv'
  <2>1. /\ results' = [results EXCEPT ![k] = R!NoResult]
        /\ UNCHANGED <<db, open, scanner, init, loader, flights, reports, life>>
    BY <1>1 DEF R!Expire, R!dbVars
  <2>2. R!NoResult \in ScanResults
    BY ReportsConstants DEF R!NoResult, ScanResults, R!ReportsAssumption
  <2>3. ReportsTyped'
    BY <1>t, <2>1, <2>2 DEF ReportsTyped
  <2>4. \A q \in Keys : results'[q] = results[q] \/ results'[q].db = 0
    BY <1>t, <2>1 DEF ReportsTyped, R!NoResult
  <2>5. ScanInv'
    BY <1>t, <2>1, <2>4 DEF ScanInv
  <2>6. HandleInv'
    BY <1>t, <2>1 DEF HandleInv
  <2> QED BY <1>t, <2>1, <2>3, <2>5, <2>6, AnswersStay DEF ReportsInv
<1>2. ASSUME UNCHANGED <<db, open, scanner, init, loader, results, flights, reports>>,
             life' \in Lives, life'.scanner = "stopped" <=> life.scanner = "stopped"
      PROVE  ReportsInv'
  <2>1. ReportsTyped'
    BY <1>t, <1>2 DEF ReportsTyped
  <2> QED BY <1>t, <1>2, <2>1, AnswersStay DEF ReportsInv, HandleInv, ScanInv
<1>3. CASE R!CancelProcess
  <2>1. life' \in Lives /\ life'.scanner = life.scanner
    BY <1>l, <1>3 DEF R!CancelProcess, R!Lives, Lives
  <2> QED BY <1>2, <1>3, <2>1 DEF R!CancelProcess, R!Lives
<1>4. ASSUME NEW s \in R!Servers, R!ShutdownServer(s) PROVE ReportsInv'
  <2>1. life' \in Lives /\ life'.scanner = life.scanner
    BY <1>l, <1>4 DEF R!ShutdownServer, R!Lives, Lives
  <2> QED BY <1>2, <1>4, <2>1 DEF R!ShutdownServer, R!Lives
<1>5. CASE R!SignalStop
  <2>1. life' \in Lives /\ life'.scanner = "closing" /\ life.scanner = "up"
    BY <1>l, <1>5 DEF R!SignalStop, R!Lives, Lives
  <2> QED BY <1>2, <1>5, <2>1 DEF R!SignalStop, R!Lives
<1>6. CASE R!Exit
  <2>1. life' \in Lives /\ life'.scanner = life.scanner
    BY <1>l, <1>6 DEF R!Exit, R!Lives, Lives
  <2> QED BY <1>2, <1>6, <2>1 DEF R!Exit, R!Lives
<1>7. CASE R!CloseScanner
  <2>1. /\ scanner' = 0 /\ open' = {} /\ init # "loading" /\ loader = "off"
        /\ UNCHANGED <<db, init, loader, results, flights, reports>> /\ life'.scanner = "stopped"
    BY <1>t, <1>l, <1>7 DEF R!CloseScanner, R!Lives, Lives, HandleInv
  <2>2. life' \in Lives
    BY <1>l, <1>7 DEF R!CloseScanner, R!Lives, Lives
  <2>3. \A k \in Keys : flights[k].stage # "matching"
    BY <1>7 DEF R!CloseScanner, R!Readers
  <2>4. ReportsTyped'
    BY <1>t, <2>1, <2>2, ReportsConstants DEF ReportsTyped, R!ReportsAssumption
  <2>5. HandleInv'
    BY <2>1 DEF HandleInv
  <2>6. ScanInv'
    BY <1>t, <2>1, <2>3 DEF ScanInv
  <2> QED BY <1>t, <2>1, <2>4, <2>5, <2>6, AnswersStay DEF ReportsInv
<1> QED BY <1>1, <1>3, <1>4, <1>5, <1>6, <1>7 DEF R!Shutdown

LEMMA ReportsInitInv == R!Init => ReportsInv
<1> SUFFICES ASSUME R!Init PROVE ReportsInv
  OBVIOUS
<1>m. MaxDB \in Nat \ {0}
  BY ReportsConstants DEF R!ReportsAssumption
<1>1. db \in DBs /\ scanner \in 0..MaxDB
  <2>1. db \in [published : {1}, installed : {0, 1}, kept : {FALSE}] /\ scanner = 0
    BY DEF R!Init
  <2>2. 0 \in 0..MaxDB /\ 1 \in 0..MaxDB
    BY <1>m
  <2>3. db \in [published : 0..MaxDB, installed : 0..MaxDB, kept : BOOLEAN]
    BY <2>1, <2>2
  <2> QED BY <2>1, <2>2, <2>3 DEF DBs
<1>2. results \in [Keys -> ScanResults] /\ flights \in [Keys -> ScanFlights]
  BY <1>m DEF R!Init, R!NoResult, R!NoFlight, ScanResults, ScanFlights, ScanStages
<1>3. reports \in [Askers -> Reports] /\ life \in Lives
  BY DEF R!Init, Reports, R!RequestStages, Lives, R!Servers
<1>4. ReportsTyped
  BY <1>1, <1>2, <1>3 DEF R!Init, ReportsTyped
<1>5. HandleInv
  BY DEF R!Init, HandleInv
<1>6. SwapTurnsNoneAway
  BY DEF R!Init, R!Refusals, SwapTurnsNoneAway, R!SwapTurnsNoneAway
<1>7. ScanInv
  BY DEF R!Init, ScanInv, R!NoResult, R!NoFlight
<1> QED BY <1>4, <1>5, <1>6, <1>7 DEF ReportsInv

LEMMA ReportsNextInv == ReportsInv /\ [R!Next]_R!vars => ReportsInv'
<1> SUFFICES ASSUME ReportsInv, [R!Next]_R!vars PROVE ReportsInv'
  OBVIOUS
<1>1. CASE UNCHANGED R!vars
  BY <1>1, AnswersStay DEF R!vars, ReportsInv, ReportsTyped, HandleInv, ScanInv
<1>2. CASE R!Next
  BY <1>2, DatabaseInv, ScanStepInv, RequestInv, LifeInv DEF R!Next, R!World
<1> QED BY <1>1, <1>2

\* The state of the scanner of one process is well formed.
THEOREM ScannerTypeCorrect == R!Spec => []R!TypeOK
<1>1. ReportsInv => R!TypeOK
  BY ReportsType DEF ReportsInv
<1> QED BY <1>1, ReportsInitInv, ReportsNextInv, PTL DEF R!Spec

\* No database is closed under a scan that matches against it (dbMu of the
\* scanner, against refresh and Stop).
THEOREM ScansAreSafe == R!Spec => []ScansUseOpenDB
<1>1. ReportsInv => ScansUseOpenDB
  BY DEF ReportsInv, HandleInv, ScanInv, ScansUseOpenDB, R!ScansUseOpenDB
<1> QED BY <1>1, ReportsInitInv, ReportsNextInv, PTL DEF R!Spec

\* The only results that outlive the database they were matched against are those
\* of scans that crossed its refresh: scanSBOM stores after it releases the lock.
THEOREM StaleResultsHaveCrossed == R!Spec => []StaleResultsCrossed
<1>1. ReportsInv => StaleResultsCrossed
  BY DEF ReportsInv, ScanInv, StaleResultsCrossed, R!StaleResultsCrossed
<1> QED BY <1>1, ReportsInitInv, ReportsNextInv, PTL DEF R!Spec

\* Once Stop of the scanner has returned, no load or refresh opens a database again.
THEOREM StopIsFinal == R!Spec => []StopReleasesDB
<1>1. ReportsInv => StopReleasesDB
  BY DEF ReportsInv, HandleInv, StopReleasesDB, R!StopReleasesDB
<1> QED BY <1>1, ReportsInitInv, ReportsNextInv, PTL DEF R!Spec

\* Nobody is told that there is no database while there is one: a request that
\* comes during a swap, and the scan of one that came before it, wait for the lock
\* (readyForScan, scanSBOM), and a swap that ends without a database says so.
THEOREM SwapIsPatient == R!Spec => []SwapTurnsNoneAway
<1>1. ReportsInv => SwapTurnsNoneAway
  BY DEF ReportsInv
<1> QED BY <1>1, ReportsInitInv, ReportsNextInv, PTL DEF R!Spec

---------------------------------------------------------------------------
(* Nobody waits for a scan that does not run *)

Awaited ==
    \A r \in Askers :
        /\ reports[r].stage \in {"hashing", "missed", "waiting"} => reports[r].key \in Keys
        /\ reports[r].stage = "waiting" => flights[reports[r].key].stage # "none"

LEMMA AwaitedStays ==
    ASSUME Awaited, reports' = reports,
           \A k \in Keys : flights'[k].stage = "none" => flights[k].stage = "none"
    PROVE  Awaited'
BY DEF Awaited

\* One asker goes on, the scans run on.
LEMMA AskerMoves ==
    ASSUME ReportsInv, Awaited, NEW r \in Askers, NEW x, reports' = [reports EXCEPT ![r] = x],
           x.stage \in {"hashing", "missed", "waiting"} => x.key \in Keys,
           x.stage = "waiting" => flights'[x.key].stage # "none",
           \A k \in Keys : flights'[k].stage = "none" => flights[k].stage = "none"
    PROVE  Awaited'
<1>1. reports'[r] = x /\ \A q \in Askers \ {r} : reports'[q] = reports[q]
  BY DEF ReportsInv, ReportsTyped
<1> QED BY <1>1 DEF Awaited

LEMMA AskerAwaited ==
    ASSUME ReportsInv, Awaited, NEW r \in Askers, R!Request(r)
    PROVE  Awaited'
<1>f. reports[r] \in Reports
  BY DEF ReportsInv, ReportsTyped
<1>a. ASSUME NEW answer, reports' = R!Answer(r, answer), flights' = flights PROVE Awaited'
  <2>1. R!Answered(answer).stage = "answered"
    BY DEF R!Answered
  <2>2. reports' = [reports EXCEPT ![r] = R!Answered(answer)]
    BY <1>a DEF R!Answer
  <2> HIDE DEF R!Answered
  <2> QED BY <1>a, <2>1, <2>2, AskerMoves
<1>1. CASE R!Arrive(r)
  <2>1. flights' = flights
    BY <1>1 DEF R!Arrive, R!ReadyForScan
  <2>2. CASE scanner = 0
    <3>1. reports' = R!Answer(r, R!Unready)
      BY <1>1, <2>2 DEF R!Arrive, R!ReadyForScan
    <3> QED BY <1>a, <2>1, <3>1
  <2>3. CASE scanner # 0
    <3>1. PICK k \in Keys :
             reports' = [reports EXCEPT ![r] = [stage |-> "hashing", key |-> k, answer |-> "none",
                                               serving |-> FALSE]]
      BY <1>1, <2>3 DEF R!Arrive, R!ReadyForScan, R!Sent
    <3> QED BY <2>1, <3>1, AskerMoves
  <2> QED BY <2>2, <2>3
<1>2. CASE R!LookUp(r)
  <2>1. flights' = flights /\ reports[r].stage = "hashing"
    BY <1>2 DEF R!LookUp
  <2>2. CASE \E answer : reports' = R!Answer(r, answer)
    BY <1>a, <2>1, <2>2
  <2>3. CASE reports' = [reports EXCEPT ![r].stage = "missed"]
    <3> DEFINE x == [reports[r] EXCEPT !.stage = "missed"]
    <3>1. x.stage = "missed" /\ x.key = reports[r].key
      BY <1>f DEF Reports
    <3>2. reports' = [reports EXCEPT ![r] = x]
      BY <2>3
    <3> HIDE DEF x
    <3>3. x.key \in Keys
      BY <2>1, <3>1 DEF Awaited
    <3> QED BY <2>1, <3>1, <3>2, <3>3, AskerMoves
  <2> QED BY <1>2, <2>2, <2>3 DEF R!LookUp
<1>3. CASE R!Join(r)
  <2> DEFINE k == reports[r].key
             x == [reports[r] EXCEPT !.stage = "waiting"]
  <2>1. reports[r].stage = "missed" /\ k \in Keys
    BY <1>3 DEF R!Join, Awaited
  <2>2. x.stage = "waiting" /\ x.key = k
    BY <1>f DEF Reports
  <2>3. reports' = [reports EXCEPT ![r] = x]
    BY <1>3 DEF R!Join
  <2>4. flights[k] \in ScanFlights
    BY <2>1 DEF ReportsInv, ReportsTyped
  <2>5. flights'[k].stage # "none" /\ \A q \in Keys \ {k} : flights'[q] = flights[q]
    <3>1. CASE flights[k].stage # "none"
      BY <1>3, <3>1 DEF R!Join
    <3>2. CASE flights[k].stage = "none"
      <4>1. flights' = [flights EXCEPT ![k].stage = "sbom"]
        BY <1>3, <3>2 DEF R!Join
      <4>2. flights'[k] = [flights[k] EXCEPT !.stage = "sbom"]
        BY <2>1, <4>1 DEF ReportsInv, ReportsTyped
      <4>3. \A q \in Keys \ {k} : flights'[q] = flights[q]
        BY <4>1 DEF ReportsInv, ReportsTyped
      <4> QED BY <2>4, <4>2, <4>3 DEF ScanFlights
    <3> QED BY <3>1, <3>2
  <2> HIDE DEF k, x
  <2> QED BY <2>1, <2>2, <2>3, <2>5, AskerMoves
<1>4. CASE R!Cancel(r)
  BY <1>4, <1>a DEF R!Cancel
<1> QED BY <1>1, <1>2, <1>3, <1>4 DEF R!Request

\* A scan that ends answers all who wait for it.
LEMMA EndedAwaited ==
    ASSUME ReportsInv, Awaited, NEW k \in Keys, NEW answer, R!Ended(k, answer)
    PROVE  Awaited'
<1>1. \A q \in Keys \ {k} : flights'[q] = flights[q]
  BY DEF R!Ended, ReportsInv, ReportsTyped
<1>2. ASSUME NEW r \in Askers, reports[r].stage = "waiting", reports[r].key = k
      PROVE  reports'[r].stage = "answered"
  BY <1>2 DEF R!Ended, R!Answered
<1>3. ASSUME NEW r \in Askers, ~(reports[r].stage = "waiting" /\ reports[r].key = k)
      PROVE  reports'[r] = reports[r]
  BY <1>3 DEF R!Ended
<1> QED BY <1>1, <1>2, <1>3 DEF Awaited

LEMMA ScanAwaited ==
    ASSUME ReportsInv, Awaited, NEW k \in Keys, R!Scan(k)
    PROVE  Awaited'
<1>f. flights[k] \in ScanFlights
  BY DEF ReportsInv, ReportsTyped
<1>1. ASSUME NEW f, f.stage # "none", flights' = [flights EXCEPT ![k] = f], reports' = reports
      PROVE  Awaited'
  <2>1. \A q \in Keys : flights'[q].stage = "none" => flights[q].stage = "none"
    BY <1>1 DEF ReportsInv, ReportsTyped
  <2> QED BY <1>1, <2>1, AwaitedStays
<1>2. CASE \E answer : R!Ended(k, answer)
  BY <1>2, EndedAwaited
<1>3. CASE R!BuildSBOM(k) \/ R!BuildVEX(k) \/ R!EndMatch(k)
  <2>1. PICK to \in {"vex", "ready", "matched"} :
           flights' = [flights EXCEPT ![k] = [flights[k] EXCEPT !.stage = to]] /\ reports' = reports
    BY <1>3 DEF R!BuildSBOM, R!BuildVEX, R!Prepare, R!EndMatch
  <2>2. [flights[k] EXCEPT !.stage = to].stage # "none"
    BY <1>f DEF ScanFlights
  <2> QED BY <1>1, <2>1, <2>2
<1>4. CASE R!StartMatch(k) /\ scanner # 0
  <2>1. /\ flights' = [flights EXCEPT ![k] = [flights[k] EXCEPT !.stage = "matching", !.db = scanner]]
        /\ reports' = reports
    BY <1>4 DEF R!StartMatch
  <2>2. [flights[k] EXCEPT !.stage = "matching", !.db = scanner].stage # "none"
    BY <1>f DEF ScanFlights
  <2> QED BY <1>1, <2>1, <2>2
<1>5. CASE R!ScanFails(k) \/ R!Store(k) \/ (R!StartMatch(k) /\ scanner = 0)
  <2>1. \E answer : R!Ended(k, answer)
    BY <1>5 DEF R!ScanFails, R!Store, R!StartMatch
  <2> QED BY <1>2, <2>1
<1> QED BY <1>3, <1>4, <1>5 DEF R!Scan

LEMMA AwaitedNext == ReportsInv /\ Awaited /\ [R!Next]_R!vars => Awaited'
<1> SUFFICES ASSUME ReportsInv, Awaited, [R!Next]_R!vars PROVE Awaited'
  OBVIOUS
<1>1. CASE UNCHANGED R!vars
  BY <1>1, AwaitedStays DEF R!vars
<1>2. CASE R!World \/ R!Shutdown \/ R!InitScanner
  <2>1. reports' = reports /\ flights' = flights
    BY <1>2 DEF R!World, R!Publish, R!CancelProcess, R!Expire, R!Shutdown, R!ShutdownServer, R!SignalStop,
                R!CloseScanner, R!Exit, R!Lives, R!InitScanner
  <2> QED BY <2>1, AwaitedStays
<1>3. CASE R!Refresh
  <2>1. reports' = reports
    BY <1>3 DEF R!Refresh, R!AwaitInit, R!Timer, R!Interrupted, R!UpdateDB, R!UpdateFails, R!CloseOld,
                R!Reopen, R!ReopenFails, R!LoaderMoves
  <2>2. CASE R!Reopen
    <3>1. ASSUME NEW k \in Keys PROVE flights'[k].stage = flights[k].stage
      <4>1. flights[k] \in ScanFlights
        BY DEF ReportsInv, ReportsTyped
      <4>2. flights'[k] = [flights[k] EXCEPT !.crossed = flights[k].stage = "matched"]
        BY <2>2 DEF R!Reopen
      <4> QED BY <4>1, <4>2 DEF ScanFlights
    <3> QED BY <2>1, <3>1, AwaitedStays
  <2>3. CASE ~R!Reopen
    <3>1. flights' = flights
      BY <1>3, <2>3 DEF R!Refresh, R!AwaitInit, R!Timer, R!Interrupted, R!UpdateDB, R!UpdateFails,
                        R!CloseOld, R!ReopenFails, R!LoaderMoves
    <3> QED BY <2>1, <3>1, AwaitedStays
  <2> QED BY <2>2, <2>3
<1> QED BY <1>1, <1>2, <1>3, AskerAwaited, ScanAwaited DEF R!Next

\* A request that waits for a report waits for a scan of its key that runs,
\* whatever scan failed, was refused by a database that is not there, or was
\* left by the client that started it (Builder.Build of the scanner).
THEOREM ReportsAwaited == R!Spec => []Awaited
<1>1. R!Init => Awaited
  BY DEF R!Init, Awaited
<1> QED BY <1>1, ReportsInitInv, ReportsNextInv, AwaitedNext, PTL DEF R!Spec

---------------------------------------------------------------------------
(* The process *)

\* A behaviour of the process is one of the builds and one of the scans: what is
\* proved of either holds in the process.
THEOREM ProcessSafe ==
    ProcessSpec => [](NobodyOrphaned /\ BuildsWithinLimit /\ ScansUseOpenDB /\ StaleResultsCrossed
                      /\ StopReleasesDB /\ SwapTurnsNoneAway)
<1>1. ProcessInit => IInv /\ ReportsInv
  BY InitInv, ReportsInitInv DEF ProcessInit
<1>2. [ProcessNext]_allVars => [Next]_vars /\ [R!Next]_R!vars
  BY DEF ProcessNext, allVars, scanVars, R!vars
<1>3. IInv /\ ReportsInv /\ [ProcessNext]_allVars => IInv' /\ ReportsInv'
  BY <1>2, NextInv, ReportsNextInv
<1>4. IInv => NobodyOrphaned /\ BuildsWithinLimit
  BY DEF IInv, SlotsInv
<1>5. ReportsInv => ScansUseOpenDB /\ StaleResultsCrossed /\ StopReleasesDB /\ SwapTurnsNoneAway
  BY DEF ReportsInv, HandleInv, ScanInv, ScansUseOpenDB, R!ScansUseOpenDB, StaleResultsCrossed,
         R!StaleResultsCrossed, StopReleasesDB, R!StopReleasesDB
<1> QED BY <1>1, <1>3, <1>4, <1>5, PTL DEF ProcessSpec
=============================================================================
