-------------------------- MODULE DownloadsProofs --------------------------
(***************************************************************************)
(* The downloads, in three parts that share no variable.                   *)
(*                                                                         *)
(* The asset cache: what is read is signed, a rebuild repairs it, and the  *)
(* signatures of a manifest are bounded by the replicas and the faults     *)
(* there were, for any replicas, clients and contents, with S3 or without. *)
(* Signatures are never taken back, so a look-up that has seen one knows   *)
(* it for good.  A flight that has had the cache to itself knows what it   *)
(* wrote.  Every signature a flight is about to make is accounted for when *)
(* it decides to: the first ones by the replicas that raced for them, each *)
(* later one by the fault that hid those.                                  *)
(*                                                                         *)
(* The request pipeline: whatever the requests, credentials, owners and    *)
(* changes of the deployment, an answer goes to the owner, stays in the    *)
(* scope, is not cached and is audited.  Every fact an answer shows is     *)
(* pinned to the step of the pipeline that established it.                 *)
(*                                                                         *)
(* The browser login: no tab goes through /login again without a cause.    *)
(* A tab at the tenant holds a state cookie that is intact, or a cause     *)
(* that is not spent yet.                                                  *)
(***************************************************************************)
EXTENDS Downloads, FiniteSetTheorems, TLAPS

Building == {"upload", "tag", "check", "sign", "stored"}

\* A look-up that is past the signature has seen it.
LookupKnows(l) == l.step \in {"stat", "hit"} => l.digest \in Signed

\* What a flight knows of the asset it builds, and of its own look-up.
FlightKnows(f) ==
    /\ f.step \in Building => f.content \in Contents
    /\ LookupKnows(f.lookup)
FlightInv == \A r \in Replicas : FlightKnows(flight[r])

\* What a request knows of the asset it found.
RequestKnows(q) ==
    /\ LookupKnows(q.lookup)
    /\ q.step = "deliver" => q.lookup.step = "hit"
    /\ q.result = "read" => q.content \in Signed
RequestInv == \A c \in Clients : RequestKnows(request[c])

\* What a flight that had the cache to itself knows of what it has written.
AloneKnows(f) ==
    f.alone =>
        /\ f.step # "idle"
        /\ WithS3 /\ f.step \in Building \ {"upload"} => Matches(f.content)
        /\ f.step \in {"check", "sign", "stored"} => tag = f.content
        /\ f.step = "stored" => f.content \in Signed
AloneInv ==
    \A r \in Replicas :
        /\ AloneKnows(flight[r])
        /\ flight[r].alone => \A q \in Replicas \ {r} : flight[q].step = "idle"

\* The replicas that are about to sign a content.
Signing(d) == {r \in Replicas : flight[r].step = "sign" /\ flight[r].content = d}
Accounted(d) == signatures[d] + Cardinality(Signing(d)) <= Cardinality(Replicas) + faults
CountInv == \A d \in Contents : Accounted(d)

IInv == TypeOK /\ FlightInv /\ RequestInv /\ AloneInv /\ CountInv

LEMMA InitInv == Init => IInv
<1> SUFFICES ASSUME Init PROVE IInv
  OBVIOUS
<1>f. ASSUME NEW r \in Replicas
      PROVE  /\ flight[r] = NoFlight /\ flight[r].step = "idle" /\ flight[r].alone = FALSE
             /\ flight[r].lookup.step = "off"
  BY DEF Init, NoFlight, NoLookup
<1>q. ASSUME NEW c \in Clients
      PROVE  request[c].step = "idle" /\ request[c].lookup.step = "off" /\ request[c].result = "none"
  BY DEF Init, NoLookup
<1>1. TypeOK
  BY DEF Init, TypeOK, NoFlight, NoLookup, NoObject, Objects, Flights, FlightSteps, Requests,
         Lookups, LookupSteps, Maybe
<1>2. FlightInv /\ AloneInv
  BY <1>f DEF FlightInv, FlightKnows, LookupKnows, AloneInv, AloneKnows, Building
<1>3. RequestInv
  BY <1>q DEF RequestInv, RequestKnows, LookupKnows
<1>4. ASSUME NEW d \in Contents PROVE Accounted(d)
  <2>1. Signing(d) = {}
    BY <1>f DEF Signing
  <2>2. Cardinality(Signing(d)) = 0 /\ Cardinality(Replicas) \in Nat
    BY <2>1, FS_EmptySet, FS_CardinalityType, CacheAssumption
  <2>3. signatures[d] = 0 /\ faults = 0
    BY DEF Init
  <2> QED BY <2>2, <2>3 DEF Accounted
<1> QED BY <1>1, <1>2, <1>3, <1>4 DEF IInv, CountInv

---------------------------------------------------------------------------
(* Type correctness *)

LEMMA LookupType ==
    ASSUME TypeOK, NEW l \in Lookups
    PROVE  (Looking(l) => LookupNext(l) \in Lookups) /\ LookupFailure(l) \subseteq Lookups /\ NewLookup \in Lookups
<1>1. ASSUME NEW step \in LookupSteps PROVE Step(l, step) \in Lookups
  BY DEF Step, Lookups
<1>2. ASSUME Looking(l) PROVE LookupNext(l) \in Lookups
  <2>1. CASE l.step = "head"
    BY <1>1, <2>1 DEF LookupNext, TypeOK, Lookups, LookupSteps
  <2>2. CASE l.step = "verify"
    BY <1>1, <2>2 DEF LookupNext, LookupSteps
  <2>3. CASE l.step = "stat"
    BY <1>1, <2>3 DEF LookupNext, LookupSteps
  <2> QED BY <1>2, <2>1, <2>2, <2>3 DEF Looking
<1> QED BY <1>1, <1>2 DEF LookupFailure, NewLookup, Lookups, LookupSteps, Maybe

LEMMA EndedType ==
    ASSUME NEW q \in Requests, NEW result \in {"built", "read", "redirected", "broken", "failed"},
           NEW d \in Maybe
    PROVE  Ended(q, result, d) \in Requests
BY DEF Ended, Requests

LEMMA EndType ==
    ASSUME TypeOK, NEW c \in Clients, NEW d \in Maybe,
           NEW result \in {"built", "read", "redirected", "broken", "failed"}, End(c, result, d)
    PROVE  request' \in [Clients -> Requests]
BY EndedType DEF End, TypeOK

LEMMA DisturbedType ==
    ASSUME TypeOK
    PROVE  Disturbed(flight) \in [Replicas -> Flights] /\ NoFlight \in Flights
<1>1. ASSUME NEW r \in Replicas PROVE [flight[r] EXCEPT !.alone = FALSE] \in Flights
  BY DEF TypeOK, Flights
<1> QED BY <1>1 DEF Disturbed, NoFlight, NoLookup, Flights, FlightSteps, Lookups, LookupSteps, Maybe

LEMMA AskType ==
    ASSUME TypeOK, NEW c \in Clients, NEW r \in Replicas, Ask(c, r)
    PROVE  TypeOK'
<1>1. [step |-> "lookup", at |-> r, lookup |-> NewLookup, result |-> "none", content |-> NoContent]
        \in Requests
  BY DEF NewLookup, Requests, Lookups, LookupSteps, Maybe
<1> QED BY <1>1 DEF Ask, Store, TypeOK

LEMMA ClientType ==
    ASSUME TypeOK, NEW c \in Clients, ClientStep(c) \/ LookupFails(c) \/ PresignFails(c)
    PROVE  TypeOK'
<1>c. /\ request[c] \in Requests /\ request[c].at \in Replicas
      /\ request[c].lookup \in Lookups /\ request[c].lookup.digest \in Maybe
  BY DEF TypeOK, Requests, Lookups
<1>n. NoContent \in Maybe /\ object.content \in Maybe
  BY DEF Maybe, TypeOK, Objects
<1>l. ASSUME NEW l \in Lookups PROVE [request[c] EXCEPT !.lookup = l] \in Requests
  BY <1>c DEF Requests
<1>s. ASSUME NEW step \in {"deliver", "wait"} PROVE [request[c] EXCEPT !.step = step] \in Requests
  BY <1>c DEF Requests
<1>1. CASE Lookup(c)
  <2>1. request' = [request EXCEPT ![c] = [request[c] EXCEPT !.lookup = LookupNext(request[c].lookup)]]
    BY <1>1 DEF Lookup
  <2>2. LookupNext(request[c].lookup) \in Lookups
    BY <1>1, <1>c, LookupType DEF Lookup
  <2> QED BY <1>1, <1>l, <2>1, <2>2 DEF Lookup, Store, TypeOK
<1>2. CASE LookupFails(c)
  <2>1. PICK l \in LookupFailure(request[c].lookup) :
           request' = [request EXCEPT ![c] = [request[c] EXCEPT !.lookup = l]]
    BY <1>2 DEF LookupFails
  <2>2. l \in Lookups
    BY <1>c, <2>1, LookupType
  <2> QED BY <1>2, <1>l, <2>1, <2>2 DEF LookupFails, Fault, Store, TypeOK
<1>3. CASE Hit(c)
  BY <1>3, <1>s DEF Hit, Store, TypeOK
<1>4. CASE Refuse(c)
  BY <1>4, <1>n, EndType DEF Refuse, Store, TypeOK
<1>5. CASE Join(c)
  <2> DEFINE r == request[c].at
  <2>1. [flight[r] EXCEPT !.waiters = @ \cup {c}] \in Flights
    BY <1>c DEF TypeOK, Flights
  <2>2. ASSUME NEW b \in BOOLEAN
        PROVE  [NoFlight EXCEPT !.step = "build", !.alone = b, !.waiters = {c}] \in Flights
    BY DisturbedType DEF Flights, FlightSteps
  <2>3. flight' \in [Replicas -> Flights]
    BY <1>5, <1>c, <2>1, <2>2, DisturbedType DEF Join, TypeOK
  <2> QED BY <1>5, <1>s, <2>3 DEF Join, Store, TypeOK
<1>6. CASE Read(c)
  BY <1>6, <1>c, <1>n, EndType DEF Read, Store, TypeOK
<1>7. CASE Redirect(c) \/ PresignFails(c)
  BY <1>7, <1>n, EndType DEF Redirect, PresignFails, Fault, Store, TypeOK
<1> QED BY <1>1, <1>2, <1>3, <1>4, <1>5, <1>6, <1>7 DEF ClientStep

LEMMA GotoType ==
    ASSUME TypeOK, NEW r \in Replicas, NEW step \in FlightSteps, Goto(r, step)
    PROVE  flight' \in [Replicas -> Flights] /\ request' = request
<1>1. [flight[r] EXCEPT !.step = step] \in Flights
  BY DEF TypeOK, Flights
<1> QED BY <1>1 DEF Goto, TypeOK

LEMMA EndFlightType ==
    ASSUME TypeOK, NEW r \in Replicas, NEW result \in {"built", "failed"}, NEW d \in Maybe,
           EndFlight(r, result, d)
    PROVE  flight' \in [Replicas -> Flights] /\ request' \in [Clients -> Requests]
<1>1. ASSUME NEW c \in Clients PROVE Ended(request[c], result, d) \in Requests
  BY EndedType DEF TypeOK
<1> QED BY <1>1, DisturbedType DEF EndFlight, TypeOK

LEMMA EndCachedType ==
    ASSUME TypeOK, NEW r \in Replicas, EndCached(r)
    PROVE  flight' \in [Replicas -> Flights] /\ request' \in [Clients -> Requests]
<1>1. ASSUME NEW c \in Clients
      PROVE  [request[c] EXCEPT !.step = "deliver", !.lookup = flight[r].lookup] \in Requests
  BY DEF TypeOK, Requests, Flights
<1> QED BY <1>1, DisturbedType DEF EndCached, TypeOK

LEMMA FlightType ==
    ASSUME TypeOK, FlightInv, NEW r \in Replicas, FlightStep(r) \/ FlightFails(r)
    PROVE  TypeOK'
<1>f. /\ flight[r] \in Flights /\ flight[r].content \in Maybe /\ flight[r].lookup \in Lookups
      /\ flight[r].lookup.digest \in Maybe /\ NoContent \in Maybe
  BY DEF TypeOK, Flights, Lookups, Maybe
<1>b. flight[r].step \in Building => flight[r].content \in Contents
  BY DEF FlightInv, FlightKnows
<1>l. ASSUME NEW l \in Lookups PROVE [flight[r] EXCEPT !.lookup = l] \in Flights
  BY <1>f DEF Flights
<1>1. CASE Build(r)
  <2>1. PICK d \in Contents :
           flight' = [flight EXCEPT ![r] = [flight[r] EXCEPT !.content = d,
                                                             !.step = IF WithS3 THEN "upload" ELSE "tag"]]
    BY <1>1 DEF Build
  <2>2. [flight[r] EXCEPT !.content = d, !.step = IF WithS3 THEN "upload" ELSE "tag"] \in Flights
    BY <1>f DEF Flights, FlightSteps, Maybe
  <2> QED BY <1>1, <2>1, <2>2 DEF Build, Store, TypeOK
<1>2. CASE Upload(r)
  <2>1. [content |-> flight[r].content, described |-> TRUE] \in Objects
    BY <1>f DEF Objects
  <2> QED BY <1>2, <2>1, GotoType DEF Upload, FlightSteps, TypeOK
<1>3. CASE PushTag(r)
  BY <1>3, <1>f, GotoType DEF PushTag, FlightSteps, TypeOK
<1>4. CASE CheckSigned(r)
  BY <1>4, GotoType DEF CheckSigned, FlightSteps, Store, TypeOK
<1>5. CASE Sign(r)
  BY <1>5, <1>b, GotoType DEF Sign, At, Building, FlightSteps, TypeOK
<1>6. CASE ReturnBuilt(r)
  BY <1>6, <1>f, EndFlightType DEF ReturnBuilt, Store, TypeOK
<1>7. CASE Reget(r)
  <2>1. flight' = [flight EXCEPT ![r] = [flight[r] EXCEPT !.lookup =
                       IF flight[r].lookup.step = "off" THEN NewLookup ELSE LookupNext(flight[r].lookup)]]
    BY <1>7 DEF Reget
  <2>2. CASE flight[r].lookup.step = "off"
    <3>1. flight' = [flight EXCEPT ![r] = [flight[r] EXCEPT !.lookup = NewLookup]]
      BY <2>1, <2>2
    <3> QED BY <1>7, <1>f, <1>l, <3>1, LookupType DEF Reget, Store, TypeOK
  <2>3. CASE flight[r].lookup.step # "off"
    <3>1. flight' = [flight EXCEPT ![r] = [flight[r] EXCEPT !.lookup = LookupNext(flight[r].lookup)]]
      BY <2>1, <2>3
    <3>2. LookupNext(flight[r].lookup) \in Lookups
      BY <1>7, <1>f, <2>3, LookupType DEF Reget
    <3> QED BY <1>7, <1>l, <3>1, <3>2 DEF Reget, Store, TypeOK
  <2> QED BY <2>2, <2>3
<1>8. CASE ReturnCached(r)
  BY <1>8, EndCachedType DEF ReturnCached, Store, TypeOK
<1>9. CASE ReturnUncached(r)
  BY <1>9, <1>f, EndFlightType DEF ReturnUncached, Store, TypeOK
<1>10. CASE BuildFails(r)
  BY <1>10, <1>f, EndFlightType DEF BuildFails, Fault, Store, TypeOK
<1>11. CASE CheckSignedFails(r)
  BY <1>11, GotoType DEF CheckSignedFails, FlightSteps, Fault, Store, TypeOK
<1>12. CASE PutFails(r)
  <2>1. Disturbed(flight)[r] \in Flights
    BY DisturbedType
  <2>2. [Disturbed(flight)[r] EXCEPT !.step = "stored", !.alone = FALSE] \in Flights
    BY <2>1 DEF Flights, FlightSteps
  <2>3. flight' = [Disturbed(flight) EXCEPT ![r] =
                      [Disturbed(flight)[r] EXCEPT !.step = "stored", !.alone = FALSE]]
    BY <1>12, DisturbedType DEF PutFails
  <2>4. flight' \in [Replicas -> Flights]
    BY <2>2, <2>3, DisturbedType
  <2>5. faults' \in Nat
    BY <1>12 DEF PutFails, Fault, TypeOK
  <2> QED BY <1>12, <2>4, <2>5 DEF PutFails, Store, TypeOK
<1>13. CASE RegetFails(r)
  <2>1. PICK l \in LookupFailure(flight[r].lookup) :
           flight' = [flight EXCEPT ![r] = [flight[r] EXCEPT !.lookup = l]]
    BY <1>13 DEF RegetFails
  <2>2. l \in Lookups
    BY <1>f, <2>1, LookupType
  <2> QED BY <1>13, <1>l, <2>1, <2>2 DEF RegetFails, Fault, Store, TypeOK
<1>14. CASE Crash(r)
  <2>1. ASSUME NEW c \in Clients PROVE Ended(request[c], "failed", NoContent) \in Requests
    BY <1>f, EndedType DEF TypeOK
  <2>2. request' \in [Clients -> Requests]
    BY <1>14, <2>1 DEF Crash, TypeOK
  <2>3. flight' \in [Replicas -> Flights]
    BY <1>14, DisturbedType DEF Crash
  <2> QED BY <1>14, <2>2, <2>3 DEF Crash, Fault, Store, TypeOK
<1> QED BY <1>1, <1>2, <1>3, <1>4, <1>5, <1>6, <1>7, <1>8, <1>9, <1>10, <1>11, <1>12, <1>13, <1>14
        DEF FlightStep, FlightFails

LEMMA NextType == TypeOK /\ FlightInv /\ [Next]_vars => TypeOK'
<1> SUFFICES ASSUME TypeOK, FlightInv, [Next]_vars PROVE TypeOK'
  OBVIOUS
<1>1. CASE UNCHANGED vars
  BY <1>1 DEF vars, Store, TypeOK
<1>2. CASE LoseObject
  <2>1. NoObject \in Objects /\ [object EXCEPT !.described = FALSE] \in Objects
    BY DEF NoObject, Objects, Maybe, TypeOK
  <2>2. object' \in Objects
    BY <1>2, <2>1 DEF LoseObject
  <2>3. flight' \in [Replicas -> Flights]
    BY <1>2, DisturbedType DEF LoseObject
  <2>4. faults' \in Nat
    BY <1>2 DEF LoseObject, Fault, TypeOK
  <2> QED BY <1>2, <2>2, <2>3, <2>4 DEF LoseObject, TypeOK
<1> QED BY <1>1, <1>2, AskType, ClientType, FlightType DEF Next

---------------------------------------------------------------------------
(* What look-ups, flights and requests know *)

\* A signature is never taken back.
LEMMA SignedGrows == TypeOK /\ [Next]_vars => Signed \subseteq Signed'
<1> SUFFICES ASSUME TypeOK, [Next]_vars PROVE Signed \subseteq Signed'
  OBVIOUS
<1>1. CASE \E r \in Replicas : Sign(r)
  <2>1. PICK r \in Replicas : Sign(r)
    BY <1>1
  <2>2. signatures' = [signatures EXCEPT ![flight[r].content] = @ + 1]
    BY <2>1 DEF Sign
  <2>3. ASSUME NEW d \in Contents, signatures[d] > 0 PROVE signatures'[d] > 0
    BY <2>2, <2>3 DEF TypeOK
  <2> QED BY <2>3 DEF Signed
<1>2. CASE ~ \E r \in Replicas : Sign(r)
  <2>1. signatures' = signatures
    <3>1. CASE UNCHANGED vars
      BY <3>1 DEF vars, Store
    <3>2. CASE \E c \in Clients, r \in Replicas : Ask(c, r)
      BY <3>2 DEF Ask, Store
    <3>3. ASSUME NEW c \in Clients, ClientStep(c) \/ LookupFails(c) \/ PresignFails(c)
          PROVE  signatures' = signatures
      BY <3>3 DEF ClientStep, Lookup, Hit, Refuse, Join, Read, Redirect, LookupFails, PresignFails, Store
    <3>4. ASSUME NEW r \in Replicas, FlightStep(r) \/ FlightFails(r)
          PROVE  signatures' = signatures
      BY <1>2, <3>4 DEF FlightStep, FlightFails, Build, Upload, PushTag, CheckSigned, ReturnBuilt, Reget,
         ReturnCached, ReturnUncached, BuildFails, CheckSignedFails, PutFails, RegetFails, Crash, Store
    <3>5. CASE LoseObject
      BY <3>5 DEF LoseObject
    <3> QED BY <3>1, <3>2, <3>3, <3>4, <3>5 DEF Next
  <2> QED BY <2>1 DEF Signed
<1> QED BY <1>1, <1>2

LEMMA LookupNextKnows ==
    ASSUME NEW l \in Lookups, Looking(l), LookupKnows(l)
    PROVE  LookupKnows(LookupNext(l)) /\ \A m \in LookupFailure(l) : LookupKnows(m)
<1>1. CASE l.step = "head"
  BY <1>1 DEF LookupNext, LookupKnows, LookupFailure, Step, Lookups
<1>2. CASE l.step = "verify"
  BY <1>2 DEF LookupNext, LookupKnows, LookupFailure, Step, Lookups
<1>3. CASE l.step = "stat"
  BY <1>3 DEF LookupNext, LookupKnows, LookupFailure, Step, Lookups
<1> QED BY <1>1, <1>2, <1>3 DEF Looking

LEMMA NextFlight == TypeOK /\ FlightInv /\ [Next]_vars => FlightInv'
<1> SUFFICES ASSUME TypeOK, FlightInv, [Next]_vars, NEW p \in Replicas
             PROVE  FlightKnows(flight[p])'
  BY DEF FlightInv
<1>s. Signed \subseteq Signed'
  BY SignedGrows
<1>p. FlightKnows(flight[p]) /\ flight[p] \in Flights
  BY DEF FlightInv, TypeOK
<1>a. ASSUME flight'[p].step = flight[p].step \/ flight'[p].step \notin Building
                \/ flight[p].step \in Building,
             flight'[p].content = flight[p].content, flight'[p].lookup = flight[p].lookup
      PROVE  FlightKnows(flight[p])'
  BY <1>p, <1>s, <1>a DEF FlightKnows, LookupKnows
<1>n. ASSUME flight'[p] = NoFlight PROVE FlightKnows(flight[p])'
  BY <1>n DEF FlightKnows, LookupKnows, NoFlight, NoLookup, Building
<1>d. /\ Disturbed(flight)[p].step = flight[p].step /\ Disturbed(flight)[p].content = flight[p].content
      /\ Disturbed(flight)[p].lookup = flight[p].lookup
  BY <1>p DEF Disturbed, Flights
<1>0. CASE flight' = flight
  BY <1>0, <1>a
<1>1. ASSUME NEW c \in Clients, Join(c) PROVE FlightKnows(flight[p])'
  <2> DEFINE r == request[c].at
  <2>1. CASE flight[r].step # "idle"
    <3>1. flight' = [flight EXCEPT ![r] = [flight[r] EXCEPT !.waiters = @ \cup {c}]]
      BY <1>1, <2>1 DEF Join
    <3> QED BY <1>a, <1>p, <3>1 DEF TypeOK, Flights
  <2>2. CASE flight[r].step = "idle"
    <3>1. PICK b \in BOOLEAN :
             flight' = [Disturbed(flight) EXCEPT ![r] =
                           [NoFlight EXCEPT !.step = "build", !.alone = b, !.waiters = {c}]]
      BY <1>1, <2>2 DEF Join
    <3>2. CASE p = r
      BY <3>1, <3>2, DisturbedType DEF FlightKnows, LookupKnows, NoFlight, NoLookup, Building
    <3>3. CASE p # r
      BY <1>a, <1>d, <3>1, <3>3, DisturbedType
    <3> QED BY <3>2, <3>3
  <2> QED BY <2>1, <2>2
<1>2. CASE LoseObject
  BY <1>a, <1>d, <1>2 DEF LoseObject
<1>3. ASSUME NEW r \in Replicas, FlightStep(r) \/ FlightFails(r)
      PROVE  FlightKnows(flight[p])'
  <2>e. ASSUME flight' = [flight EXCEPT ![r] = NoFlight] PROVE FlightKnows(flight[p])'
    BY <1>a, <1>n, <2>e DEF TypeOK
  <2>g. ASSUME NEW step \in FlightSteps, Goto(r, step), flight[r].step \in Building
        PROVE  FlightKnows(flight[p])'
    BY <1>a, <1>p, <2>g DEF Goto, TypeOK, Flights
  <2>l. ASSUME NEW l, flight' = [flight EXCEPT ![r] = [flight[r] EXCEPT !.lookup = l]],
               p = r => (l.step \in {"stat", "hit"} => l.digest \in Signed)
        PROVE  FlightKnows(flight[p])'
    <3>1. CASE p # r
      BY <1>a, <2>l, <3>1 DEF TypeOK
    <3>2. CASE p = r
      BY <1>p, <1>s, <2>l, <3>2 DEF TypeOK, Flights, FlightKnows, LookupKnows
    <3> QED BY <3>1, <3>2
  <2>1. CASE Build(r)
    <3>1. PICK d \in Contents :
             flight' = [flight EXCEPT ![r] = [flight[r] EXCEPT !.content = d,
                                                               !.step = IF WithS3 THEN "upload" ELSE "tag"]]
      BY <2>1 DEF Build
    <3>2. CASE p = r
      <4>1. flight'[p].content = d /\ flight'[p].lookup = flight[p].lookup
        BY <1>p, <3>1, <3>2 DEF TypeOK, Flights
      <4> QED BY <1>p, <1>s, <4>1 DEF FlightKnows, LookupKnows
    <3>3. CASE p # r
      BY <1>a, <3>1, <3>3 DEF TypeOK
    <3> QED BY <3>2, <3>3
  <2>2. CASE Upload(r)
    BY <2>g, <2>2 DEF Upload, At, Building, FlightSteps
  <2>3. CASE PushTag(r)
    BY <2>g, <2>3 DEF PushTag, At, Building, FlightSteps
  <2>4. CASE CheckSigned(r)
    BY <2>g, <2>4 DEF CheckSigned, At, Building, FlightSteps
  <2>5. CASE CheckSignedFails(r)
    BY <2>g, <2>5 DEF CheckSignedFails, At, Building, FlightSteps
  <2>6. CASE Sign(r)
    BY <2>g, <2>6 DEF Sign, At, Building, FlightSteps
  <2>7. CASE ReturnBuilt(r) \/ ReturnCached(r) \/ ReturnUncached(r) \/ BuildFails(r)
    BY <2>e, <2>7 DEF ReturnBuilt, ReturnCached, ReturnUncached, BuildFails, EndFlight, EndCached
  <2>8. CASE Reget(r)
    <3> DEFINE l == IF flight[r].lookup.step = "off" THEN NewLookup ELSE LookupNext(flight[r].lookup)
    <3>1. flight' = [flight EXCEPT ![r] = [flight[r] EXCEPT !.lookup = l]]
      BY <2>8 DEF Reget
    <3>2. p = r => LookupKnows(l)
      <4>1. CASE flight[r].lookup.step = "off"
        BY <4>1 DEF NewLookup, LookupKnows
      <4>2. CASE flight[r].lookup.step # "off"
        BY <1>p, <2>8, <4>2, LookupNextKnows DEF Reget, FlightKnows, Flights
      <4> QED BY <4>1, <4>2
    <3> HIDE DEF l
    <3> QED BY <2>l, <3>1, <3>2 DEF LookupKnows
  <2>9. CASE RegetFails(r)
    <3>1. PICK l \in LookupFailure(flight[r].lookup) :
             flight' = [flight EXCEPT ![r] = [flight[r] EXCEPT !.lookup = l]]
      BY <2>9 DEF RegetFails
    <3>2. p = r => LookupKnows(l)
      BY <1>p, <2>9, <3>1, LookupNextKnows DEF RegetFails, FlightKnows, Flights
    <3> QED BY <2>l, <3>1, <3>2 DEF LookupKnows
  <2>10. CASE PutFails(r)
    <3>1. flight' = [Disturbed(flight) EXCEPT ![r] =
                        [Disturbed(flight)[r] EXCEPT !.step = "stored", !.alone = FALSE]]
      BY <2>10 DEF PutFails
    <3>2. CASE p = r
      <4>1. Disturbed(flight)[p] \in Flights
        BY DisturbedType
      <4>2. flight'[p].content = flight[p].content /\ flight'[p].lookup = flight[p].lookup
        BY <1>d, <3>1, <3>2, <4>1, DisturbedType DEF Flights
      <4>3. flight[p].step \in Building
        BY <2>10, <3>2 DEF PutFails, Building
      <4> QED BY <1>a, <4>2, <4>3
    <3>3. CASE p # r
      BY <1>a, <1>d, <3>1, <3>3, DisturbedType
    <3> QED BY <3>2, <3>3
  <2>11. CASE Crash(r)
    <3>1. flight' = [Disturbed(flight) EXCEPT ![r] = NoFlight]
      BY <2>11 DEF Crash
    <3> QED BY <1>a, <1>d, <1>n, <3>1, DisturbedType
  <2> QED BY <1>3, <2>1, <2>2, <2>3, <2>4, <2>5, <2>6, <2>7, <2>8, <2>9, <2>10, <2>11
          DEF FlightStep, FlightFails
<1>4. CASE UNCHANGED vars
  BY <1>0, <1>4 DEF vars
<1>5. CASE \E c \in Clients, r \in Replicas : Ask(c, r)
  BY <1>0, <1>5 DEF Ask
<1>6. ASSUME NEW c \in Clients, ClientStep(c) \/ LookupFails(c) \/ PresignFails(c)
      PROVE  Join(c) \/ flight' = flight
  BY <1>6 DEF ClientStep, Lookup, Hit, Refuse, Read, Redirect, LookupFails, PresignFails
<1> QED BY <1>0, <1>1, <1>2, <1>3, <1>4, <1>5, <1>6 DEF Next

LEMMA NextRequest == TypeOK /\ FlightInv /\ RequestInv /\ [Next]_vars => RequestInv'
<1> SUFFICES ASSUME TypeOK, FlightInv, RequestInv, [Next]_vars, NEW p \in Clients
             PROVE  RequestKnows(request[p])'
  BY DEF RequestInv
<1>s. Signed \subseteq Signed'
  BY SignedGrows
<1>p. RequestKnows(request[p]) /\ request[p] \in Requests
  BY DEF RequestInv, TypeOK
<1>a. ASSUME request'[p] = request[p] PROVE RequestKnows(request[p])'
  BY <1>a, <1>p, <1>s DEF RequestKnows, LookupKnows
<1>e. ASSUME NEW result, NEW d, request'[p] = Ended(request[p], result, d),
             result = "read" => d \in Signed
      PROVE  RequestKnows(request[p])'
  <2>1. /\ request'[p].step = "done" /\ request'[p].result = result /\ request'[p].content = d
        /\ request'[p].lookup = request[p].lookup
    BY <1>e, <1>p DEF Ended, Requests
  <2> QED BY <1>e, <1>p, <1>s, <2>1 DEF RequestKnows, LookupKnows
<1>c. ASSUME NEW c \in Clients, NEW result, NEW d, End(c, result, d),
             p = c /\ result = "read" => d \in Signed
      PROVE  RequestKnows(request[p])'
  <2>1. CASE p = c
    BY <1>c, <1>e, <2>1 DEF End, TypeOK
  <2>2. CASE p # c
    BY <1>a, <1>c, <2>2 DEF End, TypeOK
  <2> QED BY <2>1, <2>2
<1>1. ASSUME NEW c \in Clients, NEW r \in Replicas, Ask(c, r) PROVE RequestKnows(request[p])'
  <2>1. CASE p = c
    BY <1>1, <2>1 DEF Ask, TypeOK, RequestKnows, LookupKnows, NewLookup
  <2>2. CASE p # c
    BY <1>1, <1>a, <2>2 DEF Ask, TypeOK
  <2> QED BY <2>1, <2>2
<1>2. ASSUME NEW c \in Clients, ClientStep(c) \/ LookupFails(c) \/ PresignFails(c)
      PROVE  RequestKnows(request[p])'
  <2>l. ASSUME NEW l, request' = [request EXCEPT ![c] = [request[c] EXCEPT !.lookup = l]],
               p = c => LookupKnows(l), request[c].step = "lookup"
        PROVE  RequestKnows(request[p])'
    <3>1. CASE p = c
      <4>1. /\ request'[p].step = "lookup" /\ request'[p].lookup = l
            /\ request'[p].result = request[p].result /\ request'[p].content = request[p].content
        BY <1>p, <2>l, <3>1 DEF TypeOK, Requests
      <4> QED BY <1>p, <1>s, <2>l, <3>1, <4>1 DEF RequestKnows, LookupKnows
    <3>2. CASE p # c
      BY <1>a, <2>l, <3>2 DEF TypeOK
    <3> QED BY <3>1, <3>2
  <2>s. ASSUME NEW step, request' = [request EXCEPT ![c] = [request[c] EXCEPT !.step = step]],
               p = c /\ step = "deliver" => request[c].lookup.step = "hit"
        PROVE  RequestKnows(request[p])'
    <3>1. CASE p = c
      <4>1. /\ request'[p].step = step /\ request'[p].lookup = request[p].lookup
            /\ request'[p].result = request[p].result /\ request'[p].content = request[p].content
        BY <1>p, <2>s, <3>1 DEF TypeOK, Requests
      <4> QED BY <1>p, <1>s, <2>s, <3>1, <4>1 DEF RequestKnows, LookupKnows
    <3>2. CASE p # c
      BY <1>a, <2>s, <3>2 DEF TypeOK
    <3> QED BY <3>1, <3>2
  <2>1. CASE Lookup(c)
    <3>1. request' = [request EXCEPT ![c] = [request[c] EXCEPT !.lookup = LookupNext(request[c].lookup)]]
      BY <2>1 DEF Lookup
    <3>2. p = c => LookupKnows(LookupNext(request[c].lookup))
      BY <1>p, <2>1, LookupNextKnows DEF Lookup, RequestKnows, Requests
    <3> QED BY <2>1, <2>l, <3>1, <3>2 DEF Lookup
  <2>2. CASE LookupFails(c)
    <3>1. PICK l \in LookupFailure(request[c].lookup) :
             request' = [request EXCEPT ![c] = [request[c] EXCEPT !.lookup = l]]
      BY <2>2 DEF LookupFails
    <3>2. p = c => LookupKnows(l)
      BY <1>p, <2>2, <3>1, LookupNextKnows DEF LookupFails, RequestKnows, Requests
    <3> QED BY <2>l, <2>2, <3>1, <3>2 DEF LookupFails
  <2>3. CASE Hit(c)
    BY <2>3, <2>s DEF Hit
  <2>4. CASE Refuse(c)
    BY <1>c, <2>4 DEF Refuse
  <2>5. CASE Join(c)
    BY <2>5, <2>s DEF Join
  <2>6. CASE Read(c)
    <3> DEFINE d == request[c].lookup.digest
    <3>1. p = c => d \in Signed
      BY <1>p, <2>6 DEF Read, RequestKnows, LookupKnows
    <3>2. CASE Reads(d)
      <4>1. End(c, "read", IF WithS3 THEN object.content ELSE d)
        BY <2>6, <3>2 DEF Read
      <4>2. (IF WithS3 THEN object.content ELSE d) = d
        BY <3>2 DEF Reads
      <4> QED BY <1>c, <3>1, <4>1, <4>2
    <3>3. CASE ~ Reads(d)
      BY <1>c, <2>6, <3>3 DEF Read
    <3> QED BY <3>2, <3>3
  <2>7. CASE Redirect(c) \/ PresignFails(c)
    BY <1>c, <2>7 DEF Redirect, PresignFails
  <2> QED BY <1>2, <2>1, <2>2, <2>3, <2>4, <2>5, <2>6, <2>7 DEF ClientStep
<1>3. ASSUME NEW r \in Replicas, FlightStep(r) \/ FlightFails(r)
      PROVE  RequestKnows(request[p])'
  <2>1. CASE request' = request
    BY <1>a, <2>1
  <2>2. ASSUME NEW result, NEW d, EndFlight(r, result, d), result # "read"
        PROVE  RequestKnows(request[p])'
    <3>1. CASE p \in flight[r].waiters
      BY <1>e, <2>2, <3>1 DEF EndFlight
    <3>2. CASE p \notin flight[r].waiters
      BY <1>a, <2>2, <3>2 DEF EndFlight
    <3> QED BY <3>1, <3>2
  <2>3. CASE ReturnBuilt(r) \/ ReturnUncached(r) \/ BuildFails(r)
    BY <2>2, <2>3 DEF ReturnBuilt, ReturnUncached, BuildFails
  <2>4. CASE ReturnCached(r)
    <3>1. CASE p \in flight[r].waiters
      <4>1. request'[p] = [request[p] EXCEPT !.step = "deliver", !.lookup = flight[r].lookup]
        BY <2>4, <3>1 DEF ReturnCached, EndCached
      <4>2. /\ request'[p].step = "deliver" /\ request'[p].lookup = flight[r].lookup
            /\ request'[p].result = request[p].result /\ request'[p].content = request[p].content
        BY <1>p, <4>1 DEF Requests
      <4>3. LookupKnows(flight[r].lookup) /\ flight[r].lookup.step = "hit"
        BY <2>4 DEF ReturnCached, FlightInv, FlightKnows
      <4> QED BY <1>p, <1>s, <4>2, <4>3 DEF RequestKnows, LookupKnows
    <3>2. CASE p \notin flight[r].waiters
      BY <1>a, <2>4, <3>2 DEF ReturnCached, EndCached
    <3> QED BY <3>1, <3>2
  <2>5. CASE Crash(r)
    <3>1. request'[p] = request[p] \/ request'[p] = Ended(request[p], "failed", NoContent)
      BY <2>5 DEF Crash
    <3> QED BY <1>a, <1>e, <3>1
  <2> QED BY <1>3, <2>1, <2>3, <2>4, <2>5
          DEF FlightStep, FlightFails, Build, Upload, PushTag, CheckSigned, Sign, Reget,
              CheckSignedFails, PutFails, RegetFails, Goto
<1>4. CASE UNCHANGED vars
  BY <1>4, <1>a DEF vars
<1>5. CASE LoseObject
  BY <1>5, <1>a DEF LoseObject
<1> QED BY <1>1, <1>2, <1>3, <1>4, <1>5 DEF Next

---------------------------------------------------------------------------
(* A flight that has had the cache to itself *)

\* A step that changes nothing a flight that is alone knows.
LEMMA AloneKept ==
    ASSUME TypeOK, AloneInv, Signed \subseteq Signed', flight' = flight, tag' = tag, object' = object
    PROVE  AloneInv'
BY DEF AloneInv, AloneKnows, Matches

LEMMA JoinAlone ==
    ASSUME TypeOK, AloneInv, Signed \subseteq Signed', NEW c \in Clients, Join(c)
    PROVE  AloneInv'
<1> DEFINE r == request[c].at
<1>1. r \in Replicas
  BY DEF TypeOK, Requests
<1>2. tag' = tag /\ object' = object
  BY DEF Join, Store
<1> SUFFICES ASSUME NEW p \in Replicas, flight'[p].alone
             PROVE  AloneKnows(flight[p])' /\ \A q \in Replicas \ {p} : flight'[q].step = "idle"
  BY DEF AloneInv, AloneKnows
<1>3. CASE flight[r].step # "idle"
  <2>1. flight' = [flight EXCEPT ![r] = [flight[r] EXCEPT !.waiters = @ \cup {c}]]
    BY <1>3 DEF Join
  <2>2. ASSUME NEW q \in Replicas
        PROVE  /\ flight'[q].step = flight[q].step /\ flight'[q].content = flight[q].content
               /\ flight'[q].alone = flight[q].alone
    BY <1>1, <2>1 DEF TypeOK, Flights
  <2> QED BY <1>2, <2>2 DEF AloneInv, AloneKnows, Matches
<1>4. CASE flight[r].step = "idle"
  <2> DEFINE others == \E q \in Replicas : flight[q].step # "idle"
             new    == [NoFlight EXCEPT !.step = "build", !.alone = ~others, !.waiters = {c}]
  <2>1. flight' = [Disturbed(flight) EXCEPT ![r] = new]
    BY <1>4 DEF Join
  <2>2. new.step = "build" /\ (new.alone <=> ~others)
    BY DEF NoFlight
  <2> HIDE DEF new
  <2>3. ASSUME NEW q \in Replicas, q # r
        PROVE  flight'[q].alone = FALSE /\ flight'[q].step = flight[q].step
    BY <2>1, <2>3, DisturbedType DEF Disturbed, TypeOK, Flights
  <2>4. p = r /\ flight'[p] = new
    BY <1>1, <2>1, <2>3, DisturbedType
  <2> QED BY <2>2, <2>3, <2>4 DEF AloneKnows, Building
<1> QED BY <1>3, <1>4

\* Whoever else acts is not idle, so a flight that is alone acts itself.
LEMMA FlightAlone ==
    ASSUME TypeOK, FlightInv, AloneInv, Signed \subseteq Signed', NEW r \in Replicas,
           FlightStep(r) \/ FlightFails(r)
    PROVE  AloneInv'
<1> SUFFICES ASSUME NEW p \in Replicas, flight'[p].alone
             PROVE  AloneKnows(flight[p])' /\ \A q \in Replicas \ {p} : flight'[q].step = "idle"
  BY DEF AloneInv, AloneKnows
<1>f. flight[r] \in Flights
  BY DEF TypeOK
<1>k. AloneKnows(flight[r]) /\ FlightKnows(flight[r])
  BY DEF AloneInv, FlightInv
<1>1. ~ Crash(r)
  <2> SUFFICES ASSUME Crash(r) PROVE FALSE
    OBVIOUS
  <2>1. flight' = [Disturbed(flight) EXCEPT ![r] = NoFlight]
    BY DEF Crash
  <2>2. CASE p = r
    BY <2>1, <2>2, DisturbedType DEF NoFlight
  <2>3. CASE p # r
    BY <2>1, <2>3, DisturbedType DEF Disturbed, TypeOK, Flights
  <2> QED BY <2>2, <2>3
<1>2. ~ PutFails(r)
  <2> SUFFICES ASSUME PutFails(r) PROVE FALSE
    OBVIOUS
  <2>1. flight' = [Disturbed(flight) EXCEPT ![r] =
                      [Disturbed(flight)[r] EXCEPT !.step = "stored", !.alone = FALSE]]
    BY DisturbedType DEF PutFails
  <2>2. CASE p = r
    <3>1. Disturbed(flight)[r] \in Flights
      BY DisturbedType
    <3> QED BY <2>1, <2>2, <3>1, DisturbedType DEF Flights
  <2>3. CASE p # r
    BY <2>1, <2>3, DisturbedType DEF Disturbed, TypeOK, Flights
  <2> QED BY <2>2, <2>3
<1>3. flight[r].step # "idle" /\ \A q \in Replicas \ {r} : flight'[q] = flight[q]
  BY <1>1, <1>2 DEF FlightStep, FlightFails, Build, Upload, PushTag, CheckSigned, Sign, ReturnBuilt,
     Reget, ReturnCached, ReturnUncached, BuildFails, CheckSignedFails, RegetFails, At, Goto,
     EndFlight, EndCached, TypeOK
<1>4. p = r /\ \A q \in Replicas \ {p} : flight'[q].step = "idle"
  <2>1. p = r
    BY <1>3 DEF AloneInv
  <2>2. flight'[r] # NoFlight
    BY <2>1 DEF NoFlight
  <2>3. flight[r].alone
    <3>1. CASE Build(r)
      <4>1. PICK d : flight' = [flight EXCEPT ![r] = [flight[r] EXCEPT !.content = d,
                                    !.step = IF WithS3 THEN "upload" ELSE "tag"]]
        BY <3>1 DEF Build
      <4> QED BY <1>f, <2>1, <4>1 DEF TypeOK, Flights
    <3>2. CASE Reget(r) \/ RegetFails(r)
      <4>1. PICK l : flight' = [flight EXCEPT ![r] = [flight[r] EXCEPT !.lookup = l]]
        BY <3>2 DEF Reget, RegetFails
      <4> QED BY <1>f, <2>1, <4>1 DEF TypeOK, Flights
    <3>3. ASSUME NEW step, Goto(r, step) PROVE flight[r].alone
      BY <1>f, <2>1, <3>3 DEF Goto, TypeOK, Flights
    <3>4. CASE Upload(r) \/ PushTag(r) \/ CheckSigned(r) \/ CheckSignedFails(r) \/ Sign(r)
      BY <3>3, <3>4 DEF Upload, PushTag, CheckSigned, CheckSignedFails, Sign
    <3>5. ~ (ReturnBuilt(r) \/ ReturnUncached(r) \/ BuildFails(r) \/ ReturnCached(r))
      <4>1. flight'[r] # NoFlight => flight' # [flight EXCEPT ![r] = NoFlight]
        BY DEF TypeOK
      <4> QED BY <2>2, <4>1 DEF ReturnBuilt, ReturnUncached, BuildFails, ReturnCached, EndFlight,
                               EndCached
    <3> QED BY <1>1, <1>2, <3>1, <3>2, <3>4, <3>5 DEF FlightStep, FlightFails
  <2> QED BY <1>3, <2>1, <2>3 DEF AloneInv
<1>5. AloneKnows(flight[r])'
  <2>g. ASSUME NEW step, Goto(r, step)
        PROVE  /\ flight'[r].step = step /\ flight'[r].content = flight[r].content
               /\ flight'[r].alone = flight[r].alone
    BY <1>f, <2>g DEF Goto, TypeOK, Flights
  <2>1. CASE Build(r)
    <3>1. flight'[r].step = IF WithS3 THEN "upload" ELSE "tag"
      BY <1>f, <2>1 DEF Build, TypeOK, Flights
    <3> QED BY <3>1 DEF AloneKnows
  <2>2. CASE Upload(r)
    <3>1. /\ flight'[r].step = "tag" /\ flight'[r].content = flight[r].content
          /\ object'.content = flight[r].content /\ object'.described = TRUE
      BY <2>2, <2>g DEF Upload
    <3> QED BY <3>1 DEF AloneKnows, Matches
  <2>3. CASE PushTag(r)
    <3>1. /\ flight'[r].step = "check" /\ flight'[r].content = flight[r].content
          /\ flight'[r].alone = flight[r].alone
          /\ object' = object /\ tag' = flight[r].content /\ flight[r].step = "tag"
      BY <2>3, <2>g DEF PushTag, At
    <3> QED BY <1>k, <3>1 DEF AloneKnows, Matches, Building
  <2>4. CASE CheckSigned(r) \/ CheckSignedFails(r)
    <3>1. /\ flight'[r].content = flight[r].content
          /\ flight'[r].alone = flight[r].alone
          /\ object' = object /\ tag' = tag /\ flight[r].step = "check"
          /\ flight'[r].step = "sign" \/ (flight'[r].step = "stored" /\ flight[r].content \in Signed)
      <4>1. CASE flight[r].content \in Signed
        BY <2>4, <2>g, <4>1 DEF CheckSigned, CheckSignedFails, Store, At
      <4>2. CASE flight[r].content \notin Signed
        BY <2>4, <2>g, <4>2 DEF CheckSigned, CheckSignedFails, Store, At
      <4> QED BY <4>1, <4>2
    <3> QED BY <1>k, <3>1 DEF AloneKnows, Matches, Building
  <2>5. CASE Sign(r)
    <3>1. /\ flight'[r].content = flight[r].content
          /\ flight'[r].alone = flight[r].alone /\ flight'[r].step = "stored"
          /\ object' = object /\ tag' = tag /\ flight[r].step = "sign"
      BY <2>5, <2>g DEF Sign, At
    <3>2. flight[r].content \in Contents
      BY <1>k, <3>1 DEF FlightKnows, Building
    <3>3. signatures'[flight[r].content] = signatures[flight[r].content] + 1
      BY <2>5, <3>2 DEF Sign, TypeOK
    <3>4. flight[r].content \in Signed'
      BY <3>2, <3>3 DEF Signed, TypeOK
    <3> QED BY <1>k, <3>1, <3>4 DEF AloneKnows, Matches, Building
  <2>6. CASE Reget(r) \/ RegetFails(r)
    <3>1. /\ flight'[r].content = flight[r].content
          /\ flight'[r].alone = flight[r].alone /\ flight'[r].step = flight[r].step
      BY <1>f, <2>6 DEF Reget, RegetFails, TypeOK, Flights
    <3>2. object' = object /\ tag' = tag
      BY <2>6 DEF Reget, RegetFails, Store
    <3> QED BY <1>k, <3>1, <3>2 DEF AloneKnows, Matches
  <2>7. CASE ReturnBuilt(r) \/ ReturnCached(r) \/ ReturnUncached(r) \/ BuildFails(r)
    <3>1. flight'[r] = NoFlight
      BY <2>7 DEF ReturnBuilt, ReturnCached, ReturnUncached, BuildFails, EndFlight, EndCached, TypeOK
    <3> QED BY <3>1 DEF AloneKnows, NoFlight
  <2> QED BY <1>1, <1>2, <2>1, <2>2, <2>3, <2>4, <2>5, <2>6, <2>7 DEF FlightStep, FlightFails
<1> QED BY <1>4, <1>5

LEMMA NextAlone == TypeOK /\ FlightInv /\ AloneInv /\ [Next]_vars => AloneInv'
<1> SUFFICES ASSUME TypeOK, FlightInv, AloneInv, [Next]_vars PROVE AloneInv'
  OBVIOUS
<1>s. Signed \subseteq Signed'
  BY SignedGrows
<1>1. CASE UNCHANGED vars
  BY <1>1, <1>s, AloneKept DEF vars, Store
<1>2. CASE \E c \in Clients, r \in Replicas : Ask(c, r)
  BY <1>2, <1>s, AloneKept DEF Ask, Store
<1>3. ASSUME NEW c \in Clients, ClientStep(c) \/ LookupFails(c) \/ PresignFails(c)
      PROVE  AloneInv'
  <2>1. CASE Join(c)
    BY <1>s, <2>1, JoinAlone
  <2>2. CASE ~ Join(c)
    <3>1. flight' = flight /\ tag' = tag /\ object' = object
      BY <1>3, <2>2 DEF ClientStep, Lookup, Hit, Refuse, Read, Redirect, LookupFails, PresignFails, Store
    <3> QED BY <1>s, <3>1, AloneKept
  <2> QED BY <2>1, <2>2
<1>4. ASSUME NEW r \in Replicas, FlightStep(r) \/ FlightFails(r) PROVE AloneInv'
  BY <1>4, <1>s, FlightAlone
<1>5. CASE LoseObject
  <2>1. ASSUME NEW r \in Replicas PROVE flight'[r].alone = FALSE
    BY <1>5 DEF LoseObject, Disturbed, TypeOK, Flights
  <2> QED BY <2>1 DEF AloneInv, AloneKnows
<1> QED BY <1>1, <1>2, <1>3, <1>4, <1>5 DEF Next

---------------------------------------------------------------------------
(* Signatures are accounted for *)

LEMMA SigningType ==
    ASSUME NEW d
    PROVE  /\ IsFiniteSet(Signing(d)) /\ Cardinality(Signing(d)) \in Nat
           /\ Cardinality(Replicas) \in Nat /\ Cardinality(Signing(d)) <= Cardinality(Replicas)
<1>1. Signing(d) \subseteq Replicas
  BY DEF Signing
<1> QED BY <1>1, FS_Subset, FS_CardinalityType, CacheAssumption

\* The same at the end of a step.
LEMMA SigningTypeNext ==
    ASSUME NEW d
    PROVE  /\ IsFiniteSet(Signing(d)') /\ Cardinality(Signing(d)') \in Nat
           /\ Cardinality(Signing(d)') <= Cardinality(Replicas)
<1>1. Signing(d)' \subseteq Replicas
  BY DEF Signing
<1> QED BY <1>1, FS_Subset, FS_CardinalityType, CacheAssumption

LEMMA CountKept ==
    ASSUME TypeOK, TypeOK', NEW d \in Contents, Accounted(d),
           Signing(d)' \subseteq Signing(d), signatures' = signatures, faults' >= faults
    PROVE  Accounted(d)'
<1>1. Cardinality(Signing(d)') \in Nat /\ Cardinality(Signing(d)') <= Cardinality(Signing(d))
  BY SigningType, SigningTypeNext, FS_Subset
<1> QED BY <1>1, SigningType DEF Accounted, TypeOK

\* Only a flight that has just looked for a signature begins to sign.
LEMMA NoNewSigner ==
    ASSUME TypeOK, FlightInv, [Next]_vars, NEW p \in Replicas,
           ~ CheckSigned(p), ~ CheckSignedFails(p), flight'[p].step = "sign"
    PROVE  flight[p].step = "sign" /\ flight'[p].content = flight[p].content
<1>p. flight[p] \in Flights
  BY DEF TypeOK
<1>d. ASSUME NEW r \in Replicas, flight'[r] = flight[r] \/ flight'[r] = Disturbed(flight)[r]
      PROVE  flight'[r].step = flight[r].step /\ flight'[r].content = flight[r].content
  BY <1>d DEF Disturbed, TypeOK, Flights
<1>0. CASE flight' = flight
  BY <1>0
<1>1. ASSUME NEW c \in Clients, Join(c)
      PROVE  flight[p].step = "sign" /\ flight'[p].content = flight[p].content
  <2> DEFINE r == request[c].at
  <2>1. CASE flight[r].step # "idle"
    <3>1. flight' = [flight EXCEPT ![r] = [flight[r] EXCEPT !.waiters = @ \cup {c}]]
      BY <1>1, <2>1 DEF Join
    <3> QED BY <1>p, <3>1 DEF TypeOK, Flights
  <2>2. CASE flight[r].step = "idle"
    <3>1. PICK b \in BOOLEAN :
             flight' = [Disturbed(flight) EXCEPT ![r] =
                           [NoFlight EXCEPT !.step = "build", !.alone = b, !.waiters = {c}]]
      BY <1>1, <2>2 DEF Join
    <3>2. p # r
      BY <3>1, DisturbedType DEF NoFlight
    <3> QED BY <1>d, <3>1, <3>2, DisturbedType
  <2> QED BY <2>1, <2>2
<1>2. CASE LoseObject
  BY <1>2, <1>d DEF LoseObject
<1>3. ASSUME NEW r \in Replicas, FlightStep(r) \/ FlightFails(r)
      PROVE  flight[p].step = "sign" /\ flight'[p].content = flight[p].content
  <2>g. ASSUME NEW step, step # "sign" \/ p # r, Goto(r, step)
        PROVE  flight[p].step = "sign" /\ flight'[p].content = flight[p].content
    BY <1>p, <2>g DEF Goto, TypeOK, Flights
  <2>1. CASE Build(r)
    <3>1. p # r
      BY <1>p, <2>1 DEF Build, TypeOK, Flights
    <3> QED BY <2>1, <3>1 DEF Build, TypeOK
  <2>2. CASE Upload(r) \/ PushTag(r) \/ Sign(r)
    BY <2>2, <2>g DEF Upload, PushTag, Sign
  <2>3. CASE CheckSigned(r) \/ CheckSignedFails(r)
    BY <2>3, <2>g DEF CheckSigned, CheckSignedFails
  <2>4. CASE ReturnBuilt(r) \/ ReturnCached(r) \/ ReturnUncached(r) \/ BuildFails(r)
    <3>1. flight' = [flight EXCEPT ![r] = NoFlight]
      BY <2>4 DEF ReturnBuilt, ReturnCached, ReturnUncached, BuildFails, EndFlight, EndCached
    <3> QED BY <1>d, <3>1 DEF NoFlight, TypeOK
  <2>5. CASE Reget(r) \/ RegetFails(r)
    BY <1>p, <2>5 DEF Reget, RegetFails, TypeOK, Flights
  <2>6. CASE PutFails(r)
    <3>1. flight' = [Disturbed(flight) EXCEPT ![r] =
                        [Disturbed(flight)[r] EXCEPT !.step = "stored", !.alone = FALSE]]
      BY <2>6 DEF PutFails
    <3>2. Disturbed(flight)[r] \in Flights
      BY DisturbedType
    <3>3. p # r
      BY <3>1, <3>2, DisturbedType DEF Flights
    <3> QED BY <1>d, <3>1, <3>3, DisturbedType
  <2>7. CASE Crash(r)
    <3>1. flight' = [Disturbed(flight) EXCEPT ![r] = NoFlight]
      BY <2>7 DEF Crash
    <3> QED BY <1>d, <3>1, DisturbedType DEF NoFlight
  <2> QED BY <1>3, <2>1, <2>2, <2>3, <2>4, <2>5, <2>6, <2>7 DEF FlightStep, FlightFails
<1>4. CASE UNCHANGED vars
  BY <1>0, <1>4 DEF vars
<1>5. CASE \E c \in Clients, r \in Replicas : Ask(c, r)
  BY <1>0, <1>5 DEF Ask
<1>6. ASSUME NEW c \in Clients, ClientStep(c) \/ LookupFails(c) \/ PresignFails(c)
      PROVE  Join(c) \/ flight' = flight
  BY <1>6 DEF ClientStep, Lookup, Hit, Refuse, Read, Redirect, LookupFails, PresignFails
<1> QED BY <1>0, <1>1, <1>2, <1>3, <1>4, <1>5, <1>6 DEF Next

LEMMA NextCount == IInv /\ TypeOK' /\ [Next]_vars => CountInv'
<1> SUFFICES ASSUME IInv, TypeOK', [Next]_vars, NEW d \in Contents
             PROVE  Accounted(d)'
  BY DEF CountInv
<1>i. TypeOK /\ FlightInv /\ Accounted(d)
  BY DEF IInv, CountInv
<1>t. /\ signatures[d] \in Nat /\ signatures'[d] \in Nat /\ faults \in Nat /\ faults' \in Nat
  BY <1>i DEF TypeOK
<1>1. ASSUME NEW r \in Replicas, CheckSigned(r) PROVE Accounted(d)'
  <2>1. signatures' = signatures /\ faults' = faults
    BY <1>1 DEF CheckSigned, Store
  <2>2. \A q \in Replicas \ {r} : flight'[q] = flight[q]
    BY <1>1, <1>i DEF CheckSigned, Goto, TypeOK
  <2>3. CASE flight[r].content = d /\ d \notin Signed
    <3>1. signatures[d] = 0
      BY <1>t, <2>3 DEF Signed
    <3> QED BY <1>t, <2>1, <3>1, SigningType, SigningTypeNext DEF Accounted
  <2>4. CASE ~ (flight[r].content = d /\ d \notin Signed)
    <3>1. ~ (flight'[r].step = "sign" /\ flight'[r].content = d)
      <4>1. CASE flight[r].content \in Signed
        <5>1. flight'[r].step = "stored"
          BY <1>1, <1>i, <4>1 DEF CheckSigned, Goto, TypeOK, Flights
        <5> QED BY <5>1
      <4>2. CASE flight[r].content \notin Signed
        <5>1. flight'[r].content = flight[r].content
          BY <1>1, <1>i, <4>2 DEF CheckSigned, Goto, TypeOK, Flights
        <5> QED BY <2>4, <4>2, <5>1
      <4> QED BY <4>1, <4>2
    <3>2. Signing(d)' \subseteq Signing(d)
      BY <2>2, <3>1 DEF Signing
    <3> QED BY <1>i, <1>t, <2>1, <3>2, CountKept
  <2> QED BY <2>3, <2>4
<1>2. ASSUME NEW r \in Replicas, CheckSignedFails(r) PROVE Accounted(d)'
  <2>1. signatures' = signatures /\ faults' = faults + 1
    BY <1>2 DEF CheckSignedFails, Store, Fault
  <2>2. Signing(d)' \subseteq Signing(d) \cup {r}
    BY <1>2, <1>i DEF CheckSignedFails, Goto, TypeOK, Signing
  <2>3. /\ IsFiniteSet(Signing(d) \cup {r})
        /\ Cardinality(Signing(d) \cup {r}) <= Cardinality(Signing(d)) + 1
        /\ Cardinality(Signing(d) \cup {r}) \in Nat
    BY SigningType, FS_AddElement, FS_CardinalityType
  <2>4. Cardinality(Signing(d)') <= Cardinality(Signing(d) \cup {r})
    BY <2>2, <2>3, FS_Subset
  <2> QED BY <1>i, <1>t, <2>1, <2>3, <2>4, SigningType, SigningTypeNext DEF Accounted
<1>3. ASSUME NEW r \in Replicas, Sign(r) PROVE Accounted(d)'
  <2>1. signatures' = [signatures EXCEPT ![flight[r].content] = @ + 1] /\ faults' = faults
    BY <1>3 DEF Sign
  <2>2. Signing(d)' = Signing(d) \ {r}
    BY <1>3, <1>i DEF Sign, Goto, TypeOK, Flights, Signing
  <2>3. CASE flight[r].content = d
    <3>1. r \in Signing(d)
      BY <1>3, <2>3 DEF Sign, At, Signing
    <3>2. Cardinality(Signing(d)') = Cardinality(Signing(d)) - 1
      BY <2>2, <3>1, SigningType, FS_RemoveElement
    <3>3. signatures'[d] = signatures[d] + 1
      BY <1>i, <2>1, <2>3 DEF TypeOK
    <3> QED BY <1>i, <1>t, <2>1, <3>2, <3>3, SigningType DEF Accounted
  <2>4. CASE flight[r].content # d
    <3>1. signatures'[d] = signatures[d]
      BY <1>i, <2>1, <2>4 DEF TypeOK
    <3>2. Cardinality(Signing(d)') <= Cardinality(Signing(d))
      BY <2>2, SigningType, FS_Subset
    <3> QED BY <1>i, <1>t, <2>1, <3>1, <3>2, SigningType, SigningTypeNext DEF Accounted
  <2> QED BY <2>3, <2>4
<1>4. CASE ~ \E r \in Replicas : CheckSigned(r) \/ CheckSignedFails(r) \/ Sign(r)
  <2>1. Signing(d)' \subseteq Signing(d)
    BY <1>4, <1>i, NoNewSigner DEF Signing
  <2>2. signatures' = signatures /\ faults' >= faults
    <3>1. CASE UNCHANGED vars
      BY <1>t, <3>1 DEF vars, Store
    <3>2. CASE \E c \in Clients, r \in Replicas : Ask(c, r)
      BY <1>t, <3>2 DEF Ask, Store
    <3>3. ASSUME NEW c \in Clients, ClientStep(c) \/ LookupFails(c) \/ PresignFails(c)
          PROVE  signatures' = signatures /\ faults' >= faults
      BY <1>t, <3>3 DEF ClientStep, Lookup, Hit, Refuse, Join, Read, Redirect, LookupFails,
         PresignFails, Store, Fault
    <3>4. ASSUME NEW r \in Replicas, FlightStep(r) \/ FlightFails(r)
          PROVE  signatures' = signatures /\ faults' >= faults
      BY <1>4, <1>t, <3>4 DEF FlightStep, FlightFails, Build, Upload, PushTag, ReturnBuilt, Reget,
         ReturnCached, ReturnUncached, BuildFails, PutFails, RegetFails, Crash, Store, Fault
    <3>5. CASE LoseObject
      BY <1>t, <3>5 DEF LoseObject, Fault
    <3> QED BY <3>1, <3>2, <3>3, <3>4, <3>5 DEF Next
  <2> QED BY <1>i, <2>1, <2>2, CountKept
<1> QED BY <1>1, <1>2, <1>3, <1>4

---------------------------------------------------------------------------
(* The theorems *)

LEMMA NextInv == IInv /\ [Next]_vars => IInv'
BY NextType, NextFlight, NextRequest, NextAlone, NextCount DEF IInv

LEMMA Invariance == Spec => []IInv
BY InitInv, NextInv, PTL DEF Spec

\* Type correctness of the asset cache under its racing replicas.
THEOREM TypeCorrect == Spec => []TypeOK
<1>1. IInv => TypeOK
  BY DEF IInv
<1> QED BY <1>1, Invariance, PTL

LEMMA CacheSafe == IInv => ReadIsSigned /\ RebuildRepairs /\ SignaturesBounded
<1>1. IInv => ReadIsSigned
  BY DEF IInv, RequestInv, RequestKnows, ReadIsSigned
<1>2. IInv => RebuildRepairs
  BY DEF IInv, AloneInv, AloneKnows, RebuildRepairs, Hits, At, Building
<1>3. IInv => SignaturesBounded
  <2> SUFFICES ASSUME IInv, NEW d \in Contents
               PROVE  signatures[d] <= Cardinality(Replicas) + faults
    BY DEF SignaturesBounded
  <2>1. Accounted(d) /\ signatures[d] \in Nat /\ faults \in Nat
    BY DEF IInv, CountInv, TypeOK
  <2> QED BY <2>1, SigningType DEF Accounted
<1> QED BY <1>1, <1>2, <1>3

\* The bytes the service reads from the cache, by the ETag or the digest the
\* signed tag gave it, are bytes some replica has signed.
THEOREM ReadSigned == Spec => []ReadIsSigned
BY CacheSafe, Invariance, PTL

\* A build that had the cache to itself leaves there what the next Get finds,
\* whatever was there before.
THEOREM Repairs == Spec => []RebuildRepairs
BY CacheSafe, Invariance, PTL

\* Put does not sign a manifest that is signed, so the signatures of one are
\* bounded by the replicas that raced for it and the errors there were.
THEOREM FewSignatures == Spec => []SignaturesBounded
BY CacheSafe, Invariance, PTL

-----------------------------------------------------------------------------
(* Nobody is forgotten *)

Waits(c, r) == request[c].step = "wait" /\ request[c].at = r

\* Who waits at a replica is known to its flight, and the flight runs.
WaitersKnown ==
    /\ \A r \in Replicas, c \in Clients : c \in flight[r].waiters <=> Waits(c, r)
    /\ \A r \in Replicas : flight[r].waiters # {} => flight[r].step # "idle"

\* The flights keep their waiters, and nobody begins or ends to wait.
LEMMA WaitersStay ==
    ASSUME WaitersKnown,
           \A r \in Replicas : flight'[r].waiters = flight[r].waiters,
           \A r \in Replicas : flight'[r].step = "idle" => flight[r].step = "idle",
           \A c \in Clients : request'[c] = request[c]
                              \/ (request[c].step # "wait" /\ request'[c].step # "wait")
    PROVE  WaitersKnown'
BY DEF WaitersKnown, Waits

\* The flight of a replica is gone, and nobody waits there.
LEMMA WaitersLeave ==
    ASSUME TypeOK, WaitersKnown, NEW r \in Replicas,
           flight'[r] = NoFlight,
           \A q \in Replicas \ {r} : /\ flight'[q].waiters = flight[q].waiters
                                     /\ flight'[q].step = flight[q].step,
           \A c \in Clients : (request'[c] = request[c] /\ ~Waits(c, r))
                              \/ (request'[c].step # "wait" /\ (request[c].step = "wait" => request[c].at = r))
    PROVE  WaitersKnown'
<1>1. flight'[r].waiters = {}
  BY DEF NoFlight
<1>2. ASSUME NEW c \in Clients PROVE ~Waits(c, r)' /\ \A q \in Replicas \ {r} : Waits(c, q)' <=> Waits(c, q)
  BY DEF Waits
<1> QED BY <1>1, <1>2 DEF WaitersKnown

LEMMA EndFlightWaiters ==
    ASSUME TypeOK, WaitersKnown, NEW r \in Replicas, NEW result, NEW d, EndFlight(r, result, d)
    PROVE  WaitersKnown'
<1>1. \A q \in Requests : Ended(q, result, d).step # "wait"
  BY DEF Ended, Requests
<1>2. ASSUME NEW c \in Clients, c \in flight[r].waiters
      PROVE  request'[c].step # "wait" /\ request[c].at = r
  <2>1. request[c] \in Requests /\ request[c].at = r
    BY <1>2 DEF TypeOK, WaitersKnown, Waits
  <2>2. request'[c] = Ended(request[c], result, d)
    BY <1>2 DEF EndFlight
  <2> QED BY <1>1, <2>1, <2>2
<1>3. ASSUME NEW c \in Clients, c \notin flight[r].waiters
      PROVE  request'[c] = request[c] /\ ~Waits(c, r)
  BY <1>3 DEF EndFlight, WaitersKnown
<1>4. flight'[r] = NoFlight /\ \A q \in Replicas \ {r} : flight'[q] = flight[q]
  BY DEF EndFlight, TypeOK
<1> QED BY <1>2, <1>3, <1>4, WaitersLeave

LEMMA EndCachedWaiters ==
    ASSUME TypeOK, WaitersKnown, NEW r \in Replicas, EndCached(r)
    PROVE  WaitersKnown'
<1>1. ASSUME NEW c \in Clients, c \in flight[r].waiters
      PROVE  request'[c].step # "wait" /\ request[c].at = r
  <2>1. request[c] \in Requests /\ request[c].at = r
    BY <1>1 DEF TypeOK, WaitersKnown, Waits
  <2>2. request'[c] = [request[c] EXCEPT !.step = "deliver", !.lookup = flight[r].lookup]
    BY <1>1 DEF EndCached
  <2> QED BY <2>1, <2>2 DEF Requests
<1>2. ASSUME NEW c \in Clients, c \notin flight[r].waiters
      PROVE  request'[c] = request[c] /\ ~Waits(c, r)
  BY <1>2 DEF EndCached, WaitersKnown
<1>3. flight'[r] = NoFlight /\ \A q \in Replicas \ {r} : flight'[q] = flight[q]
  BY DEF EndCached, TypeOK
<1> QED BY <1>1, <1>2, <1>3, WaitersLeave

LEMMA GotoWaiters ==
    ASSUME TypeOK, WaitersKnown, NEW r \in Replicas, NEW step, step # "idle", Goto(r, step)
    PROVE  WaitersKnown'
<1>1. \A q \in Replicas : flight'[q].waiters = flight[q].waiters
  BY DEF Goto, TypeOK, Flights
<1>2. \A q \in Replicas : flight'[q].step = "idle" => flight[q].step = "idle"
  BY DEF Goto, TypeOK, Flights
<1> QED BY <1>1, <1>2, WaitersStay DEF Goto

\* Losing the cache to others changes nothing for those who wait.
LEMMA DisturbedWaiters ==
    ASSUME TypeOK, NEW r \in Replicas
    PROVE  /\ Disturbed(flight)[r].waiters = flight[r].waiters
           /\ Disturbed(flight)[r].step = flight[r].step
           /\ Disturbed(flight)[r] \in Flights
<1>1. flight[r] \in Flights /\ Disturbed(flight)[r] = [flight[r] EXCEPT !.alone = FALSE]
  BY DEF Disturbed, TypeOK
<1> QED BY <1>1 DEF Flights

LEMMA WaitersFlight ==
    ASSUME TypeOK, WaitersKnown, NEW r \in Replicas, FlightStep(r) \/ FlightFails(r)
    PROVE  WaitersKnown'
<1>0. flight \in [Replicas -> Flights]
  BY DEF TypeOK
<1>1. CASE Upload(r) \/ PushTag(r) \/ CheckSigned(r) \/ CheckSignedFails(r) \/ Sign(r)
  <2>1. PICK step \in {"tag", "check", "stored", "sign"} : Goto(r, step)
    BY <1>1 DEF Upload, PushTag, CheckSigned, CheckSignedFails, Sign
  <2> QED BY <2>1, GotoWaiters
<1>2. CASE Build(r) \/ Reget(r) \/ RegetFails(r)
  <2>1. request' = request /\ \A q \in Replicas \ {r} : flight'[q] = flight[q]
    BY <1>0, <1>2 DEF Build, Reget, RegetFails
  <2>2. flight'[r].waiters = flight[r].waiters /\ flight'[r].step # "idle"
    <3>1. CASE Build(r)
      BY <1>0, <3>1 DEF Build, Flights
    <3>2. CASE Reget(r) \/ RegetFails(r)
      <4>1. PICK l : flight' = [flight EXCEPT ![r].lookup = l]
        BY <3>2 DEF Reget, RegetFails
      <4>2. At(r, "stored")
        BY <3>2 DEF Reget, RegetFails
      <4> QED BY <1>0, <4>1, <4>2 DEF Flights, At
    <3> QED BY <1>2, <3>1, <3>2
  <2> QED BY <2>1, <2>2, WaitersStay
<1>3. CASE PutFails(r)
  <2>1. flight' = [Disturbed(flight) EXCEPT ![r].step = "stored", ![r].alone = FALSE]
    BY <1>3 DEF PutFails
  <2>2. \A q \in Replicas \ {r} : flight'[q] = Disturbed(flight)[q]
    BY <2>1 DEF Disturbed
  <2>3. flight'[r] = [Disturbed(flight)[r] EXCEPT !.step = "stored", !.alone = FALSE]
    BY <2>1 DEF Disturbed
  <2>4. flight'[r].waiters = flight[r].waiters /\ flight'[r].step = "stored"
    BY <2>3, DisturbedWaiters DEF Flights
  <2>5. \A q \in Replicas : /\ flight'[q].waiters = flight[q].waiters
                            /\ flight'[q].step = "idle" => flight[q].step = "idle"
    BY <2>2, <2>4, DisturbedWaiters
  <2>6. request' = request
    BY <1>3 DEF PutFails
  <2> QED BY <2>5, <2>6, WaitersStay
<1>4. CASE BuildFails(r) \/ ReturnBuilt(r) \/ ReturnUncached(r)
  BY <1>4, EndFlightWaiters DEF BuildFails, ReturnBuilt, ReturnUncached
<1>5. CASE ReturnCached(r)
  BY <1>5, EndCachedWaiters DEF ReturnCached
<1>6. CASE Crash(r)
  <2>1. ASSUME NEW c \in Clients
        PROVE  (request'[c] = request[c] /\ ~Waits(c, r))
               \/ (request'[c].step # "wait" /\ (request[c].step = "wait" => request[c].at = r))
    <3>1. CASE request[c].at = r /\ request[c].step \notin {"idle", "done"}
      <4>1. request'[c] = [request[c] EXCEPT !.step = "done", !.result = "failed", !.content = NoContent]
        BY <1>6, <3>1 DEF Crash, Ended
      <4> QED BY <3>1, <4>1 DEF TypeOK, Requests
    <3>2. CASE ~(request[c].at = r /\ request[c].step \notin {"idle", "done"})
      BY <1>6, <3>2 DEF Crash, Waits
    <3> QED BY <3>1, <3>2
  <2>2. flight'[r] = NoFlight /\ \A q \in Replicas \ {r} : flight'[q] = Disturbed(flight)[q]
    BY <1>6 DEF Crash, Disturbed
  <2> QED BY <2>1, <2>2, DisturbedWaiters, WaitersLeave
<1> QED BY <1>1, <1>2, <1>3, <1>4, <1>5, <1>6 DEF FlightStep, FlightFails

\* A request that joins a flight, or starts one.
LEMMA JoinWaiters ==
    ASSUME TypeOK, WaitersKnown, NEW c \in Clients, Join(c)
    PROVE  WaitersKnown'
<1> DEFINE r == request[c].at
<1>1. request[c] \in Requests /\ r \in Replicas
  BY DEF TypeOK, Requests
<1>2. flight[r] \in Flights
  BY <1>1 DEF TypeOK
<1>3. flight'[r].waiters = flight[r].waiters \cup {c} /\ flight'[r].step # "idle"
  <2>1. CASE flight[r].step = "idle"
    <3>1. flight[r].waiters = {}
      BY <1>1, <2>1 DEF WaitersKnown
    <3>2. \E a \in BOOLEAN : flight'[r] = [NoFlight EXCEPT !.step = "build", !.alone = a, !.waiters = {c}]
      BY <1>1, <2>1 DEF Join, Disturbed
    <3> QED BY <3>1, <3>2 DEF NoFlight
  <2>2. CASE flight[r].step # "idle"
    <3>1. flight'[r] = [flight[r] EXCEPT !.waiters = @ \cup {c}]
      BY <1>1, <2>2 DEF Join, TypeOK
    <3> QED BY <1>2, <2>2, <3>1 DEF Flights
  <2> QED BY <2>1, <2>2
<1>4. \A q \in Replicas \ {r} : flight'[q] \in {flight[q], Disturbed(flight)[q]}
  BY <1>1 DEF Join, Disturbed, TypeOK
<1>5. \A q \in Replicas \ {r} : flight'[q].waiters = flight[q].waiters /\ flight'[q].step = flight[q].step
  BY <1>4, DisturbedWaiters
<1>6. request'[c].step = "wait" /\ request'[c].at = r /\ request[c].step # "wait"
  BY <1>1 DEF Join, TypeOK, Requests
<1>7. \A e \in Clients \ {c} : request'[e] = request[e]
  BY DEF Join, TypeOK
<1> HIDE DEF r
<1> QED BY <1>1, <1>3, <1>5, <1>6, <1>7 DEF WaitersKnown, Waits

LEMMA WaitersClient ==
    ASSUME TypeOK, WaitersKnown, NEW c \in Clients,
           ClientStep(c) \/ LookupFails(c) \/ PresignFails(c)
    PROVE  WaitersKnown'
<1>1. request[c] \in Requests
  BY DEF TypeOK
<1>2. CASE Join(c)
  BY <1>2, JoinWaiters
<1>3. CASE Lookup(c) \/ LookupFails(c) \/ Hit(c) \/ Refuse(c) \/ Read(c) \/ Redirect(c) \/ PresignFails(c)
  <2>1. flight' = flight /\ \A e \in Clients \ {c} : request'[e] = request[e]
    BY <1>3 DEF Lookup, LookupFails, Hit, Refuse, Read, Redirect, PresignFails, End, TypeOK
  <2>2. request[c].step # "wait"
    BY <1>3 DEF Lookup, LookupFails, Hit, Refuse, Read, Redirect, PresignFails
  <2>3. ASSUME NEW result, NEW d, End(c, result, d) PROVE request'[c].step = "done"
    <3>1. request'[c] = Ended(request[c], result, d)
      BY <2>3 DEF End, TypeOK
    <3>2. \A q \in Requests : Ended(q, result, d).step = "done"
      BY DEF Ended, Requests
    <3> QED BY <1>1, <3>1, <3>2
  <2>4. CASE Lookup(c) \/ LookupFails(c)
    <3>1. PICK l : request' = [request EXCEPT ![c].lookup = l]
      BY <2>4 DEF Lookup, LookupFails
    <3>2. request'[c] = [request[c] EXCEPT !.lookup = l]
      BY <3>1 DEF TypeOK
    <3>3. request'[c].step = request[c].step
      BY <1>1, <3>2 DEF Requests
    <3> QED BY <2>1, <2>2, <3>3, WaitersStay
  <2>5. CASE Hit(c)
    <3>1. request'[c] = [request[c] EXCEPT !.step = "deliver"]
      BY <2>5 DEF Hit, TypeOK
    <3>2. request'[c].step = "deliver"
      BY <1>1, <3>1 DEF Requests
    <3> QED BY <2>1, <2>2, <3>2, WaitersStay
  <2>6. CASE Refuse(c) \/ Read(c) \/ Redirect(c) \/ PresignFails(c)
    <3>1. \E result, d : End(c, result, d)
      BY <2>6 DEF Refuse, Read, Redirect, PresignFails
    <3>2. request'[c].step = "done"
      BY <2>3, <3>1
    <3> QED BY <2>1, <2>2, <3>2, WaitersStay
  <2> QED BY <1>3, <2>4, <2>5, <2>6
<1> QED BY <1>2, <1>3 DEF ClientStep

LEMMA WaitersNext == TypeOK /\ WaitersKnown /\ [Next]_vars => WaitersKnown'
<1> SUFFICES ASSUME TypeOK, WaitersKnown, [Next]_vars PROVE WaitersKnown'
  OBVIOUS
<1>1. CASE UNCHANGED vars
  BY <1>1, WaitersStay DEF vars
<1>2. ASSUME NEW c \in Clients, NEW r \in Replicas, Ask(c, r) PROVE WaitersKnown'
  BY <1>2, WaitersStay DEF Ask, TypeOK
<1>3. CASE LoseObject
  <2>1. flight' = Disturbed(flight) /\ request' = request
    BY <1>3 DEF LoseObject
  <2> QED BY <2>1, DisturbedWaiters, WaitersStay
<1> QED BY <1>1, <1>2, <1>3, WaitersClient, WaitersFlight DEF Next

\* Every download that waits is told by a build that runs at its replica,
\* whoever joined it, failed or crashed before (Builder.Build).
THEOREM NobodyForgotten == Spec => []WaitersKnown
<1>1. ASSUME Init PROVE WaitersKnown
  <2>1. \A r \in Replicas : flight[r] = NoFlight
    BY <1>1 DEF Init
  <2>2. NoFlight.waiters = {}
    BY DEF NoFlight
  <2>3. \A c \in Clients : request[c].step = "idle"
    BY <1>1 DEF Init
  <2> QED BY <2>1, <2>2, <2>3 DEF WaitersKnown, Waits
<1> QED BY <1>1, TypeCorrect, WaitersNext, PTL DEF Spec

---------------------------------------------------------------------------
(* The request pipeline.  What it has decided so far, by steps: nothing      *)
(* before authentication, then who asks and the pin, then an answer that is  *)
(* theirs, then the record.                                                  *)

ErrorNames == F!Errors \cup {"nil", "responded", "requiresAuthentication", "forbidden", "notAllowed"}

Exchanges ==
    [step : F!Steps, route : F!RouteNames, target : F!Schematics, cred : F!CredentialType,
     principal : F!Names, requestPrincipal : F!Names,
     mechanism : {"none", "provider", "session", "token"}, token : F!Tokens \cup {"none"},
     status : F!Statuses, err : ErrorNames,
     cache : {"none", "no-store", "no-cache", "public"}, pinned : {"none", "no-store"},
     challenge : BOOLEAN, body : SUBSET F!Schematics,
     audit : [user : F!Names, status : F!Statuses], audits : 0..1,
     via : {"client", "script", "changed"}]
Scripts == [target : F!Schematics, cred : F!CredentialType, promised : BOOLEAN]

PipelineType ==
    /\ provider \in F!Providers
    /\ file \in (SUBSET Users) \cup {{"broken"}} /\ users \in SUBSET Users
    /\ live \in SUBSET F!Tokens /\ stored \in SUBSET F!Schematics
    /\ exchange \in Exchanges /\ script \in SUBSET Scripts

\* A request that has not been authenticated yet, and one not answered yet.
Fresh(x) == /\ x.principal = "none" /\ x.requestPrincipal = "none" /\ x.mechanism = "none"
            /\ x.token = "none" /\ x.pinned = "none"
Unanswered(x) == x.status = 0 /\ x.body = {} /\ x.err = "nil"

Stepped(x) ==
    /\ x.step \in {"idle", "received"} => Fresh(x)
    /\ x.step \in {"idle", "received", "handling"} => Unanswered(x)
    /\ x.step # "done" => x.audits = 0

\* One identity for the handler and the record, which the credentials stand for.
Identified(x) ==
    /\ x.requestPrincipal = x.principal
    /\ x.principal # "none" => F!AuthEnabled /\ x.principal \in F!Proves(x.cred)

\* Whom an answer may hold something of.
Theirs(x, s) ==
    IF F!AuthEnabled THEN x.principal # "none" /\ s.owner = x.principal
    ELSE s.owner = "none" \/ x.route = "create"
Owned(x) == \A s \in x.body : Theirs(x, s)

\* What a request is turned away with that breaks the contract.
Breaches == {"invalid", "notFound", "notAllowed"}

\* What authentication decided on is pinned, unless the request never got there.
Pins(x) ==
    /\ (F!AuthEnabled /\ ~F!Public(x) /\ x.step \in {"handling", "handled", "done"})
       => \/ x.pinned = "no-store"
          \/ /\ Fresh(x) /\ x.step # "handling" /\ x.err \in Breaches /\ x.body = {}
             /\ IF x.step = "done" THEN x.status \in {400, 404, 405} ELSE x.status = 0
    /\ (x.pinned # "none" /\ (x.status # 0 \/ x.step = "done")) => x.cache = x.pinned

\* A request with nothing but API tokens, none of which covers it, is refused.
Covered(x) ==
    \E t \in F!Tokens :
        /\ t = F!Credential(x)[1]
        /\ F!Allows(TokenClaims[t].scopes, F!Method(x), F!Area(x))
        /\ F!Credential(x)[2] => F!URLSafe(TokenClaims[t].scopes)
TokensOnly(x) == x.cred.secret \notin {"password", "jwt"} /\ x.cred.cookie \notin Users
Refusals == {"requiresAuthentication", "notReady"} \cup Breaches
Bound(x) ==
    (/\ F!AuthEnabled /\ ~F!Public(x) /\ x.route # "index" /\ TokensOnly(x) /\ ~Covered(x)
     /\ x.step \in {"handling", "handled", "done"})
    => /\ x.step # "handling"
       /\ \/ x.status \in {303, 400, 401, 404, 405, 503}
          \/ x.step = "handled" /\ x.status = 0 /\ x.err \in Refusals

\* The record, and what an answer without status came from.
Audited(x) ==
    x.step = "done" =>
        /\ x.status = 0 => x.err \in {"nil", "responded", "canceled"}
        /\ ~F!Public(x) =>
              /\ x.audits = 1 /\ x.audit.user = x.principal
              /\ x.audit.status = F!AuditStatus(x)

\* The identity provider takes the credentials, and those of a script, for user u.
Provided(c, u) ==
    /\ c.scheme = "basic" /\ c.user = u
    /\ \/ provider = "htpasswd" /\ c.secret = "password" /\ u \in users
       \/ provider = "auth0" /\ c.secret = "jwt"
Grants(c, u) ==
    \/ \E t \in live :
          /\ TokenClaims[t].subject = u
          /\ F!Allows(TokenClaims[t].scopes, "GET", "image")
          /\ \/ c.query = t /\ F!URLSafe(TokenClaims[t].scopes)
             \/ c.query = "none" /\ c.scheme = "basic" /\ c.secret = t
    \/ c.query = "none" /\ Provided(c, u)

Readable(target) == target \in stored /\ target.owner # "none"

Promises(n) ==
    (F!AuthEnabled /\ n.promised /\ n.cred # F!NoCredential) =>
        Readable(n.target) /\ Grants(n.cred, n.target.owner)
Carries(x) ==
    (/\ F!AuthEnabled /\ x.step = "handling" /\ x.route = "pxe" /\ x.principal # "none"
     /\ x.via # "changed" /\ x.mechanism # "session")
    => F!ScriptCredential(x) = F!NoCredential \/ Grants(F!ScriptCredential(x), x.principal)
Followed(x) ==
    (F!AuthEnabled /\ x.via = "script" /\ x.cred # F!NoCredential) =>
        /\ x.route = "image"
        /\ x.step # "idle"
        /\ x.step \in {"received", "handling"} => Readable(x.target)
        /\ x.step = "received" => Grants(x.cred, x.target.owner)
        /\ x.step = "handling" => x.principal = x.target.owner
        /\ x.step \in {"handled", "done"} => x.status \notin {401, 403}
        /\ x.step = "handled" => x.err \notin {"requiresAuthentication", "forbidden"}

\* What the request in flight is known to be.
Sound(x) ==
    /\ Stepped(x) /\ Identified(x) /\ Owned(x) /\ Pins(x) /\ Bound(x) /\ Audited(x)
    /\ Carries(x) /\ Followed(x)

PipelineInv == Sound(exchange) /\ \A n \in script : Promises(n)

-----------------------------------------------------------------------------
(* How an endpoint answers: it changes nothing of the request but its answer, *)
(* and puts into that only what is theirs.                                    *)

Ready(x) == x \in Exchanges /\ Unanswered(x)

Same(x, y) ==
    /\ y \in Exchanges
    /\ y.step = x.step /\ y.route = x.route /\ y.target = x.target /\ y.cred = x.cred
    /\ y.principal = x.principal /\ y.requestPrincipal = x.requestPrincipal
    /\ y.mechanism = x.mechanism /\ y.token = x.token /\ y.pinned = x.pinned
    /\ y.audits = x.audits /\ y.via = x.via

Answers(x, y) ==
    /\ Same(x, y) /\ Owned(y)
    /\ y.pinned # "none" /\ y.status # 0 => y.cache = y.pinned

LEMMA SetStatus ==
    ASSUME NEW x \in Exchanges, NEW status \in F!Statuses
    PROVE  LET y == [x EXCEPT !.status = status]
           IN  Same(x, y) /\ y.status = status /\ y.err = x.err /\ y.cache = x.cache
               /\ y.body = x.body
  BY DEF Exchanges, Same

LEMMA SetCache ==
    ASSUME NEW x \in Exchanges, NEW c \in {"none", "no-store", "no-cache", "public"}
    PROVE  LET y == [x EXCEPT !.cache = c]
           IN  Same(x, y) /\ y.cache = c /\ y.err = x.err /\ y.status = x.status
               /\ y.body = x.body
  BY DEF Exchanges, Same

LEMMA SetBody ==
    ASSUME NEW x \in Exchanges, NEW body \in SUBSET F!Schematics
    PROVE  LET y == [x EXCEPT !.body = body]
           IN  Same(x, y) /\ y.body = body /\ y.err = x.err /\ y.status = x.status
               /\ y.cache = x.cache
  BY DEF Exchanges, Same

LEMMA SetErr ==
    ASSUME NEW x \in Exchanges, NEW e \in ErrorNames
    PROVE  LET y == F!Failed(x, e)
           IN  Same(x, y) /\ y.err = e /\ y.body = x.body /\ y.status = x.status
               /\ y.cache = x.cache
  BY DEF Exchanges, Same, F!Failed

LEMMA FailedAnswers ==
    ASSUME NEW x, Ready(x), NEW e \in ErrorNames
    PROVE  Answers(x, F!Failed(x, e)) /\ F!Failed(x, e).err = e /\ F!Failed(x, e).status = 0
  BY SetErr DEF Ready, Unanswered, Answers, Owned

LEMMA WroteAnswers ==
    ASSUME NEW x, Ready(x), NEW status \in F!Statuses \ {0}, NEW body \in SUBSET F!Schematics,
           \A s \in body : Theirs(x, s)
    PROVE  /\ Answers(x, F!Wrote(x, status, body))
           /\ F!Wrote(x, status, body).err = "nil" /\ F!Wrote(x, status, body).status = status
<1> DEFINE y == [x EXCEPT !.status = status]
           z == [y EXCEPT !.cache = y.pinned]
<1>1. x \in Exchanges /\ x.status = 0 /\ x.err = "nil"
  BY DEF Ready, Unanswered
<1>2. Same(x, y) /\ y.status = status /\ y.err = "nil"
  BY <1>1, SetStatus
<1>3. F!Wrote(x, status, body) = [IF y.pinned = "none" THEN y ELSE z EXCEPT !.body = body]
  BY <1>1 DEF F!Wrote, F!Commit, F!ApplyCacheControlPin
<1> HIDE DEF y
<1>4. y \in Exchanges /\ (y.pinned # "none" => y.pinned \in {"none", "no-store", "no-cache", "public"})
  BY <1>2 DEF Same, Exchanges
<1>5. y.pinned # "none" => Same(y, z) /\ z.status = status /\ z.err = "nil" /\ z.cache = y.pinned
  <2>1. \A c \in {"none", "no-store", "no-cache", "public"} :
           LET v == [y EXCEPT !.cache = c]
           IN  Same(y, v) /\ v.cache = c /\ v.err = y.err /\ v.status = y.status
    BY <1>4, SetCache, Zenon
  <2> QED
    BY <1>2, <1>4, <2>1
<1> HIDE DEF z
<1> DEFINE w == IF y.pinned = "none" THEN y ELSE z
<1>6. Same(x, w) /\ w.status = status /\ w.err = "nil" /\ (w.pinned # "none" => w.cache = w.pinned)
  BY <1>2, <1>5 DEF Same
<1>7. w \in Exchanges
  BY <1>6 DEF Same
<1> HIDE DEF w
<1> DEFINE v == [w EXCEPT !.body = body]
<1>8. Same(w, v) /\ v.status = status /\ v.err = "nil" /\ v.cache = w.cache /\ v.body = body
  BY <1>6, <1>7, SetBody
<1>9. F!Wrote(x, status, body) = v
  BY <1>3 DEF w
<1> HIDE DEF v
<1>10. Same(x, v) /\ Owned(v)
  BY <1>6, <1>8 DEF Same, Owned, Theirs
<1>11. v.pinned # "none" => v.cache = v.pinned
  BY <1>6, <1>8 DEF Same
<1> QED
  BY <1>8, <1>9, <1>10, <1>11 DEF Answers

LEMMA StreamedAnswers ==
    ASSUME NEW x, Ready(x), NEW body \in SUBSET F!Schematics, \A s \in body : Theirs(x, s),
           NEW course
    PROVE  /\ Answers(x, F!Streamed(x, body, course))
           /\ F!Streamed(x, body, course).err \in {"nil", "internal"}
           /\ F!Streamed(x, body, course).status = 200
<1> DEFINE w == F!Wrote(x, 200, body)
<1>1. Answers(x, w) /\ w.err = "nil" /\ w.status = 200
  BY WroteAnswers DEF F!Statuses
<1> HIDE DEF w
<1>2. Answers(x, F!Failed(w, "internal")) /\ F!Failed(w, "internal").err = "internal"
      /\ F!Failed(w, "internal").status = 200
  <2>1. w \in Exchanges /\ "internal" \in ErrorNames
    BY <1>1 DEF Answers, Same, ErrorNames, F!Errors
  <2>2. Same(w, F!Failed(w, "internal")) /\ F!Failed(w, "internal").err = "internal"
        /\ F!Failed(w, "internal").body = w.body /\ F!Failed(w, "internal").status = w.status
        /\ F!Failed(w, "internal").cache = w.cache
    BY <2>1, SetErr
  <2> QED
    BY <1>1, <2>2 DEF Answers, Same, Owned, Theirs
<1>3. F!Streamed(x, body, course) = IF course = "broken" THEN F!Failed(w, "internal") ELSE w
  BY DEF F!Streamed, w
<1> QED
  BY <1>1, <1>2, <1>3

LEMMA CachedAnswers ==
    ASSUME NEW x, Ready(x), NEW c \in {"none", "no-store", "no-cache", "public"}, NEW y
    PROVE  /\ Ready([x EXCEPT !.cache = c])
           /\ Answers([x EXCEPT !.cache = c], y) => Answers(x, y)
           /\ \A s : Theirs([x EXCEPT !.cache = c], s) <=> Theirs(x, s)
           /\ F!ServiceGet([x EXCEPT !.cache = c]) = F!ServiceGet(x)
           /\ [x EXCEPT !.cache = c].target = x.target
<1> DEFINE z == [x EXCEPT !.cache = c]
<1>1. Same(x, z) /\ z.err = "nil" /\ z.status = 0 /\ z.body = {}
  BY SetCache DEF Ready, Unanswered
<1> HIDE DEF z
<1>2. Ready(z) /\ (\A s : Theirs(z, s) <=> Theirs(x, s)) /\ z.target = x.target
  BY <1>1 DEF Ready, Unanswered, Same, Theirs
<1>3. F!ServiceGet(z) = F!ServiceGet(x)
  BY <1>1 DEF Same, F!ServiceGet, F!MayRead
<1>4. Answers(z, y) => Answers(x, y)
  BY <1>1 DEF Same, Answers
<1> QED
  BY <1>2, <1>3, <1>4 DEF z

LEMMA TargetTheirs ==
    ASSUME NEW x, Ready(x), Identified(x), F!ServiceGet(x) = "nil"
    PROVE  Theirs(x, x.target)
  BY DEF Ready, Exchanges, Identified, F!ServiceGet, F!MayRead, Theirs

LEMMA ServiceGetErrors ==
    ASSUME NEW x
    PROVE  F!ServiceGet(x) \in ErrorNames
  BY DEF F!ServiceGet, ErrorNames, F!Errors

LEMMA GuardedAnswers ==
    ASSUME NEW x, Ready(x), F!ServiceGet(x) = "nil" => Theirs(x, x.target),
           NEW course, NEW errors \in SUBSET F!Errors
    PROVE  /\ Answers(x, F!Guarded(x, course, errors))
           /\ F!Guarded(x, course, errors).err = "nil" /\ "nil" \notin errors
              => F!ServiceGet(x) = "nil"
<1>1. CASE F!ServiceGet(x) # "nil"
  BY <1>1, FailedAnswers, ServiceGetErrors DEF F!Guarded
<1>2. CASE F!ServiceGet(x) = "nil" /\ course \in errors
  BY <1>2, FailedAnswers DEF F!Guarded, ErrorNames
<1>3. CASE F!ServiceGet(x) = "nil" /\ course \notin errors
  <2>1. {x.target} \in SUBSET F!Schematics
    BY DEF Ready, Exchanges
  <2>2. Answers(x, F!Streamed(x, {x.target}, course))
    BY <2>1, <1>3, StreamedAnswers
  <2> QED
    BY <2>2, <1>3 DEF F!Guarded
<1> QED
  BY <1>1, <1>2, <1>3

LEMMA ImageAnswers ==
    ASSUME NEW x, Ready(x), F!ServiceGet(x) = "nil" => Theirs(x, x.target), NEW course \in F!Courses
    PROVE  /\ Answers(x, F!ServeImage(x, course))
           /\ F!ServiceGet(x) = "nil"
              => /\ F!ServeImage(x, course).status \notin {401, 403}
                 /\ F!ServeImage(x, course).err \notin {"requiresAuthentication", "forbidden"}
<1> DEFINE e == F!Resolve(x, course)
<1>1. e \in ErrorNames
  BY ServiceGetErrors DEF F!Resolve, ErrorNames, F!Errors
<1>2. /\ F!ServiceGet(x) = "nil" => e \notin {"requiresAuthentication", "forbidden"}
      /\ e = "nil" => F!ServiceGet(x) = "nil"
  BY DEF F!Resolve
<1>3. {x.target} \in SUBSET F!Schematics
  BY DEF Ready, Exchanges
<1>4. F!ServeImage(x, course) =
        IF e # "nil" THEN F!Failed(x, e)
        ELSE IF F!Method(x) = "HEAD" THEN F!Wrote(x, 200, {})
        ELSE IF course = "moved" THEN F!Wrote(x, 302, {x.target})
        ELSE F!Streamed(x, {x.target}, course)
  BY DEF F!ServeImage
<1> HIDE DEF e
<1>5. CASE e # "nil"
  BY <1>1, <1>2, <1>4, <1>5, FailedAnswers
<1>6. CASE e = "nil"
  <2>1. \A s \in {x.target} : Theirs(x, s)
    BY <1>2, <1>6
  <2>2. 200 \in F!Statuses \ {0} /\ 302 \in F!Statuses \ {0} /\ {} \in SUBSET F!Schematics
    BY DEF F!Statuses
  <2>3. /\ Answers(x, F!Wrote(x, 200, {})) /\ F!Wrote(x, 200, {}).err = "nil"
        /\ F!Wrote(x, 200, {}).status = 200
    BY <2>2, WroteAnswers
  <2>4. /\ Answers(x, F!Wrote(x, 302, {x.target})) /\ F!Wrote(x, 302, {x.target}).err = "nil"
        /\ F!Wrote(x, 302, {x.target}).status = 302
    BY <1>3, <2>1, <2>2, WroteAnswers
  <2>5. /\ Answers(x, F!Streamed(x, {x.target}, course))
        /\ F!Streamed(x, {x.target}, course).err \in {"nil", "internal"}
        /\ F!Streamed(x, {x.target}, course).status = 200
    BY <1>3, <2>1, StreamedAnswers
  <2> QED
    BY <1>4, <1>6, <2>3, <2>4, <2>5
<1> QED
  BY <1>5, <1>6

LEMMA PXEAnswers ==
    ASSUME NEW x, Ready(x), F!ServiceGet(x) = "nil" => Theirs(x, x.target), NEW course
    PROVE  /\ Answers(x, F!ServePXE(x, course))
           /\ F!ServePXE(x, course).err = "nil" => F!ServiceGet(x) = "nil"
<1> DEFINE c == IF F!AuthEnabled THEN "no-store" ELSE "public"
           z == [x EXCEPT !.cache = c]
           E == {"invalid", "notFound", "internal", "canceled"}
<1>1. c \in {"none", "no-store", "no-cache", "public"}
  OBVIOUS
<1>2. F!ServePXE(x, course) = F!Guarded(z, course, E)
  BY DEF F!ServePXE
<1>3. E \in SUBSET F!Errors /\ "nil" \notin E
  BY DEF F!Errors
<1> HIDE DEF c, E
<1>4. /\ Ready(z) /\ z.target = x.target /\ (Theirs(z, x.target) <=> Theirs(x, x.target))
      /\ F!ServiceGet(z) = F!ServiceGet(x)
      /\ \A y : Answers(z, y) => Answers(x, y)
  BY <1>1, CachedAnswers
<1> HIDE DEF z
<1>5. /\ Answers(z, F!Guarded(z, course, E))
      /\ F!Guarded(z, course, E).err = "nil" => F!ServiceGet(z) = "nil"
  BY <1>3, <1>4, GuardedAnswers
<1> QED
  BY <1>2, <1>4, <1>5

LEMMA ProxyAnswers ==
    ASSUME NEW x, Ready(x), NEW course, NEW body \in SUBSET F!Schematics,
           \A s \in body : Theirs(x, s)
    PROVE  Answers(x, F!ProxyRegistry(x, course, body))
<1> DEFINE z == [x EXCEPT !.cache = "public"]
<1>1. 502 \in F!Statuses \ {0} /\ 200 \in F!Statuses \ {0} /\ {} \in SUBSET F!Schematics
  BY DEF F!Statuses
<1>2. Answers(x, F!Wrote(x, 502, {}))
  BY <1>1, WroteAnswers
<1>3. /\ Ready(z) /\ (\A s : Theirs(z, s) <=> Theirs(x, s))
      /\ \A y : Answers(z, y) => Answers(x, y)
  BY CachedAnswers
<1>4. F!ProxyRegistry(x, course, body) =
        IF course = "broken" THEN F!Wrote(x, 502, {}) ELSE F!Wrote(z, 200, body)
  BY DEF F!ProxyRegistry
<1> HIDE DEF z
<1>5. Answers(z, F!Wrote(z, 200, body))
  BY <1>1, <1>3, WroteAnswers
<1> QED
  BY <1>2, <1>3, <1>4, <1>5

LEMMA ContentAnswers ==
    ASSUME NEW x, Ready(x), F!ServiceGet(x) = "nil" => Theirs(x, x.target), NEW course
    PROVE  Answers(x, F!ServeContent(x, course))
<1>1. {"invalid", "notFound", "internal", "canceled"} \subseteq ErrorNames
  BY DEF ErrorNames, F!Errors
<1>2. {x.target} \in SUBSET F!Schematics /\ 307 \in F!Statuses \ {0}
  BY DEF Ready, Exchanges, F!Statuses
<1>3. CASE F!ServiceGet(x) # "nil"
  BY <1>3, FailedAnswers, ServiceGetErrors DEF F!ServeContent
<1>4. CASE F!ServiceGet(x) = "nil" /\ course \in {"invalid", "notFound", "internal", "canceled"}
  BY <1>1, <1>4, FailedAnswers DEF F!ServeContent
<1>5. CASE F!ServiceGet(x) = "nil" /\ course \notin {"invalid", "notFound", "internal", "canceled"}
  <2>1. \A s \in {x.target} : Theirs(x, s)
    BY <1>5
  <2>2. Answers(x, F!ProxyRegistry(x, course, {x.target}))
    BY <1>2, <2>1, ProxyAnswers
  <2>3. Answers(x, F!Wrote(x, 307, {x.target}))
    BY <1>2, <2>1, WroteAnswers
  <2> QED
    BY <1>5, <2>2, <2>3 DEF F!ServeContent, F!Deliver
<1> QED
  BY <1>3, <1>4, <1>5

LEMMA IndexAnswers ==
    ASSUME NEW x, Ready(x), NEW course
    PROVE  Answers(x, F!ServeIndex(x, course))
<1> DEFINE c == IF x.cache = "none" THEN "no-cache" ELSE x.cache
           z == [x EXCEPT !.cache = c]
<1>1. c \in {"none", "no-store", "no-cache", "public"}
  BY DEF Ready, Exchanges
<1>2. F!ServeIndex(x, course) = F!Streamed(z, {}, course)
  BY DEF F!ServeIndex
<1> HIDE DEF c
<1>3. Ready(z) /\ \A y : Answers(z, y) => Answers(x, y)
  BY <1>1, CachedAnswers
<1> HIDE DEF z
<1>4. Answers(z, F!Streamed(z, {}, course))
  BY <1>3, StreamedAnswers
<1> QED
  BY <1>2, <1>3, <1>4

LEMMA TokensAnswers ==
    ASSUME NEW x, Ready(x), Identified(x), NEW course
    PROVE  Answers(x, F!ServeTokens(x, course))
<1>1. 401 \in F!Statuses \ {0} /\ {} \in SUBSET F!Schematics
      /\ {"internal", "notReady", "canceled"} \subseteq ErrorNames
  BY DEF F!Statuses, ErrorNames, F!Errors
<1>2. CASE x.principal = "none"
  BY <1>1, <1>2, WroteAnswers DEF F!ServeTokens
<1>3. CASE x.principal # "none" /\ course \in {"internal", "notReady", "canceled"}
  BY <1>1, <1>3, FailedAnswers DEF F!ServeTokens
<1>4. CASE x.principal # "none" /\ course \notin {"internal", "notReady", "canceled"}
  <2> DEFINE own == [owner |-> x.principal]
  <2>1. own \in F!Schematics /\ Theirs(x, own)
    BY <1>4 DEF Ready, Exchanges, F!Schematics, F!Names, Theirs, Identified
  <2>2. F!ServeTokens(x, course) = F!Streamed(x, {own}, course)
    BY <1>4 DEF F!ServeTokens
  <2> HIDE DEF own
  <2>3. {own} \in SUBSET F!Schematics /\ \A s \in {own} : Theirs(x, s)
    BY <2>1
  <2> QED
    BY <2>2, <2>3, StreamedAnswers
<1> QED
  BY <1>2, <1>3, <1>4

LEMMA CreateAnswers ==
    ASSUME NEW x, Ready(x), Identified(x), x.route = "create", NEW owner \in F!Names, NEW course
    PROVE  Answers(x, F!Create(x, owner, course))
<1> DEFINE new == [owner |-> IF F!AuthEnabled THEN x.principal ELSE owner]
<1>1. {"requiresAuthentication", "forbidden", "invalid", "internal", "canceled"} \subseteq ErrorNames
      /\ 201 \in F!Statuses \ {0}
  BY DEF F!Statuses, ErrorNames, F!Errors
<1>2. F!Create(x, owner, course) =
        IF F!AuthEnabled /\ x.principal = "none" THEN F!Failed(x, "requiresAuthentication")
        ELSE IF F!AuthEnabled /\ owner \notin {"none", x.principal} THEN F!Failed(x, "forbidden")
        ELSE IF course \in {"invalid", "internal", "canceled"} THEN F!Failed(x, course)
        ELSE F!Wrote(x, 201, {new})
  BY DEF F!Create
<1>3. Answers(x, F!Failed(x, "requiresAuthentication")) /\ Answers(x, F!Failed(x, "forbidden"))
      /\ \A e \in {"invalid", "internal", "canceled"} : Answers(x, F!Failed(x, e))
  BY <1>1, FailedAnswers
<1>4. ~(F!AuthEnabled /\ x.principal = "none") => new \in F!Schematics /\ Theirs(x, new)
  BY DEF Ready, Exchanges, F!Schematics, F!Names, Theirs
<1> HIDE DEF new
<1>5. ~(F!AuthEnabled /\ x.principal = "none") => Answers(x, F!Wrote(x, 201, {new}))
  <2> SUFFICES ASSUME ~(F!AuthEnabled /\ x.principal = "none")
               PROVE  Answers(x, F!Wrote(x, 201, {new}))
    OBVIOUS
  <2>1. {new} \in SUBSET F!Schematics /\ \A s \in {new} : Theirs(x, s)
    BY <1>4
  <2> QED
    BY <1>1, <2>1, WroteAnswers
<1> QED
  BY <1>2, <1>3, <1>5

LEMMA ServeAnswers ==
    ASSUME NEW x, Ready(x), Identified(x), NEW course \in F!Courses, x.route # "create"
    PROVE  Answers(x, F!Serve(x, course))
<1>1. F!ServiceGet(x) = "nil" => Theirs(x, x.target)
  BY TargetTheirs
<1>2. {} \in SUBSET F!Schematics /\ \A s \in {} : Theirs(x, s)
  OBVIOUS
<1>3. Answers(x, F!Streamed(x, {}, course))
  BY <1>2, StreamedAnswers
<1>4. \A errors \in SUBSET F!Errors : Answers(x, F!Guarded(x, course, errors))
  BY <1>1, GuardedAnswers
<1>5. \A e \in F!Errors : Answers(x, F!Failed(x, e))
  BY FailedAnswers DEF ErrorNames
<1>6. 404 \in F!Statuses \ {0}
  BY DEF F!Statuses
<1>7. Answers(x, F!Wrote(x, 404, {}))
  BY <1>2, <1>6, WroteAnswers
<1>8. CASE x.route \in {"image", "imageHead"}
  BY <1>1, <1>8, ImageAnswers DEF F!Serve
<1>9. CASE x.route = "pxe"
  BY <1>1, <1>9, PXEAnswers DEF F!Serve
<1>10. CASE x.route = "schematic"
  <2>1. {"internal", "canceled"} \in SUBSET F!Errors
    BY DEF F!Errors
  <2>2. Answers(x, F!GetSchematic(x, course))
    BY <1>4, <1>7, <2>1 DEF F!GetSchematic
  <2> QED
    BY <1>10, <2>2 DEF F!Serve
<1>11. CASE x.route = "assets"
  <2>1. {"invalid", "internal", "canceled"} \in SUBSET F!Errors
    BY DEF F!Errors
  <2>2. Answers(x, F!Downloads(x, course))
    BY <1>4, <2>1 DEF F!Downloads
  <2> QED
    BY <1>11, <2>2 DEF F!Serve
<1>12. CASE x.route \in {"spdx", "scan", "referrers"}
  <2>1. {"invalid", "notFound", "internal", "canceled"} \in SUBSET F!Errors
        /\ {"invalid", "notReady", "internal", "canceled"} \in SUBSET F!Errors
    BY DEF F!Errors
  <2>2. Answers(x, F!ServeSpdx(x, course)) /\ Answers(x, F!ServeScan(x, course))
        /\ Answers(x, F!ServeReferrers(x, course))
    BY <1>4, <2>1 DEF F!ServeSpdx, F!ServeScan, F!ServeReferrers
  <2> QED
    BY <1>12, <2>2 DEF F!Serve
<1>13. CASE x.route = "vex"
  <2>1. {"invalid", "notReady", "internal", "canceled"} \subseteq F!Errors
    BY DEF F!Errors
  <2>2. Answers(x, F!ServeVex(x, course))
    BY <1>3, <1>5, <2>1 DEF F!ServeVex
  <2> QED
    BY <1>13, <2>2 DEF F!Serve
<1>14. CASE x.route \in {"manifest", "blob"}
  BY <1>1, <1>14, ContentAnswers DEF F!Serve
<1>15. CASE x.route = "source"
  <2>1. {"proxyUnavailable", "notFound", "notEnabled"} \subseteq F!Errors
    BY DEF F!Errors
  <2>2. Answers(x, F!ProxyRegistry(x, course, {}))
    BY <1>2, ProxyAnswers
  <2>3. Answers(x, F!ServeSource(x, course))
    BY <1>5, <2>1, <2>2 DEF F!ServeSource
  <2> QED
    BY <1>15, <2>3 DEF F!Serve
<1>16. CASE x.route = "index"
  BY <1>16, IndexAnswers DEF F!Serve
<1>17. CASE x.route = "tokens"
  BY <1>17, TokensAnswers DEF F!Serve
<1>18. CASE x.route = "versions"
  BY <1>3, <1>5, <1>18 DEF F!Serve
<1>19. CASE x.route = "ping"
  <2>1. Answers(x, x)
    BY DEF Ready, Unanswered, Answers, Same, Owned
  <2> QED
    BY <1>19, <2>1 DEF F!Serve
<1>20. x.route \in {"image", "imageHead", "pxe", "create", "schematic", "assets", "versions", "ping",
                    "manifest", "blob", "referrers", "source", "spdx", "scan", "vex", "tokens", "index"}
  BY DEF Ready, Exchanges, F!RouteNames, F!Routes, F!RegistryRoutes, F!EnterpriseRoutes, F!PageRoutes
<1> QED
  BY <1>8, <1>9, <1>10, <1>11, <1>12, <1>13, <1>14, <1>15, <1>16, <1>17, <1>18, <1>19, <1>20

-----------------------------------------------------------------------------
(* How authentication decides: it goes on with an identity the credentials    *)
(* stand for, or refuses.                                                     *)

OfRequest(x, r) ==
    /\ r \in Exchanges
    /\ r.route = x.route /\ r.target = x.target /\ r.cred = x.cred /\ r.via = x.via
    /\ r.audits = x.audits /\ r.pinned = x.pinned /\ r.cache = x.cache /\ r.body = x.body

\* A protected request as the selector gets it.
Asking(x) ==
    /\ x \in Exchanges /\ x.principal = "none" /\ x.requestPrincipal = "none"
    /\ x.mechanism = "none" /\ x.token = "none" /\ Unanswered(x)
    /\ x.pinned = "no-store" /\ x.cache = "no-store" /\ F!AuthEnabled

Admitted(r) == r.step = "handling" /\ r.status = 0 /\ r.err = "nil"
Rejected(r) == /\ r.step = "handled" /\ r.principal = "none" /\ r.requestPrincipal = "none"
               /\ \/ r.status \in {303, 401} /\ r.err = "responded"
                  \/ r.status = 0 /\ r.err = "requiresAuthentication"

LEMMA Bridged ==
    ASSUME NEW x \in Exchanges, NEW u \in F!Names, NEW m \in {"provider", "session", "token"}
    PROVE  LET r == F!Bridge(x, u, m)
           IN  /\ OfRequest(x, r) /\ r.step = "handling"
               /\ r.principal = u /\ r.requestPrincipal = u /\ r.mechanism = m
               /\ r.token = x.token /\ r.status = x.status /\ r.err = x.err
  BY DEF Exchanges, OfRequest, F!Bridge, F!Steps

LEMMA SetChallenge ==
    ASSUME NEW x \in Exchanges, NEW b \in BOOLEAN
    PROVE  LET y == [x EXCEPT !.challenge = b]
           IN  Same(x, y) /\ y.err = x.err /\ y.body = x.body /\ y.status = x.status
               /\ y.cache = x.cache
  BY DEF Exchanges, Same

LEMMA SetStep ==
    ASSUME NEW x \in Exchanges, NEW step \in F!Steps
    PROVE  LET y == [x EXCEPT !.step = step]
           IN  /\ OfRequest(x, y) /\ y.step = step /\ y.principal = x.principal
               /\ y.requestPrincipal = x.requestPrincipal /\ y.mechanism = x.mechanism
               /\ y.token = x.token /\ y.status = x.status /\ y.err = x.err
  BY DEF Exchanges, OfRequest

LEMMA Denied ==
    ASSUME NEW x, Asking(x)
    PROVE  OfRequest(x, F!Refused(F!Deny(x))) /\ Rejected(F!Refused(F!Deny(x)))
<1> DEFINE d == F!Deny(x)
<1>1. x \in Exchanges /\ x.status = 0 /\ x.pinned = "no-store" /\ x.cache = "no-store"
  BY DEF Asking, Unanswered
<1>2. \A status \in F!Statuses \ {0} :
         LET y == F!Commit(x, status)
         IN Same(x, y) /\ y.status = status /\ y.body = x.body /\ y.cache = "no-store"
  <2> TAKE status \in F!Statuses \ {0}
  <2> DEFINE z == [x EXCEPT !.status = status]
  <2>1. Same(x, z) /\ z.status = status /\ z.body = x.body
    BY <1>1, SetStatus
  <2>2. F!Commit(x, status) = IF z.pinned = "none" THEN z ELSE [z EXCEPT !.cache = z.pinned]
    BY <1>1 DEF F!Commit, F!ApplyCacheControlPin
  <2> HIDE DEF z
  <2>3. z.pinned = "no-store" /\ z \in Exchanges
    BY <1>1, <2>1 DEF Same
  <2>4. F!Commit(x, status) = [z EXCEPT !.cache = "no-store"]
    BY <2>2, <2>3
  <2>5. LET y == [z EXCEPT !.cache = "no-store"]
        IN Same(z, y) /\ y.status = z.status /\ y.body = z.body /\ y.cache = "no-store"
    BY <2>3, SetCache
  <2> QED
    BY <2>1, <2>4, <2>5 DEF Same
<1>3. /\ 303 \in F!Statuses \ {0} /\ 401 \in F!Statuses \ {0}
      /\ "responded" \in ErrorNames /\ "requiresAuthentication" \in ErrorNames
  BY DEF F!Statuses, ErrorNames
<1>4. \A status \in {303, 401} :
         LET y == F!Failed(F!Commit(x, status), "responded")
         IN Same(x, y) /\ y.err = "responded" /\ y.body = x.body /\ y.status = status
            /\ y.cache = "no-store"
  <2> TAKE status \in {303, 401}
  <2> DEFINE z == F!Commit(x, status)
  <2>1. Same(x, z) /\ z.status = status /\ z.body = x.body /\ z.cache = "no-store"
    BY <1>2, <1>3
  <2> HIDE DEF z
  <2>2. z \in Exchanges
    BY <2>1 DEF Same
  <2>3. LET y == F!Failed(z, "responded")
        IN Same(z, y) /\ y.err = "responded" /\ y.body = z.body /\ y.status = z.status
           /\ y.cache = z.cache
    BY <1>3, <2>2, SetErr
  <2>4. LET y == F!Failed(z, "responded")
        IN Same(x, y) /\ y.err = "responded" /\ y.body = x.body /\ y.status = status
           /\ y.cache = "no-store"
    BY <2>1, <2>3 DEF Same
  <2> QED
    BY <2>4 DEF z
<1>5. LET y == F!Failed([x EXCEPT !.challenge = TRUE], "requiresAuthentication")
      IN Same(x, y) /\ y.err = "requiresAuthentication" /\ y.body = x.body /\ y.status = 0
         /\ y.cache = "no-store"
  <2> DEFINE z == [x EXCEPT !.challenge = TRUE]
  <2>1. Same(x, z) /\ z.status = 0 /\ z.body = x.body /\ z.cache = "no-store"
    BY <1>1, SetChallenge
  <2> HIDE DEF z
  <2>2. z \in Exchanges
    BY <2>1 DEF Same
  <2>3. LET y == F!Failed(z, "requiresAuthentication")
        IN Same(z, y) /\ y.err = "requiresAuthentication" /\ y.body = z.body /\ y.status = z.status
           /\ y.cache = z.cache
    BY <1>3, <2>2, SetErr
  <2>4. LET y == F!Failed(z, "requiresAuthentication")
        IN Same(x, y) /\ y.err = "requiresAuthentication" /\ y.body = x.body /\ y.status = 0
           /\ y.cache = "no-store"
    BY <2>1, <2>3 DEF Same
  <2> QED
    BY <2>4 DEF z
<1>6. /\ Same(x, d) /\ d.body = x.body /\ d.cache = "no-store"
      /\ \/ d.status \in {303, 401} /\ d.err = "responded"
         \/ d.status = 0 /\ d.err = "requiresAuthentication"
  <2>1. CASE x.cred.client = "page"
    BY <1>4, <2>1 DEF F!Deny
  <2>2. CASE x.cred.client = "fetch"
    BY <1>4, <2>2 DEF F!Deny
  <2>3. CASE x.cred.client \notin {"page", "fetch"}
    BY <1>5, <2>3 DEF F!Deny
  <2> QED
    BY <2>1, <2>2, <2>3
<1> HIDE DEF d
<1>7. d \in Exchanges /\ "handled" \in F!Steps
  BY <1>6 DEF Same, F!Steps
<1> DEFINE r == [d EXCEPT !.step = "handled"]
<1>8. /\ OfRequest(d, r) /\ r.step = "handled" /\ r.principal = d.principal
      /\ r.requestPrincipal = d.requestPrincipal /\ r.status = d.status /\ r.err = d.err
  BY <1>7, SetStep
<1>9. F!Refused(d) = r
  BY DEF F!Refused
<1> HIDE DEF r
<1>10. OfRequest(x, r) /\ Rejected(r)
  BY <1>1, <1>6, <1>8 DEF Same, OfRequest, Rejected, Asking
<1> QED
  BY <1>9, <1>10 DEF d

\* What the identity provider decides.
FallbackDecides(x, r) ==
    /\ OfRequest(x, r)
    /\ \/ /\ Admitted(r) /\ r.requestPrincipal = r.principal /\ r.token = "none"
          /\ r.principal # "none" => r.principal \in F!Proves(x.cred)
          /\ TokensOnly(x) => x.route = "index"
          /\ r.principal # "none" /\ r.mechanism # "session" /\ x.cred.scheme = "basic"
             => Provided(x.cred, r.principal)
       \/ Rejected(r)
    /\ \A u \in Users : Provided(x.cred, u) => Admitted(r) /\ r.principal = u

\* A bridged request under one of the identity providers.
LEMMA BridgeDecides ==
    ASSUME NEW x, Asking(x), NEW u \in F!Names, NEW m \in {"provider", "session"},
           u # "none" => u \in F!Proves(x.cred), ~TokensOnly(x),
           u # "none" /\ m # "session" /\ x.cred.scheme = "basic" => Provided(x.cred, u),
           \A v \in Users : Provided(x.cred, v) => v = u
    PROVE  FallbackDecides(x, F!Bridge(x, u, m))
<1> DEFINE r == F!Bridge(x, u, m)
<1>1. x \in Exchanges /\ x.status = 0 /\ x.err = "nil" /\ x.token = "none"
  BY DEF Asking, Unanswered
<1>2. /\ OfRequest(x, r) /\ r.step = "handling"
      /\ r.principal = u /\ r.requestPrincipal = u /\ r.mechanism = m
      /\ r.token = x.token /\ r.status = x.status /\ r.err = x.err
  BY <1>1, Bridged
<1> HIDE DEF r
<1>3. FallbackDecides(x, r)
  BY <1>1, <1>2 DEF FallbackDecides, Admitted
<1> QED
  BY <1>3 DEF r

LEMMA CredentialFacts ==
    ASSUME NEW x, Asking(x)
    PROVE  /\ x.cred \in F!CredentialType /\ "none" \notin Users
           /\ x.cred.secret \notin F!Tokens \/ x.cred.secret \notin {"password", "jwt", "none"}
           /\ x.cred.user \in F!Names
  BY FrontendConstants DEF F!FrontendAssumption, Asking, Exchanges, F!CredentialType, F!Names

LEMMA HtpasswdDecides ==
    ASSUME NEW x, Asking(x), PipelineType, provider = "htpasswd"
    PROVE  FallbackDecides(x, F!HtpasswdMiddleware(x))
<1> DEFINE u == F!HtpasswdIdentity(x)
<1>1. users \subseteq Users /\ "none" \notin Users /\ x.cred.user \in F!Names
  BY CredentialFacts DEF PipelineType
<1>2. CASE x.cred.scheme = "basic" /\ x.cred.secret = "password" /\ x.cred.user \in users
  <2>1. u = x.cred.user /\ u # "none"
    BY <1>1, <1>2 DEF F!HtpasswdIdentity
  <2>2. u \in F!Proves(x.cred) /\ ~TokensOnly(x) /\ Provided(x.cred, u)
    BY <1>2, <2>1 DEF F!Proves, TokensOnly, Provided
  <2>3. \A v \in Users : Provided(x.cred, v) => v = u
    BY <2>1 DEF Provided
  <2>4. F!HtpasswdMiddleware(x) = F!Bridge(x, u, "provider")
    BY <2>1 DEF F!HtpasswdMiddleware
  <2> HIDE DEF u
  <2>5. u \in F!Names
    BY <1>1, <2>1
  <2> QED
    BY <2>2, <2>3, <2>4, <2>5, BridgeDecides
<1>3. CASE ~(x.cred.scheme = "basic" /\ x.cred.secret = "password" /\ x.cred.user \in users)
  <2>1. u = "none" /\ \A v \in Users : ~Provided(x.cred, v)
    BY <1>3 DEF F!HtpasswdIdentity, Provided
  <2> DEFINE f == F!Failed(x, "requiresAuthentication")
             r == [f EXCEPT !.step = "handled"]
  <2>2. F!HtpasswdMiddleware(x) = r
    BY <2>1 DEF F!HtpasswdMiddleware, F!Refused
  <2>3. x \in Exchanges /\ "requiresAuthentication" \in ErrorNames /\ "handled" \in F!Steps
    BY DEF Asking, ErrorNames, F!Steps
  <2>4. Same(x, f) /\ f.err = "requiresAuthentication" /\ f.body = x.body
        /\ f.status = x.status /\ f.cache = x.cache
    BY <2>3, SetErr
  <2> HIDE DEF f
  <2>5. f \in Exchanges
    BY <2>4 DEF Same
  <2>6. /\ OfRequest(f, r) /\ r.step = "handled" /\ r.principal = f.principal
        /\ r.requestPrincipal = f.requestPrincipal /\ r.status = f.status /\ r.err = f.err
    BY <2>3, <2>5, SetStep
  <2> HIDE DEF r
  <2>7. OfRequest(x, r) /\ Rejected(r)
    BY <2>4, <2>6 DEF Same, OfRequest, Rejected, Asking, Unanswered
  <2> QED
    BY <2>1, <2>2, <2>7 DEF FallbackDecides
<1> QED
  BY <1>2, <1>3

LEMMA DenyDecides ==
    ASSUME NEW x, Asking(x), \A u \in Users : ~Provided(x.cred, u)
    PROVE  FallbackDecides(x, F!Refused(F!Deny(x)))
  BY Denied DEF FallbackDecides

LEMMA Auth0Decides ==
    ASSUME NEW x, Asking(x), PipelineType, provider = "auth0"
    PROVE  FallbackDecides(x, F!Auth0Middleware(x))
<1> DEFINE e == F!ExtractToken(x)
           c == F!SessionToken(x)
<1>0. x \in Exchanges /\ x.cred.user \in F!Names /\ "none" \notin Users
  BY CredentialFacts DEF Asking
<1>1. /\ e = "jwt" => x.cred.secret = "jwt"
      /\ \A u \in Users : Provided(x.cred, u) => e = "jwt" /\ u = x.cred.user
  BY DEF F!ExtractToken, Provided
<1>2. c # "none" => c \in Users /\ x.cred.cookie = c
  BY DEF F!SessionToken
<1>3. F!Auth0Middleware(x) =
        CASE e = "jwt" -> F!Bridge(x, x.cred.user, "provider")
          [] e \notin {"jwt", "none"} -> F!Refused(F!Deny(x))
          [] e = "none" /\ c # "none" -> F!Bridge([x EXCEPT !.cache = "no-store"], c, "session")
          [] OTHER -> IF x.cred.cookie # "expired" /\ F!IsLandingRequest(x)
                      THEN [x EXCEPT !.step = "handling"] ELSE F!Refused(F!Deny(x))
  BY DEF F!Auth0Middleware
<1> HIDE DEF c
<1>4. CASE e = "jwt"
  <2>1. F!Auth0Middleware(x) = F!Bridge(x, x.cred.user, "provider")
    BY <1>3, <1>4
  <2>2. x.cred.user \in F!Proves(x.cred) /\ ~TokensOnly(x)
    BY <1>1, <1>4 DEF F!Proves, TokensOnly
  <2>3. x.cred.user # "none" /\ x.cred.scheme = "basic" => Provided(x.cred, x.cred.user)
    BY <1>1, <1>4 DEF Provided
  <2>4. \A v \in Users : Provided(x.cred, v) => v = x.cred.user
    BY DEF Provided
  <2> QED
    BY <1>0, <2>1, <2>2, <2>3, <2>4, BridgeDecides
<1>5. CASE e # "jwt"
  <2> HIDE DEF e
  <2>1. \A u \in Users : ~Provided(x.cred, u)
    BY <1>1, <1>5
  <2>2. FallbackDecides(x, F!Refused(F!Deny(x)))
    BY <2>1, DenyDecides
  <2>3. CASE e = "none" /\ c # "none"
    <3> DEFINE z == [x EXCEPT !.cache = "no-store"]
    <3>1. F!Auth0Middleware(x) = F!Bridge(z, c, "session")
      BY <1>3, <2>3
    <3>2. /\ Same(x, z) /\ z.cache = "no-store" /\ z.err = x.err /\ z.status = x.status
          /\ z.body = x.body
      BY <1>0, SetCache
    <3> HIDE DEF z
    <3>3. Asking(z) /\ z.cred = x.cred /\ z.route = x.route
      BY <3>2 DEF Asking, Same, Unanswered
    <3>4. c \in F!Names /\ c \in F!Proves(z.cred) /\ ~TokensOnly(z)
      BY <1>2, <2>3, <3>3 DEF F!Names, F!Proves, TokensOnly
    <3>5. FallbackDecides(z, F!Bridge(z, c, "session"))
      BY <2>1, <3>3, <3>4, BridgeDecides
    <3> DEFINE r == F!Bridge(z, c, "session")
    <3>6. FallbackDecides(z, r)
      BY <3>5
    <3> HIDE DEF r
    <3>7. OfRequest(z, r) => OfRequest(x, r)
      BY <3>2 DEF OfRequest, Same, Asking
    <3>8. FallbackDecides(x, r)
      BY <3>3, <3>6, <3>7 DEF FallbackDecides, TokensOnly
    <3> QED
      BY <3>1, <3>8 DEF r
  <2>4. CASE ~(e = "none" /\ c # "none") /\ x.cred.cookie # "expired" /\ F!IsLandingRequest(x)
             /\ e = "none"
    <3> DEFINE r == [x EXCEPT !.step = "handling"]
    <3>1. F!Auth0Middleware(x) = r
      BY <1>3, <2>4
    <3>2. /\ OfRequest(x, r) /\ r.step = "handling" /\ r.principal = x.principal
          /\ r.requestPrincipal = x.requestPrincipal /\ r.mechanism = x.mechanism
          /\ r.token = x.token /\ r.status = x.status /\ r.err = x.err
      BY <1>0, SetStep DEF F!Steps
    <3> HIDE DEF r
    <3>3. x.route = "index"
      BY <2>4 DEF F!IsLandingRequest
    <3> QED
      BY <2>1, <3>1, <3>2, <3>3 DEF FallbackDecides, Admitted, Asking, Unanswered
  <2>5. CASE e \notin {"jwt", "none"} \/ (e = "none" /\ c = "none"
                                          /\ ~(x.cred.cookie # "expired" /\ F!IsLandingRequest(x)))
    BY <1>3, <1>5, <2>2, <2>5
  <2> QED
    BY <1>5, <2>3, <2>4, <2>5
<1> QED
  BY <1>4, <1>5

\* What a scope for images covers.
LEMMA ImageScopes ==
    ASSUME NEW scopes \in SUBSET F!ScopeNames
    PROVE  F!Allows(scopes, "GET", "pxe") <=> F!Allows(scopes, "GET", "image")
<1>1. \A scope \in F!ScopeNames :
        <<"GET", "pxe">> \in F!ScopeRoutes(scope) <=> <<"GET", "image">> \in F!ScopeRoutes(scope)
  <2> SUFFICES ASSUME NEW scope \in F!ScopeNames
               PROVE  <<"GET", "pxe">> \in F!ScopeRoutes(scope)
                      <=> <<"GET", "image">> \in F!ScopeRoutes(scope)
    OBVIOUS
  <2>1. CASE scope = "image:read"
    BY <2>1 DEF F!ScopeRoutes
  <2>2. CASE scope # "image:read"
    BY <2>2 DEF F!ScopeRoutes, F!ScopeNames, F!TokenScopes
  <2> QED
    BY <2>1, <2>2
<1> QED
  BY <1>1 DEF F!Allows

LEMMA ImageRoutes ==
    /\ F!RouteTable("image") = F!Row("GET", "image", "download", "api")
    /\ F!RouteTable("pxe") = F!Row("GET", "pxe", "download", "api")
<1>1. "image" \in DOMAIN F!Routes /\ "pxe" \in DOMAIN F!Routes
  BY DEF F!Routes
<1>2. /\ F!Routes["image"] = F!Row("GET", "image", "download", "api")
      /\ F!Routes["pxe"] = F!Row("GET", "pxe", "download", "api")
  BY DEF F!Routes
<1>3. \A r \in {"image", "pxe"} : /\ r \notin DOMAIN F!RegistryRoutes /\ r \notin DOMAIN F!EnterpriseRoutes
                                /\ r \notin DOMAIN F!PageRoutes
  BY DEF F!RegistryRoutes, F!EnterpriseRoutes, F!PageRoutes
<1> QED
  BY <1>1, <1>2, <1>3 DEF F!RouteTable

LEMMA ImageMethods ==
    ASSUME NEW x
    PROVE  /\ x.route = "image" => F!Method(x) = "GET" /\ F!Area(x) = "image" /\ ~F!Public(x)
           /\ x.route = "pxe" => F!Method(x) = "GET" /\ F!Area(x) = "pxe" /\ ~F!Public(x)
  BY ImageRoutes DEF F!Method, F!Area, F!Public, F!Row

LEMMA TokenFacts ==
    ASSUME NEW t \in F!Tokens
    PROVE  /\ TokenClaims[t].subject \in Users /\ TokenClaims[t].scopes \in SUBSET F!ScopeNames
           /\ t \notin {"none", "password", "jwt", "junk"} /\ TokenClaims[t].subject # "none"
  BY FrontendConstants DEF F!FrontendAssumption

\* What the selector decides: as the provider does, or by a token.
SelectDecides(x, r) ==
    /\ OfRequest(x, r)
    /\ \/ /\ Admitted(r) /\ r.requestPrincipal = r.principal
          /\ r.principal # "none" => r.principal \in F!Proves(x.cred)
          /\ TokensOnly(x) /\ ~Covered(x) => x.route = "index"
          /\ x.route = "pxe" /\ r.principal # "none" /\ r.mechanism # "session"
             => F!ScriptCredential(r) = F!NoCredential \/ Grants(F!ScriptCredential(r), r.principal)
       \/ Rejected(r)
    /\ \A u \in Users : x.route = "image" /\ Grants(x.cred, u) => Admitted(r) /\ r.principal = u

LEMMA CredentialParts ==
    ASSUME NEW x
    PROVE  /\ x.cred.query # "none" /\ F!ReadOnly(F!Method(x))
              => F!Credential(x)[1] = x.cred.query /\ F!Credential(x)[2] = TRUE
           /\ ~(x.cred.query # "none" /\ F!ReadOnly(F!Method(x)))
              => /\ F!Credential(x)[1] = IF x.cred.scheme = "none" THEN "none" ELSE x.cred.secret
                 /\ F!Credential(x)[2] = FALSE
  BY DEF F!Credential

LEMMA Images ==
    ASSUME NEW x, x.route \in {"image", "pxe"}
    PROVE  /\ F!ReadOnly(F!Method(x)) /\ F!Method(x) = "GET"
           /\ \A t \in F!Tokens : F!Allows(TokenClaims[t].scopes, F!Method(x), F!Area(x))
                                  <=> F!Allows(TokenClaims[t].scopes, "GET", "image")
  BY ImageMethods, ImageScopes, TokenFacts DEF F!ReadOnly

LEMMA ScriptCredentials ==
    ASSUME NEW x \in Exchanges
    PROVE  LET s == F!ScriptCredential(x)
           IN  /\ s \in F!CredentialType
               /\ x.token # "none" => s.query = x.token
               /\ x.token = "none" /\ x.cred.scheme # "basic" => s = F!NoCredential
               /\ x.token = "none" /\ x.cred.scheme = "basic"
                  => s.query = "none" /\ s.scheme = "basic" /\ s.user = x.cred.user
                     /\ s.secret = x.cred.secret
<1>1. F!NoCredential \in F!CredentialType
  BY DEF F!NoCredential, F!CredentialType
<1>2. x.cred \in F!CredentialType /\ x.token \in F!Tokens \cup {"none"}
  BY DEF Exchanges
<1>3. CASE x.token # "none"
  <2>1. [F!NoCredential EXCEPT !.query = x.token] \in F!CredentialType
        /\ [F!NoCredential EXCEPT !.query = x.token].query = x.token
    BY <1>1, <1>2 DEF F!CredentialType
  <2> QED
    BY <1>3, <2>1 DEF F!ScriptCredential
<1>4. CASE x.token = "none" /\ x.cred.scheme = "basic"
  <2> DEFINE s == [x.cred EXCEPT !.query = "none", !.cookie = "none", !.client = "cli"]
  <2>1. s \in F!CredentialType /\ s.query = "none" /\ s.scheme = "basic" /\ s.user = x.cred.user
        /\ s.secret = x.cred.secret
    BY <1>2, <1>4 DEF F!CredentialType
  <2> QED
    BY <1>4, <2>1 DEF F!ScriptCredential
<1>5. CASE x.token = "none" /\ x.cred.scheme # "basic"
  BY <1>1, <1>5 DEF F!ScriptCredential
<1> QED
  BY <1>3, <1>4, <1>5

LEMMA TokenDecides ==
    ASSUME NEW x, Asking(x), PipelineType, F!Accepted(x)
    PROVE  SelectDecides(x, F!Select(x))
<1> DEFINE t == F!Credential(x)[1]
           u == TokenClaims[t].subject
           b == F!Bridge(x, u, "token")
           k == IF F!URLSafe(TokenClaims[t].scopes) THEN t ELSE "none"
           r == [b EXCEPT !.token = k]
<1>1. /\ t \in live /\ F!Allows(TokenClaims[t].scopes, F!Method(x), F!Area(x))
      /\ F!Credential(x)[2] => F!URLSafe(TokenClaims[t].scopes)
      /\ F!Select(x) = r
  BY DEF F!Accepted, F!Select
<1>2. t \in F!Tokens /\ t \notin {"none", "password", "jwt"} /\ u \in Users /\ u # "none"
  BY <1>1, TokenFacts DEF PipelineType
<1>3. t \in {x.cred.query, x.cred.secret}
  BY <1>2, CredentialParts
<1>4. u \in F!Proves(x.cred) /\ Covered(x)
  BY <1>1, <1>2, <1>3 DEF F!Proves, Covered
<1>5. x \in Exchanges /\ u \in F!Names
  BY <1>2 DEF Asking, F!Names
<1> HIDE DEF t, u
<1>6. /\ OfRequest(x, b) /\ b.step = "handling" /\ b.principal = u /\ b.requestPrincipal = u
      /\ b.mechanism = "token" /\ b.status = x.status /\ b.err = x.err
  BY <1>5, Bridged
<1>7. b \in Exchanges /\ k \in F!Tokens \cup {"none"}
  BY <1>2, <1>6 DEF OfRequest
<1> HIDE DEF b, k
<1>8. /\ OfRequest(b, r) /\ r.step = b.step /\ r.principal = b.principal
      /\ r.requestPrincipal = b.requestPrincipal /\ r.mechanism = b.mechanism
      /\ r.status = b.status /\ r.err = b.err /\ r.token = k
  BY <1>7 DEF OfRequest, Exchanges
<1> HIDE DEF r
<1>9. OfRequest(x, r) /\ Admitted(r) /\ r.requestPrincipal = r.principal /\ r.principal = u
  BY <1>6, <1>8 DEF OfRequest, Admitted, Asking, Unanswered
<1>10. ASSUME x.route = "pxe"
       PROVE  F!ScriptCredential(r) = F!NoCredential \/ Grants(F!ScriptCredential(r), u)
  <2>1. /\ F!ReadOnly(F!Method(x)) /\ F!Allows(TokenClaims[t].scopes, "GET", "image")
    BY <1>1, <1>2, <1>10, Images
  <2>2. r \in Exchanges /\ r.cred = x.cred
    BY <1>9 DEF OfRequest
  <2> DEFINE s == F!ScriptCredential(r)
  <2>3. /\ r.token # "none" => s.query = r.token
        /\ r.token = "none" /\ x.cred.scheme # "basic" => s = F!NoCredential
        /\ r.token = "none" /\ x.cred.scheme = "basic"
           => s.query = "none" /\ s.scheme = "basic" /\ s.secret = x.cred.secret
    BY <2>2, ScriptCredentials
  <2> HIDE DEF s
  <2>4. CASE F!URLSafe(TokenClaims[t].scopes)
    <3>1. r.token = t /\ s.query = t
      BY <1>2, <1>8, <2>3, <2>4 DEF k
    <3> QED
      BY <1>1, <2>1, <2>4, <3>1 DEF Grants, s, u
  <2>5. CASE ~F!URLSafe(TokenClaims[t].scopes)
    <3>1. r.token = "none" /\ ~F!Credential(x)[2]
      BY <1>1, <1>8, <2>5 DEF k
    <3>2. x.cred.scheme # "none" /\ x.cred.secret = t
      BY <1>2, <2>1, <3>1, CredentialParts DEF t
    <3> QED
      BY <1>1, <2>1, <2>3, <3>1, <3>2 DEF Grants, s, u
  <2> QED
    BY <2>4, <2>5
<1>11. ASSUME x.route = "image", NEW v \in Users, Grants(x.cred, v)
       PROVE  v = u
  <2>1. F!ReadOnly(F!Method(x))
    BY <1>11, Images
  <2>2. CASE \E s \in live :
               /\ TokenClaims[s].subject = v
               /\ \/ x.cred.query = s
                  \/ x.cred.query = "none" /\ x.cred.scheme = "basic" /\ x.cred.secret = s
    <3>1. PICK s \in live :
               /\ TokenClaims[s].subject = v
               /\ \/ x.cred.query = s
                  \/ x.cred.query = "none" /\ x.cred.scheme = "basic" /\ x.cred.secret = s
      BY <2>2
    <3>2. s # "none"
      BY TokenFacts DEF PipelineType
    <3>3. s = t
      BY <2>1, <3>1, <3>2, CredentialParts DEF t
    <3> QED
      BY <3>1, <3>3 DEF u
  <2>3. CASE x.cred.query = "none" /\ Provided(x.cred, v)
    <3>1. t \in {"password", "jwt", "none"}
      BY <2>3, CredentialParts DEF Provided, t
    <3> QED
      BY <1>2, <3>1
  <2> QED
    BY <1>11, <2>2, <2>3 DEF Grants
<1> QED
  BY <1>1, <1>4, <1>9, <1>10, <1>11 DEF SelectDecides

LEMMA FallbackSelects ==
    ASSUME NEW x, Asking(x), PipelineType, ~F!Accepted(x)
    PROVE  SelectDecides(x, F!Select(x))
<1> DEFINE r == F!Fallback(x)
<1>1. F!Select(x) = r
  BY DEF F!Select
<1>2. provider \in {"htpasswd", "auth0"}
  BY DEF PipelineType, F!Providers, Asking, F!AuthEnabled
<1>3. FallbackDecides(x, r)
  BY <1>2, HtpasswdDecides, Auth0Decides DEF F!Fallback
<1> HIDE DEF r
<1>4. OfRequest(x, r) /\ r \in Exchanges /\ r.cred = x.cred
  BY <1>3 DEF FallbackDecides, OfRequest
<1>5. ASSUME Admitted(r), x.route = "pxe", r.principal # "none", r.mechanism # "session",
             r.token = "none", x.cred.scheme = "basic" => Provided(x.cred, r.principal)
      PROVE  F!ScriptCredential(r) = F!NoCredential \/ Grants(F!ScriptCredential(r), r.principal)
  <2> DEFINE s == F!ScriptCredential(r)
  <2>1. /\ x.cred.scheme # "basic" => s = F!NoCredential
        /\ x.cred.scheme = "basic"
           => s.query = "none" /\ s.scheme = "basic" /\ s.user = x.cred.user
              /\ s.secret = x.cred.secret
    BY <1>4, <1>5, ScriptCredentials
  <2> HIDE DEF s
  <2>2. s = F!NoCredential \/ Grants(s, r.principal)
    BY <1>5, <2>1 DEF Grants, Provided
  <2> QED
    BY <2>2 DEF s
<1>6. ASSUME x.route = "image", NEW v \in Users, Grants(x.cred, v)
      PROVE  Provided(x.cred, v)
  <2>1. F!ReadOnly(F!Method(x))
    BY <1>6, Images
  <2> SUFFICES ASSUME NEW t \in live,
                      TokenClaims[t].subject = v,
                      F!Allows(TokenClaims[t].scopes, "GET", "image"),
                      \/ x.cred.query = t /\ F!URLSafe(TokenClaims[t].scopes)
                      \/ x.cred.query = "none" /\ x.cred.scheme = "basic" /\ x.cred.secret = t
               PROVE  FALSE
    BY <1>6 DEF Grants
  <2>2. t \in F!Tokens /\ t # "none"
    BY TokenFacts DEF PipelineType
  <2>3. F!Credential(x)[1] = t /\ (F!Credential(x)[2] => F!URLSafe(TokenClaims[t].scopes))
    BY <2>1, <2>2, CredentialParts
  <2>4. F!Allows(TokenClaims[t].scopes, F!Method(x), F!Area(x))
    BY <1>6, <2>2, Images
  <2> QED
    BY <2>3, <2>4 DEF F!Accepted
<1>7. \A u \in Users : x.route = "image" /\ Grants(x.cred, u) => Admitted(r) /\ r.principal = u
  BY <1>3, <1>6 DEF FallbackDecides
<1>8. SelectDecides(x, r)
  BY <1>3, <1>5, <1>7 DEF FallbackDecides, SelectDecides
<1> QED
  BY <1>1, <1>8

-----------------------------------------------------------------------------
(* The steps of a request.                                                    *)

LEMMA SameRequest ==
    ASSUME NEW x, NEW r, r.route = x.route, r.cred = x.cred
    PROVE  /\ F!Public(r) = F!Public(x) /\ Covered(r) = Covered(x) /\ TokensOnly(r) = TokensOnly(x)
           /\ F!Method(r) = F!Method(x)
  BY DEF F!Public, Covered, F!Credential, F!Method, F!Area, TokensOnly

\* What is known of a request still is while the world behind it stays.
LEMMA TransferAnswer ==
    ASSUME NEW r, exchange' = r, UNCHANGED provider,
           Stepped(r), Identified(r), Owned(r), Pins(r), Audited(r), Bound(r)
    PROVE  /\ Stepped(exchange)' /\ Identified(exchange)' /\ Owned(exchange)'
           /\ Pins(exchange)' /\ Audited(exchange)' /\ Bound(exchange)'
<1>1. Stepped(exchange)' /\ Identified(exchange)' /\ Owned(exchange)'
  BY DEF Stepped, Fresh, Unanswered, Identified, Owned, Theirs, F!AuthEnabled, F!Proves, F!Tokens
<1>2. Pins(exchange)' /\ Audited(exchange)'
  BY DEF Pins, Fresh, Audited, F!AuthEnabled, F!AuditStatus, F!Public
<1>3. Bound(exchange)'
  BY DEF Bound, F!AuthEnabled, TokensOnly, Covered, F!Public, F!Credential, F!Method, F!Area
<1> QED
  BY <1>1, <1>2, <1>3

LEMMA Transfer ==
    ASSUME NEW r, exchange' = r, Sound(r), UNCHANGED <<provider, users, live>>,
           r.step \in {"handled", "done"} \/ UNCHANGED stored
    PROVE  Sound(exchange)'
<1>1. /\ Stepped(exchange)' /\ Identified(exchange)' /\ Owned(exchange)'
      /\ Pins(exchange)' /\ Audited(exchange)' /\ Bound(exchange)'
  BY TransferAnswer DEF Sound
<1>2. Carries(exchange)'
  BY DEF Sound, Carries, F!AuthEnabled, Grants, Provided, F!ScriptCredential
<1>3. Followed(exchange)'
  BY DEF Sound, Followed, F!AuthEnabled, Grants, Provided, Readable
<1> QED
  BY <1>1, <1>2, <1>3 DEF Sound

LEMMA IdleFacts == F!Idle \in Exchanges /\ Sound(F!Idle) /\ F!Idle.step = "idle"
<1>1. F!Idle \in Exchanges
  BY DEF F!Idle, Exchanges, F!Steps, F!RouteNames, F!RegistryRoutes, F!Schematics, F!CredentialType,
         F!NoCredential, F!Ownerless, F!NoAudit, F!Names, F!Statuses, ErrorNames
<1>2. Sound(F!Idle)
  BY DEF F!Idle, Sound, Stepped, Fresh, Unanswered, Identified, Owned, Pins, Bound, Audited,
         Carries, Followed
<1> QED
  BY <1>1, <1>2 DEF F!Idle

LEMMA InitRequest == F!Init => PipelineType /\ PipelineInv
<1> SUFFICES ASSUME F!Init PROVE PipelineType /\ PipelineInv
  OBVIOUS
<1>1. PipelineType
  BY IdleFacts DEF F!Init, PipelineType, F!Providers
<1>2. PipelineInv
  BY IdleFacts DEF F!Init, PipelineInv
<1> QED
  BY <1>1, <1>2

LEMMA ReceiveStep ==
    ASSUME PipelineType, PipelineInv, F!Receive
    PROVE  PipelineType' /\ PipelineInv'
<1>0. PICK route \in F!RouteNames, target \in F!Schematics, cred \in Credentials :
          \E verdict \in F!Verdicts(route) :
             exchange' = [F!Idle EXCEPT !.step = IF verdict = "nil" THEN "received" ELSE "handled",
                                        !.err = verdict,
                                        !.route = route, !.target = target, !.cred = cred]
  BY DEF F!Receive
<1>e. PICK err \in {"nil"} \cup Breaches :
          exchange' = [F!Idle EXCEPT !.step = IF err = "nil" THEN "received" ELSE "handled",
                                     !.err = err,
                                     !.route = route, !.target = target, !.cred = cred]
  BY <1>0 DEF F!Verdicts, Breaches
<1> DEFINE step == IF err = "nil" THEN "received" ELSE "handled"
           r == [F!Idle EXCEPT !.step = step, !.err = err,
                               !.route = route, !.target = target, !.cred = cred]
<1>1. exchange' = r /\ script' = {} /\ UNCHANGED <<provider, file, users, live, stored>>
  BY <1>e DEF F!Receive
<1>2. cred \in F!CredentialType
  BY FrontendConstants DEF F!FrontendAssumption
<1>3. r \in Exchanges
  <2>1. step \in F!Steps /\ err \in ErrorNames /\ F!Idle \in Exchanges
    BY IdleFacts DEF F!Steps, ErrorNames, F!Errors, Breaches
  <2> HIDE DEF step
  <2> QED
    BY <1>2, <2>1 DEF Exchanges
<1>4. /\ r.step \in {"received", "handled"} /\ r.principal = "none" /\ r.requestPrincipal = "none"
      /\ r.mechanism = "none" /\ r.token = "none" /\ r.pinned = "none" /\ r.status = 0
      /\ r.body = {} /\ r.audits = 0 /\ r.via = "client"
      /\ r.step = "received" => r.err = "nil"
      /\ r.step = "handled" => r.err \in Breaches
  BY DEF F!Idle, Breaches
<1> HIDE DEF r
<1>5. Sound(r)
  BY <1>4 DEF Sound, Stepped, Fresh, Unanswered, Identified, Owned, Pins, Bound, Refusals, Audited,
              Carries, Followed
<1>6. Sound(exchange)'
  BY <1>1, <1>5, Transfer
<1> QED
  BY <1>1, <1>3, <1>6 DEF PipelineType, PipelineInv

LEMMA FollowStep ==
    ASSUME PipelineType, PipelineInv, F!Follow
    PROVE  PipelineType' /\ PipelineInv'
<1>1. PICK next \in script :
          exchange' = [F!Idle EXCEPT !.step = "received", !.route = "image",
                                     !.via = IF next.promised THEN "script" ELSE "client",
                                     !.target = next.target, !.cred = next.cred]
  BY DEF F!Follow
<1>2. script' = {} /\ UNCHANGED <<provider, file, users, live, stored>>
  BY DEF F!Follow
<1>3. next \in Scripts /\ Promises(next)
  BY DEF PipelineType, PipelineInv
<1>4. next.target \in F!Schematics /\ next.cred \in F!CredentialType /\ "image" \in F!RouteNames
  BY <1>3 DEF Scripts, F!RouteNames, F!Routes
<1> DEFINE r == [F!Idle EXCEPT !.step = "received", !.route = "image",
                               !.via = IF next.promised THEN "script" ELSE "client",
                               !.target = next.target, !.cred = next.cred]
<1>5. r \in Exchanges
  BY <1>4, IdleFacts DEF Exchanges, F!Steps
<1>6. /\ r.step = "received" /\ r.principal = "none" /\ r.requestPrincipal = "none"
      /\ r.mechanism = "none" /\ r.token = "none" /\ r.pinned = "none" /\ r.status = 0
      /\ r.body = {} /\ r.audits = 0 /\ r.err = "nil" /\ r.route = "image"
      /\ r.target = next.target /\ r.cred = next.cred /\ (r.via = "script" => next.promised)
  BY DEF F!Idle
<1>7. exchange' = r
  BY <1>1
<1> HIDE DEF r
<1>8. Sound(r)
  <2>1. Followed(r)
    BY <1>3, <1>6 DEF Promises, Followed
  <2> QED
    BY <1>6, <2>1 DEF Sound, Stepped, Fresh, Unanswered, Identified, Owned, Pins, Bound, Audited,
                      Carries
<1>9. Sound(exchange)'
  BY <1>2, <1>7, <1>8, Transfer
<1> QED
  BY <1>2, <1>5, <1>7, <1>9 DEF PipelineType, PipelineInv

LEMMA CloseStep ==
    ASSUME PipelineType, PipelineInv, F!Close
    PROVE  PipelineType' /\ PipelineInv'
<1>1. exchange' = F!Idle /\ UNCHANGED <<provider, file, users, live, stored, script>>
  BY DEF F!Close
<1>2. Sound(exchange)'
  BY <1>1, IdleFacts, Transfer
<1>3. PipelineType'
  BY <1>1, IdleFacts DEF PipelineType
<1>4. \A n \in script' : Promises(n)'
  BY <1>1 DEF PipelineInv, Promises, F!AuthEnabled, Readable, Grants, Provided
<1> QED
  BY <1>2, <1>3, <1>4 DEF PipelineInv

\* The same request, with the pin.
WithPin(x, y) ==
    /\ y \in Exchanges /\ y.cache = "no-store" /\ y.pinned = "no-store"
    /\ y.principal = x.principal /\ y.requestPrincipal = x.requestPrincipal
    /\ y.mechanism = x.mechanism /\ y.token = x.token /\ y.status = x.status
    /\ y.body = x.body /\ y.err = x.err /\ y.audits = x.audits /\ y.route = x.route
    /\ y.cred = x.cred /\ y.via = x.via /\ y.target = x.target /\ y.step = x.step

LEMMA SetPin ==
    ASSUME NEW x \in Exchanges
    PROVE  WithPin(x, [x EXCEPT !.cache = "no-store", !.pinned = "no-store"])
<1>1. [x EXCEPT !.cache = "no-store", !.pinned = "no-store"] \in Exchanges
  BY DEF Exchanges
<1> QED
  BY <1>1 DEF Exchanges, WithPin

\* A decision of the selector keeps what is known of a request.
LEMMA DecisionSound ==
    ASSUME NEW x, NEW r, Asking(x), SelectDecides(x, r), x.audits = 0,
           (x.via = "script" /\ x.cred # F!NoCredential)
           => x.route = "image" /\ Readable(x.target) /\ Grants(x.cred, x.target.owner)
    PROVE  Sound(r)
<1>1. OfRequest(x, r) /\ r.requestPrincipal = r.principal /\ r.body = {} /\ r.audits = 0
      /\ r.pinned = "no-store" /\ r.cache = "no-store" /\ r.step \in {"handling", "handled"}
  BY DEF SelectDecides, Admitted, Rejected, OfRequest, Asking, Unanswered
<1>2. r.route = x.route /\ r.cred = x.cred /\ r.via = x.via /\ r.target = x.target
  BY <1>1 DEF OfRequest
<1>3. Stepped(r)
  BY <1>1 DEF SelectDecides, Admitted, Rejected, Stepped, Unanswered
<1>4. Identified(r)
  BY <1>1, <1>2 DEF SelectDecides, Rejected, Identified, Asking
<1>5. Owned(r) /\ Pins(r) /\ Audited(r)
  BY <1>1 DEF Owned, Pins, Audited
<1>6. Bound(r)
  <2>1. Covered(r) = Covered(x) /\ TokensOnly(r) = TokensOnly(x)
    BY <1>2, SameRequest
  <2> QED
    BY <1>2, <2>1 DEF SelectDecides, Admitted, Rejected, Bound, Refusals
<1>7. Carries(r)
  BY <1>2 DEF SelectDecides, Rejected, Carries
<1>8. Followed(r)
  <2> SUFFICES ASSUME r.via = "script", r.cred # F!NoCredential
               PROVE  /\ r.route = "image" /\ r.step = "handling" /\ Readable(r.target)
                      /\ r.principal = r.target.owner /\ r.status = 0
    BY DEF Followed
  <2>1. x.route = "image" /\ Readable(x.target) /\ Grants(x.cred, x.target.owner)
    BY <1>2
  <2>2. x.target.owner \in Users
    BY <2>1 DEF Readable, Asking, Exchanges, F!Schematics, F!Names
  <2> QED
    BY <1>2, <2>1, <2>2 DEF SelectDecides, Admitted
<1> QED
  BY <1>3, <1>4, <1>5, <1>6, <1>7, <1>8 DEF Sound

LEMMA AuthenticateStep ==
    ASSUME PipelineType, PipelineInv, NEW reachable \in BOOLEAN, F!Authenticate(reachable)
    PROVE  PipelineType' /\ PipelineInv'
<1> DEFINE x == exchange
           p == [x EXCEPT !.cache = "no-store", !.pinned = "no-store"]
           n == F!Refused(F!Failed(p, "notReady"))
           h == [x EXCEPT !.step = "handling"]
           s == F!Select(p)
<1>1. UNCHANGED <<provider, file, users, live, stored, script>> /\ x.step = "received"
  BY DEF F!Authenticate
<1>2. exchange' = IF F!Public(x) \/ ~F!AuthEnabled THEN h
                  ELSE IF ~reachable /\ F!Credential(x)[1] \in F!Tokens THEN n ELSE s
  BY DEF F!Authenticate, F!WithAuth
<1>3. x \in Exchanges /\ Fresh(x) /\ Unanswered(x) /\ x.audits = 0 /\ Followed(x)
  BY <1>1 DEF PipelineType, PipelineInv, Sound, Stepped
<1> HIDE DEF x
<1>4. ASSUME F!Public(x) \/ ~F!AuthEnabled
      PROVE  h \in Exchanges /\ Sound(h)
  <2>1. /\ OfRequest(x, h) /\ h.step = "handling" /\ h.principal = x.principal
        /\ h.requestPrincipal = x.requestPrincipal /\ h.mechanism = x.mechanism
        /\ h.token = x.token /\ h.status = x.status /\ h.err = x.err
    BY <1>3, SetStep DEF F!Steps
  <2> HIDE DEF h
  <2>2. h.route = x.route /\ h.cred = x.cred /\ h.via = x.via /\ h.pinned = "none"
        /\ h.body = {} /\ h.audits = 0 /\ h.principal = "none" /\ h.status = 0 /\ h.err = "nil"
    BY <1>3, <2>1 DEF OfRequest, Fresh, Unanswered
  <2>3. F!Public(h) = F!Public(x)
    BY <2>2, SameRequest
  <2>4. Followed(h)
    <3>1. x.route = "image" => ~F!Public(x)
      BY ImageMethods
    <3> QED
      BY <1>3, <1>4, <2>2, <3>1 DEF Followed
  <2>5. Stepped(h) /\ Identified(h) /\ Owned(h) /\ Pins(h) /\ Bound(h) /\ Audited(h) /\ Carries(h)
    BY <1>3, <1>4, <2>1, <2>2, <2>3
       DEF Stepped, Fresh, Unanswered, Identified, Owned, Pins, Bound, Audited, Carries
  <2> QED
    BY <2>1, <2>4, <2>5 DEF OfRequest, Sound
<1>5. ASSUME F!AuthEnabled
      PROVE  /\ Asking(p) /\ p.audits = 0 /\ p.route = x.route /\ p.cred = x.cred /\ p.via = x.via
             /\ p.target = x.target /\ p.step = "received"
  <2>1. WithPin(x, p)
    BY <1>3, SetPin
  <2> HIDE DEF p
  <2> QED
    BY <1>1, <1>3, <1>5, <2>1 DEF WithPin, Asking, Fresh, Unanswered, x
<1> HIDE DEF p
<1>6. ASSUME F!AuthEnabled, ~F!Public(x)
      PROVE  n \in Exchanges /\ Sound(n)
  <2> DEFINE f == F!Failed(p, "notReady")
  <2>1. p \in Exchanges /\ "notReady" \in ErrorNames /\ "handled" \in F!Steps
    BY <1>5, <1>6 DEF Asking, ErrorNames, F!Errors, F!Steps
  <2>2. Same(p, f) /\ f.err = "notReady" /\ f.body = p.body /\ f.status = p.status
        /\ f.cache = p.cache
    BY <2>1, SetErr
  <2>0. n = [f EXCEPT !.step = "handled"]
    BY DEF n, F!Refused
  <2> HIDE DEF f
  <2>3. f \in Exchanges
    BY <2>2 DEF Same
  <2> HIDE DEF n
  <2>4. /\ OfRequest(f, n) /\ n.step = "handled" /\ n.principal = f.principal
        /\ n.requestPrincipal = f.requestPrincipal /\ n.status = f.status /\ n.err = f.err
    BY <2>0, <2>1, <2>3, SetStep
  <2>5. /\ n \in Exchanges /\ n.route = x.route /\ n.cred = x.cred /\ n.via = x.via
        /\ n.audits = 0 /\ n.body = {} /\ n.principal = "none" /\ n.requestPrincipal = "none"
        /\ n.pinned = "no-store" /\ n.cache = "no-store" /\ n.status = 0 /\ n.err = "notReady"
    BY <1>5, <1>6, <2>2, <2>4 DEF OfRequest, Same, Asking, Unanswered
  <2>6. Followed(n)
    BY <1>3, <1>6, <2>4, <2>5 DEF Followed
  <2> QED
    BY <2>4, <2>5, <2>6
       DEF Sound, Stepped, Identified, Owned, Pins, Bound, Refusals, Audited, Carries
<1>7. ASSUME F!AuthEnabled
      PROVE  s \in Exchanges /\ Sound(s)
  <2>1. Asking(p) /\ p.audits = 0
    BY <1>5, <1>7
  <2>2. SelectDecides(p, s)
    BY <2>1, TokenDecides, FallbackSelects
  <2> HIDE DEF s
  <2>3. (p.via = "script" /\ p.cred # F!NoCredential)
        => p.route = "image" /\ Readable(p.target) /\ Grants(p.cred, p.target.owner)
    BY <1>1, <1>3, <1>5, <1>7 DEF Followed, x
  <2>4. Sound(s)
    BY <2>1, <2>2, <2>3, DecisionSound
  <2> QED
    BY <2>2, <2>4 DEF SelectDecides, OfRequest
<1> HIDE DEF n, h, s
<1>8. PICK r : exchange' = r /\ r \in Exchanges /\ Sound(r)
  BY <1>2, <1>4, <1>6, <1>7
<1>9. Sound(exchange)'
  BY <1>1, <1>8, Transfer
<1>10. \A m \in script' : Promises(m)'
  BY <1>1 DEF PipelineInv, Promises, F!AuthEnabled, Readable, Grants, Provided
<1> QED
  BY <1>1, <1>8, <1>9, <1>10 DEF PipelineType, PipelineInv

\* An answer keeps what is known of a request.
LEMMA AnswerSound ==
    ASSUME NEW x \in Exchanges, x.step = "handling", Sound(x), NEW y, Answers(x, y),
           F!AuthEnabled /\ x.via = "script" /\ x.cred # F!NoCredential
           => y.status \notin {401, 403} /\ y.err \notin {"requiresAuthentication", "forbidden"}
    PROVE  LET r == [y EXCEPT !.step = "handled"]
           IN  r \in Exchanges /\ Sound(r) /\ r.step = "handled"
<1> DEFINE r == [y EXCEPT !.step = "handled"]
<1>1. y \in Exchanges /\ "handled" \in F!Steps
  BY DEF Answers, Same, F!Steps
<1>2. /\ OfRequest(y, r) /\ r.step = "handled" /\ r.principal = y.principal
      /\ r.requestPrincipal = y.requestPrincipal /\ r.status = y.status /\ r.err = y.err
  BY <1>1, SetStep
<1> HIDE DEF r
<1>3. /\ r.route = x.route /\ r.cred = x.cred /\ r.via = x.via /\ r.audits = x.audits
      /\ r.principal = x.principal /\ r.requestPrincipal = x.requestPrincipal
      /\ r.pinned = x.pinned /\ r.body = y.body /\ r.cache = y.cache
      /\ y.route = x.route /\ y.principal = x.principal /\ y.pinned = x.pinned
  BY <1>2 DEF OfRequest, Answers, Same
<1>4. F!Public(r) = F!Public(x) /\ Covered(r) = Covered(x) /\ TokensOnly(r) = TokensOnly(x)
  BY <1>3, SameRequest
<1>5. Stepped(r) /\ Identified(r) /\ Audited(r) /\ Carries(r)
  BY <1>2, <1>3 DEF Sound, Stepped, Identified, Audited, Carries
<1>6. Owned(r)
  BY <1>3 DEF Answers, Owned, Theirs
<1>7. Pins(r)
  BY <1>2, <1>3, <1>4 DEF Sound, Pins, Answers
<1>8. Bound(r)
  BY <1>3, <1>4 DEF Sound, Bound
<1>9. Followed(r)
  BY <1>2, <1>3 DEF Sound, Followed
<1> QED
  BY <1>2, <1>5, <1>6, <1>7, <1>8, <1>9 DEF Sound, OfRequest, r

LEMMA HandleStep ==
    ASSUME PipelineType, PipelineInv, NEW course \in F!Courses, F!Handle(course)
    PROVE  PipelineType' /\ PipelineInv'
<1> DEFINE x == exchange
           y == IF x.route = "create" THEN F!Create(x, x.target.owner, course)
                ELSE F!Serve(x, course)
           r == [y EXCEPT !.step = "handled"]
           next == [target |-> y.target, cred |-> F!ScriptCredential(y),
                    promised |-> y.mechanism # "session"]
<1>1. /\ x.step = "handling" /\ UNCHANGED <<provider, file, users, live>>
      /\ exchange' = r
      /\ stored' = IF y.route = "create" THEN stored \cup y.body ELSE stored
      /\ script' = IF y.route = "pxe" /\ y.err = "nil" /\ y.via # "changed" THEN {next} ELSE script
  BY DEF F!Handle
<1>2. x \in Exchanges /\ Sound(x)
  BY DEF PipelineType, PipelineInv
<1>3. Ready(x) /\ Identified(x) /\ Followed(x) /\ Carries(x)
  BY <1>1, <1>2 DEF Ready, Sound, Stepped
<1> HIDE DEF x
<1>4. Answers(x, y)
  <2>1. x.target.owner \in F!Names
    BY <1>2 DEF Exchanges, F!Schematics, F!Names
  <2>2. CASE x.route = "create"
    BY <1>3, <2>1, <2>2, CreateAnswers
  <2>3. CASE x.route # "create"
    BY <1>3, <2>3, ServeAnswers
  <2> QED
    BY <2>2, <2>3
<1>5. F!ServiceGet(x) = "nil" => Theirs(x, x.target)
  BY <1>3, TargetTheirs
<1>6. F!AuthEnabled /\ x.via = "script" /\ x.cred # F!NoCredential
      => y.status \notin {401, 403} /\ y.err \notin {"requiresAuthentication", "forbidden"}
  <2> SUFFICES ASSUME F!AuthEnabled, x.via = "script", x.cred # F!NoCredential
               PROVE  y.status \notin {401, 403}
                      /\ y.err \notin {"requiresAuthentication", "forbidden"}
    OBVIOUS
  <2>1. x.route = "image" /\ Readable(x.target) /\ x.principal = x.target.owner
    BY <1>1, <1>3 DEF Followed, x
  <2>2. F!ServiceGet(x) = "nil"
    BY <2>1 DEF F!ServiceGet, F!MayRead, Readable
  <2>3. y = F!ServeImage(x, course)
    BY <2>1 DEF F!Serve
  <2> QED
    BY <1>3, <1>5, <2>2, <2>3, ImageAnswers
<1>7. x.route = "pxe" /\ y.err = "nil" => F!ServiceGet(x) = "nil"
  <2> SUFFICES ASSUME x.route = "pxe", y.err = "nil" PROVE F!ServiceGet(x) = "nil"
    OBVIOUS
  <2>1. y = F!ServePXE(x, course)
    BY DEF F!Serve
  <2> QED
    BY <1>3, <1>5, <2>1, PXEAnswers
<1> HIDE DEF y
<1>8. r \in Exchanges /\ Sound(r) /\ r.step = "handled"
  BY <1>1, <1>2, <1>4, <1>6, AnswerSound DEF x
<1> HIDE DEF r
<1>9. Sound(exchange)'
  BY <1>1, <1>8, Transfer
<1>10. /\ y \in Exchanges /\ y.route = x.route /\ y.target = x.target /\ y.cred = x.cred
       /\ y.token = x.token /\ y.mechanism = x.mechanism /\ y.via = x.via
  BY <1>4 DEF Answers, Same
<1>11. F!ScriptCredential(y) = F!ScriptCredential(x)
  BY <1>10 DEF F!ScriptCredential
<1>12. next \in Scripts
  <2>1. F!ScriptCredential(y) \in F!CredentialType /\ y.target \in F!Schematics
    BY <1>10, ScriptCredentials DEF Exchanges
  <2> QED
    BY <2>1 DEF Scripts
<1>13. y.route = "pxe" /\ y.err = "nil" /\ y.via # "changed" => Promises(next)
  <2> SUFFICES ASSUME y.route = "pxe", y.err = "nil", y.via # "changed", F!AuthEnabled,
                      next.promised, next.cred # F!NoCredential
               PROVE  Readable(next.target) /\ Grants(next.cred, next.target.owner)
    BY DEF Promises
  <2>1. next.target = x.target /\ next.cred = F!ScriptCredential(x) /\ x.mechanism # "session"
    BY <1>10, <1>11
  <2>2. F!ServiceGet(x) = "nil"
    BY <1>7, <1>10
  <2>3. Readable(x.target) /\ x.principal = x.target.owner /\ x.principal # "none"
    BY <2>2 DEF F!ServiceGet, F!MayRead, Readable
  <2>4. F!ScriptCredential(x) = F!NoCredential \/ Grants(F!ScriptCredential(x), x.principal)
    BY <1>1, <1>3, <1>10, <2>1, <2>3 DEF Carries, x
  <2> HIDE DEF next
  <2> QED
    BY <2>1, <2>3, <2>4
<1> HIDE DEF next
<1>14. stored \subseteq stored' /\ stored' \in SUBSET F!Schematics
  BY <1>1, <1>10 DEF PipelineType, Exchanges
<1>15. \A n : Promises(n) => Promises(n)'
  BY <1>1, <1>14 DEF Promises, F!AuthEnabled, Readable, Grants, Provided
<1>16. \A n \in script' : Promises(n)'
  BY <1>1, <1>13, <1>15 DEF PipelineInv
<1>17. PipelineType'
  BY <1>1, <1>8, <1>12, <1>14 DEF PipelineType
<1> QED
  BY <1>9, <1>16, <1>17 DEF PipelineInv

LEMMA StatusFacts ==
    ASSUME NEW e \in ErrorNames
    PROVE  /\ F!ClassifyError(e) \in F!Statuses \ {0}
           /\ F!ClassifyError(e) \in {401, 403} => e \in {"requiresAuthentication", "forbidden"}
           /\ ~F!Rendered(e) <=> e \in {"nil", "responded", "canceled"}
           /\ e \in Breaches => F!ClassifyError(e) \in {400, 404, 405}
           /\ e \in Refusals => F!ClassifyError(e) \in {400, 401, 404, 405, 503}
           /\ e = "canceled" => F!ClassifyError(e) = 499
           /\ e \in {"nil", "responded"} => F!ClassifyError(e) = 200
<1>1. /\ F!ClassifyError("nil") = 200 /\ F!ClassifyError("responded") = 200
      /\ F!ClassifyError("notEnabled") = 402 /\ F!ClassifyError("notReady") = 503
      /\ F!ClassifyError("proxyUnavailable") = 503 /\ F!ClassifyError("notFound") = 404
      /\ F!ClassifyError("invalid") = 400 /\ F!ClassifyError("requiresAuthentication") = 401
      /\ F!ClassifyError("forbidden") = 403 /\ F!ClassifyError("canceled") = 499
      /\ F!ClassifyError("notAllowed") = 405
      /\ F!ClassifyError("internal") = 500
  BY DEF F!ClassifyError
<1>2. e \in {"nil", "responded", "notEnabled", "notReady", "proxyUnavailable", "notFound", "invalid",
            "requiresAuthentication", "forbidden", "notAllowed", "canceled", "internal"}
  BY DEF ErrorNames, F!Errors
<1> QED
  BY <1>1, <1>2 DEF F!Rendered, F!Statuses, Refusals, Breaches

\* The response as it is on the wire in the end.
LEMMA WireFacts ==
    ASSUME NEW x \in Exchanges, x.pinned # "none" /\ x.status # 0 => x.cache = x.pinned
    PROVE  LET r == IF x.status = 0 THEN F!RenderError(x) ELSE x
               w == IF r.status = 0 THEN F!ApplyCacheControlPin(r) ELSE r
           IN  /\ Same(x, w) /\ w.body = x.body /\ w.err = x.err
               /\ w.pinned # "none" => w.cache = w.pinned
               /\ w.status = IF x.status # 0 THEN x.status
                             ELSE IF F!Rendered(x.err) THEN F!ClassifyError(x.err) ELSE 0
<1>0. x.err \in ErrorNames /\ x.pinned \in {"none", "no-store"} /\ x.challenge \in BOOLEAN
      /\ Same(x, x)
  BY DEF Exchanges, Same
<1>1. CASE x.status # 0
  BY <1>0, <1>1
<1>2. CASE x.status = 0 /\ ~F!Rendered(x.err)
  <2>1. F!RenderError(x) = x
    BY <1>2 DEF F!RenderError
  <2>2. CASE x.pinned = "none"
    BY <1>0, <1>2, <2>1, <2>2 DEF F!ApplyCacheControlPin
  <2>3. CASE x.pinned = "no-store"
    <3> DEFINE w == [x EXCEPT !.cache = "no-store"]
    <3>1. Same(x, w) /\ w.cache = "no-store" /\ w.err = x.err /\ w.status = x.status /\ w.body = x.body
      BY SetCache
    <3>2. F!ApplyCacheControlPin(x) = w
      BY <2>3 DEF F!ApplyCacheControlPin
    <3> HIDE DEF w
    <3>3. w.pinned = "no-store"
      BY <2>3, <3>1 DEF Same
    <3> QED
      BY <1>2, <2>1, <3>1, <3>2, <3>3
  <2> QED
    BY <1>0, <2>2, <2>3
<1>3. CASE x.status = 0 /\ F!Rendered(x.err)
  <2> DEFINE code == F!ClassifyError(x.err)
             b == x.challenge \/ code = 401
             c == [x EXCEPT !.challenge = b]
             y == [c EXCEPT !.status = code]
             w == F!Commit(c, code)
  <2>0. b \in BOOLEAN
    BY <1>0
  <2>1. F!RenderError(x) = w
    BY <1>3 DEF F!RenderError
  <2>2. code \in F!Statuses \ {0}
    BY <1>0, StatusFacts
  <2> HIDE DEF code, b
  <2>3. /\ Same(x, c) /\ c.err = x.err /\ c.body = x.body /\ c.status = x.status
        /\ c.cache = x.cache
    BY <2>0, SetChallenge
  <2>4. w = IF y.pinned = "none" THEN y ELSE [y EXCEPT !.cache = y.pinned]
    BY <1>3, <2>3 DEF F!Commit, F!ApplyCacheControlPin
  <2> HIDE DEF c, w
  <2>5. c \in Exchanges
    BY <2>3 DEF Same
  <2>6. Same(c, y) /\ y.status = code /\ y.err = c.err /\ y.body = c.body
    BY <2>2, <2>5, SetStatus
  <2> HIDE DEF y
  <2>7. y \in Exchanges /\ y.pinned = x.pinned /\ Same(x, y) /\ y.err = x.err /\ y.body = x.body
    BY <2>3, <2>6 DEF Same
  <2>8. Same(x, w) /\ w.status = code /\ w.err = x.err /\ w.body = x.body
        /\ (w.pinned # "none" => w.cache = w.pinned)
    <3>1. CASE x.pinned = "none"
      BY <2>4, <2>6, <2>7, <3>1
    <3>2. CASE x.pinned = "no-store"
      <4> DEFINE v == [y EXCEPT !.cache = "no-store"]
      <4>1. Same(y, v) /\ v.cache = "no-store" /\ v.err = y.err /\ v.status = y.status /\ v.body = y.body
        BY <2>7, SetCache
      <4>2. w = v
        BY <2>4, <2>7, <3>2
      <4> HIDE DEF v
      <4>3. Same(x, v) /\ v.pinned = "no-store"
        BY <2>7, <3>2, <4>1 DEF Same
      <4> QED
        BY <2>6, <2>7, <4>1, <4>2, <4>3
    <3> QED
      BY <1>0, <3>1, <3>2
  <2> QED
    BY <1>3, <2>1, <2>2, <2>8 DEF code
<1> QED
  BY <1>1, <1>2, <1>3

\* The same request, over and recorded.
Recorded(x, y, a, c) ==
    /\ y \in Exchanges /\ y.step = "done" /\ y.route = x.route /\ y.target = x.target
    /\ y.cred = x.cred /\ y.principal = x.principal
    /\ y.requestPrincipal = x.requestPrincipal /\ y.status = x.status /\ y.err = x.err
    /\ y.cache = x.cache /\ y.pinned = x.pinned /\ y.body = x.body /\ y.via = x.via
    /\ y.audit = a /\ y.audits = c /\ y.mechanism = x.mechanism /\ y.token = x.token

LEMMA SetRecord ==
    ASSUME NEW x \in Exchanges, NEW a \in [user : F!Names, status : F!Statuses], NEW c \in 0..1
    PROVE  Recorded(x, [x EXCEPT !.step = "done", !.audit = a, !.audits = c], a, c)
<1>1. [x EXCEPT !.step = "done", !.audit = a, !.audits = c] \in Exchanges
  BY DEF Exchanges, F!Steps
<1> QED
  BY <1>1 DEF Exchanges, Recorded

LEMMA FinishStep ==
    ASSUME PipelineType, PipelineInv, F!Finish
    PROVE  PipelineType' /\ PipelineInv'
<1> DEFINE x == exchange
           r == IF x.status = 0 THEN F!RenderError(x) ELSE x
           w == IF r.status = 0 THEN F!ApplyCacheControlPin(r) ELSE r
           a == IF F!Public(w) THEN F!NoAudit
                ELSE [user |-> w.requestPrincipal, status |-> F!AuditStatus(w)]
           c == IF F!Public(w) THEN w.audits ELSE w.audits + 1
           z == [w EXCEPT !.step = "done", !.audit = a, !.audits = c]
<1>1. /\ x.step = "handled" /\ UNCHANGED <<provider, file, users, live, stored, script>>
      /\ exchange' = [w EXCEPT
             !.step = "done",
             !.audit = IF F!Public(w) THEN F!NoAudit
                       ELSE [user |-> w.requestPrincipal, status |-> F!AuditStatus(w)],
             !.audits = IF F!Public(w) THEN @ ELSE @ + 1]
  BY DEF F!Finish
<1>2. x \in Exchanges /\ Sound(x) /\ x.audits = 0
  BY <1>1 DEF PipelineType, PipelineInv, Sound, Stepped
<1> HIDE DEF x
<1>3. /\ Same(x, w) /\ w.body = x.body /\ w.err = x.err
      /\ w.pinned # "none" => w.cache = w.pinned
      /\ w.status = IF x.status # 0 THEN x.status
                    ELSE IF F!Rendered(x.err) THEN F!ClassifyError(x.err) ELSE 0
  BY <1>2, WireFacts DEF Sound, Pins
<1> HIDE DEF r, w
<1>4. w \in Exchanges /\ w.audits = 0
  BY <1>2, <1>3 DEF Same
<1>5. exchange' = z
  <2>1. exchange' = [w EXCEPT !.step = "done", !.audit = a,
                              !.audits = IF F!Public(w) THEN w.audits ELSE w.audits + 1]
    BY <1>1, <1>4 DEF Exchanges
  <2> QED
    BY <2>1
<1>6. a \in [user : F!Names, status : F!Statuses] /\ c \in 0..1
  <2>1. F!AuditStatus(w) \in F!Statuses
    BY <1>4, StatusFacts DEF Exchanges, F!AuditStatus
  <2> QED
    BY <1>4, <2>1 DEF Exchanges, F!NoAudit, F!Names, F!Statuses
<1>7. /\ ~F!Public(w) => a.user = w.requestPrincipal /\ a.status = F!AuditStatus(w) /\ c = 1
  BY <1>4
<1> HIDE DEF a, c
<1>8a. Recorded(w, z, a, c)
  BY <1>4, <1>6, SetRecord
<1> HIDE DEF z
<1>8. /\ z \in Exchanges /\ z.step = "done" /\ z.route = w.route /\ z.target = w.target
      /\ z.cred = w.cred /\ z.principal = w.principal /\ z.requestPrincipal = w.requestPrincipal
      /\ z.status = w.status /\ z.err = w.err /\ z.cache = w.cache /\ z.pinned = w.pinned
      /\ z.body = w.body /\ z.via = w.via /\ z.audit = a /\ z.audits = c
      /\ z.mechanism = w.mechanism /\ z.token = w.token
  BY <1>8a DEF Recorded
<1>9. /\ z.route = x.route /\ z.cred = x.cred /\ z.principal = x.principal
      /\ z.requestPrincipal = x.requestPrincipal /\ z.err = x.err /\ z.pinned = x.pinned
      /\ z.body = x.body /\ z.via = x.via /\ z.mechanism = x.mechanism /\ z.token = x.token
      /\ z.status = IF x.status # 0 THEN x.status
                    ELSE IF F!Rendered(x.err) THEN F!ClassifyError(x.err) ELSE 0
      /\ z.pinned # "none" => z.cache = z.pinned
  BY <1>3, <1>8 DEF Same
<1>10. /\ F!Public(z) = F!Public(x) /\ F!Public(z) = F!Public(w)
       /\ Covered(z) = Covered(x) /\ TokensOnly(z) = TokensOnly(x)
  BY <1>8, <1>9, SameRequest
<1>11. x.err \in ErrorNames /\ x.status \in F!Statuses
  BY <1>2 DEF Exchanges
<1>12. Stepped(z) /\ Identified(z) /\ Owned(z) /\ Carries(z)
  BY <1>2, <1>8, <1>9 DEF Sound, Stepped, Identified, Owned, Theirs, Carries
<1>13. Pins(z)
  <2>1. x.err \in Breaches => F!Rendered(x.err) /\ F!ClassifyError(x.err) \in {400, 404, 405}
    BY <1>11, StatusFacts DEF Breaches
  <2> QED
    BY <1>1, <1>2, <1>8, <1>9, <1>10, <2>1 DEF Sound, Pins, Fresh, x
<1>14. Bound(z)
  <2>1. x.err \in Refusals => F!Rendered(x.err) /\ F!ClassifyError(x.err) \in {400, 401, 404, 405, 503}
    BY <1>11, StatusFacts DEF Refusals, Breaches
  <2> QED
    BY <1>1, <1>2, <1>8, <1>9, <1>10, <2>1 DEF Sound, Bound, x
<1>15. Audited(z)
  <2>1. z.status = 0 => z.err \in {"nil", "responded", "canceled"}
    BY <1>9, <1>11, StatusFacts
  <2>2. F!AuditStatus(z) = F!AuditStatus(w)
    BY <1>8 DEF F!AuditStatus
  <2>3. ~F!Public(z) => z.audits = 1 /\ z.audit.user = z.requestPrincipal
                        /\ z.audit.status = F!AuditStatus(z)
    BY <1>7, <1>8, <1>10, <2>2
  <2> QED
    BY <1>12, <2>1, <2>3 DEF Audited, Identified
<1>16. Followed(z)
  <2>1. x.err \notin {"requiresAuthentication", "forbidden"} => F!ClassifyError(x.err) \notin {401, 403}
    BY <1>11, StatusFacts
  <2> QED
    BY <1>1, <1>2, <1>8, <1>9, <2>1 DEF Sound, Followed, x
<1>17. Sound(exchange)'
  <2>1. Sound(z)
    BY <1>12, <1>13, <1>14, <1>15, <1>16 DEF Sound
  <2> QED
    BY <1>1, <1>5, <1>8, <2>1, Transfer
<1>18. \A m \in script' : Promises(m)'
  BY <1>1 DEF PipelineInv, Promises, F!AuthEnabled, Readable, Grants, Provided
<1>19. PipelineType'
  BY <1>1, <1>5, <1>8 DEF PipelineType
<1> QED
  BY <1>17, <1>18, <1>19 DEF PipelineInv

\* What changes around a request ends what was promised about its credential.
LEMMA ChangedSound ==
    ASSUME PipelineType, Sound(exchange), exchange' = [exchange EXCEPT !.via = "changed"],
           UNCHANGED provider
    PROVE  exchange' \in Exchanges /\ Sound(exchange)'
<1> DEFINE x == exchange
           z == [x EXCEPT !.via = "changed"]
<1>1. x \in Exchanges
  BY DEF PipelineType
<1> HIDE DEF x
<1>2. /\ z \in Exchanges /\ z.step = x.step /\ z.route = x.route
      /\ z.cred = x.cred /\ z.principal = x.principal /\ z.requestPrincipal = x.requestPrincipal
      /\ z.status = x.status /\ z.err = x.err /\ z.cache = x.cache /\ z.pinned = x.pinned
      /\ z.body = x.body /\ z.via = "changed" /\ z.audit = x.audit /\ z.audits = x.audits
      /\ z.mechanism = x.mechanism /\ z.token = x.token
  BY <1>1 DEF Exchanges
<1>3. exchange' = z
  BY DEF x
<1> HIDE DEF z
<1>4. /\ F!Public(z) = F!Public(x) /\ Covered(z) = Covered(x) /\ TokensOnly(z) = TokensOnly(x)
      /\ F!AuditStatus(z) = F!AuditStatus(x) /\ Sound(x)
  BY <1>2, SameRequest DEF F!AuditStatus, x
<1>5. Stepped(z) /\ Identified(z) /\ Owned(z) /\ Audited(z)
  BY <1>2, <1>4 DEF Sound, Stepped, Fresh, Unanswered, Identified, Owned, Theirs, Audited
<1>6. Pins(z)
  BY <1>2, <1>4 DEF Sound, Pins, Fresh
<1>7. Bound(z)
  BY <1>2, <1>4 DEF Sound, Bound
<1>8. /\ Stepped(exchange)' /\ Identified(exchange)' /\ Owned(exchange)'
      /\ Pins(exchange)' /\ Audited(exchange)' /\ Bound(exchange)'
  BY <1>3, <1>5, <1>6, <1>7, TransferAnswer
<1>11. Carries(exchange)' /\ Followed(exchange)'
  BY <1>2, <1>3 DEF Carries, Followed
<1> QED
  BY <1>2, <1>3, <1>8, <1>11 DEF Sound

LEMMA WorldStep ==
    ASSUME PipelineType, PipelineInv, F!World
    PROVE  PipelineType' /\ PipelineInv'
<1>1. CASE \E contents \in Files : F!Edit(contents)
  <2>1. PICK contents \in Files : F!Edit(contents)
    BY <1>1
  <2>2. file' = contents /\ UNCHANGED <<provider, users, live, stored, exchange, script>>
    BY <2>1 DEF F!Edit
  <2>3. contents \in (SUBSET Users) \cup {{"broken"}}
    BY FrontendConstants DEF F!FrontendAssumption
  <2>4. PipelineType'
    BY <2>2, <2>3 DEF PipelineType
  <2>5. Sound(exchange)'
    BY <2>2, Transfer DEF PipelineInv
  <2>6. \A m \in script' : Promises(m)'
    BY <2>2 DEF PipelineInv, Promises, F!AuthEnabled, Readable, Grants, Provided
  <2> QED
    BY <2>4, <2>5, <2>6 DEF PipelineInv
<1>2. CASE F!Reload
  <2>1. users' = file /\ file \in SUBSET Users /\ script' = {}
        /\ exchange' = [exchange EXCEPT !.via = "changed"] /\ UNCHANGED <<provider, file, live, stored>>
    BY <1>2 DEF F!Reload, F!Changed, PipelineType
  <2>2. exchange' \in Exchanges /\ Sound(exchange)'
    BY <2>1, ChangedSound DEF PipelineInv
  <2> QED
    BY <2>1, <2>2 DEF PipelineType, PipelineInv
<1>3. CASE \E t \in F!Tokens : F!Revoke(t)
  <2>1. live' \subseteq live /\ script' = {}
        /\ exchange' = [exchange EXCEPT !.via = "changed"] /\ UNCHANGED <<provider, file, users, stored>>
    BY <1>3 DEF F!Revoke, F!Changed
  <2>2. exchange' \in Exchanges /\ Sound(exchange)'
    BY <2>1, ChangedSound DEF PipelineInv
  <2>3. live' \in SUBSET F!Tokens
    BY <2>1 DEF PipelineType
  <2> QED
    BY <2>1, <2>2, <2>3 DEF PipelineType, PipelineInv, F!Tokens
<1>4. CASE \E p \in F!Providers : F!Restart(p)
  <2>1. provider' \in F!Providers /\ users' = file /\ file \in SUBSET Users
        /\ exchange' = F!Idle /\ script' = {} /\ UNCHANGED <<file, live, stored>>
    BY <1>4 DEF F!Restart, PipelineType
  <2>2. Sound(exchange)'
    BY <2>1 DEF F!Idle, Sound, Stepped, Fresh, Unanswered, Identified, Owned, Pins, Bound, Audited,
                Carries, Followed
  <2>3. exchange' \in Exchanges
    BY <2>1, IdleFacts
  <2> QED
    BY <2>1, <2>2, <2>3 DEF PipelineType, PipelineInv
<1> QED
  BY <1>1, <1>2, <1>3, <1>4 DEF F!World

LEMMA PipelineNext ==
    PipelineType /\ PipelineInv /\ [F!Next]_F!vars => (PipelineType /\ PipelineInv)'
<1> SUFFICES ASSUME PipelineType, PipelineInv, [F!Next]_F!vars
             PROVE  PipelineType' /\ PipelineInv'
  OBVIOUS
<1>1. CASE F!Receive
  BY <1>1, ReceiveStep
<1>2. CASE F!Follow
  BY <1>2, FollowStep
<1>3. CASE \E reachable \in BOOLEAN : F!Authenticate(reachable)
  BY <1>3, AuthenticateStep
<1>4. CASE \E course \in F!Courses : F!Handle(course)
  BY <1>4, HandleStep
<1>5. CASE F!Finish
  BY <1>5, FinishStep
<1>6. CASE F!Close
  BY <1>6, CloseStep
<1>7. CASE F!World
  BY <1>7, WorldStep
<1>8. CASE UNCHANGED F!vars
  <2>1. UNCHANGED <<provider, file, users, live, stored, exchange, script>>
    BY <1>8 DEF F!vars
  <2>2. Sound(exchange)'
    BY <2>1, Transfer DEF PipelineInv
  <2>3. PipelineType'
    BY <2>1 DEF PipelineType
  <2>4. \A m \in script' : Promises(m)'
    BY <2>1 DEF PipelineInv, Promises, F!AuthEnabled, Readable, Grants, Provided
  <2> QED
    BY <2>2, <2>3, <2>4 DEF PipelineInv
<1> QED
  BY <1>1, <1>2, <1>3, <1>4, <1>5, <1>6, <1>7, <1>8 DEF F!Next

\* What is known of the frontend, whatever the accounts, tokens and credentials.
LEMMA PipelineInvariant == F!Spec => [](PipelineType /\ PipelineInv)
BY InitRequest, PipelineNext, PTL DEF F!Spec

LEMMA PipelineSafe ==
    PipelineType /\ PipelineInv => OwnerOnly /\ ScopesBound /\ NeverCached /\ AuditMatches /\ ScriptWorks
<1>1. PipelineType /\ PipelineInv => OwnerOnly
  BY DEF PipelineInv, Sound, Owned, Theirs, Identified, OwnerOnly, F!OwnerOnly
<1>2. PipelineType /\ PipelineInv => ScopesBound
  BY DEF PipelineInv, Sound, Bound, Covered, TokensOnly, ScopesBound, F!ScopesBound, F!Done
<1>3. PipelineType /\ PipelineInv => NeverCached
  BY DEF PipelineInv, Sound, Pins, Fresh, NeverCached, F!NeverCached, F!Done
<1>4. PipelineType /\ PipelineInv => AuditMatches
  <2> SUFFICES ASSUME PipelineType, PipelineInv, F!Done, ~F!Public(exchange)
               PROVE  /\ exchange.audits = 1 /\ exchange.audit.user = exchange.principal
                      /\ exchange.audit.status =
                            IF exchange.status # 0 THEN exchange.status
                            ELSE IF exchange.err = "canceled" THEN 499 ELSE 200
    BY DEF AuditMatches, F!AuditMatches
  <2>1. /\ exchange.status = 0 => exchange.err \in {"nil", "responded", "canceled"}
        /\ exchange.audits = 1 /\ exchange.audit.user = exchange.principal
        /\ exchange.audit.status = F!AuditStatus(exchange)
    BY DEF PipelineInv, Sound, Audited, F!Done
  <2>2. exchange.status = 0 => F!ClassifyError(exchange.err) = IF exchange.err = "canceled" THEN 499 ELSE 200
    BY <2>1, StatusFacts DEF PipelineType, Exchanges
  <2> QED
    BY <2>1, <2>2 DEF F!AuditStatus
<1>5. PipelineType /\ PipelineInv => ScriptWorks
  BY DEF PipelineInv, Sound, Followed, ScriptWorks, F!ScriptWorks, F!Done
<1> QED BY <1>1, <1>2, <1>3, <1>4, <1>5

\* The request pipeline is well typed, whatever the requests, the credentials
\* and the changes of the deployment.
THEOREM PipelineTypeCorrect == F!Spec => []F!TypeOK
<1>1. PipelineType => F!TypeOK
  BY DEF PipelineType, Exchanges, F!TypeOK
<1> QED BY <1>1, PipelineInvariant, PTL

\* What an answer holds of a schematic goes to its owner, whom the credentials of
\* the request stand for (Service.Get behind every endpoint).
THEOREM AnswersGoToOwners == F!Spec => []OwnerOnly
BY PipelineSafe, PipelineInvariant, PTL

\* A request with nothing but API tokens is served only where the scopes of the
\* one it offers reach (Selector.Middleware and what it falls back to).
THEOREM TokensStayInScope == F!Spec => []ScopesBound
BY PipelineSafe, PipelineInvariant, PTL

\* No response that depends on who asks may be stored by a cache (the pin of
\* Cache-Control, applied whenever the header is committed).
THEOREM AnswersAreNotCached == F!Spec => []NeverCached
BY PipelineSafe, PipelineInvariant, PTL

\* The audit names who the handler acted for and the status on the wire
\* (bridgeProviderPrincipal, RequestMiddleware.Wrap).
THEOREM AuditIsTrue == F!Spec => []AuditMatches
BY PipelineSafe, PipelineInvariant, PTL

\* The credential a PXE script carries is not refused with its image while the
\* world behind it stays (handlePXE and the selector).
THEOREM ScriptsAreHonoured == F!Spec => []ScriptWorks
BY PipelineSafe, PipelineInvariant, PTL

-----------------------------------------------------------------------------
(* The browser login.  A tab that goes through /login again has an excuse to  *)
(* show for it before it gets there: its state cookie was as it set it until  *)
(* something outside changed it, and so was the session it came back with.    *)

Places == {"idle", "login", "tenant", "callback", "exchange", "return", "page", "landing", "error"}
Tabbed == [at : Places, flow : Nat, answer : B!Accounts \cup {"none", "error"}]
Cookies == [state : Nat, seal : {"fresh", "aged", "unreadable"},
            session : {"none", "live", "expired", "unreadable"}]

LoginType ==
    /\ keeps \in BOOLEAN /\ tab \in [Tabs -> Tabbed] /\ jar \in Cookies
    /\ started \in 0..MaxFlows /\ hops \in [Tabs -> Nat] /\ causes \in [Tabs -> 0..MaxFlows]
    /\ refusals \in [Tabs -> Nat]
    /\ \A t \in Tabs : tab[t].flow <= started

\* Every time through /login so far, or all but the last, had an excuse.
Settled(t) == hops[t] <= B!Excuses(t) \/ causes[t] = MaxFlows
Explained(t) == hops[t] <= 1 + B!Excuses(t) \/ causes[t] = MaxFlows

\* The state cookie is the one the tab was sent to the tenant with.
Intact(t) == keeps => B!Matches(t)

Owed(t) ==
    /\ Explained(t)
    /\ tab[t].at = "login" => Settled(t)
    /\ tab[t].at \in {"tenant", "callback"} => tab[t].flow # 0 /\ (Settled(t) \/ Intact(t))
    /\ tab[t].at = "callback" /\ tab[t].answer = "error" /\ ~keeps => Settled(t)
    /\ tab[t].at \in {"exchange", "return"} => keeps
    /\ tab[t].at = "return" => Settled(t) \/ jar.session = "live"

LoginInv ==
    /\ ~keeps => jar = B!NoCookies
    /\ \A t \in Tabs : Owed(t)

LEMMA InitLogin == B!Init => LoginType /\ LoginInv
  BY LoginConstants DEF B!Init, B!Blank, B!NoCookies, B!Accounts, LoginType, Tabbed, Places, Cookies,
     LoginInv, Owed, Explained, Settled, B!Excuses

LEMMA CookieTypes ==
    ASSUME jar \in Cookies
    PROVE  /\ B!NoCookies \in Cookies /\ B!ClearState \in Cookies /\ B!WithSession \in Cookies
           /\ \A flow \in Nat : B!WithState(flow) \in Cookies
           /\ \A cookies \in Cookies : B!ClearSession(cookies) \in Cookies
           /\ B!ClearState.session = jar.session /\ B!WithSession.session = "live"
           /\ \A flow \in Nat : B!WithState(flow).session = jar.session
  BY DEF Cookies, B!NoCookies, B!ClearState, B!WithState, B!WithSession, B!ClearSession

LEMMA LoginFacts ==
    ASSUME LoginType, LoginInv, NEW t \in Tabs
    PROVE  /\ keeps \in BOOLEAN /\ tab \in [Tabs -> Tabbed] /\ tab[t] \in Tabbed
           /\ tab[t].flow \in Nat /\ tab[t].flow <= started
           /\ tab[t].answer \in B!Accounts \cup {"none", "error"}
           /\ jar \in Cookies /\ jar.state \in Nat
           /\ started \in Nat /\ started <= MaxFlows /\ MaxFlows \in Nat
           /\ hops \in [Tabs -> Nat] /\ hops[t] \in Nat
           /\ causes \in [Tabs -> 0..MaxFlows] /\ causes[t] \in Nat /\ causes[t] <= MaxFlows
           /\ refusals \in [Tabs -> Nat] /\ refusals[t] \in Nat /\ B!Excuses(t) \in Nat
           /\ (~keeps => jar = B!NoCookies) /\ Owed(t)
  BY LoginConstants DEF LoginType, LoginInv, Tabbed, Cookies, B!Excuses

\* A cause settles what a tab owes.
Excused(t) == causes'[t] = MaxFlows \/ causes'[t] = causes[t] + 1

\* What disturbs the login of a tab is a cause.
LEMMA DisturbedSettles ==
    ASSUME LoginType, LoginInv, NEW others \in SUBSET Tabs, B!Disturbed(others)
    PROVE  /\ causes' \in [Tabs -> 0..MaxFlows]
           /\ \A t \in Tabs : causes[t] <= causes'[t]
           /\ \A t \in Tabs \ others : causes'[t] = causes[t]
           /\ \A t \in others : Excused(t)
<1>1. causes \in [Tabs -> 0..MaxFlows] /\ MaxFlows \in Nat
  BY LoginConstants DEF LoginType
<1>2. causes' = [t \in Tabs |-> IF t \in others /\ causes[t] < MaxFlows THEN causes[t] + 1 ELSE causes[t]]
  BY DEF B!Disturbed
<1>3. \A t \in Tabs : causes'[t] = IF t \in others /\ causes[t] < MaxFlows THEN causes[t] + 1 ELSE causes[t]
  BY <1>2
<1> QED
  BY <1>1, <1>2, <1>3 DEF Excused

\* What a step leaves as it was, or is a cause to the tab s for.
Spared(s) ==
    /\ \/ jar'.state = jar.state /\ jar'.seal = jar.seal
       \/ s \in B!OnTheWay => Excused(s)
    /\ \/ jar'.session \in {jar.session, "live"}
       \/ s \in B!Returning => Excused(s)

\* A step keeps what is known of the tabs it does not move.
LEMMA OthersLogin ==
    ASSUME LoginType, LoginInv, NEW s \in Tabs, UNCHANGED keeps,
           tab'[s] = tab[s], hops'[s] = hops[s], refusals'[s] = refusals[s],
           causes'[s] \in 0..MaxFlows, causes[s] <= causes'[s], Spared(s)
    PROVE  Owed(s)'
<1>1. /\ causes[s] \in 0..MaxFlows /\ hops[s] \in Nat /\ refusals[s] \in Nat /\ MaxFlows \in Nat
      /\ keeps \in BOOLEAN /\ Owed(s)
  BY LoginFacts, LoginConstants DEF LoginType
<1>2. B!Excuses(s) \in Nat /\ B!Excuses(s)' \in Nat /\ B!Excuses(s) <= B!Excuses(s)'
      /\ (causes'[s] = causes[s] + 1 => B!Excuses(s)' = B!Excuses(s) + 1)
  BY <1>1 DEF B!Excuses
<1>3. /\ Explained(s)' /\ (Settled(s) => Settled(s)') /\ (Excused(s) => Settled(s)')
  BY <1>1, <1>2 DEF Owed, Explained, Settled, Excused
<1>4. tab[s].at \in {"tenant", "callback"} => Settled(s)' \/ Intact(s)'
  <2>1. CASE jar'.state = jar.state /\ jar'.seal = jar.seal
    BY <1>1, <1>3, <2>1 DEF Owed, Intact, B!Matches, B!Readable
  <2>2. CASE s \in B!OnTheWay => Excused(s)
    BY <1>3, <2>2 DEF B!OnTheWay
  <2> QED
    BY <2>1, <2>2 DEF Spared
<1>5. tab[s].at = "return" => Settled(s)' \/ jar'.session = "live"
  <2>1. CASE jar'.session \in {jar.session, "live"}
    BY <1>1, <1>3, <2>1 DEF Owed
  <2>2. CASE s \in B!Returning => Excused(s)
    BY <1>3, <2>2 DEF B!Returning
  <2> QED
    BY <2>1, <2>2 DEF Spared
<1> QED
  BY <1>1, <1>3, <1>4, <1>5 DEF Owed

LEMMA MovesLogin ==
    ASSUME LoginType, LoginInv, NEW t \in Tabs, UNCHANGED keeps,
           tab' \in [Tabs -> Tabbed], jar' \in Cookies, started' \in 0..MaxFlows,
           started <= started', hops' \in [Tabs -> Nat], causes' \in [Tabs -> 0..MaxFlows],
           refusals' \in [Tabs -> Nat],
           \A s \in Tabs \ {t} : /\ tab'[s] = tab[s] /\ hops'[s] = hops[s]
                                 /\ refusals'[s] = refusals[s] /\ causes[s] <= causes'[s]
                                 /\ Spared(s),
           ~keeps => jar' = B!NoCookies,
           tab'[t].flow <= started', Owed(t)'
    PROVE  LoginType' /\ LoginInv'
<1>1. ASSUME NEW s \in Tabs \ {t}
      PROVE  Owed(s)'
  <2>1. causes'[s] \in 0..MaxFlows /\ s \in Tabs
    OBVIOUS
  <2> QED
    BY <1>1, <2>1, OthersLogin
<1>2. \A s \in Tabs : tab'[s].flow <= started'
  <2> TAKE s \in Tabs
  <2>1. CASE s = t
    BY <2>1
  <2>2. CASE s # t
    <3>1. tab'[s] = tab[s] /\ tab[s].flow \in Nat /\ tab[s].flow <= started
          /\ started \in Nat /\ started' \in Nat /\ started <= started'
      BY <2>2, LoginConstants DEF LoginType, Tabbed
    <3> QED
      BY <3>1
  <2> QED
    BY <2>1, <2>2
<1>3. LoginType'
  BY <1>2 DEF LoginType
<1>4. \A s \in Tabs : Owed(s)'
  BY <1>1
<1>5. LoginInv'
  BY <1>4 DEF LoginInv
<1> QED
  BY <1>3, <1>5

LEMMA GoesFacts ==
    ASSUME LoginType, NEW t \in Tabs, NEW at \in Places, B!Goes(t, at)
    PROVE  /\ tab' \in [Tabs -> Tabbed] /\ \A s \in Tabs \ {t} : tab'[s] = tab[s]
           /\ tab'[t].at = at /\ tab'[t].flow = tab[t].flow /\ tab'[t].answer = tab[t].answer
  BY DEF B!Goes, LoginType, Tabbed

\* The cookies stay: the other tabs are spared.
LEMMA SparedAlways ==
    ASSUME NEW s, UNCHANGED jar
    PROVE  Spared(s)
  BY DEF Spared

LEMMA ShownPlaces ==
    ASSUME NEW to
    PROVE  /\ B!Shown(to) \in {"page", "landing", "login"}
           /\ jar.session = "live" => B!Shown(to) = "page"
  BY DEF B!Shown

LEMMA OpenStep ==
    ASSUME LoginType, LoginInv, NEW t \in Tabs, NEW to \in {"root", "deep", "login"}, B!Open(t, to)
    PROVE  LoginType' /\ LoginInv'
<1> DEFINE shown == IF to = "login" THEN to ELSE B!Shown(to)
<1>1. /\ tab' = [tab EXCEPT ![t] = [B!Blank EXCEPT !.at = shown]]
      /\ hops' = [hops EXCEPT ![t] = 0] /\ causes' = [causes EXCEPT ![t] = 0]
      /\ refusals' = [refusals EXCEPT ![t] = 0]
      /\ UNCHANGED <<keeps, jar, started>>
  BY DEF B!Open
<1>2. shown \in {"page", "landing", "login"}
  BY ShownPlaces
<1> HIDE DEF shown
<1>3. /\ [B!Blank EXCEPT !.at = shown] \in Tabbed /\ [B!Blank EXCEPT !.at = shown].at = shown
      /\ [B!Blank EXCEPT !.at = shown].flow = 0
  BY <1>2 DEF B!Blank, Tabbed, Places
<1>4. /\ tab' \in [Tabs -> Tabbed] /\ \A s \in Tabs \ {t} : tab'[s] = tab[s]
      /\ tab'[t].at = shown /\ tab'[t].flow = 0
  BY <1>1, <1>3, LoginFacts
<1>5. /\ hops' \in [Tabs -> Nat] /\ causes' \in [Tabs -> 0..MaxFlows] /\ refusals' \in [Tabs -> Nat]
      /\ hops'[t] = 0 /\ causes'[t] = 0 /\ refusals'[t] = 0
      /\ \A s \in Tabs \ {t} : /\ hops'[s] = hops[s] /\ causes[s] <= causes'[s]
                               /\ refusals'[s] = refusals[s]
  BY <1>1, LoginFacts
<1>6. Owed(t)'
  BY <1>2, <1>4, <1>5 DEF Owed, Explained, Settled, B!Excuses
<1>7. /\ started' \in 0..MaxFlows /\ started <= started' /\ jar' \in Cookies
      /\ (~keeps => jar' = B!NoCookies) /\ tab'[t].flow <= started'
  BY <1>1, <1>4, LoginFacts
<1> QED
  BY <1>1, <1>4, <1>5, <1>6, <1>7, SparedAlways, MovesLogin

LEMMA ReopenStep ==
    ASSUME LoginType, LoginInv, NEW t \in Tabs, B!Reopen(t)
    PROVE  LoginType' /\ LoginInv'
<1>1. /\ B!Goes(t, "callback") /\ tab[t].flow # 0
      /\ hops' = [hops EXCEPT ![t] = 1] /\ causes' = [causes EXCEPT ![t] = 1]
      /\ refusals' = [refusals EXCEPT ![t] = 0]
      /\ UNCHANGED <<keeps, jar, started>>
  BY DEF B!Reopen
<1>2. /\ tab' \in [Tabs -> Tabbed] /\ \A s \in Tabs \ {t} : tab'[s] = tab[s]
      /\ tab'[t].at = "callback" /\ tab'[t].flow = tab[t].flow
  BY <1>1, GoesFacts DEF Places
<1>3. 1 \in 0..MaxFlows
  BY <1>1, LoginFacts
<1>4. /\ hops' \in [Tabs -> Nat] /\ causes' \in [Tabs -> 0..MaxFlows] /\ refusals' \in [Tabs -> Nat]
      /\ hops'[t] = 1 /\ causes'[t] = 1 /\ refusals'[t] = 0
      /\ \A s \in Tabs \ {t} : /\ hops'[s] = hops[s] /\ causes[s] <= causes'[s]
                               /\ refusals'[s] = refusals[s]
  BY <1>1, <1>3, LoginFacts
<1>5. Explained(t)' /\ Settled(t)'
  BY <1>4 DEF Explained, Settled, B!Excuses
<1>6. Owed(t)'
  BY <1>1, <1>2, <1>5 DEF Owed
<1>7. /\ started' \in 0..MaxFlows /\ started <= started' /\ jar' \in Cookies
      /\ (~keeps => jar' = B!NoCookies) /\ tab'[t].flow <= started'
  BY <1>1, <1>2, LoginFacts
<1> QED
  BY <1>1, <1>2, <1>4, <1>6, <1>7, SparedAlways, MovesLogin

LEMMA LoginStep ==
    ASSUME LoginType, LoginInv, NEW t \in Tabs, B!Login(t)
    PROVE  LoginType' /\ LoginInv'
<1> DEFINE f == started + 1
           b == [B!Blank EXCEPT !.at = "tenant", !.flow = f]
<1>1. /\ tab[t].at = "login" /\ started < MaxFlows /\ started' = f
      /\ tab' = [tab EXCEPT ![t] = b] /\ B!Keep(B!WithState(f))
      /\ hops' = [hops EXCEPT ![t] = hops[t] + 1]
      /\ B!Disturbed(B!OnTheWay \ {t}) /\ UNCHANGED <<keeps, refusals>>
  BY LoginFacts DEF B!Login
<1>2. f \in Nat /\ f # 0 /\ f <= MaxFlows /\ started <= f
  BY <1>1, LoginFacts
<1> HIDE DEF f
<1>3. b \in Tabbed /\ b.at = "tenant" /\ b.flow = f
  BY <1>2 DEF B!Blank, Tabbed, Places
<1> HIDE DEF b
<1>4. /\ tab' \in [Tabs -> Tabbed] /\ \A s \in Tabs \ {t} : tab'[s] = tab[s]
      /\ tab'[t].at = "tenant" /\ tab'[t].flow = f
  BY <1>1, <1>3, LoginFacts
<1>5. /\ causes' \in [Tabs -> 0..MaxFlows] /\ causes'[t] = causes[t]
      /\ \A s \in Tabs : causes[s] <= causes'[s]
      /\ \A s \in Tabs \ {t} : s \in B!OnTheWay => Excused(s)
  <2>1. B!OnTheWay \ {t} \in SUBSET Tabs
    BY DEF B!OnTheWay
  <2> QED
    BY <1>1, <2>1, DisturbedSettles
<1>6. /\ hops' \in [Tabs -> Nat] /\ hops'[t] = hops[t] + 1
      /\ \A s \in Tabs \ {t} : hops'[s] = hops[s]
  BY <1>1, LoginFacts
<1>7. Explained(t)'
  <2>1. Settled(t) /\ B!Excuses(t)' = B!Excuses(t) /\ B!Excuses(t) \in Nat
    BY <1>1, <1>5, LoginFacts DEF Owed, B!Excuses
  <2> QED
    BY <1>5, <1>6, <2>1, LoginFacts DEF Explained, Settled
<1>8. jar' = IF keeps THEN B!WithState(f) ELSE B!NoCookies
  BY <1>1 DEF B!Keep
<1>9. B!WithState(f).state = f /\ B!WithState(f).seal = "fresh"
  BY <1>2, LoginFacts DEF Cookies, B!WithState
<1>10. Intact(t)' /\ jar' \in Cookies /\ (~keeps => jar' = B!NoCookies)
  BY <1>1, <1>2, <1>4, <1>8, <1>9, LoginFacts, CookieTypes DEF Intact, B!Matches, B!Readable
<1>11. jar'.session = jar.session
  BY <1>2, <1>8, LoginFacts, CookieTypes
<1>12. started' \in 0..MaxFlows /\ started <= started' /\ tab'[t].flow <= started'
  BY <1>1, <1>2, <1>4
<1>13. Owed(t)' /\ refusals' \in [Tabs -> Nat]
  BY <1>1, <1>2, <1>4, <1>7, <1>10, LoginFacts DEF Owed
<1>14. \A s \in Tabs \ {t} : Spared(s)
  BY <1>5, <1>11 DEF Spared
<1> QED
  BY <1>1, <1>4, <1>5, <1>6, <1>10, <1>12, <1>13, <1>14, MovesLogin

LEMMA TenantStep ==
    ASSUME LoginType, LoginInv, NEW t \in Tabs, NEW answer \in B!Accounts \cup {"error"},
           B!Tenant(t, answer)
    PROVE  LoginType' /\ LoginInv'
<1>1. /\ tab[t].at = "tenant" /\ tab' = [tab EXCEPT ![t].at = "callback", ![t].answer = answer]
      /\ refusals' = (IF answer = "error" THEN [refusals EXCEPT ![t] = refusals[t] + 1] ELSE refusals)
      /\ UNCHANGED <<keeps, jar, started, hops, causes>>
  BY LoginFacts DEF B!Tenant
<1>2. /\ tab' \in [Tabs -> Tabbed] /\ \A s \in Tabs \ {t} : tab'[s] = tab[s]
      /\ tab'[t].at = "callback" /\ tab'[t].flow = tab[t].flow /\ tab'[t].answer = answer
  BY <1>1, LoginFacts DEF Tabbed, Places
<1>3. /\ refusals' \in [Tabs -> Nat] /\ \A s \in Tabs \ {t} : refusals'[s] = refusals[s]
      /\ refusals'[t] \in Nat /\ refusals[t] <= refusals'[t]
      /\ answer = "error" => refusals'[t] = refusals[t] + 1
  BY <1>1, LoginFacts
<1>4. /\ B!Excuses(t) <= B!Excuses(t)' /\ B!Excuses(t)' \in Nat
      /\ answer = "error" /\ ~keeps => B!Excuses(t)' = B!Excuses(t) + 1
  BY <1>1, <1>3, LoginFacts DEF B!Excuses
<1>5. Explained(t)' /\ tab'[t].flow # 0 /\ (Settled(t)' \/ Intact(t)')
      /\ (answer = "error" /\ ~keeps => Settled(t)')
  BY <1>1, <1>2, <1>4, LoginFacts DEF Owed, Explained, Settled, Intact, B!Matches, B!Readable
<1>6. Owed(t)'
  BY <1>1, <1>2, <1>5 DEF Owed
<1>7. /\ started' \in 0..MaxFlows /\ started <= started' /\ jar' \in Cookies
      /\ (~keeps => jar' = B!NoCookies) /\ tab'[t].flow <= started'
      /\ hops' \in [Tabs -> Nat] /\ causes' \in [Tabs -> 0..MaxFlows]
      /\ \A s \in Tabs \ {t} : hops'[s] = hops[s] /\ causes[s] <= causes'[s]
  BY <1>1, <1>2, LoginFacts
<1> QED
  BY <1>1, <1>2, <1>3, <1>6, <1>7, SparedAlways, MovesLogin

\* A tab moves, and no cookie, count or flow does.
LEMMA StaysLogin ==
    ASSUME LoginType, LoginInv, NEW t \in Tabs, NEW at \in Places,
           B!Goes(t, at), UNCHANGED <<keeps, jar, started, hops, causes, refusals>>, Owed(t)'
    PROVE  LoginType' /\ LoginInv'
<1>1. /\ tab' \in [Tabs -> Tabbed] /\ \A s \in Tabs \ {t} : tab'[s] = tab[s]
      /\ tab'[t].flow = tab[t].flow
  BY GoesFacts
<1>2. /\ started' \in 0..MaxFlows /\ started <= started' /\ jar' \in Cookies
      /\ (~keeps => jar' = B!NoCookies) /\ tab'[t].flow <= started'
      /\ hops' \in [Tabs -> Nat] /\ causes' \in [Tabs -> 0..MaxFlows] /\ refusals' \in [Tabs -> Nat]
  BY <1>1, LoginFacts
<1>3. \A s \in Tabs \ {t} : /\ hops'[s] = hops[s] /\ causes[s] <= causes'[s]
                            /\ refusals'[s] = refusals[s]
  BY LoginFacts
<1> QED
  BY <1>1, <1>2, <1>3, SparedAlways, MovesLogin

\* A tab goes through /login again only with an excuse.
LEMMA RetriesStep ==
    ASSUME LoginType, LoginInv, NEW t \in Tabs, B!CallbackRetries(t)
    PROVE  LoginType' /\ LoginInv'
<1>1. /\ tab[t].at = "callback" /\ B!Goes(t, "login")
      /\ ~B!LoginTerminal(t) /\ ~B!Matches(t)
      /\ UNCHANGED <<keeps, jar, started, hops, causes, refusals>>
  BY DEF B!CallbackRetries
<1>2. Settled(t)
  <2>1. CASE keeps
    BY <1>1, <2>1, LoginFacts DEF Owed, Intact
  <2>2. CASE ~keeps
    <3>1. jar.state = 0 /\ jar.session = "none"
      BY <2>2, LoginFacts DEF B!NoCookies
    <3>2. tab[t].answer = "error"
      BY <1>1, <3>1 DEF B!LoginTerminal, B!HasSession
    <3> QED
      BY <1>1, <2>2, <3>2, LoginFacts DEF Owed
  <2> QED
    BY <2>1, <2>2, LoginFacts
<1>3. Settled(t)' /\ Explained(t)' /\ tab'[t].at = "login"
  BY <1>1, <1>2, LoginFacts, GoesFacts DEF Owed, Settled, Explained, B!Excuses, Places
<1>4. Owed(t)'
  BY <1>3 DEF Owed
<1> QED
  BY <1>1, <1>4, StaysLogin DEF Places

\* A tab comes to rest: nothing is owed any more.
LEMMA RestsLogin ==
    ASSUME LoginType, LoginInv, NEW t \in Tabs, NEW at \in {"idle", "page", "landing", "error"},
           B!Goes(t, at), UNCHANGED <<keeps, jar, started, hops, causes, refusals>>
    PROVE  LoginType' /\ LoginInv'
<1>1. at \in Places
  BY DEF Places
<1>2. tab'[t].at = at
  BY <1>1, GoesFacts
<1>3. Explained(t)'
  BY LoginFacts DEF Owed, Explained, B!Excuses
<1>4. Owed(t)'
  BY <1>2, <1>3 DEF Owed
<1> QED
  BY <1>1, <1>4, StaysLogin

\* A tab is answered with cookies, which disturbs those of the others they matter to.
LEMMA AnsweredLogin ==
    ASSUME LoginType, LoginInv, NEW t \in Tabs, NEW at \in {"idle", "return", "error"},
           NEW cookies \in Cookies, NEW others \in SUBSET Tabs, t \notin others,
           B!Goes(t, at), B!Keep(cookies), B!Disturbed(others),
           UNCHANGED <<keeps, started, hops, refusals>>,
           at = "return" => keeps /\ cookies.session = "live",
           B!OnTheWay \ {t} \subseteq others,
           cookies.session \in {jar.session, "live"} \/ B!Returning \subseteq others
    PROVE  LoginType' /\ LoginInv'
<1>1. /\ tab' \in [Tabs -> Tabbed] /\ \A s \in Tabs \ {t} : tab'[s] = tab[s]
      /\ tab'[t].at = at /\ tab'[t].flow = tab[t].flow
  BY GoesFacts DEF Places
<1>2. /\ causes' \in [Tabs -> 0..MaxFlows] /\ causes'[t] = causes[t]
      /\ \A s \in Tabs : causes[s] <= causes'[s]
      /\ \A s \in others : Excused(s)
  BY DisturbedSettles
<1>3. jar' = (IF keeps THEN cookies ELSE B!NoCookies) /\ jar' \in Cookies
      /\ (~keeps => jar' = B!NoCookies)
  BY LoginFacts, CookieTypes DEF B!Keep
<1>4. jar'.session \in {jar.session, "live"} \/ B!Returning \subseteq others
  BY <1>3, LoginFacts
<1>5. \A s \in Tabs \ {t} : Spared(s)
  BY <1>2, <1>4 DEF Spared
<1>6. Explained(t)'
  BY <1>2, LoginFacts DEF Owed, Explained, B!Excuses
<1>7. Owed(t)'
  BY <1>1, <1>3, <1>6 DEF Owed
<1>8. /\ started' \in 0..MaxFlows /\ started <= started' /\ tab'[t].flow <= started'
      /\ hops' \in [Tabs -> Nat] /\ refusals' \in [Tabs -> Nat]
      /\ \A s \in Tabs \ {t} : hops'[s] = hops[s] /\ refusals'[s] = refusals[s]
  BY <1>1, LoginFacts
<1> QED
  BY <1>1, <1>2, <1>3, <1>5, <1>7, <1>8, MovesLogin

LEMMA CallbackStep ==
    ASSUME LoginType, LoginInv, NEW t \in Tabs,
           \/ B!CallbackFails(t)
           \/ B!CallbackMatches(t)
    PROVE  LoginType' /\ LoginInv'
<1>1. CASE B!CallbackFails(t)
  <2>1. /\ B!Goes(t, "error") /\ UNCHANGED <<keeps, started, hops, refusals>>
        /\ \/ UNCHANGED <<jar, causes>>
           \/ B!Keep(B!ClearState) /\ B!Disturbed(B!OnTheWay \ {t})
    BY <1>1 DEF B!CallbackFails
  <2>2. B!ClearState \in Cookies /\ B!ClearState.session = jar.session
    BY LoginFacts, CookieTypes
  <2>3. B!OnTheWay \ {t} \in SUBSET Tabs
    BY DEF B!OnTheWay
  <2> QED
    BY <2>1, <2>2, <2>3, RestsLogin, AnsweredLogin
<1>2. CASE B!CallbackMatches(t)
  <2>1. /\ B!Goes(t, "exchange") /\ B!Matches(t)
        /\ UNCHANGED <<keeps, started, hops, jar, causes, refusals>>
    BY <1>2 DEF B!CallbackMatches
  <2>2. keeps
    BY <2>1, LoginFacts DEF B!Matches, B!Readable, B!NoCookies
  <2>3. tab'[t].at = "exchange"
    BY <2>1, GoesFacts DEF Places
  <2>4. Explained(t)'
    BY <2>1, LoginFacts DEF Owed, Explained, B!Excuses
  <2>5. Owed(t)'
    BY <2>1, <2>2, <2>3, <2>4 DEF Owed
  <2> QED
    BY <2>1, <2>5, StaysLogin DEF Places
<1> QED
  BY <1>1, <1>2

LEMMA ExchangeStep ==
    ASSUME LoginType, LoginInv, NEW t \in Tabs, NEW exchanged \in BOOLEAN, NEW fits \in BOOLEAN,
           B!Exchange(t, exchanged, fits)
    PROVE  LoginType' /\ LoginInv'
<1>1. /\ tab[t].at = "exchange"
      /\ \/ B!Keep(B!WithSession) /\ B!Goes(t, "return")
         \/ B!Keep(B!ClearState) /\ B!Goes(t, "error")
      /\ B!Disturbed(B!OnTheWay) /\ UNCHANGED <<keeps, started, hops, refusals>>
  BY DEF B!Exchange
<1>2. /\ B!ClearState \in Cookies /\ B!ClearState.session = jar.session
      /\ B!WithSession \in Cookies /\ B!WithSession.session = "live"
  BY LoginFacts, CookieTypes
<1>3. B!OnTheWay \in SUBSET Tabs /\ t \notin B!OnTheWay /\ keeps
  BY <1>1, LoginFacts DEF B!OnTheWay, Owed
<1>4. CASE B!Keep(B!WithSession) /\ B!Goes(t, "return")
  BY <1>1, <1>2, <1>3, <1>4, AnsweredLogin
<1>5. CASE B!Keep(B!ClearState) /\ B!Goes(t, "error")
  BY <1>1, <1>2, <1>3, <1>5, AnsweredLogin
<1> QED
  BY <1>1, <1>4, <1>5

\* A tab that comes back without its session has a cause to show for it.
LEMMA ReturnStep ==
    ASSUME LoginType, LoginInv, NEW t \in Tabs, NEW to \in {"root", "deep"}, B!Return(t, to)
    PROVE  LoginType' /\ LoginInv'
<1>1. /\ tab[t].at = "return" /\ B!Goes(t, B!Shown(to))
      /\ UNCHANGED <<keeps, jar, started, hops, causes, refusals>>
  BY DEF B!Return
<1>2. CASE B!Shown(to) = "login"
  <2>1. Settled(t)
    BY <1>1, <1>2, ShownPlaces, LoginFacts DEF Owed
  <2>2. Settled(t)' /\ Explained(t)' /\ tab'[t].at = "login"
    BY <1>1, <1>2, <2>1, LoginFacts, GoesFacts DEF Owed, Settled, Explained, B!Excuses, Places
  <2>3. Owed(t)'
    BY <2>2 DEF Owed
  <2> QED
    BY <1>1, <1>2, <2>3, StaysLogin DEF Places
<1>3. CASE B!Shown(to) \in {"page", "landing"}
  BY <1>1, <1>3, RestsLogin
<1> QED
  BY <1>2, <1>3, ShownPlaces

LEMMA LoginFailsStep ==
    ASSUME LoginType, LoginInv, NEW t \in Tabs, B!LoginFails(t)
    PROVE  LoginType' /\ LoginInv'
  BY RestsLogin DEF B!LoginFails

LEMMA LogoutStep ==
    ASSUME LoginType, LoginInv, NEW t \in Tabs, B!Logout(t)
    PROVE  LoginType' /\ LoginInv'
<1> DEFINE others == B!OnTheWay \cup B!Returning
<1>1. /\ tab[t].at = "page" /\ B!Keep(B!ClearSession(B!ClearState)) /\ B!Goes(t, "idle")
      /\ B!Disturbed(others) /\ UNCHANGED <<keeps, started, hops, refusals>>
  BY DEF B!Logout
<1>2. B!ClearSession(B!ClearState) \in Cookies
  BY LoginFacts, CookieTypes
<1>3. others \in SUBSET Tabs /\ t \notin others
  BY <1>1 DEF B!OnTheWay, B!Returning
<1> QED
  BY <1>1, <1>2, <1>3, AnsweredLogin

\* Time passes and keys change, for every tab at once.
LEMMA TimeStep ==
    ASSUME LoginType, LoginInv,
           \/ B!StateAges
           \/ B!SessionExpires
           \/ B!KeyChanges
    PROVE  LoginType' /\ LoginInv'
<1>0. jar \in Cookies /\ (~keeps => jar = B!NoCookies)
  BY DEF LoginType, LoginInv
<1>1. PICK others \in SUBSET Tabs :
         /\ B!Disturbed(others) /\ UNCHANGED <<keeps, tab, started, hops, refusals>>
         /\ keeps /\ jar' \in Cookies
         /\ (jar'.state = jar.state /\ jar'.seal = jar.seal) \/ B!OnTheWay \subseteq others
         /\ jar'.session = jar.session \/ B!Returning \subseteq others
  <2>1. B!OnTheWay \in SUBSET Tabs /\ B!Returning \in SUBSET Tabs
    BY DEF B!OnTheWay, B!Returning
  <2>2. CASE B!StateAges
    <3>1. /\ jar.state # 0 /\ B!Disturbed(B!OnTheWay)
          /\ jar' = (IF jar.seal = "fresh" THEN [jar EXCEPT !.seal = "aged"] ELSE B!ClearState)
          /\ UNCHANGED <<keeps, tab, started, hops, refusals>>
      BY <2>2 DEF B!StateAges
    <3>2. keeps
      BY <1>0, <3>1 DEF B!NoCookies
    <3>3. [jar EXCEPT !.seal = "aged"] \in Cookies /\ [jar EXCEPT !.seal = "aged"].session = jar.session
      BY <1>0 DEF Cookies
    <3>4. jar' \in Cookies /\ jar'.session = jar.session
      BY <1>0, <3>1, <3>3, CookieTypes
    <3> QED
      BY <2>1, <3>1, <3>2, <3>4
  <2>3. CASE B!SessionExpires
    <3>1. /\ jar.session # "none" /\ B!Disturbed(B!Returning)
          /\ jar' = (IF jar.session = "live" THEN [jar EXCEPT !.session = "expired"]
                     ELSE B!ClearSession(jar))
          /\ UNCHANGED <<keeps, tab, started, hops, refusals>>
      BY <2>3 DEF B!SessionExpires
    <3>2. keeps /\ jar' \in Cookies /\ jar'.state = jar.state /\ jar'.seal = jar.seal
      BY <1>0, <3>1 DEF B!NoCookies, Cookies, B!ClearSession
    <3> QED
      BY <2>1, <3>1, <3>2
  <2>4. CASE B!KeyChanges
    <3> DEFINE others == B!OnTheWay \cup B!Returning
    <3> DEFINE seal == IF jar.state = 0 THEN jar.seal ELSE "unreadable"
               session == IF jar.session = "none" THEN jar.session ELSE "unreadable"
    <3>1. /\ jar.state # 0 \/ jar.session # "none"
          /\ jar' = [jar EXCEPT !.seal = seal, !.session = session]
          /\ B!Disturbed(others)
          /\ UNCHANGED <<keeps, tab, started, hops, refusals>>
      BY <1>0, <2>4 DEF B!KeyChanges, B!Readable, B!HasSession, Cookies
    <3>2. keeps
      BY <1>0, <3>1 DEF B!NoCookies
    <3>3. seal \in {"fresh", "aged", "unreadable"} /\ session \in {"none", "live", "expired", "unreadable"}
      BY <1>0 DEF Cookies
    <3> HIDE DEF seal, session
    <3>4. jar' \in Cookies
      BY <1>0, <3>1, <3>3 DEF Cookies
    <3>5. others \in SUBSET Tabs /\ B!OnTheWay \subseteq others /\ B!Returning \subseteq others
      BY <2>1
    <3> QED
      BY <3>1, <3>2, <3>4, <3>5
  <2> QED
    BY <2>2, <2>3, <2>4
<1>2. /\ causes' \in [Tabs -> 0..MaxFlows] /\ \A t \in Tabs : causes[t] <= causes'[t]
      /\ \A t \in others : Excused(t)
  BY <1>1, DisturbedSettles
<1>3. ASSUME NEW t \in Tabs
      PROVE  Owed(t)'
  <2>1. Spared(t)
    BY <1>1, <1>2 DEF Spared
  <2>2. causes'[t] \in 0..MaxFlows /\ causes[t] <= causes'[t]
    BY <1>2
  <2> QED
    BY <1>1, <2>1, <2>2, OthersLogin
<1>4. LoginType'
  BY <1>1, <1>2 DEF LoginType
<1> QED
  BY <1>1, <1>3, <1>4 DEF LoginInv

LEMMA LoginNext == LoginType /\ LoginInv /\ [B!Next]_B!vars => (LoginType /\ LoginInv)'
<1> SUFFICES ASSUME LoginType, LoginInv, [B!Next]_B!vars
             PROVE  LoginType' /\ LoginInv'
  OBVIOUS
<1>1. ASSUME NEW t \in Tabs,
             \/ \E to \in {"root", "deep", "login"} : B!Open(t, to)
             \/ B!Reopen(t) \/ B!Login(t) \/ B!LoginFails(t)
             \/ \E answer \in B!Accounts \cup {"error"} : B!Tenant(t, answer)
             \/ B!CallbackRetries(t) \/ B!CallbackFails(t) \/ B!CallbackMatches(t)
             \/ \E exchanged, fits \in BOOLEAN : B!Exchange(t, exchanged, fits)
             \/ \E to \in {"root", "deep"} : B!Return(t, to)
             \/ B!Logout(t)
      PROVE  LoginType' /\ LoginInv'
  BY <1>1, OpenStep, ReopenStep, LoginStep, LoginFailsStep, TenantStep, RetriesStep, CallbackStep,
     ExchangeStep, ReturnStep, LogoutStep
<1>2. CASE B!StateAges \/ B!SessionExpires \/ B!KeyChanges
  BY <1>2, TimeStep
<1>3. CASE UNCHANGED B!vars
  BY <1>3 DEF B!vars, LoginType, LoginInv, Owed, Explained, Settled, Intact, B!Excuses, B!Matches,
     B!Readable
<1> QED
  BY <1>1, <1>2, <1>3 DEF B!Next

\* A browser that keeps its cookies goes through /login again only for a cause from
\* outside, whatever the tabs do with the cookies they share, and one that keeps
\* none only for the errors of the tenant (loginTerminal, loginFailed).
THEOREM BouncesAreCaused == B!Spec => []BouncesHaveCauses
<1>1. LoginType /\ LoginInv => BouncesHaveCauses
  BY DEF LoginInv, Owed, Explained, BouncesHaveCauses, B!BouncesHaveCauses
<1> QED
  BY InitLogin, LoginNext, <1>1, PTL DEF B!Spec

-----------------------------------------------------------------------------
(* The whole. *)

\* Whichever part the service is seen from, a download is what was signed and
\* goes to whom it belongs: every behaviour is one of the cache, of a request or
\* of a browser, so that what is proved of each holds of the whole.
THEOREM DownloadsSafe ==
    DownloadsSpec => [](/\ ReadIsSigned /\ RebuildRepairs /\ SignaturesBounded
                        /\ OwnerOnly /\ ScopesBound /\ NeverCached /\ AuditMatches /\ ScriptWorks
                        /\ BouncesHaveCauses)
<1> DEFINE Pipeline == PipelineType /\ PipelineInv
           Login == LoginType /\ LoginInv
<1>1. DownloadsInit => IInv /\ Pipeline /\ Login
  BY InitInv, InitRequest, InitLogin DEF DownloadsInit
<1>2. [DownloadsNext]_allVars => [Next]_vars /\ [F!Next]_F!vars /\ [B!Next]_B!vars
  BY DEF DownloadsNext, allVars, frontend, browser, F!vars, B!vars
<1>3. IInv /\ Pipeline /\ Login /\ [DownloadsNext]_allVars => IInv' /\ Pipeline' /\ Login'
  BY <1>2, NextInv, PipelineNext, LoginNext
<1>4. IInv => ReadIsSigned /\ RebuildRepairs /\ SignaturesBounded
  BY CacheSafe
<1>5. Pipeline => OwnerOnly /\ ScopesBound /\ NeverCached /\ AuditMatches /\ ScriptWorks
  BY PipelineSafe
<1>6. Login => BouncesHaveCauses
  BY DEF LoginInv, Owed, Explained, BouncesHaveCauses, B!BouncesHaveCauses
<1> HIDE DEF Pipeline, Login
<1> QED BY <1>1, <1>3, <1>4, <1>5, <1>6, PTL DEF DownloadsSpec
=============================================================================
