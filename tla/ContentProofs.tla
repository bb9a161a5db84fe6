---------------------------- MODULE ContentProofs ----------------------------
(***************************************************************************)
(* What is served is what was asked for, for any number of replicas,       *)
(* clients, extensions, kernels and restarts.                              *)
(*                                                                         *)
(* The tag of an SPDX bundle only ever names a signed manifest, so that no *)
(* read-back fails by the race of builders alone: the set of signed        *)
(* manifests only grows and the tag is never taken away; a request that    *)
(* resolved the tag keeps a manifest that was signed then, and one whose   *)
(* flight succeeded knows that there is a tag to resolve.                  *)
(*                                                                         *)
(* A VEX document is made of the digest whose signature was verified.      *)
(*                                                                         *)
(* The key of an asset says all that its contents depend on, and nothing   *)
(* of where it was resolved: both are proved field by field of the profile *)
(* from what Enhance puts into it.                                         *)
(*                                                                         *)
(* Every link on a page is parsed back into what it offers, whichever      *)
(* platform, architecture, Secure Boot and sidecar it spells: its words    *)
(* are the platform's, then the architecture, then Secure Boot, and each   *)
(* cut of the parser takes one of them off.                                *)
(***************************************************************************)
EXTENDS Content, Sequences, SequenceTheorems, TLAPS

\* What the flight of a replica knows of the bundle it stores.
FlightInv ==
    \A r \in Replicas :
        /\ flight[r].step \in {"push", "sign", "tag"} => flight[r].bundle \in Digests
        /\ flight[r].step = "tag" => flight[r].bundle \in signed

\* What a request knows of the registry.
RequestInv ==
    \A c \in Clients :
        /\ request[c].step = "verify" => request[c].bundle \in signed
        /\ request[c].step = "head" /\ request[c].built => tag # NoBundle

IInv == TypeOK /\ FlightInv /\ TagIsSigned /\ RequestInv /\ ReadBackFinds

LEMMA InitInv == Init => IInv
<1> SUFFICES ASSUME Init PROVE IInv
  OBVIOUS
<1>1. TypeOK
  BY DEF Init, TypeOK, NoFlight, Flights, FlightSteps, Requests, RequestSteps, Maybe
<1>2. FlightInv /\ TagIsSigned
  BY DEF Init, FlightInv, TagIsSigned, NoFlight
<1>3. RequestInv /\ ReadBackFinds
  BY DEF Init, RequestInv, ReadBackFinds
<1> QED BY <1>1, <1>2, <1>3 DEF IInv

---------------------------------------------------------------------------
(* Type correctness *)

LEMMA EndedType ==
    ASSUME NEW q \in Requests, NEW result \in {"served", "failed", "canceled"},
           NEW d \in Maybe
    PROVE  Ended(q, result, d) \in Requests
BY DEF Ended, Requests, RequestSteps

LEMMA EndType ==
    ASSUME TypeOK, NEW c \in Clients, NEW result \in {"served", "failed", "canceled"},
           NEW d \in Maybe, End(c, result, d)
    PROVE  request' \in [Clients -> Requests]
BY EndedType DEF End, TypeOK

LEMMA NotFoundType ==
    ASSUME TypeOK, NEW c \in Clients, NotFound(c)
    PROVE  request' \in [Clients -> Requests]
<1>1. CASE request[c].built
  BY <1>1, EndType DEF NotFound, Maybe
<1>2. CASE ~request[c].built
  <2>1. [request[c] EXCEPT !.step = "join"] \in Requests
    BY DEF TypeOK, Requests, RequestSteps
  <2> QED BY <1>2, <2>1 DEF NotFound, TypeOK
<1> QED BY <1>1, <1>2

LEMMA EndFlightType ==
    ASSUME TypeOK, NEW r \in Replicas, NEW ok \in BOOLEAN, EndFlight(r, ok)
    PROVE  flight' \in [Replicas -> Flights] /\ request' \in [Clients -> Requests]
<1>1. NoFlight \in Flights
  BY DEF NoFlight, Flights, FlightSteps, Maybe
<1>2. ASSUME NEW c \in Clients
      PROVE  [request[c] EXCEPT !.step = "head", !.built = TRUE, !.bundle = NoBundle] \in Requests
  BY DEF TypeOK, Requests, RequestSteps, Maybe
<1>3. ASSUME NEW c \in Clients PROVE Ended(request[c], "failed", NoBundle) \in Requests
  BY EndedType DEF TypeOK, Maybe
<1> QED BY <1>1, <1>2, <1>3 DEF TypeOK, EndFlight

LEMMA GotoType ==
    ASSUME TypeOK, NEW r \in Replicas, NEW step \in FlightSteps, Goto(r, step)
    PROVE  flight' \in [Replicas -> Flights] /\ request' \in [Clients -> Requests]
<1>1. [flight[r] EXCEPT !.step = step] \in Flights
  BY DEF TypeOK, Flights
<1> QED BY <1>1 DEF TypeOK, Goto

LEMMA ClientType ==
    ASSUME TypeOK, NEW c \in Clients, ClientStep(c) \/ Cancel(c)
    PROVE  TypeOK'
<1>c. request[c] \in Requests /\ request[c].at \in Replicas /\ request[c].bundle \in Maybe
  BY DEF TypeOK, Requests
<1>n. NoBundle \in Maybe
  BY DEF Maybe
<1>1. CASE HeadTag(c)
  <2>1. CASE tag = NoBundle
    BY <1>1, <2>1, NotFoundType DEF HeadTag, Store, TypeOK
  <2>2. CASE tag # NoBundle
    <3>1. [request[c] EXCEPT !.step = "verify", !.bundle = tag] \in Requests
      BY <1>c DEF Requests, RequestSteps, TypeOK
    <3> QED BY <1>1, <2>2, <3>1 DEF HeadTag, Store, TypeOK
  <2> QED BY <2>1, <2>2
<1>2. CASE VerifyTagged(c)
  BY <1>2, <1>c, EndType, NotFoundType DEF VerifyTagged, Store, TypeOK
<1>3. CASE Join(c)
  <2> DEFINE r == request[c].at
             f == IF flight[r].step = "idle" THEN [NoFlight EXCEPT !.step = "talos"]
                                             ELSE flight[r]
  <2>1. f \in Flights
    BY <1>c DEF TypeOK, Flights, NoFlight, FlightSteps, Maybe
  <2>2. [f EXCEPT !.waiters = @ \cup {c}] \in Flights
    <3> HIDE DEF f
    <3> QED BY <2>1 DEF Flights
  <2>3. [request[c] EXCEPT !.step = "wait"] \in Requests
    BY <1>c DEF Requests, RequestSteps
  <2>4. flight' = [flight EXCEPT ![r] = [f EXCEPT !.waiters = @ \cup {c}]]
    BY <1>3 DEF Join
  <2> HIDE DEF f
  <2> QED BY <1>3, <1>c, <2>2, <2>3, <2>4 DEF Join, Store, TypeOK
<1>4. CASE Cancel(c)
  <2> DEFINE r == request[c].at
  <2>1. [flight[r] EXCEPT !.waiters = @ \ {c}] \in Flights
    BY <1>c DEF TypeOK, Flights
  <2>2. flight' = [flight EXCEPT ![r] = [flight[r] EXCEPT !.waiters = @ \ {c}]]
    BY <1>4 DEF Cancel
  <2> QED BY <1>4, <1>c, <1>n, <2>1, <2>2, EndType DEF Cancel, Store, TypeOK
<1> QED BY <1>1, <1>2, <1>3, <1>4 DEF ClientStep

LEMMA FlightType ==
    ASSUME TypeOK, FlightInv, NEW r \in Replicas, FlightStep(r)
    PROVE  TypeOK'
<1>f. flight[r] \in Flights
  BY DEF TypeOK
<1>1. CASE ExtractTalos(r)
  BY <1>1, GotoType DEF ExtractTalos, Store, TypeOK, FlightSteps
<1>2. CASE ListExtensions(r)
  <2>1. [flight[r] EXCEPT !.step = "extract", !.todo = Extensions] \in Flights
    BY <1>f DEF Flights, FlightSteps
  <2> QED BY <1>2, <2>1 DEF ListExtensions, Store, TypeOK
<1>3. CASE Extract(r)
  <2>1. PICK e \in flight[r].todo :
           flight' = [flight EXCEPT ![r] = [flight[r] EXCEPT !.todo = @ \ {e}, !.got = @ \cup {e}]]
    BY <1>3 DEF Extract
  <2>2. e \in Extensions
    BY <1>f, <2>1 DEF Flights
  <2>3. [flight[r] EXCEPT !.todo = @ \ {e}, !.got = @ \cup {e}] \in Flights
    BY <1>f, <2>2 DEF Flights
  <2> QED BY <1>3, <2>1, <2>3 DEF Extract, Store, TypeOK
<1>4. CASE Render(r)
  <2>1. PICK s \in Stamps :
           flight' = [flight EXCEPT ![r] = [flight[r] EXCEPT !.step = "push",
                                                             !.bundle = <<s, flight[r].got>>]]
    BY <1>4 DEF Render
  <2>2. <<s, flight[r].got>> \in Maybe
    BY <1>f DEF Flights, Maybe, Digests
  <2>3. [flight[r] EXCEPT !.step = "push", !.bundle = <<s, flight[r].got>>] \in Flights
    BY <1>f, <2>2 DEF Flights, FlightSteps
  <2> QED BY <1>4, <2>1, <2>3 DEF Render, Store, TypeOK
<1>5. CASE PushManifest(r)
  <2>1. flight[r].bundle \in Digests
    BY <1>5 DEF PushManifest, At, FlightInv
  <2> QED BY <1>5, <2>1, GotoType DEF PushManifest, TypeOK, FlightSteps
<1>6. CASE Sign(r)
  <2>1. flight[r].bundle \in Digests
    BY <1>6 DEF Sign, At, FlightInv
  <2> QED BY <1>6, <2>1, GotoType DEF Sign, TypeOK, FlightSteps
<1>7. CASE PushTag(r)
  <2>1. flight[r].bundle \in Maybe
    BY <1>f DEF Flights
  <2> QED BY <1>7, <2>1, EndFlightType DEF PushTag, TypeOK
<1> QED BY <1>1, <1>2, <1>3, <1>4, <1>5, <1>6, <1>7 DEF FlightStep

LEMMA FailureType == TypeOK /\ Failure => TypeOK'
<1> SUFFICES ASSUME TypeOK, Failure PROVE TypeOK'
  OBVIOUS
<1>n. NoBundle \in Maybe
  BY DEF Maybe
<1>1. ASSUME NEW c \in Clients, GetFails(c) \/ VerifyFails(c) PROVE TypeOK'
  BY <1>1, <1>n, EndType, NotFoundType DEF GetFails, VerifyFails, Fault, Store, TypeOK
<1>2. ASSUME NEW r \in Replicas, ListFails(r) PROVE TypeOK'
  BY <1>2, GotoType DEF ListFails, Fault, Store, TypeOK, FlightSteps
<1>3. ASSUME NEW r \in Replicas, ExtractFails(r) PROVE TypeOK'
  <2>1. PICK e : flight' = [flight EXCEPT ![r] = [flight[r] EXCEPT !.todo = @ \ {e}]]
    BY <1>3 DEF ExtractFails
  <2>2. flight[r] \in Flights
    BY DEF TypeOK
  <2>3. [flight[r] EXCEPT !.todo = @ \ {e}] \in Flights
    BY <2>2 DEF Flights
  <2>4. flight' \in [Replicas -> Flights]
    BY <2>1, <2>3 DEF TypeOK
  <2> QED BY <1>3, <2>4 DEF ExtractFails, Fault, Store, TypeOK
<1>4. ASSUME NEW r \in Replicas, FlightFails(r) PROVE TypeOK'
  <2>1. EndFlight(r, FALSE) /\ FALSE \in BOOLEAN
    BY <1>4 DEF FlightFails
  <2>2. flight' \in [Replicas -> Flights] /\ request' \in [Clients -> Requests]
    BY <2>1, EndFlightType
  <2> QED BY <1>4, <2>2 DEF FlightFails, Fault, Store, TypeOK
<1>5. ASSUME NEW r \in Replicas, Crash(r) PROVE TypeOK'
  <2>1. NoFlight \in Flights
    BY DEF NoFlight, Flights, FlightSteps, Maybe
  <2>2. ASSUME NEW c \in Clients PROVE Ended(request[c], "failed", NoBundle) \in Requests
    BY EndedType, <1>n DEF TypeOK
  <2> QED BY <1>5, <2>1, <2>2 DEF Crash, Fault, Store, TypeOK
<1> QED BY <1>1, <1>2, <1>3, <1>4, <1>5 DEF Failure

LEMMA NextType == TypeOK /\ FlightInv /\ [Next]_vars => TypeOK'
<1> SUFFICES ASSUME TypeOK, FlightInv, [Next]_vars PROVE TypeOK'
  OBVIOUS
<1>1. CASE UNCHANGED vars
  BY <1>1 DEF vars, TypeOK
<1>2. ASSUME NEW c \in Clients, NEW r \in Replicas, Ask(c, r) PROVE TypeOK'
  BY <1>2 DEF Ask, Store, TypeOK, Requests, RequestSteps, Maybe
<1> QED BY <1>1, <1>2, ClientType, FlightType, FailureType DEF Next

---------------------------------------------------------------------------
(* The registry *)

\* Manifests stay signed and the tag stays, whatever happens.
LEMMA StoreGrows ==
    TypeOK /\ FlightInv /\ [Next]_vars =>
        signed \subseteq signed' /\ (tag # NoBundle => tag' # NoBundle)
<1> SUFFICES ASSUME TypeOK, FlightInv, [Next]_vars
             PROVE  signed \subseteq signed' /\ (tag # NoBundle => tag' # NoBundle)
  OBVIOUS
<1>1. ASSUME NEW r \in Replicas, PushTag(r) PROVE tag' # NoBundle
  BY <1>1, BundleAssumption DEF PushTag, At, FlightInv
<1>2. ASSUME NEW c \in Clients, ClientStep(c) \/ Cancel(c) PROVE UNCHANGED Store
  BY <1>2 DEF ClientStep, HeadTag, VerifyTagged, Join, Cancel, Store
<1>3. ASSUME Failure PROVE UNCHANGED Store
  BY <1>3 DEF Failure, GetFails, VerifyFails, ListFails, ExtractFails, FlightFails, Crash, Store
<1>4. ASSUME NEW r \in Replicas, FlightStep(r) PROVE signed \subseteq signed' /\ (PushTag(r) \/ tag' = tag)
  BY <1>4 DEF FlightStep, ExtractTalos, ListExtensions, Extract, Render, PushManifest, Sign,
              PushTag, Store
<1>5. ASSUME NEW c \in Clients, NEW r \in Replicas, Ask(c, r) PROVE UNCHANGED Store
  BY <1>5 DEF Ask, Store
<1> QED BY <1>1, <1>2, <1>3, <1>4, <1>5 DEF Next, vars, Store

\* The tag moves to what a flight has signed.
LEMMA NextTag == IInv /\ [Next]_vars => TagIsSigned'
<1> SUFFICES ASSUME IInv, [Next]_vars PROVE TagIsSigned'
  OBVIOUS
<1>0. signed \subseteq signed'
  BY StoreGrows DEF IInv
<1>1. ASSUME NEW r \in Replicas, PushTag(r) PROVE TagIsSigned'
  BY <1>1 DEF PushTag, At, IInv, FlightInv, TagIsSigned
<1>2. CASE UNCHANGED tag
  BY <1>0, <1>2 DEF IInv, TagIsSigned
<1>3. ASSUME NEW c \in Clients, ClientStep(c) \/ Cancel(c) PROVE UNCHANGED tag
  BY <1>3 DEF ClientStep, HeadTag, VerifyTagged, Join, Cancel, Store
<1>4. ASSUME Failure PROVE UNCHANGED tag
  BY <1>4 DEF Failure, GetFails, VerifyFails, ListFails, ExtractFails, FlightFails, Crash, Store
<1>5. ASSUME NEW r \in Replicas, FlightStep(r), ~PushTag(r) PROVE UNCHANGED tag
  BY <1>5 DEF FlightStep, ExtractTalos, ListExtensions, Extract, Render, PushManifest, Sign, Store
<1>6. ASSUME NEW c \in Clients, NEW r \in Replicas, Ask(c, r) PROVE UNCHANGED tag
  BY <1>6 DEF Ask, Store
<1> QED BY <1>1, <1>2, <1>3, <1>4, <1>5, <1>6 DEF Next, vars

---------------------------------------------------------------------------
(* Flights *)

\* What the invariant says of one flight.
FlightKnows(f) ==
    /\ f.step \in {"push", "sign", "tag"} => f.bundle \in Digests
    /\ f.step = "tag" => f.bundle \in signed

LEMMA NextFlight == IInv /\ [Next]_vars => FlightInv'
<1> SUFFICES ASSUME IInv, [Next]_vars, NEW q \in Replicas
             PROVE  FlightKnows(flight[q])'
  BY DEF FlightInv, FlightKnows
<1>t. TypeOK /\ flight[q] \in Flights
  BY DEF IInv, TypeOK
<1>k. FlightKnows(flight[q]) /\ signed \subseteq signed'
  BY StoreGrows DEF IInv, FlightInv, FlightKnows
<1>s. CASE flight'[q] = flight[q]
  BY <1>k, <1>s DEF FlightKnows
<1>i. CASE flight'[q] = NoFlight
  BY <1>i DEF FlightKnows, NoFlight
<1>1. ASSUME NEW c \in Clients, Join(c) PROVE FlightKnows(flight[q])'
  <2> DEFINE r == request[c].at
             f == IF flight[r].step = "idle" THEN [NoFlight EXCEPT !.step = "talos"]
                                             ELSE flight[r]
  <2>1. flight' = [flight EXCEPT ![r] = [f EXCEPT !.waiters = @ \cup {c}]]
    BY <1>1 DEF Join
  <2>2. CASE q = r /\ flight[r].step = "idle"
    BY <1>t, <2>1, <2>2 DEF FlightKnows, NoFlight, TypeOK
  <2>3. CASE q = r /\ flight[r].step # "idle"
    <3>1. flight'[q] = [flight[q] EXCEPT !.waiters = @ \cup {c}]
      BY <1>t, <2>1, <2>3 DEF TypeOK
    <3>2. flight'[q].step = flight[q].step /\ flight'[q].bundle = flight[q].bundle
      BY <1>t, <3>1 DEF Flights
    <3> QED BY <1>k, <3>2 DEF FlightKnows
  <2>4. CASE q # r
    BY <1>t, <1>s, <2>1, <2>4 DEF TypeOK
  <2> QED BY <2>2, <2>3, <2>4
<1>2. ASSUME NEW c \in Clients, Cancel(c) PROVE FlightKnows(flight[q])'
  <2> DEFINE r == request[c].at
  <2>1. flight' = [flight EXCEPT ![r] = [flight[r] EXCEPT !.waiters = @ \ {c}]]
    BY <1>2 DEF Cancel
  <2>2. flight'[q].step = flight[q].step /\ flight'[q].bundle = flight[q].bundle
    BY <1>t, <2>1 DEF TypeOK, Flights
  <2> QED BY <1>k, <2>2 DEF FlightKnows
<1>3. ASSUME NEW c \in Clients, HeadTag(c) \/ VerifyTagged(c) \/ GetFails(c) \/ VerifyFails(c)
      PROVE  flight' = flight
  BY <1>3 DEF HeadTag, VerifyTagged, GetFails, VerifyFails
<1>4. ASSUME NEW r \in Replicas, FlightStep(r) PROVE FlightKnows(flight[q])'
  <2>0. flight[r] \in Flights
    BY <1>t DEF TypeOK
  <2>1. CASE q # r
    <3>1. flight'[q] = flight[q]
      BY <1>t, <1>4, <2>1 DEF FlightStep, ExtractTalos, ListExtensions, Extract, Render,
                              PushManifest, Sign, PushTag, Goto, EndFlight, TypeOK
    <3> QED BY <1>s, <3>1
  <2>2. CASE q = r
    <3>1. CASE ExtractTalos(r) \/ ListExtensions(r) \/ Extract(r)
      <4>1. flight'[q].step \in {"list", "extract"}
        <5>1. CASE ExtractTalos(r)
          BY <1>t, <2>2, <5>1 DEF ExtractTalos, Goto, TypeOK
        <5>2. CASE ListExtensions(r)
          <6>1. flight' = [flight EXCEPT ![r] = [flight[r] EXCEPT !.step = "extract",
                                                                  !.todo = Extensions]]
            BY <5>2 DEF ListExtensions
          <6>2. flight'[r] = [flight[r] EXCEPT !.step = "extract", !.todo = Extensions]
            BY <1>t, <6>1 DEF TypeOK
          <6> QED BY <2>0, <2>2, <6>2 DEF Flights
        <5>3. CASE Extract(r)
          <6>1. PICK e \in flight[r].todo :
                   flight' = [flight EXCEPT ![r].todo = flight[r].todo \ {e},
                                            ![r].got = flight[r].got \cup {e}]
            BY <5>3, Zenon DEF Extract
          <6>2. flight[r].step = "extract"
            BY <5>3 DEF Extract, At
          <6>3. flight'[r] = [flight[r] EXCEPT !.todo = flight[r].todo \ {e},
                                               !.got = flight[r].got \cup {e}]
            BY <1>t, <6>1 DEF TypeOK
          <6> QED BY <2>0, <2>2, <6>2, <6>3 DEF Flights
        <5> QED BY <3>1, <5>1, <5>2, <5>3
      <4> QED BY <4>1 DEF FlightKnows
    <3>2. CASE Render(r)
      <4>1. PICK s \in Stamps :
               flight' = [flight EXCEPT ![r] = [flight[r] EXCEPT !.step = "push",
                                                                 !.bundle = <<s, flight[r].got>>]]
        BY <3>2 DEF Render
      <4>2. <<s, flight[r].got>> \in Digests
        BY <2>0 DEF Flights, Digests
      <4>3. flight'[q].step = "push" /\ flight'[q].bundle \in Digests
        BY <1>t, <2>0, <2>2, <4>1, <4>2 DEF TypeOK, Flights
      <4> QED BY <4>3 DEF FlightKnows
    <3>3. CASE PushManifest(r)
      <4>1. flight'[q].step = "sign" /\ flight'[q].bundle = flight[q].bundle
        BY <1>t, <2>2, <3>3 DEF PushManifest, Goto, TypeOK, Flights
      <4>2. flight[q].bundle \in Digests
        BY <1>k, <2>2, <3>3 DEF PushManifest, At, FlightKnows
      <4> QED BY <4>1, <4>2 DEF FlightKnows
    <3>4. CASE Sign(r)
      <4>1. flight'[q].step = "tag" /\ flight'[q].bundle = flight[q].bundle
        BY <1>t, <2>2, <3>4 DEF Sign, Goto, TypeOK, Flights
      <4>2. flight[q].bundle \in Digests /\ flight[q].bundle \in signed'
        BY <1>k, <2>2, <3>4 DEF Sign, At, FlightKnows
      <4> QED BY <4>1, <4>2 DEF FlightKnows
    <3>5. CASE PushTag(r)
      <4>1. flight'[q] = NoFlight
        BY <1>t, <2>2, <3>5 DEF PushTag, EndFlight, TypeOK
      <4> QED BY <1>i, <4>1
    <3> QED BY <1>4, <3>1, <3>2, <3>3, <3>4, <3>5 DEF FlightStep
  <2> QED BY <2>1, <2>2
<1>5. ASSUME NEW r \in Replicas, ListFails(r) \/ ExtractFails(r) PROVE FlightKnows(flight[q])'
  <2>0. flight[r] \in Flights
    BY <1>t DEF TypeOK
  <2>1. CASE q # r
    <3>1. flight'[q] = flight[q]
      BY <1>t, <1>5, <2>1 DEF ListFails, ExtractFails, Goto, TypeOK
    <3> QED BY <1>s, <3>1
  <2>2. CASE q = r
    <3>1. flight'[q].step = "extract"
      BY <1>t, <1>5, <2>0, <2>2 DEF ListFails, ExtractFails, At, Goto, TypeOK, Flights
    <3> QED BY <3>1 DEF FlightKnows
  <2> QED BY <2>1, <2>2
<1>6. ASSUME NEW r \in Replicas, FlightFails(r) \/ Crash(r) PROVE FlightKnows(flight[q])'
  <2>1. flight' = [flight EXCEPT ![r] = NoFlight]
    BY <1>6 DEF FlightFails, EndFlight, Crash
  <2> QED BY <1>t, <1>s, <1>i, <2>1 DEF TypeOK
<1>7. ASSUME NEW c \in Clients, NEW r \in Replicas, Ask(c, r) PROVE flight' = flight
  BY <1>7 DEF Ask
<1> QED BY <1>s, <1>1, <1>2, <1>3, <1>4, <1>5, <1>6, <1>7 DEF Next, ClientStep, Failure, vars

---------------------------------------------------------------------------
(* Requests *)

\* What the invariant says of one request.
RequestKnows(q) ==
    /\ q.step = "verify" => q.bundle \in signed
    /\ q.step = "head" /\ q.built => tag # NoBundle
    /\ faults = 0 => q.result # "failed"

\* A step that is no fault leaves a request that fails nothing to fail for.
LEMMA NextRequest == IInv /\ [Next]_vars => RequestInv' /\ ReadBackFinds'
<1> SUFFICES ASSUME IInv, [Next]_vars, NEW q \in Clients
             PROVE  RequestKnows(request[q])'
  BY DEF RequestInv, ReadBackFinds, RequestKnows
<1>t. TypeOK /\ request[q] \in Requests
  BY DEF IInv, TypeOK
<1>k. RequestKnows(request[q])
  BY DEF IInv, RequestInv, ReadBackFinds, RequestKnows
<1>g. signed \subseteq signed' /\ (tag # NoBundle => tag' # NoBundle)
  BY StoreGrows DEF IInv
<1>f. ASSUME Fault PROVE faults' # 0
  BY <1>f, <1>t DEF Fault, TypeOK
<1>n. (faults' = faults \/ Fault) => (faults' = 0 => faults = 0)
  BY <1>f
<1>s. CASE request'[q] = request[q] /\ (faults' = faults \/ Fault)
  BY <1>k, <1>g, <1>n, <1>s DEF RequestKnows
<1>e. CASE request'[q].step \notin {"verify", "head"} /\ Fault
  BY <1>f, <1>e DEF RequestKnows
<1>m. CASE /\ request'[q].step \notin {"verify", "head"} /\ faults' = faults
           /\ request'[q].result \in {request[q].result, "served", "canceled"}
  BY <1>k, <1>m DEF RequestKnows
<1>d. ASSUME NEW result, NEW d, End(q, result, d)
      PROVE  request'[q].step = "done" /\ request'[q].result = result
  <2>1. request'[q] = Ended(request[q], result, d)
    BY <1>t, <1>d DEF End, TypeOK
  <2> QED BY <1>t, <2>1 DEF Ended, Requests
<1>1. ASSUME NEW c \in Clients, NEW r \in Replicas, Ask(c, r) PROVE RequestKnows(request[q])'
  <2>1. CASE q = c
    <3>1. request'[q] = [step |-> "head", at |-> r, built |-> FALSE,
                         bundle |-> NoBundle, result |-> "none"]
      BY <1>t, <1>1, <2>1 DEF Ask, TypeOK
    <3> QED BY <3>1 DEF RequestKnows
  <2>2. CASE q # c
    BY <1>t, <1>s, <1>1, <2>2 DEF Ask, TypeOK
  <2> QED BY <2>1, <2>2
<1>2. ASSUME NEW c \in Clients, c # q,
             ClientStep(c) \/ Cancel(c) \/ GetFails(c) \/ VerifyFails(c)
      PROVE  RequestKnows(request[q])'
  <2>1. request'[q] = request[q]
    BY <1>t, <1>2 DEF ClientStep, HeadTag, VerifyTagged, Join, Cancel, GetFails, VerifyFails,
                      NotFound, End, TypeOK
  <2>2. faults' = faults \/ Fault
    BY <1>2 DEF ClientStep, HeadTag, VerifyTagged, Join, Cancel, GetFails, VerifyFails
  <2> QED BY <1>s, <2>1, <2>2
<1>3. CASE HeadTag(q)
  <2>1. CASE tag # NoBundle
    <3>1. /\ request'[q].step = "verify" /\ request'[q].bundle = tag
          /\ request'[q].result = request[q].result
      BY <1>t, <1>3, <2>1 DEF HeadTag, TypeOK, Requests
    <3>2. tag \in signed' /\ faults' = faults
      BY <1>3, <1>g, <2>1 DEF HeadTag, IInv, TagIsSigned
    <3> QED BY <1>k, <3>1, <3>2 DEF RequestKnows
  <2>2. CASE tag = NoBundle
    <3>1. ~request[q].built
      BY <1>k, <1>3, <2>2 DEF HeadTag, RequestKnows
    <3>2. request'[q].step = "join" /\ request'[q].result = request[q].result /\ faults' = faults
      BY <1>t, <1>3, <2>2, <3>1 DEF HeadTag, NotFound, TypeOK, Requests
    <3> QED BY <1>m, <3>2
  <2> QED BY <2>1, <2>2
<1>4. CASE VerifyTagged(q)
  <2>1. request[q].bundle \in signed /\ faults' = faults
    BY <1>k, <1>4 DEF VerifyTagged, RequestKnows
  <2>2. request'[q].step = "done" /\ request'[q].result = "served"
    <3>1. End(q, "served", request[q].bundle)
      BY <1>4, <2>1 DEF VerifyTagged
    <3>2. request'[q] = Ended(request[q], "served", request[q].bundle)
      BY <1>t, <3>1 DEF End, TypeOK
    <3> QED BY <1>t, <3>2 DEF Ended, Requests
  <2> QED BY <1>m, <2>1, <2>2
<1>5. CASE Join(q)
  <2>1. request'[q].step = "wait" /\ request'[q].result = request[q].result /\ faults' = faults
    BY <1>t, <1>5 DEF Join, TypeOK, Requests
  <2> QED BY <1>m, <2>1
<1>6. CASE Cancel(q)
  <2>1. request'[q].step = "done" /\ request'[q].result = "canceled" /\ faults' = faults
    <3>1. End(q, "canceled", NoBundle) /\ faults' = faults
      BY <1>6 DEF Cancel
    <3> QED BY <1>d, <3>1
  <2> QED BY <1>m, <2>1
<1>7. CASE GetFails(q) \/ VerifyFails(q)
  <2>1. \/ End(q, "failed", NoBundle)
        \/ request' = [request EXCEPT ![q] = [request[q] EXCEPT !.step = "join"]]
    BY <1>7 DEF GetFails, VerifyFails, NotFound
  <2>2. Fault
    BY <1>7 DEF GetFails, VerifyFails
  <2>3. CASE End(q, "failed", NoBundle)
    BY <1>d, <1>e, <2>2, <2>3
  <2>4. CASE request' = [request EXCEPT ![q] = [request[q] EXCEPT !.step = "join"]]
    <3>1. request'[q].step = "join"
      BY <1>t, <2>4 DEF TypeOK, Requests
    <3> QED BY <1>e, <2>2, <3>1
  <2> QED BY <2>1, <2>3, <2>4
<1>8. ASSUME NEW r \in Replicas, FlightStep(r), ~PushTag(r) PROVE RequestKnows(request[q])'
  <2>1. request'[q] = request[q] /\ faults' = faults
    BY <1>8 DEF FlightStep, ExtractTalos, ListExtensions, Extract, Render, PushManifest, Sign, Goto
  <2> QED BY <1>s, <2>1
<1>9. ASSUME NEW r \in Replicas, PushTag(r) PROVE RequestKnows(request[q])'
  <2>1. CASE q \in flight[r].waiters
    <3>1. request'[q].step = "head" /\ request'[q].result = request[q].result
      BY <1>t, <1>9, <2>1 DEF PushTag, EndFlight, Requests
    <3>2. tag' # NoBundle /\ faults' = faults
      BY <1>9, BundleAssumption DEF PushTag, At, IInv, FlightInv
    <3> QED BY <1>k, <3>1, <3>2 DEF RequestKnows
  <2>2. CASE q \notin flight[r].waiters
    BY <1>s, <1>9, <2>2 DEF PushTag, EndFlight
  <2> QED BY <2>1, <2>2
<1>10. ASSUME NEW r \in Replicas, ListFails(r) \/ ExtractFails(r) PROVE RequestKnows(request[q])'
  BY <1>s, <1>10 DEF ListFails, ExtractFails, Goto
<1>11. ASSUME NEW r \in Replicas, FlightFails(r) \/ Crash(r) PROVE RequestKnows(request[q])'
  <2>1. Fault /\ (request'[q] = request[q] \/ request'[q] = Ended(request[q], "failed", NoBundle))
    BY <1>11 DEF FlightFails, EndFlight, Crash
  <2>2. CASE request'[q] = Ended(request[q], "failed", NoBundle)
    <3>1. request'[q].step = "done"
      BY <1>t, <2>2 DEF Ended, Requests
    <3> QED BY <1>e, <2>1, <3>1
  <2> QED BY <1>s, <2>1, <2>2
<1>12. CASE UNCHANGED vars
  BY <1>s, <1>12 DEF vars
<1> QED BY <1>1, <1>2, <1>3, <1>4, <1>5, <1>6, <1>7, <1>8, <1>9, <1>10, <1>11, <1>12
        DEF Next, ClientStep, Failure

LEMMA NextInv == IInv /\ [Next]_vars => IInv'
BY NextType, NextFlight, NextTag, NextRequest DEF IInv

---------------------------------------------------------------------------

\* Every state of the bundles' storage and their builders is well formed.
THEOREM TypeCorrect == Spec => []TypeOK
<1>1. IInv => TypeOK
  BY DEF IInv
<1> QED BY InitInv, NextInv, <1>1, PTL DEF Spec

\* Storage.Put of the SPDX storage signs before it moves the tag, and no race
\* of replicas, failure or crash makes the tag name an unsigned manifest.
THEOREM TagNamesSigned == Spec => []TagIsSigned
<1>1. IInv => TagIsSigned
  BY DEF IInv
<1> QED BY InitInv, NextInv, <1>1, PTL DEF Spec

\* Builder.Build reads the bundle back after its flight: as long as nothing
\* fails it finds one, whichever replica tagged last.
THEOREM ReadBackSucceeds == Spec => []ReadBackFinds
<1>1. IInv => ReadBackFinds
  BY DEF IInv
<1> QED BY InitInv, NextInv, <1>1, PTL DEF Spec

---------------------------------------------------------------------------
(* Nobody is forgotten *)

Waits(c, r) == request[c].step = "wait" /\ request[c].at = r

\* Who waits at a replica is known to its flight, and the flight runs.
WaitersKnown ==
    /\ \A r \in Replicas, c \in Clients : c \in flight[r].waiters <=> Waits(c, r)
    /\ \A r \in Replicas : flight[r].waiters # {} => flight[r].step # "idle"

\* A flight keeps its waiters, and nobody begins or ends to wait.
LEMMA WaitersStay ==
    ASSUME WaitersKnown,
           \A r \in Replicas : flight'[r].waiters = flight[r].waiters,
           \A r \in Replicas : flight'[r].step = "idle" => flight[r].step = "idle",
           \A c \in Clients : request'[c] = request[c]
                              \/ (request[c].step # "wait" /\ request'[c].step # "wait")
    PROVE  WaitersKnown'
BY DEF WaitersKnown, Waits

\* The flight of a replica is gone, and nobody waits there.
LEMMA WaitersLeave ==
    ASSUME TypeOK, WaitersKnown, NEW r \in Replicas, flight' = [flight EXCEPT ![r] = NoFlight],
           \A c \in Clients : (request'[c] = request[c] /\ ~Waits(c, r))
                              \/ (request'[c].step # "wait" /\ (request[c].step = "wait" => request[c].at = r))
    PROVE  WaitersKnown'
<1>1. flight'[r].waiters = {} /\ \A q \in Replicas \ {r} : flight'[q] = flight[q]
  BY DEF TypeOK, NoFlight
<1>2. ASSUME NEW c \in Clients PROVE ~Waits(c, r)' /\ \A q \in Replicas \ {r} : Waits(c, q)' <=> Waits(c, q)
  BY DEF Waits
<1> QED BY <1>1, <1>2 DEF WaitersKnown

LEMMA EndFlightWaiters ==
    ASSUME TypeOK, WaitersKnown, NEW r \in Replicas, NEW ok \in BOOLEAN, EndFlight(r, ok)
    PROVE  WaitersKnown'
<1>1. ASSUME NEW c \in Clients, c \in flight[r].waiters
      PROVE  request'[c].step # "wait" /\ request[c].at = r
  <2>1. request[c] \in Requests /\ request[c].at = r
    BY <1>1 DEF TypeOK, WaitersKnown, Waits
  <2>2. request'[c] = IF ok THEN [request[c] EXCEPT !.step = "head", !.built = TRUE, !.bundle = NoBundle]
                      ELSE Ended(request[c], "failed", NoBundle)
    BY <1>1 DEF EndFlight
  <2> QED BY <2>1, <2>2 DEF Ended, Requests
<1>2. ASSUME NEW c \in Clients, c \notin flight[r].waiters
      PROVE  request'[c] = request[c] /\ ~Waits(c, r)
  BY <1>2 DEF EndFlight, WaitersKnown
<1> QED BY <1>1, <1>2, WaitersLeave DEF EndFlight

LEMMA GotoWaiters ==
    ASSUME TypeOK, WaitersKnown, NEW r \in Replicas, NEW step, step # "idle", Goto(r, step)
    PROVE  WaitersKnown'
<1>1. \A q \in Replicas : flight'[q].waiters = flight[q].waiters
  BY DEF Goto, TypeOK, Flights
<1>2. \A q \in Replicas : flight'[q].step = "idle" => flight[q].step = "idle"
  BY DEF Goto, TypeOK, Flights
<1> QED BY <1>1, <1>2, WaitersStay DEF Goto

LEMMA WaitersFlight ==
    ASSUME TypeOK, WaitersKnown, NEW r \in Replicas,
           FlightStep(r) \/ ListFails(r) \/ ExtractFails(r) \/ FlightFails(r)
    PROVE  WaitersKnown'
<1>0. flight \in [Replicas -> Flights]
  BY DEF TypeOK
<1>1. CASE ExtractTalos(r) \/ ListFails(r) \/ PushManifest(r) \/ Sign(r)
  BY <1>1, GotoWaiters DEF ExtractTalos, ListFails, PushManifest, Sign
<1>2. CASE ListExtensions(r) \/ Extract(r) \/ ExtractFails(r) \/ Render(r)
  <2>1. request' = request /\ \A q \in Replicas \ {r} : flight'[q] = flight[q]
    BY <1>0, <1>2 DEF ListExtensions, Extract, ExtractFails, Render
  <2>2. flight'[r].waiters = flight[r].waiters /\ flight'[r].step # "idle"
    <3>1. CASE ListExtensions(r)
      BY <1>0, <3>1 DEF ListExtensions, Flights
    <3>2. CASE Extract(r)
      BY <1>0, <3>2 DEF Extract, Flights, At
    <3>3. CASE ExtractFails(r)
      BY <1>0, <3>3 DEF ExtractFails, Flights, At
    <3>4. CASE Render(r)
      BY <1>0, <3>4 DEF Render, Flights
    <3> QED BY <1>2, <3>1, <3>2, <3>3, <3>4
  <2> QED BY <2>1, <2>2, WaitersStay
<1>3. CASE PushTag(r) \/ FlightFails(r)
  BY <1>3, EndFlightWaiters DEF PushTag, FlightFails
<1> QED BY <1>1, <1>2, <1>3 DEF FlightStep

LEMMA WaitersClient ==
    ASSUME TypeOK, WaitersKnown, NEW c \in Clients,
           ClientStep(c) \/ Cancel(c) \/ GetFails(c) \/ VerifyFails(c)
    PROVE  WaitersKnown'
<1> DEFINE r == request[c].at
<1>1. request[c] \in Requests /\ r \in Replicas
  BY DEF TypeOK, Requests
<1>2. flight[r] \in Flights
  BY <1>1 DEF TypeOK
<1>3. CASE Join(c)
  <2> DEFINE f == IF flight[r].step = "idle" THEN [NoFlight EXCEPT !.step = "talos"] ELSE flight[r]
             g == [f EXCEPT !.waiters = @ \cup {c}]
  <2>1. flight' = [flight EXCEPT ![r] = g]
    BY <1>3 DEF Join
  <2>2. g.waiters = flight[r].waiters \cup {c} /\ g.step # "idle"
    <3>1. CASE flight[r].step = "idle"
      <4>1. flight[r].waiters = {}
        BY <1>1, <3>1 DEF WaitersKnown
      <4>2. f = [step |-> "talos", todo |-> {}, got |-> {}, bundle |-> NoBundle, waiters |-> {}]
        BY <3>1 DEF NoFlight
      <4> QED BY <4>1, <4>2
    <3>2. CASE flight[r].step # "idle"
      BY <1>2, <3>2 DEF Flights
    <3> QED BY <3>1, <3>2
  <2> HIDE DEF f, g
  <2>3. flight'[r] = g /\ \A q \in Replicas \ {r} : flight'[q] = flight[q]
    BY <1>1, <2>1 DEF TypeOK
  <2>4. request'[c].step = "wait" /\ request'[c].at = r /\ request[c].step # "wait"
    BY <1>1, <1>3 DEF Join, TypeOK, Requests
  <2>5. \A e \in Clients \ {c} : request'[e] = request[e]
    BY <1>3 DEF Join, TypeOK
  <2> HIDE DEF r
  <2> QED BY <1>1, <2>2, <2>3, <2>4, <2>5 DEF WaitersKnown, Waits
<1>4. CASE Cancel(c)
  <2>1. flight'[r].waiters = flight[r].waiters \ {c} /\ flight'[r].step = flight[r].step
    BY <1>1, <1>2, <1>4 DEF Cancel, TypeOK, Flights
  <2>2. \A q \in Replicas \ {r} : flight'[q] = flight[q]
    BY <1>1, <1>4 DEF Cancel, TypeOK
  <2>3. request'[c].step # "wait" /\ request[c].step = "wait"
    BY <1>1, <1>4 DEF Cancel, End, Ended, TypeOK, Requests
  <2>4. \A e \in Clients \ {c} : request'[e] = request[e]
    BY <1>4 DEF Cancel, End, TypeOK
  <2>5. \A q \in Replicas \ {r} : c \notin flight[q].waiters
    BY <1>1 DEF WaitersKnown, Waits
  <2> HIDE DEF r
  <2> QED BY <1>1, <2>1, <2>2, <2>3, <2>4, <2>5 DEF WaitersKnown, Waits
<1>5. CASE HeadTag(c) \/ VerifyTagged(c) \/ GetFails(c) \/ VerifyFails(c)
  <2>1. flight' = flight /\ \A e \in Clients \ {c} : request'[e] = request[e]
    BY <1>5 DEF HeadTag, VerifyTagged, GetFails, VerifyFails, NotFound, End, TypeOK
  <2>2. request[c].step # "wait"
    BY <1>5 DEF HeadTag, VerifyTagged, GetFails, VerifyFails
  <2>3. ASSUME NEW result, NEW d, End(c, result, d) PROVE request'[c].step = "done"
    <3>1. request'[c] = Ended(request[c], result, d)
      BY <2>3 DEF End, TypeOK
    <3>2. \A q \in Requests : Ended(q, result, d).step = "done"
      BY DEF Ended, Requests
    <3> QED BY <1>1, <3>1, <3>2
  <2>4. ASSUME NotFound(c) PROVE request'[c].step \in {"done", "join"}
    <3>1. CASE request[c].built
      BY <2>3, <2>4, <3>1 DEF NotFound
    <3>2. CASE ~request[c].built
      BY <1>1, <2>4, <3>2 DEF NotFound, TypeOK, Requests
    <3> QED BY <3>1, <3>2
  <2>5. request'[c].step # "wait"
    <3>1. CASE HeadTag(c)
      <4>1. CASE tag = NoBundle
        BY <2>4, <3>1, <4>1 DEF HeadTag
      <4>2. CASE tag # NoBundle
        <5>1. request'[c] = [request[c] EXCEPT !.step = "verify", !.bundle = tag]
          BY <3>1, <4>2 DEF HeadTag, TypeOK
        <5> QED BY <1>1, <5>1 DEF Requests
      <4> QED BY <4>1, <4>2
    <3>2. CASE VerifyTagged(c)
      BY <2>3, <2>4, <3>2 DEF VerifyTagged
    <3>3. CASE GetFails(c)
      BY <2>3, <3>3 DEF GetFails
    <3>4. CASE VerifyFails(c)
      BY <2>4, <3>4 DEF VerifyFails
    <3> QED BY <1>5, <3>1, <3>2, <3>3, <3>4
  <2> QED BY <2>1, <2>2, <2>5, WaitersStay
<1> QED BY <1>3, <1>4, <1>5 DEF ClientStep

LEMMA WaitersNext == TypeOK /\ WaitersKnown /\ [Next]_vars => WaitersKnown'
<1> SUFFICES ASSUME TypeOK, WaitersKnown, [Next]_vars PROVE WaitersKnown'
  OBVIOUS
<1>1. CASE UNCHANGED vars
  BY <1>1, WaitersStay DEF vars
<1>2. ASSUME NEW c \in Clients, NEW r \in Replicas, Ask(c, r) PROVE WaitersKnown'
  BY <1>2, WaitersStay DEF Ask, TypeOK
<1>3. ASSUME NEW r \in Replicas, Crash(r) PROVE WaitersKnown'
  <2>1. ASSUME NEW c \in Clients
        PROVE  (request'[c] = request[c] /\ ~Waits(c, r))
               \/ (request'[c].step # "wait" /\ (request[c].step = "wait" => request[c].at = r))
    <3>1. CASE request[c].at = r /\ request[c].step \notin {"idle", "done"}
      <4>1. request'[c] = [request[c] EXCEPT !.step = "done", !.result = "failed", !.bundle = NoBundle]
        BY <1>3, <3>1 DEF Crash, Ended
      <4> QED BY <3>1, <4>1 DEF TypeOK, Requests
    <3>2. CASE ~(request[c].at = r /\ request[c].step \notin {"idle", "done"})
      BY <1>3, <3>2 DEF Crash, Waits
    <3> QED BY <3>1, <3>2
  <2> QED BY <1>3, <2>1, WaitersLeave DEF Crash
<1> QED BY <1>1, <1>2, <1>3, WaitersClient, WaitersFlight DEF Next, Failure

\* Every request for an SBOM that waits is told by a flight that runs at its
\* replica, whoever joined it, went away or failed before (Builder.Build).
THEOREM NobodyForgotten == Spec => []WaitersKnown
<1>1. ASSUME Init PROVE WaitersKnown
  <2>1. \A r \in Replicas : flight[r] = NoFlight
    BY <1>1 DEF Init
  <2>2. NoFlight.waiters = {}
    BY DEF NoFlight
  <2>3. \A c \in Clients : request[c].step = "idle"
    BY <1>1 DEF Init
  <2> QED BY <2>1, <2>2, <2>3 DEF WaitersKnown, Waits
<1> QED BY <1>1, TypeCorrect, WaitersNext, PTL DEF Spec

---------------------------------------------------------------------------
(* VEX documents *)

\* Every fetch that pulls has verified what it pulls.
VEXInv ==
    /\ documents \in [Kernels -> Images \cup {"none"}]
    /\ fetches \in [Kernels -> [stage : {"none", "kernel", "head", "verify", "pull"},
                                digest : Images \cup {"none"}]]
    /\ image \in Images
    /\ \A k \in Kernels : fetches[k].stage = "pull" => fetches[k].digest \in SignedImages
    /\ V!VEXIsVerified

LEMMA VEXInitInv == V!Init => VEXInv
BY DEF V!Init, VEXInv, V!NoFetch, V!None, V!VEXIsVerified

\* A fetch that goes on, and one that ends.
LEMMA FetchMoves ==
    ASSUME VEXInv, NEW k \in Kernels, NEW stage \in {"none", "kernel", "head", "verify", "pull"},
           NEW digest \in Images \cup {"none"},
           fetches' = [fetches EXCEPT ![k] = [stage |-> stage, digest |-> digest]],
           UNCHANGED image,
           \/ UNCHANGED documents
           \/ /\ fetches[k].stage = "pull"
              /\ documents' = [documents EXCEPT ![k] = fetches[k].digest],
           stage = "pull" => digest \in SignedImages
    PROVE  VEXInv'
<1>1. /\ documents' \in [Kernels -> Images \cup {"none"}]
      /\ fetches' \in [Kernels -> [stage : {"none", "kernel", "head", "verify", "pull"},
                                   digest : Images \cup {"none"}]]
  BY DEF VEXInv
<1>2. \A q \in Kernels : fetches'[q].stage = "pull" => fetches'[q].digest \in SignedImages
  BY DEF VEXInv
<1>3. V!VEXIsVerified'
  BY DEF VEXInv, V!VEXIsVerified, V!None
<1> QED BY <1>1, <1>2, <1>3 DEF VEXInv

LEMMA VEXNextInv == VEXInv /\ [V!Next]_V!vars => VEXInv'
<1> SUFFICES ASSUME VEXInv, [V!Next]_V!vars PROVE VEXInv'
  OBVIOUS
<1>1. CASE UNCHANGED V!vars \/ V!MoveTag
  BY <1>1 DEF V!vars, V!MoveTag, VEXInv, V!VEXIsVerified
<1>2. ASSUME NEW c \in Clients, V!Cancel(c) \/ \E k \in Kernels : V!LookUp(c, k) PROVE VEXInv'
  BY <1>2 DEF V!Cancel, V!LookUp, VEXInv, V!VEXIsVerified
<1>3. ASSUME NEW c \in Clients, V!Join(c) PROVE VEXInv'
  <2>0. UNCHANGED <<image, documents>> /\ fetches' = V!Joined(calls[c].kernel)
    BY <1>3 DEF V!Join
  <2>1. CASE UNCHANGED fetches
    BY <2>0, <2>1 DEF VEXInv, V!VEXIsVerified
  <2>2. CASE calls[c].kernel \in Kernels /\ fetches' # fetches
    <3> PICK k \in Kernels : k = calls[c].kernel
      BY <2>2
    <3>1. PICK stage \in {"kernel", "head"} : fetches' = [fetches EXCEPT ![k].stage = stage]
      BY <2>0, <2>2 DEF V!Joined
    <3>f. fetches[k] \in [stage : {"none", "kernel", "head", "verify", "pull"}, digest : Images \cup {"none"}]
      BY DEF VEXInv
    <3>e. [fetches[k] EXCEPT !.stage = stage] = [stage |-> stage, digest |-> fetches[k].digest]
      BY <3>f
    <3>2. /\ fetches[k].digest \in Images \cup {"none"}
          /\ fetches' = [fetches EXCEPT ![k] = [stage |-> stage, digest |-> fetches[k].digest]]
      BY <3>1, <3>f, <3>e
    <3>3. UNCHANGED <<image, documents>>
      BY <2>0
    <3> QED BY <3>2, <3>3, FetchMoves
  <2>3. CASE calls[c].kernel \notin Kernels
    <3>1. UNCHANGED fetches
      BY <2>0, <2>3 DEF VEXInv, V!Joined
    <3> QED BY <2>1, <3>1
  <2> QED BY <2>1, <2>2, <2>3
<1>4. ASSUME NEW k \in Kernels, V!KernelVersion(k) \/ V!Head(k) \/ V!VerifySignatures(k) PROVE VEXInv'
  <2>1. fetches[k].digest \in Images \cup {"none"} /\ image \in Images
    BY DEF VEXInv
  <2>2. PICK stage \in {"head", "verify", "pull"}, digest \in Images \cup {"none"} :
            /\ fetches' = [fetches EXCEPT ![k] = [stage |-> stage, digest |-> digest]]
            /\ stage = "pull" => digest \in SignedImages
            /\ UNCHANGED <<image, documents>>
    BY <1>4, <2>1 DEF V!KernelVersion, V!Head, V!VerifySignatures, V!Advance, V!None
  <2> QED BY <2>2, FetchMoves
<1>5. ASSUME NEW k \in Kernels, V!Pull(k) \/ V!Fails(k) PROVE VEXInv'
  <2>1. /\ fetches' = [fetches EXCEPT ![k] = [stage |-> "none", digest |-> "none"]]
        /\ UNCHANGED image
        /\ \/ UNCHANGED documents
           \/ fetches[k].stage = "pull" /\ documents' = [documents EXCEPT ![k] = fetches[k].digest]
    BY <1>5 DEF V!Pull, V!Fails, V!Ended, V!NoFetch, V!None
  <2> QED BY <2>1, FetchMoves
<1>6. ASSUME NEW k \in Kernels, V!Expire(k) PROVE VEXInv'
  BY <1>6 DEF V!Expire, VEXInv, V!VEXIsVerified, V!None
<1> QED BY <1>1, <1>2, <1>3, <1>4, <1>5, <1>6 DEF V!Next

\* fetchExploitabilityData pulls what it verified: a tag that moves in between
\* brings no unverified data into a document.
THEOREM VEXVerified == V!Spec => []VEXIsVerified
<1>1. VEXInv => VEXIsVerified
  BY DEF VEXInv, VEXIsVerified
<1> QED BY <1>1, VEXInitInv, VEXNextInv, PTL DEF V!Spec

\* A call that waits for a document has a fetch of its kernel under way.
VEXCalls ==
    /\ calls \in [Clients -> [stage : {"idle", "missed", "waiting", "served", "failed", "canceled"},
                              kernel : Kernels \cup {"none"}]]
    /\ \A c \in Clients : calls[c].stage \in {"missed", "waiting"} => calls[c].kernel \in Kernels
    /\ \A c \in Clients : calls[c].stage = "waiting" => fetches[calls[c].kernel].stage # "none"

LEMMA VEXCallsStay ==
    ASSUME VEXCalls, UNCHANGED calls,
           \A k \in Kernels : fetches'[k].stage = "none" => fetches[k].stage = "none"
    PROVE  VEXCalls'
BY DEF VEXCalls

\* One call goes on, the fetches run on.
LEMMA VEXCallMoves ==
    ASSUME VEXCalls, NEW c \in Clients,
           NEW stage \in {"idle", "missed", "waiting", "served", "failed", "canceled"},
           NEW k \in Kernels, calls' = [calls EXCEPT ![c] = [stage |-> stage, kernel |-> k]],
           \A q \in Kernels : fetches'[q].stage = "none" => fetches[q].stage = "none",
           stage = "waiting" => fetches'[k].stage # "none"
    PROVE  VEXCalls'
<1>1. calls'[c].stage = stage /\ calls'[c].kernel = k
  BY DEF VEXCalls
<1>2. \A d \in Clients \ {c} : calls'[d] = calls[d]
  BY DEF VEXCalls
<1>3. calls' \in [Clients -> [stage : {"idle", "missed", "waiting", "served", "failed", "canceled"},
                              kernel : Kernels \cup {"none"}]]
  BY DEF VEXCalls
<1> QED BY <1>1, <1>2, <1>3 DEF VEXCalls

LEMMA VEXJoinCalls ==
    ASSUME VEXInv, VEXCalls, NEW c \in Clients, V!Join(c)
    PROVE  VEXCalls'
<1> DEFINE k == calls[c].kernel
<1>1. k \in Kernels /\ calls[c].stage = "missed"
  BY DEF V!Join, VEXCalls
<1>2. calls' = [calls EXCEPT ![c] = [stage |-> "waiting", kernel |-> k]]
  <2>1. calls[c] \in [stage : {"idle", "missed", "waiting", "served", "failed", "canceled"},
                      kernel : Kernels \cup {"none"}]
    BY DEF VEXCalls
  <2>2. [calls[c] EXCEPT !.stage = "waiting"] = [stage |-> "waiting", kernel |-> k]
    BY <2>1
  <2>3. calls' = [calls EXCEPT ![c] = [calls[c] EXCEPT !.stage = "waiting"]]
    BY DEF V!Join
  <2> QED BY <2>2, <2>3
<1>3. fetches[k] \in [stage : {"none", "kernel", "head", "verify", "pull"}, digest : Images \cup {"none"}]
  BY <1>1 DEF VEXInv
<1>4. fetches'[k].stage # "none" /\ \A q \in Kernels \ {k} : fetches'[q] = fetches[q]
  <2>1. CASE fetches[k].stage # "none"
    BY <2>1 DEF V!Join, V!Joined, V!None
  <2>2. CASE fetches[k].stage = "none"
    <3>1. PICK stage \in {"kernel", "head"} : fetches' = [fetches EXCEPT ![k].stage = stage]
      BY <2>2 DEF V!Join, V!Joined, V!None
    <3>2. fetches'[k] = [fetches[k] EXCEPT !.stage = stage]
      BY <1>1, <3>1 DEF VEXInv
    <3>3. \A q \in Kernels \ {k} : fetches'[q] = fetches[q]
      BY <3>1 DEF VEXInv
    <3> QED BY <1>3, <3>2, <3>3
  <2> QED BY <2>1, <2>2
<1> HIDE DEF k
<1>5. \A q \in Kernels : fetches'[q].stage = "none" => fetches[q].stage = "none"
  BY <1>1, <1>4
<1> QED BY <1>1, <1>2, <1>4, <1>5, VEXCallMoves

LEMMA VEXEndedCalls ==
    ASSUME VEXInv, VEXCalls, NEW k \in Kernels, NEW stage \in {"served", "failed"}, V!Ended(k, stage)
    PROVE  VEXCalls'
<1> DEFINE waits(c) == calls[c].stage = "waiting" /\ calls[c].kernel = k
<1>1. ASSUME NEW c \in Clients, waits(c)
      PROVE  /\ calls'[c] \in [stage : {"idle", "missed", "waiting", "served", "failed", "canceled"},
                               kernel : Kernels \cup {"none"}]
             /\ calls'[c].stage = stage
  <2>1. calls[c] \in [stage : {"idle", "missed", "waiting", "served", "failed", "canceled"},
                      kernel : Kernels \cup {"none"}]
    BY DEF VEXCalls
  <2>2. calls'[c] = [calls[c] EXCEPT !.stage = stage]
    BY <1>1 DEF V!Ended
  <2> QED BY <2>1, <2>2
<1>2. ASSUME NEW c \in Clients, ~waits(c) PROVE calls'[c] = calls[c]
  BY <1>2 DEF V!Ended
<1>3. \A q \in Kernels \ {k} : fetches'[q] = fetches[q]
  BY DEF V!Ended, VEXInv
<1>4. DOMAIN calls' = Clients /\ calls' = [c \in Clients |-> calls'[c]]
  BY DEF V!Ended
<1>5. calls' \in [Clients -> [stage : {"idle", "missed", "waiting", "served", "failed", "canceled"},
                              kernel : Kernels \cup {"none"}]]
  BY <1>1, <1>2, <1>4 DEF VEXCalls
<1> QED BY <1>1, <1>2, <1>3, <1>5 DEF VEXCalls

LEMMA VEXCallsNext == VEXInv /\ VEXCalls /\ [V!Next]_V!vars => VEXCalls'
<1> SUFFICES ASSUME VEXInv, VEXCalls, [V!Next]_V!vars PROVE VEXCalls'
  OBVIOUS
<1>1. CASE UNCHANGED V!vars \/ V!MoveTag
  BY <1>1, VEXCallsStay DEF V!vars, V!MoveTag
<1>2. ASSUME NEW c \in Clients, NEW k \in Kernels, V!LookUp(c, k) PROVE VEXCalls'
  <2>1. PICK stage \in {"missed", "served"} : calls' = [calls EXCEPT ![c] = [stage |-> stage, kernel |-> k]]
    BY <1>2 DEF V!LookUp
  <2>2. fetches' = fetches
    BY <1>2 DEF V!LookUp
  <2> QED BY <2>1, <2>2, VEXCallMoves
<1>3. ASSUME NEW c \in Clients, V!Cancel(c) PROVE VEXCalls'
  <2>1. calls[c] \in [stage : {"idle", "missed", "waiting", "served", "failed", "canceled"},
                      kernel : Kernels \cup {"none"}]
    BY DEF VEXCalls
  <2>2. [calls[c] EXCEPT !.stage = "canceled"] = [stage |-> "canceled", kernel |-> calls[c].kernel]
    BY <2>1
  <2>3. calls' = [calls EXCEPT ![c] = [stage |-> "canceled", kernel |-> calls[c].kernel]]
    BY <1>3, <2>2 DEF V!Cancel
  <2>4. calls[c].kernel \in Kernels /\ fetches' = fetches
    BY <1>3 DEF V!Cancel, VEXCalls
  <2> QED BY <2>3, <2>4, VEXCallMoves
<1>4. ASSUME NEW k \in Kernels, V!KernelVersion(k) \/ V!Head(k) \/ V!VerifySignatures(k)
      PROVE  VEXCalls'
  <2>0. fetches[k].digest \in Images \cup {"none"} /\ image \in Images
    BY DEF VEXInv
  <2>1. PICK stage \in {"head", "verify", "pull"}, digest \in Images \cup {"none"} :
            fetches' = [fetches EXCEPT ![k] = [stage |-> stage, digest |-> digest]]
    BY <1>4, <2>0 DEF V!KernelVersion, V!Head, V!VerifySignatures, V!Advance, V!None
  <2>2. \A q \in Kernels : fetches'[q].stage = "none" => fetches[q].stage = "none"
    BY <2>1 DEF VEXInv
  <2>3. UNCHANGED calls
    BY <1>4 DEF V!KernelVersion, V!Head, V!VerifySignatures, V!Advance
  <2> QED BY <2>2, <2>3, VEXCallsStay
<1>5. ASSUME NEW k \in Kernels, V!Pull(k) \/ V!Fails(k) PROVE VEXCalls'
  BY <1>5, VEXEndedCalls DEF V!Pull, V!Fails
<1>6. ASSUME NEW k \in Kernels, V!Expire(k) PROVE VEXCalls'
  BY <1>6, VEXCallsStay DEF V!Expire
<1> QED BY <1>1, <1>2, <1>3, <1>4, <1>5, <1>6, VEXJoinCalls DEF V!Next

\* The VEX builder is well typed, and whoever waits for a document, a request
\* or a scan, waits for a fetch of their kernel that runs: one that went away
\* before leaves it to the others (Builder.build of enterprise/vex/builder).
THEOREM VEXAwaited == V!Spec => [](V!TypeOK /\ VEXCalls)
<1>1. V!Init => VEXCalls
  BY DEF V!Init, VEXCalls, V!Idle, V!None
<1>2. VEXInv /\ VEXCalls => V!TypeOK
  BY DEF VEXInv, VEXCalls, V!TypeOK, V!None
<1> QED BY <1>1, <1>2, VEXInitInv, VEXNextInv, VEXCallsNext, PTL DEF V!Spec

---------------------------------------------------------------------------
(* The keys of the assets *)

Fields == {"kind", "disk", "format", "platform", "arch", "secureBoot", "version", "config", "args", "meta",
           "enroll", "certs", "bootloader", "sector", "installer", "extensions", "overlay"}

IsProfile(p) == p = [f \in Fields |-> p[f]]

\* What a step of the enhancement changes.
Changes(p, q, fields) == IsProfile(q) /\ \A f \in Fields \ fields : q[f] = p[f]

\* The profile of a name before it is enhanced, of Secure Boot or not.
Started(parsed, x) == [K!Unenhanced(parsed) EXCEPT !.secureBoot = x]

\* Each step of the enhancement has fields of its own.
LEMMA StepFields ==
    ASSUME NEW p, IsProfile(p), NEW s, NEW d, NEW v, NEW byDigest, NEW available
    PROVE  /\ Changes(p, K!WithConfig(p, s), {"config"})
           /\ Changes(p, K!SecureBootOptions(p, s), {"certs", "enroll"})
           /\ Changes(p, K!BaseInstaller(p, d, v, byDigest), {"installer"})
           /\ Changes(p, K!SystemExtensions(p, s, d, v, available), {"extensions"})
           /\ Changes(p, K!Overlay(p, s, d), {"overlay"})
           /\ Changes(p, K!Customize(p, s, v), {"args", "meta", "bootloader", "sector"})
<1>1. ASSUME NEW f \in Fields, NEW e PROVE Changes(p, [p EXCEPT ![f] = e], {f})
  BY <1>1 DEF IsProfile, Changes
<1>2. ASSUME NEW f \in Fields, NEW e, NEW g \in Fields, NEW h
      PROVE  Changes(p, [p EXCEPT ![f] = e, ![g] = h], {f, g})
  BY <1>2 DEF IsProfile, Changes
<1>3. ASSUME NEW q, NEW fields, NEW others, Changes(p, q, fields), fields \subseteq others
      PROVE  Changes(p, q, others)
  BY <1>3 DEF Changes
<1>4. Changes(p, p, {})
  BY DEF Changes
<1>5. Changes(p, K!WithConfig(p, s), {"config"})
  BY <1>1, <1>3, <1>4 DEF K!WithConfig, Fields
<1>6. Changes(p, K!SecureBootOptions(p, s), {"certs", "enroll"})
  BY <1>2, <1>3, <1>4 DEF K!SecureBootOptions, Fields
<1>7. Changes(p, K!BaseInstaller(p, d, v, byDigest), {"installer"})
  BY <1>1, <1>3, <1>4 DEF K!BaseInstaller, Fields
<1>8. Changes(p, K!SystemExtensions(p, s, d, v, available), {"extensions"})
  BY <1>1, <1>3, <1>4 DEF K!SystemExtensions, Fields
<1>9. Changes(p, K!Overlay(p, s, d), {"overlay"})
  BY <1>1, <1>3, <1>4 DEF K!Overlay, Fields
<1>10. Changes(p, K!Customize(p, s, v), {"args", "meta", "bootloader", "sector"})
  <2> DEFINE F == {"args", "meta", "bootloader", "sector"}
             argued == [p EXCEPT !.args = s.args]
             full == [argued EXCEPT !.meta = s.meta]
             booted == [full EXCEPT !.bootloader = s.bootloader]
  <2>1. ASSUME NEW q, Changes(p, q, F), NEW f \in F, NEW e PROVE Changes(p, [q EXCEPT ![f] = e], F)
    BY <2>1 DEF Changes, IsProfile, Fields
  <2>2. Changes(p, p, F)
    BY <1>3, <1>4
  <2>3. Changes(p, argued, F)
    BY <2>1, <2>2
  <2>4. Changes(p, full, F)
    <3> HIDE DEF argued
    <3> QED BY <2>1, <2>3
  <2>5. Changes(p, booted, F)
    <3> HIDE DEF full
    <3> QED BY <2>1, <2>4
  <2>6. Changes(p, [full EXCEPT !.bootloader = s.bootloader, !.sector = s.sector], F)
    <3>1. Changes(p, [booted EXCEPT !.sector = s.sector], F)
      <4> HIDE DEF booted
      <4> QED BY <2>1, <2>5
    <3> QED BY <3>1
  <2>7. K!Customize(p, s, v) \in {p, argued, full, booted, [full EXCEPT !.bootloader = s.bootloader, !.sector = s.sector]}
    BY DEF K!Customize
  <2> HIDE DEF F, argued, full, booted
  <2> QED BY <2>2, <2>3, <2>4, <2>5, <2>6, <2>7 DEF F
<1> QED BY <1>5, <1>6, <1>7, <1>8, <1>9, <1>10

\* What Enhance puts where.
BaseOf(p, d, v, byDigest) ==
    IF p.kind # "installer" THEN p.installer
    ELSE [ref |-> <<K!InstallerName(v), IF byDigest THEN "digest" ELSE v>>,
          path |-> K!InDirectory(d, <<p.arch, "installer", v>>)]

ImagesOf(p, s, d, available) ==
    [i \in DOMAIN s.extensions |-> K!InDirectory(d, <<p.arch, K!Digests(s, available)[i]>>)]

Tarball(s, d, v) == K!InDirectory(d, <<s.id, IF v \in K!SupportsOverlay THEN "true" ELSE "false">>)

ExtensionsOf(p, s, d, v, available) ==
    IF K!Bare(p) THEN p.extensions ELSE ImagesOf(p, s, d, available) \o <<Tarball(s, d, v)>>

OverlayOf(p, s, d) ==
    IF K!Bare(p) \/ s.overlay = K!Unset THEN p.overlay
    ELSE [name |-> s.overlay, image |-> K!InDirectory(d, <<"amd64", s.overlay>>),
          installer |-> K!InDirectory(d, <<p.arch, s.overlay>>)]

\* The profile after its Secure Boot options, and after its overlay.
SignedOf(p, s) == K!SecureBootOptions(K!WithConfig(p, s), s)
Extended(p, s, d, v, byDigest, available) ==
    K!Overlay(K!SystemExtensions(K!BaseInstaller(SignedOf(p, s), d, v, byDigest), s, d, v, available), s, d)

\* The fields that tell what a profile is for.
Identity == {"kind", "disk", "format", "platform", "arch", "secureBoot"}

LEMMA ExtendedFields ==
    ASSUME NEW p, IsProfile(p), NEW s, NEW d, NEW v, NEW byDigest, NEW available
    PROVE  LET e == Extended(p, s, d, v, byDigest, available) IN
           /\ Changes(SignedOf(p, s), e, {"installer", "extensions", "overlay"})
           /\ \A f \in Identity : e[f] = p[f]
           /\ e.installer = BaseOf(p, d, v, byDigest)
           /\ e.extensions = ExtensionsOf(p, s, d, v, available)
           /\ e.overlay = OverlayOf(p, s, d)
<1> DEFINE p1 == K!WithConfig(p, s)
           p2 == K!SecureBootOptions(p1, s)
           p3 == K!BaseInstaller(p2, d, v, byDigest)
           p4 == K!SystemExtensions(p3, s, d, v, available)
           p5 == K!Overlay(p4, s, d)
<1>q. ASSUME NEW q, NEW r, NEW fields, Changes(q, r, fields) PROVE IsProfile(r)
  BY <1>q DEF Changes
<1>1. Changes(p, p1, {"config"})
  BY StepFields
<1>2. Changes(p1, p2, {"certs", "enroll"})
  <2>1. IsProfile(p1)
    BY <1>q, <1>1
  <2> HIDE DEF p1
  <2> QED BY <2>1, StepFields
<1>3. Changes(p2, p3, {"installer"})
  <2>1. IsProfile(p2)
    BY <1>q, <1>2
  <2> HIDE DEF p2
  <2> QED BY <2>1, StepFields
<1>4. Changes(p3, p4, {"extensions"})
  <2>1. IsProfile(p3)
    BY <1>q, <1>3
  <2> HIDE DEF p3
  <2> QED BY <2>1, StepFields
<1>5. Changes(p4, p5, {"overlay"})
  <2>1. IsProfile(p4)
    BY <1>q, <1>4
  <2> HIDE DEF p4
  <2> QED BY <2>1, StepFields
<1>i. p2.installer = p.installer /\ p2.extensions = p.extensions /\ p2.overlay = p.overlay
  BY <1>1, <1>2 DEF Changes, Fields
<1>6. \A f \in Identity : p1[f] = p[f] /\ p2[f] = p[f] /\ p3[f] = p[f] /\ p4[f] = p[f] /\ p5[f] = p[f]
  BY <1>1, <1>2, <1>3, <1>4, <1>5 DEF Changes, Fields, Identity
<1>k. /\ p2.kind = p.kind /\ p3.kind = p.kind /\ p4.kind = p.kind
      /\ p2.arch = p.arch /\ p3.arch = p.arch /\ p4.arch = p.arch
  BY <1>6 DEF Identity
<1>7. p3.installer = BaseOf(p, d, v, byDigest)
  BY <1>2, <1>i, <1>k DEF K!BaseInstaller, BaseOf, Changes, IsProfile, Fields
<1>8. p4.extensions = ExtensionsOf(p, s, d, v, available)
  <2>1. p3.extensions = p.extensions
    BY <1>3, <1>i DEF Changes, Fields
  <2>2. CASE K!Bare(p)
    BY <1>k, <2>1, <2>2 DEF K!SystemExtensions, ExtensionsOf, K!Bare
  <2>3. CASE ~K!Bare(p)
    <3>1. p4 = [p3 EXCEPT !.extensions = ImagesOf(p, s, d, available) \o <<Tarball(s, d, v)>>]
      BY <1>k, <2>3 DEF K!SystemExtensions, K!Bare, ImagesOf, Tarball
    <3>2. p4.extensions = ImagesOf(p, s, d, available) \o <<Tarball(s, d, v)>>
      BY <1>3, <3>1 DEF Changes, IsProfile, Fields
    <3> QED BY <2>3, <3>2 DEF ExtensionsOf
  <2> QED BY <2>2, <2>3
<1>9. p5.overlay = OverlayOf(p, s, d)
  <2>1. p4.overlay = p.overlay
    BY <1>3, <1>4, <1>i DEF Changes, Fields
  <2> QED BY <1>4, <1>k, <2>1 DEF K!Overlay, OverlayOf, K!Bare, Changes, IsProfile, Fields
<1>10. Changes(p2, p5, {"installer", "extensions", "overlay"})
  BY <1>3, <1>4, <1>5 DEF Changes
<1>11. p5.installer = p3.installer /\ p5.extensions = p4.extensions
  BY <1>4, <1>5 DEF Changes, Fields
<1> HIDE DEF p1, p3, p4
<1>12. p2 = SignedOf(p, s) /\ p5 = Extended(p, s, d, v, byDigest, available)
  BY DEF p1, p3, p4, SignedOf, Extended
<1> HIDE DEF p2, p5
<1> QED BY <1>6, <1>7, <1>8, <1>9, <1>10, <1>11, <1>12

LEMMA EnhanceIs ==
    ASSUME NEW p, NEW s, NEW d, NEW v, NEW byDigest, NEW available
    PROVE  K!Enhance(p, s, d, v, byDigest, available)
           = [K!Customize(Extended(p, s, d, v, byDigest, available), s, v) EXCEPT !.version = v]
BY DEF K!Enhance, Extended, SignedOf

LEMMA EnhanceFields ==
    ASSUME NEW p, IsProfile(p), NEW s, NEW d, NEW v, NEW byDigest, NEW available
    PROVE  LET e == K!Enhance(p, s, d, v, byDigest, available) IN
           /\ IsProfile(e) /\ e.version = v
           /\ \A f \in Identity : e[f] = p[f]
           /\ e.installer = BaseOf(p, d, v, byDigest)
           /\ e.extensions = ExtensionsOf(p, s, d, v, available)
           /\ e.overlay = OverlayOf(p, s, d)
<1> DEFINE x == Extended(p, s, d, v, byDigest, available)
           c == K!Customize(x, s, v)
           e == K!Enhance(p, s, d, v, byDigest, available)
<1>1. /\ IsProfile(x) /\ \A f \in Identity : x[f] = p[f]
      /\ x.installer = BaseOf(p, d, v, byDigest)
      /\ x.extensions = ExtensionsOf(p, s, d, v, available)
      /\ x.overlay = OverlayOf(p, s, d)
  BY ExtendedFields DEF Changes
<1> HIDE DEF x
<1>2. Changes(x, c, {"args", "meta", "bootloader", "sector"})
  BY <1>1, StepFields
<1>3. e = [c EXCEPT !.version = v]
  BY EnhanceIs DEF x
<1> HIDE DEF c, e
<1>4. IsProfile(e) /\ e.version = v /\ \A f \in Fields \ {"version"} : e[f] = c[f]
  BY <1>2, <1>3 DEF Changes, IsProfile, Fields
<1>5. \A f \in Identity \cup {"installer", "extensions", "overlay"} : e[f] = x[f]
  BY <1>2, <1>4 DEF Changes, Fields, Identity
<1>6. IsProfile(e) /\ e.version = v /\ \A f \in Identity : e[f] = p[f]
  BY <1>1, <1>4, <1>5
<1>7. /\ e.installer = BaseOf(p, d, v, byDigest)
      /\ e.extensions = ExtensionsOf(p, s, d, v, available)
      /\ e.overlay = OverlayOf(p, s, d)
  BY <1>1, <1>5
<1> QED BY <1>6, <1>7 DEF e

\* Where it is resolved and what is available there change nothing else.
LEMMA EnhanceAlike ==
    ASSUME NEW p, IsProfile(p), NEW s, NEW v, NEW byDigest, NEW d, NEW available, NEW d2, NEW available2,
           NEW f \in Fields \ {"installer", "extensions", "overlay"}
    PROVE  K!Enhance(p, s, d, v, byDigest, available)[f] = K!Enhance(p, s, d2, v, byDigest, available2)[f]
<1> DEFINE x == Extended(p, s, d, v, byDigest, available)
           y == Extended(p, s, d2, v, byDigest, available2)
<1>1. IsProfile(x) /\ IsProfile(y) /\ \A g \in Fields \ {"installer", "extensions", "overlay"} : x[g] = y[g]
  <2>1. /\ Changes(SignedOf(p, s), x, {"installer", "extensions", "overlay"})
        /\ Changes(SignedOf(p, s), y, {"installer", "extensions", "overlay"})
    BY ExtendedFields
  <2> QED BY <2>1 DEF Changes
<1> HIDE DEF x, y
<1>2. K!Customize(x, s, v)[f] = K!Customize(y, s, v)[f]
  <2>1. /\ x.kind = y.kind /\ x.secureBoot = y.secureBoot /\ x[f] = y[f]
    BY <1>1 DEF Fields
  <2> QED BY <1>1, <2>1 DEF K!Customize, IsProfile, Fields
<1>3. /\ Changes(x, K!Customize(x, s, v), {"args", "meta", "bootloader", "sector"})
      /\ Changes(y, K!Customize(y, s, v), {"args", "meta", "bootloader", "sector"})
  BY <1>1, StepFields
<1>4. /\ [K!Customize(x, s, v) EXCEPT !.version = v][f] = IF f = "version" THEN v ELSE K!Customize(x, s, v)[f]
      /\ [K!Customize(y, s, v) EXCEPT !.version = v][f] = IF f = "version" THEN v ELSE K!Customize(y, s, v)[f]
  BY <1>3 DEF Changes, IsProfile
<1> QED BY <1>2, <1>4, EnhanceIs DEF x, y

LEMMA SchematicExtensions ==
    ASSUME NEW s \in K!Schematics
    PROVE  s.extensions \in Seq({"i915-ucode"})
<1> DEFINE P == K!Plain
           T == {"id", "config", "args", "meta", "extensions", "overlay", "enroll", "certs", "bootloader", "sector"}
<1>1. P = [f \in T |-> P[f]] /\ P.extensions = <<>>
  BY DEF K!Plain
<1> HIDE DEF P
<1>2. s.extensions \in {<<>>, <<"i915-ucode">>}
  <2>1. \/ s = P
        \/ s = [P EXCEPT !.id = "extended", !.extensions = <<"i915-ucode">>]
        \/ s = [P EXCEPT !.id = "overlaid", !.overlay = "rpi_generic", !.args = <<"nomodeset">>]
        \/ s = [P EXCEPT !.id = "customized", !.config = "machine", !.meta = <<"uuid">>, !.bootloader = "grub",
                         !.enroll = "force", !.certs = TRUE, !.sector = 4]
    BY Zenon DEF K!Schematics, P
  <2> QED BY <1>1, <2>1
<1>3. <<>> \in Seq({"i915-ucode"}) /\ <<"i915-ucode">> \in Seq({"i915-ucode"})
  OBVIOUS
<1> QED BY <1>2, <1>3

\* The images come first, then the tarball of the schematic.
LEMMA ExtensionsFields ==
    ASSUME NEW p, ~K!Bare(p), NEW s \in K!Schematics, NEW d, NEW v, NEW available
    PROVE  LET n == Len(s.extensions)
               e == ExtensionsOf(p, s, d, v, available)
           IN /\ n \in Nat /\ DOMAIN s.extensions = 1..n /\ DOMAIN e = 1..(n + 1)
              /\ \A i \in 1..n : e[i] = K!InDirectory(d, <<p.arch, K!Digests(s, available)[i]>>)
              /\ e[n + 1] = Tarball(s, d, v)
<1> DEFINE n == Len(s.extensions)
           x == ImagesOf(p, s, d, available)
           t == Tarball(s, d, v)
<1>1. n \in Nat /\ DOMAIN s.extensions = 1..n
  BY SchematicExtensions
<1>2. x = [i \in 1..n |-> K!InDirectory(d, <<p.arch, K!Digests(s, available)[i]>>)]
  BY <1>1 DEF ImagesOf
<1> DEFINE S == {x[i] : i \in 1..n} \cup {t}
<1>3. x \in Seq(S) /\ <<t>> \in Seq(S) /\ Len(x) = n /\ \A i \in 1..n : x[i] = K!InDirectory(d, <<p.arch, K!Digests(s, available)[i]>>)
  <2> HIDE DEF n, t
  <2>1. DOMAIN x = 1..n /\ \A i \in 1..n : x[i] = K!InDirectory(d, <<p.arch, K!Digests(s, available)[i]>>)
    BY <1>2
  <2>2. x = [i \in 1..n |-> x[i]]
    BY <1>2, <2>1
  <2> HIDE DEF x
  <2>3. x \in [1..n -> S]
    BY <2>2
  <2>4. x \in Seq(S) /\ Len(x) = n
    BY <1>1, <2>1, <2>3 DEF n
  <2> QED BY <2>1, <2>4
<1>4. ExtensionsOf(p, s, d, v, available) = x \o <<t>>
  BY DEF ExtensionsOf
<1> HIDE DEF n, x, t, S
<1>5. /\ Len(x \o <<t>>) = n + 1 /\ x \o <<t>> \in Seq(S)
      /\ \A i \in 1..n : (x \o <<t>>)[i] = x[i]
      /\ (x \o <<t>>)[n + 1] = t
  BY <1>1, <1>3
<1>6. DOMAIN (x \o <<t>>) = 1..(n + 1)
  BY <1>5
<1> QED BY <1>1, <1>3, <1>4, <1>5, <1>6 DEF n, t

LEMMA CleanFields ==
    ASSUME NEW p, IsProfile(p)
    PROVE  LET q == K!Clean(p) IN
           /\ IsProfile(q)
           /\ \A f \in Fields \ {"installer", "extensions"} : q[f] = p[f]
           /\ q.installer = [p.installer EXCEPT !.path = K!Base(p.installer.path)]
           /\ q.extensions = [i \in DOMAIN p.extensions |-> K!Base(p.extensions[i])]
BY DEF K!Clean, IsProfile, Fields

\* How an asset came to its profile, its inputs and its key.
Made(b) ==
    /\ b.schematic \in K!Schematics
    /\ b.key = K!Clean(b.profile)
    /\ \E d, v, available, x :
          /\ b.profile = K!Enhance(Started(b.parsed, x), b.schematic, d, v, b.byDigest, available)
          /\ b.inputs = IF K!Bare(Started(b.parsed, x)) THEN <<>> ELSE K!Digests(b.schematic, available)

LEMMA StartedFields ==
    ASSUME NEW parsed, NEW x
    PROVE  LET p == Started(parsed, x) IN
           /\ IsProfile(p) /\ p.extensions = <<>> /\ p.overlay = K!NoOverlay /\ p.secureBoot = x
           /\ p.kind = parsed.kind
           /\ p.installer = [ref |-> <<>>, path |-> K!NoPath]
BY DEF Started, K!Unenhanced, IsProfile, Fields

KeysInv == \A b \in built : Made(b)

LEMMA KeysInitInv == K!Init => KeysInv
BY DEF K!Init, KeysInv

LEMMA ResolveInv ==
    ASSUME KeysInv, NEW r, NEW parsed, NEW s \in K!Schematics, NEW v, NEW byDigest,
           K!Resolve(r, parsed, s, v, byDigest)
    PROVE  KeysInv'
<1> DEFINE profile == K!AutoSigned(parsed, v)
           reads == K!ReadsList(profile, s, v)
           available == K!Listing(r, v)
           inputs == IF reads THEN K!Digests(s, available) ELSE <<>>
           enhanced == K!Enhance(profile, s, directory[r], v, byDigest, available)
           b == [parsed |-> parsed, schematic |-> s, byDigest |-> byDigest, inputs |-> inputs,
                 profile |-> enhanced, key |-> K!Clean(enhanced)]
<1>1. \/ built' = built
      \/ ~K!Refused(profile, s, v, available) /\ built' = built \cup {b}
  BY DEF K!Resolve
<1>2. ASSUME ~K!Refused(profile, s, v, available) PROVE Made(b)
  <2>1. PICK x : profile = Started(parsed, x)
    <3>1. K!Unenhanced(parsed) = Started(parsed, parsed.secureBoot)
      <4> DEFINE u == K!Unenhanced(parsed)
      <4>1. IsProfile(u) /\ u.secureBoot = parsed.secureBoot
        BY DEF K!Unenhanced, IsProfile, Fields
      <4> HIDE DEF u
      <4>2. [u EXCEPT !.secureBoot = parsed.secureBoot] = u
        BY <4>1 DEF IsProfile, Fields
      <4> QED BY <4>2 DEF u, Started
    <3> QED BY <3>1 DEF K!AutoSigned, Started
  <2>2. inputs = IF K!Bare(profile) THEN <<>> ELSE K!Digests(s, available)
    <3>1. CASE reads
      BY <3>1 DEF K!ReadsList
    <3>2. CASE ~reads /\ ~K!Bare(profile)
      <4>1. s.extensions = <<>>
        BY <1>2, <3>2 DEF K!ReadsList, K!Refused
      <4>2. K!Digests(s, available) = <<>>
        BY <4>1 DEF K!Digests
      <4> QED BY <3>2, <4>2
    <3>3. CASE ~reads /\ K!Bare(profile)
      BY <3>3
    <3> QED BY <3>1, <3>2, <3>3
  <2> HIDE DEF profile, reads, available, inputs
  <2> QED BY <2>1, <2>2 DEF Made
<1> HIDE DEF b, profile, available
<1> QED BY <1>1, <1>2 DEF KeysInv

LEMMA KeysNextInv == KeysInv /\ [K!Next]_K!vars => KeysInv'
<1> SUFFICES ASSUME KeysInv, [K!Next]_K!vars PROVE KeysInv'
  OBVIOUS
<1>1. CASE built' = built
  BY <1>1 DEF KeysInv
<1>2. CASE K!Publish \/ (\E r \in Replicas : K!Restart(r)) \/ UNCHANGED K!vars
  BY <1>1, <1>2 DEF K!Publish, K!Restart, K!vars
<1> QED BY <1>2, ResolveInv DEF K!Next, K!ResolveImage, K!ResolveInstaller

\* What of a profile p the key names: all but the directories.
KeyIs(b, p, d, v, available) ==
    LET n == Len(b.schematic.extensions) IN
    /\ b.profile = K!Enhance(p, b.schematic, d, v, b.byDigest, available)
    /\ IsProfile(p) /\ IsProfile(b.profile) /\ b.profile.version = v
    /\ IsProfile(b.key)
    /\ b.inputs = IF K!Bare(p) THEN <<>> ELSE K!Digests(b.schematic, available)
    /\ \A f \in Identity : b.profile[f] = p[f]
    /\ b.profile.overlay = OverlayOf(p, b.schematic, d)
    /\ \A f \in Fields \ {"installer", "extensions"} : b.key[f] = b.profile[f]
    /\ b.key.installer = [BaseOf(p, d, v, b.byDigest) EXCEPT !.path = K!Base(@)]
    /\ K!Bare(p) => b.key.extensions = <<>>
    /\ ~K!Bare(p) =>
          /\ n \in Nat /\ b.key.extensions = [i \in 1..(n + 1) |-> b.key.extensions[i]]
          /\ b.inputs = [i \in 1..n |-> b.inputs[i]]
          /\ \A i \in 1..n : b.key.extensions[i] = [directory |-> <<>>, name |-> <<p.arch, b.inputs[i]>>]
          /\ b.key.extensions[n + 1] = K!Base(Tarball(b.schematic, d, v))

LEMMA KeyFields ==
    ASSUME NEW b, Made(b)
    PROVE  \E d, v, available, x : KeyIs(b, Started(b.parsed, x), d, v, available)
<1>1. PICK d, v, available, x :
          /\ b.profile = K!Enhance(Started(b.parsed, x), b.schematic, d, v, b.byDigest, available)
          /\ b.inputs = IF K!Bare(Started(b.parsed, x)) THEN <<>> ELSE K!Digests(b.schematic, available)
  BY DEF Made
<1> DEFINE p == Started(b.parsed, x)
           s == b.schematic
           n == Len(s.extensions)
           e == b.profile
           k == b.key
<1>2. IsProfile(p) /\ p.extensions = <<>>
  BY StartedFields
<1>s. s \in K!Schematics /\ k = K!Clean(e)
  BY DEF Made
<1>h. e = K!Enhance(p, s, d, v, b.byDigest, available) /\ b.inputs = IF K!Bare(p) THEN <<>> ELSE K!Digests(s, available)
  BY <1>1
<1> HIDE DEF p, s, e, k
<1>3. /\ IsProfile(e) /\ e.version = v
      /\ \A f \in Identity : e[f] = p[f]
      /\ e.installer = BaseOf(p, d, v, b.byDigest)
      /\ e.extensions = ExtensionsOf(p, s, d, v, available)
      /\ e.overlay = OverlayOf(p, s, d)
  BY <1>h, <1>2, EnhanceFields
<1>4. /\ IsProfile(k)
      /\ \A f \in Fields \ {"installer", "extensions"} : k[f] = e[f]
      /\ k.installer = [e.installer EXCEPT !.path = K!Base(e.installer.path)]
      /\ k.extensions = [i \in DOMAIN e.extensions |-> K!Base(e.extensions[i])]
  BY <1>s, <1>3, CleanFields
<1>5. ASSUME K!Bare(p) PROVE k.extensions = <<>>
  <2>1. e.extensions = <<>>
    BY <1>2, <1>3, <1>5 DEF ExtensionsOf
  <2> QED BY <1>4, <2>1
<1>6. ASSUME ~K!Bare(p)
      PROVE  /\ n \in Nat /\ k.extensions = [i \in 1..(n + 1) |-> k.extensions[i]]
             /\ b.inputs = [i \in 1..n |-> b.inputs[i]]
             /\ \A i \in 1..n : k.extensions[i] = [directory |-> <<>>, name |-> <<p.arch, b.inputs[i]>>]
             /\ k.extensions[n + 1] = K!Base(Tarball(s, d, v))
  <2>1. /\ n \in Nat /\ DOMAIN s.extensions = 1..n /\ DOMAIN e.extensions = 1..(n + 1)
        /\ \A i \in 1..n : e.extensions[i] = K!InDirectory(d, <<p.arch, K!Digests(s, available)[i]>>)
        /\ e.extensions[n + 1] = Tarball(s, d, v)
    BY <1>s, <1>3, <1>6, ExtensionsFields
  <2>2. b.inputs = K!Digests(s, available) /\ b.inputs = [i \in 1..n |-> b.inputs[i]]
    BY <1>h, <1>6, <2>1 DEF K!Digests
  <2> HIDE DEF n
  <2>3. /\ k.extensions = [i \in 1..(n + 1) |-> k.extensions[i]]
        /\ \A i \in 1..(n + 1) : k.extensions[i] = K!Base(e.extensions[i])
    BY <1>4, <2>1
  <2>4. ASSUME NEW i \in 1..n
        PROVE  k.extensions[i] = [directory |-> <<>>, name |-> <<p.arch, b.inputs[i]>>]
    <3>1. i \in 1..(n + 1)
      BY <2>1
    <3>2. k.extensions[i] = K!Base(K!InDirectory(d, <<p.arch, b.inputs[i]>>))
      BY <2>1, <2>2, <2>3, <3>1
    <3> QED BY <3>2 DEF K!Base, K!InDirectory
  <2>5. k.extensions[n + 1] = K!Base(Tarball(s, d, v))
    <3>1. n + 1 \in 1..(n + 1)
      BY <2>1
    <3> QED BY <2>1, <2>3, <3>1
  <2> QED BY <2>1, <2>2, <2>3, <2>4, <2>5
<1>7. k.installer = [BaseOf(p, d, v, b.byDigest) EXCEPT !.path = K!Base(@)]
  BY <1>3, <1>4
<1>8. KeyIs(b, p, d, v, available)
  BY <1>h, <1>2, <1>3, <1>4, <1>5, <1>6, <1>7 DEF KeyIs, s, e, k
<1> QED BY <1>8 DEF p

LEMMA SameKeySameContents ==
    ASSUME NEW a, NEW b, Made(a), Made(b), a.key = b.key
    PROVE  K!Contents(a) = K!Contents(b)
<1>1. PICK d, v, available, x : KeyIs(a, Started(a.parsed, x), d, v, available)
  BY KeyFields
<1>2. PICK d2, v2, available2, x2 : KeyIs(b, Started(b.parsed, x2), d2, v2, available2)
  BY KeyFields
<1> DEFINE p == Started(a.parsed, x)
           q == Started(b.parsed, x2)
<1>a. KeyIs(a, p, d, v, available) /\ KeyIs(b, q, d2, v2, available2)
  BY <1>1, <1>2
<1> HIDE DEF p, q
<1>3. \A f \in Fields \ {"installer", "extensions"} : a.profile[f] = b.profile[f]
  BY <1>a DEF KeyIs
<1>4. /\ a.profile.kind = b.profile.kind /\ a.profile.arch = b.profile.arch
      /\ a.profile.kind = p.kind /\ b.profile.kind = q.kind
      /\ a.profile.arch = p.arch /\ b.profile.arch = q.arch
  BY <1>a, <1>3 DEF KeyIs, Fields, Identity
<1>5. /\ (K!Bare(p) <=> K!Bare(a.profile)) /\ (K!Bare(q) <=> K!Bare(b.profile))
      /\ (K!Bare(p) <=> K!Bare(q))
  BY <1>4 DEF K!Bare
<1>6. a.inputs = b.inputs /\ (K!Bare(p) \/ a.schematic.id = b.schematic.id)
  <2>1. CASE K!Bare(p)
    BY <1>a, <1>5, <2>1 DEF KeyIs
  <2>2. CASE ~K!Bare(p)
    <3> DEFINE n == Len(a.schematic.extensions)
               m == Len(b.schematic.extensions)
               e == a.key.extensions
    <3>1. /\ n \in Nat /\ e = [i \in 1..(n + 1) |-> e[i]]
          /\ a.inputs = [i \in 1..n |-> a.inputs[i]]
          /\ \A i \in 1..n : e[i] = [directory |-> <<>>, name |-> <<p.arch, a.inputs[i]>>]
          /\ e[n + 1] = K!Base(Tarball(a.schematic, d, v))
      BY <1>a, <2>2 DEF KeyIs
    <3>2. /\ m \in Nat /\ e = [i \in 1..(m + 1) |-> e[i]]
          /\ b.inputs = [i \in 1..m |-> b.inputs[i]]
          /\ \A i \in 1..m : e[i] = [directory |-> <<>>, name |-> <<q.arch, b.inputs[i]>>]
          /\ e[m + 1] = K!Base(Tarball(b.schematic, d2, v2))
      BY <1>a, <1>5, <2>2 DEF KeyIs
    <3> HIDE DEF n, m, e
    <3>3. n = m
      <4>1. 1..(n + 1) = 1..(m + 1)
        BY <3>1, <3>2
      <4>2. n + 1 \in 1..(n + 1) /\ m + 1 \in 1..(m + 1)
        BY <3>1, <3>2
      <4> QED BY <3>1, <3>2, <4>1, <4>2
    <3>4. ASSUME NEW i \in 1..n PROVE a.inputs[i] = b.inputs[i]
      <4>1. e[i] = [directory |-> <<>>, name |-> <<p.arch, a.inputs[i]>>]
        BY <3>1, Zenon
      <4>2. e[i] = [directory |-> <<>>, name |-> <<q.arch, b.inputs[i]>>]
        BY <3>2, <3>3, Zenon
      <4> QED BY <4>1, <4>2
    <3>5. a.inputs = b.inputs
      BY <3>1, <3>2, <3>3, <3>4
    <3>6. a.schematic.id = b.schematic.id
      <4>1. K!Base(Tarball(a.schematic, d, v)) = K!Base(Tarball(b.schematic, d2, v2))
        BY <3>1, <3>2, <3>3, Zenon
      <4>2. /\ K!Base(Tarball(a.schematic, d, v)).name[1] = a.schematic.id
            /\ K!Base(Tarball(b.schematic, d2, v2)).name[1] = b.schematic.id
        BY DEF K!Base, Tarball, K!InDirectory
      <4> QED BY <4>1, <4>2
    <3> QED BY <3>5, <3>6
  <2> QED BY <2>1, <2>2
<1> QED BY <1>3, <1>5, <1>6 DEF K!Contents, Fields

LEMMA SameRequestSameKey ==
    ASSUME NEW a, NEW b, Made(a), Made(b), K!Asked(a) = K!Asked(b), a.profile.overlay = K!NoOverlay
    PROVE  a.key = b.key
<1>1. PICK d, v, available, x : KeyIs(a, Started(a.parsed, x), d, v, available)
  BY KeyFields
<1>2. PICK d2, v2, available2, x2 : KeyIs(b, Started(b.parsed, x2), d2, v2, available2)
  BY KeyFields
<1>3. a.profile.secureBoot = x /\ b.profile.secureBoot = x2
  BY <1>1, <1>2, StartedFields DEF KeyIs, Identity
<1> DEFINE p == Started(a.parsed, x)
           s == a.schematic
<1>4. /\ p = Started(b.parsed, x2) /\ b.schematic = s /\ a.byDigest = b.byDigest
      /\ a.inputs = b.inputs /\ a.profile.version = b.profile.version
  BY <1>3 DEF K!Asked, Started
<1>5. p.overlay = K!NoOverlay
  BY StartedFields
<1>6. KeyIs(a, p, d, v, available) /\ KeyIs(b, p, d2, v2, available2)
  BY <1>1, <1>2, <1>4
<1> HIDE DEF p
<1>7. v = v2
  BY <1>4, <1>6 DEF KeyIs
<1>8. OverlayOf(p, s, d) = OverlayOf(p, s, d2)
  <2>1. OverlayOf(p, s, d) = K!NoOverlay
    BY <1>6 DEF KeyIs
  <2>2. K!Bare(p) \/ s.overlay = K!Unset
    BY <2>1 DEF OverlayOf, K!NoOverlay
  <2> QED BY <2>2 DEF OverlayOf
<1>9. ASSUME NEW f \in Fields \ {"installer", "extensions"} PROVE a.key[f] = b.key[f]
  <2>1. a.key[f] = a.profile[f] /\ b.key[f] = b.profile[f]
    BY <1>6 DEF KeyIs
  <2>2. CASE f = "overlay"
    BY <1>4, <1>6, <1>8, <2>1, <2>2 DEF KeyIs
  <2>3. CASE f # "overlay"
    <3>1. /\ IsProfile(p)
          /\ a.profile = K!Enhance(p, s, d, v, a.byDigest, available)
          /\ b.profile = K!Enhance(p, s, d2, v, a.byDigest, available2)
      BY <1>4, <1>6, <1>7 DEF KeyIs
    <3>2. f \in Fields \ {"installer", "extensions", "overlay"}
      BY <2>3
    <3> QED BY <2>1, <3>1, <3>2, EnhanceAlike
  <2> QED BY <2>2, <2>3
<1>10. a.key.installer = b.key.installer
  <2>1. [BaseOf(p, d, v, a.byDigest) EXCEPT !.path = K!Base(@)]
        = [BaseOf(p, d2, v, a.byDigest) EXCEPT !.path = K!Base(@)]
    BY DEF BaseOf, K!InDirectory, K!Base
  <2> QED BY <1>4, <1>6, <1>7, <2>1 DEF KeyIs
<1>11. a.key.extensions = b.key.extensions
  <2>1. CASE K!Bare(p)
    BY <1>6, <2>1 DEF KeyIs
  <2>2. CASE ~K!Bare(p)
    <3> DEFINE n == Len(s.extensions)
               e == a.key.extensions
               g == b.key.extensions
    <3>1. /\ n \in Nat /\ e = [i \in 1..(n + 1) |-> e[i]]
          /\ \A i \in 1..n : e[i] = [directory |-> <<>>, name |-> <<p.arch, a.inputs[i]>>]
          /\ e[n + 1] = K!Base(Tarball(s, d, v))
      BY <1>6, <2>2 DEF KeyIs
    <3>2. /\ g = [i \in 1..(n + 1) |-> g[i]]
          /\ \A i \in 1..n : g[i] = [directory |-> <<>>, name |-> <<p.arch, a.inputs[i]>>]
          /\ g[n + 1] = K!Base(Tarball(s, d2, v))
      BY <1>4, <1>6, <1>7, <2>2 DEF KeyIs
    <3>3. K!Base(Tarball(s, d, v)) = K!Base(Tarball(s, d2, v))
      BY DEF K!Base, Tarball, K!InDirectory
    <3> HIDE DEF n, e, g
    <3>4. \A i \in 1..(n + 1) : i \in 1..n \/ i = n + 1
      BY <3>1
    <3>5. \A i \in 1..(n + 1) : e[i] = g[i]
      BY <3>1, <3>2, <3>3, <3>4
    <3> QED BY <3>1, <3>2, <3>5 DEF e, g
  <2> QED BY <2>1, <2>2
<1>12. \A f \in Fields : a.key[f] = b.key[f]
  BY <1>9, <1>10, <1>11
<1>13. IsProfile(a.key) /\ IsProfile(b.key)
  BY <1>6 DEF KeyIs
<1> QED BY <1>12, <1>13 DEF IsProfile

\* The hash of the cleaned profile never names two assets (Hash, Clean): although
\* it says only the file names of the extensions, these tell their images and the
\* schematic apart.
THEOREM KeysNameAssets == K!Spec => []KeyNamesAsset
<1>1. KeysInv => KeyNamesAsset
  BY SameKeySameContents DEF KeysInv, KeyNamesAsset, K!KeyNamesAsset
<1> QED BY <1>1, KeysInitInv, KeysNextInv, PTL DEF K!Spec

\* What was built is found again by any replica and after any restart: nothing of
\* the temporary directory is left in the key of a profile without an overlay.
THEOREM KeysSurviveRestarts == K!Spec => []KeySurvivesRestart
<1>1. KeysInv => KeySurvivesRestart
  BY SameRequestSameKey DEF KeysInv, KeySurvivesRestart, K!KeySurvivesRestart
<1> QED BY <1>1, KeysInitInv, KeysNextInv, PTL DEF K!Spec

----------------------------------------------------------------------------
(* The links *)

\* The words and the suffixes of the links.
Spelling ==
    {"metal", "aws", "nocloud", "digital", "ocean", "amd64", "arm64", "x86_64", "secureboot", "uki",
     "kernel", "cmdline", "initramfs", "installer", "iso", "efi", "raw", "qcow2", "gz", "xz",
     "sha256", "sha512", "sigstore.json"}

\* A short sequence is its elements.
LEMMA ShortSequences ==
    ASSUME NEW S, NEW s \in Seq(S)
    PROVE  /\ Len(s) = 1 => s = <<s[1]>>
           /\ Len(s) = 2 => s = <<s[1], s[2]>>
           /\ Len(s) = 3 => s = <<s[1], s[2], s[3]>>
           /\ Len(s) = 4 => s = <<s[1], s[2], s[3], s[4]>>
<1>1. ASSUME Len(s) = 1 PROVE s = <<s[1]>>
  <2> DEFINE t == <<s[1]>>
  <2>1. \A i \in 1..1 : s[i] \in S
    BY <1>1, ElementOfSeq
  <2>2. t \in Seq(S) /\ Len(t) = 1
    BY <2>1
  <2>3. t[1] = s[1]
    OBVIOUS
  <2> HIDE DEF t
  <2>4. s = t
    BY <1>1, <2>2, <2>3, SeqEqual
  <2> QED BY <2>4 DEF t
<1>2. ASSUME Len(s) = 2 PROVE s = <<s[1], s[2]>>
  <2> DEFINE t == <<s[1], s[2]>>
  <2>1. \A i \in 1..2 : s[i] \in S
    BY <1>2, ElementOfSeq
  <2>2. t \in Seq(S) /\ Len(t) = 2
    BY <2>1
  <2>3. t[1] = s[1] /\ t[2] = s[2]
    OBVIOUS
  <2> HIDE DEF t
  <2>4. s = t
    BY <1>2, <2>2, <2>3, SeqEqual
  <2> QED BY <2>4 DEF t
<1>3. ASSUME Len(s) = 3 PROVE s = <<s[1], s[2], s[3]>>
  <2> DEFINE t == <<s[1], s[2], s[3]>>
  <2>1. \A i \in 1..3 : s[i] \in S
    BY <1>3, ElementOfSeq
  <2>2. t \in Seq(S) /\ Len(t) = 3
    BY <2>1
  <2>3. t[1] = s[1] /\ t[2] = s[2] /\ t[3] = s[3]
    OBVIOUS
  <2> HIDE DEF t
  <2>4. s = t
    BY <1>3, <2>2, <2>3, SeqEqual
  <2> QED BY <2>4 DEF t
<1>4. ASSUME Len(s) = 4 PROVE s = <<s[1], s[2], s[3], s[4]>>
  <2> DEFINE t == <<s[1], s[2], s[3], s[4]>>
  <2>1. \A i \in 1..4 : s[i] \in S
    BY <1>4, ElementOfSeq
  <2>2. t \in Seq(S) /\ Len(t) = 4
    BY <2>1
  <2>3. t[1] = s[1] /\ t[2] = s[2] /\ t[3] = s[3] /\ t[4] = s[4]
    OBVIOUS
  <2> HIDE DEF t
  <2>4. s = t
    BY <1>4, <2>2, <2>3, SeqEqual
  <2> QED BY <2>4 DEF t
<1> QED BY <1>1, <1>2, <1>3, <1>4

LEMMA Join11 ==
    ASSUME NEW w \in Spelling, NEW x \in Spelling
    PROVE  <<w>> \o <<x>> = <<w, x>>
<1> DEFINE s == <<w>> \o <<x>>
<1>1. s \in Seq(Spelling) /\ Len(s) = 2
  OBVIOUS
<1>2. s[1] = w /\ s[2] = x
  OBVIOUS
<1> HIDE DEF s
<1>3. s = <<w, x>>
  BY <1>1, <1>2, ShortSequences
<1> QED BY <1>3 DEF s

LEMMA Join21 ==
    ASSUME NEW w \in Spelling, NEW x \in Spelling, NEW y \in Spelling
    PROVE  <<w, x>> \o <<y>> = <<w, x, y>>
<1> DEFINE s == <<w, x>> \o <<y>>
<1>1. s \in Seq(Spelling) /\ Len(s) = 3
  OBVIOUS
<1>2. s[1] = w /\ s[2] = x /\ s[3] = y
  OBVIOUS
<1> HIDE DEF s
<1>3. s = <<w, x, y>>
  BY <1>1, <1>2, ShortSequences
<1> QED BY <1>3 DEF s

LEMMA Join31 ==
    ASSUME NEW w \in Spelling, NEW x \in Spelling, NEW y \in Spelling, NEW z \in Spelling
    PROVE  <<w, x, y>> \o <<z>> = <<w, x, y, z>>
<1> DEFINE s == <<w, x, y>> \o <<z>>
<1>1. s \in Seq(Spelling) /\ Len(s) = 4
  OBVIOUS
<1>2. s[1] = w /\ s[2] = x /\ s[3] = y /\ s[4] = z
  OBVIOUS
<1> HIDE DEF s
<1>3. s = <<w, x, y, z>>
  BY <1>1, <1>2, ShortSequences
<1> QED BY <1>3 DEF s

LEMMA Join12 ==
    ASSUME NEW w \in Spelling, NEW x \in Spelling, NEW y \in Spelling
    PROVE  <<w>> \o <<x, y>> = <<w, x, y>>
<1> DEFINE s == <<w>> \o <<x, y>>
<1>1. s \in Seq(Spelling) /\ Len(s) = 3
  OBVIOUS
<1>2. s[1] = w /\ s[2] = x /\ s[3] = y
  OBVIOUS
<1> HIDE DEF s
<1>3. s = <<w, x, y>>
  BY <1>1, <1>2, ShortSequences
<1> QED BY <1>3 DEF s

LEMMA Join13 ==
    ASSUME NEW w \in Spelling, NEW x \in Spelling, NEW y \in Spelling, NEW z \in Spelling
    PROVE  <<w>> \o <<x, y, z>> = <<w, x, y, z>>
<1> DEFINE s == <<w>> \o <<x, y, z>>
<1>1. s \in Seq(Spelling) /\ Len(s) = 4
  OBVIOUS
<1>2. s[1] = w /\ s[2] = x /\ s[3] = y /\ s[4] = z
  OBVIOUS
<1> HIDE DEF s
<1>3. s = <<w, x, y, z>>
  BY <1>1, <1>2, ShortSequences
<1> QED BY <1>3 DEF s

LEMMA Join22 ==
    ASSUME NEW w \in Spelling, NEW x \in Spelling, NEW y \in Spelling, NEW z \in Spelling
    PROVE  <<w, x>> \o <<y, z>> = <<w, x, y, z>>
<1> DEFINE s == <<w, x>> \o <<y, z>>
<1>1. s \in Seq(Spelling) /\ Len(s) = 4
  OBVIOUS
<1>2. s[1] = w /\ s[2] = x /\ s[3] = y /\ s[4] = z
  OBVIOUS
<1> HIDE DEF s
<1>3. s = <<w, x, y, z>>
  BY <1>1, <1>2, ShortSequences
<1> QED BY <1>3 DEF s

LEMMA LastOf1 ==
    ASSUME NEW w \in Spelling
    PROVE  L!Last(<<w>>) = w
BY DEF L!Last

LEMMA LastOf2 ==
    ASSUME NEW w \in Spelling, NEW x \in Spelling
    PROVE  L!Last(<<w, x>>) = x
BY DEF L!Last

LEMMA LastOf3 ==
    ASSUME NEW w \in Spelling, NEW x \in Spelling, NEW y \in Spelling
    PROVE  L!Last(<<w, x, y>>) = y
BY DEF L!Last

LEMMA LastOf4 ==
    ASSUME NEW w \in Spelling, NEW x \in Spelling, NEW y \in Spelling, NEW z \in Spelling
    PROVE  L!Last(<<w, x, y, z>>) = z
BY DEF L!Last

LEMMA FrontOf1 ==
    ASSUME NEW w \in Spelling
    PROVE  L!Front(<<w>>) = <<>>
BY SubSeqEmpty DEF L!Front

LEMMA FrontOf2 ==
    ASSUME NEW w \in Spelling, NEW x \in Spelling
    PROVE  L!Front(<<w, x>>) = <<w>>
<1> DEFINE s == SubSeq(<<w, x>>, 1, 1)
<1>1. s \in Seq(Spelling) /\ Len(s) = 1
  BY SubSeqProperties
<1>2. s[1] = w
  BY SubSeqProperties
<1> HIDE DEF s
<1>3. s = <<w>>
  BY <1>1, <1>2, ShortSequences
<1> QED BY <1>3 DEF s, L!Front

LEMMA FrontOf3 ==
    ASSUME NEW w \in Spelling, NEW x \in Spelling, NEW y \in Spelling
    PROVE  L!Front(<<w, x, y>>) = <<w, x>>
<1> DEFINE s == SubSeq(<<w, x, y>>, 1, 2)
<1>1. s \in Seq(Spelling) /\ Len(s) = 2
  BY SubSeqProperties
<1>2. s[1] = w /\ s[2] = x
  BY SubSeqProperties
<1> HIDE DEF s
<1>3. s = <<w, x>>
  BY <1>1, <1>2, ShortSequences
<1> QED BY <1>3 DEF s, L!Front

LEMMA FrontOf4 ==
    ASSUME NEW w \in Spelling, NEW x \in Spelling, NEW y \in Spelling, NEW z \in Spelling
    PROVE  L!Front(<<w, x, y, z>>) = <<w, x, y>>
<1> DEFINE s == SubSeq(<<w, x, y, z>>, 1, 3)
<1>1. s \in Seq(Spelling) /\ Len(s) = 3
  BY SubSeqProperties
<1>2. s[1] = w /\ s[2] = x /\ s[3] = y
  BY SubSeqProperties
<1> HIDE DEF s
<1>3. s = <<w, x, y>>
  BY <1>1, <1>2, ShortSequences
<1> QED BY <1>3 DEF s, L!Front

LEMMA TailOf2 ==
    ASSUME NEW w \in Spelling, NEW x \in Spelling
    PROVE  Tail(<<w, x>>) = <<x>>
<1> DEFINE s == Tail(<<w, x>>)
<1>1. s \in Seq(Spelling) /\ Len(s) = 1
  OBVIOUS
<1>2. s[1] = x
  OBVIOUS
<1> HIDE DEF s
<1>3. s = <<x>>
  BY <1>1, <1>2, ShortSequences
<1> QED BY <1>3 DEF s

LEMMA TailOf3 ==
    ASSUME NEW w \in Spelling, NEW x \in Spelling, NEW y \in Spelling
    PROVE  Tail(<<w, x, y>>) = <<x, y>>
<1> DEFINE s == Tail(<<w, x, y>>)
<1>1. s \in Seq(Spelling) /\ Len(s) = 2
  OBVIOUS
<1>2. s[1] = x /\ s[2] = y
  OBVIOUS
<1> HIDE DEF s
<1>3. s = <<x, y>>
  BY <1>1, <1>2, ShortSequences
<1> QED BY <1>3 DEF s

LEMMA TailOf4 ==
    ASSUME NEW w \in Spelling, NEW x \in Spelling, NEW y \in Spelling, NEW z \in Spelling
    PROVE  Tail(<<w, x, y, z>>) = <<x, y, z>>
<1> DEFINE s == Tail(<<w, x, y, z>>)
<1>1. s \in Seq(Spelling) /\ Len(s) = 3
  OBVIOUS
<1>2. s[1] = x /\ s[2] = y /\ s[3] = z
  OBVIOUS
<1> HIDE DEF s
<1>3. s = <<x, y, z>>
  BY <1>1, <1>2, ShortSequences
<1> QED BY <1>3 DEF s

LEMMA ThirdOf3 ==
    ASSUME NEW w \in Spelling, NEW x \in Spelling, NEW y \in Spelling
    PROVE  SubSeq(<<w, x, y>>, 3, 3) = <<y>>
<1> DEFINE s == SubSeq(<<w, x, y>>, 3, 3)
<1>1. s \in Seq(Spelling) /\ Len(s) = 1
  BY SubSeqProperties
<1>2. s[1] = y
  BY SubSeqProperties
<1> HIDE DEF s
<1>3. s = <<y>>
  BY <1>1, <1>2, ShortSequences
<1> QED BY <1>3 DEF s

LEMMA CutAppended ==
    ASSUME NEW S, NEW s \in Seq(S), NEW e \in S
    PROVE  Append(s, e) # <<>> /\ L!Last(Append(s, e)) = e /\ L!Front(Append(s, e)) = s
<1> DEFINE t == Append(s, e)
           f == SubSeq(t, 1, Len(s))
<1>1. t \in Seq(S) /\ Len(t) = Len(s) + 1 /\ Len(s) \in Nat /\ t[Len(s) + 1] = e
  OBVIOUS
<1>2. \A i \in 1..Len(s) : t[i] = s[i]
  OBVIOUS
<1> HIDE DEF t
<1>3. \A i \in 1..Len(s) : t[i] \in S
  BY <1>2, ElementOfSeq
<1>4. f \in Seq(S) /\ Len(f) = Len(s)
  BY <1>1, <1>3, SubSeqProperties
<1>5. \A i \in 1..Len(s) : f[i] = s[i]
  BY <1>1, <1>2, <1>3, SubSeqProperties
<1> HIDE DEF f
<1>6. f = s
  BY <1>4, <1>5, SeqEqual
<1>7. L!Front(t) = s
  BY <1>1, <1>6 DEF L!Front, f
<1>8. t # <<>> /\ L!Last(t) = e
  BY <1>1 DEF L!Last
<1> QED BY <1>7, <1>8 DEF t
---------------------------------------------------------------------------

\* The words for an architecture that a link may hold, and what is meant by each.
Machines == {"amd64", "arm64", "x86_64"}
Meant(a) == IF a = "x86_64" THEN "amd64" ELSE a

LEMMA ArchMeant ==
    ASSUME NEW kind, NEW platform, NEW a \in Machines, NEW secureBoot
    PROVE  L!OfArch(kind, platform, <<a>>, secureBoot)
               = L!Parsed(kind, L!Unset, "raw", platform, Meant(a), secureBoot)
<1>1. L!ParseArch(<<a>>) = Meant(a)
  <2>1. Len(<<a>>) = 1 /\ <<a>>[1] = a
    OBVIOUS
  <2> QED BY <2>1 DEF L!ParseArch, L!Arches, Machines, Meant
<1>2. Meant(a) # L!Unset
  BY Zenon DEF Meant, Machines, L!Unset
<1> QED BY <1>1, <1>2 DEF L!OfArch

LEMMA CutOfTwo ==
    ASSUME NEW w \in Spelling, NEW a \in Spelling, a # "secureboot"
    PROVE  /\ L!CutSecureBoot(<<w, a>>) = <<w, a>> /\ ~L!HasSecureBoot(<<w, a>>)
           /\ L!CutSecureBoot(<<w, a, "secureboot">>) = <<w, a>>
           /\ L!HasSecureBoot(<<w, a, "secureboot">>)
<1> DEFINE sb == "secureboot"
<1>0. sb \in Spelling
  BY DEF Spelling
<1> HIDE DEF sb
<1>1. L!Last(<<w, a>>) = a
  BY LastOf2
<1>2. L!Last(<<w, a, sb>>) = sb
  BY <1>0, LastOf3
<1>3. L!Front(<<w, a, sb>>) = <<w, a>>
  BY <1>0, FrontOf3
<1>4. <<w, a, sb>> # <<>> /\ <<w, a>> # <<w, a, sb>>
  OBVIOUS
<1> QED BY <1>1, <1>2, <1>3, <1>4 DEF L!CutSecureBoot, L!HasSecureBoot, sb

LEMMA CutOfThree ==
    ASSUME NEW v \in Spelling, NEW w \in Spelling, NEW a \in Spelling, a # "secureboot"
    PROVE  L!CutSecureBoot(<<v, w, a>>) = <<v, w, a>> /\ ~L!HasSecureBoot(<<v, w, a>>)
BY LastOf3 DEF L!CutSecureBoot, L!HasSecureBoot

LEMMA CutOfFour ==
    ASSUME NEW v \in Spelling, NEW w \in Spelling, NEW a \in Spelling
    PROVE  /\ L!CutSecureBoot(<<v, w, a, "secureboot">>) = <<v, w, a>>
           /\ L!HasSecureBoot(<<v, w, a, "secureboot">>)
<1> DEFINE sb == "secureboot"
<1>0. sb \in Spelling
  BY DEF Spelling
<1> HIDE DEF sb
<1>1. L!Last(<<v, w, a, sb>>) = sb
  BY <1>0, LastOf4
<1>2. L!Front(<<v, w, a, sb>>) = <<v, w, a>>
  BY <1>0, FrontOf4
<1>3. <<v, w, a, sb>> # <<>> /\ <<v, w, a>> # <<v, w, a, sb>>
  OBVIOUS
<1> QED BY <1>1, <1>2, <1>3 DEF L!CutSecureBoot, L!HasSecureBoot, sb

LEMMA CutOfOne ==
    ASSUME NEW a \in Spelling, a # "secureboot"
    PROVE  /\ L!CutSecureBoot(<<a>>) = <<a>> /\ ~L!HasSecureBoot(<<a>>)
           /\ L!CutSecureBoot(<<a, "secureboot">>) = <<a>> /\ L!HasSecureBoot(<<a, "secureboot">>)
<1> DEFINE sb == "secureboot"
<1>0. sb \in Spelling
  BY DEF Spelling
<1> HIDE DEF sb
<1>1. L!Last(<<a>>) = a
  BY LastOf1
<1>2. L!Last(<<a, sb>>) = sb
  BY <1>0, LastOf2
<1>3. L!Front(<<a, sb>>) = <<a>>
  BY <1>0, FrontOf2
<1>4. <<a, sb>> # <<>> /\ <<a>> # <<a, sb>>
  OBVIOUS
<1> QED BY <1>1, <1>2, <1>3, <1>4 DEF L!CutSecureBoot, L!HasSecureBoot, sb

\* The words of a platform, an architecture and Secure Boot, one after the other.
Spelled(p, a, secureBoot) ==
    IF p = "ocean"
    THEN IF secureBoot THEN <<"digital", "ocean", a, "secureboot">> ELSE <<"digital", "ocean", a>>
    ELSE IF secureBoot THEN <<p, a, "secureboot">> ELSE <<p, a>>

LEMMA NamesOfPlatforms ==
    ASSUME NEW p \in L!Platforms
    PROVE  /\ p \in {"metal", "aws", "nocloud", "ocean"}
           /\ L!Words[p] = IF p = "ocean" THEN <<"digital", "ocean">> ELSE <<p>>
           /\ L!Name(L!Words[p]) = IF p = "ocean" THEN "digital-ocean" ELSE p
<1>1. p \in {"metal", "aws", "nocloud", "ocean"}
  BY DEF L!Platforms, L!Words
<1>2. L!Words[p] = IF p = "ocean" THEN <<"digital", "ocean">> ELSE <<p>>
  BY <1>1 DEF L!Words
<1>3. <<p>> # <<"digital", "ocean">> /\ <<p>>[1] = p
  OBVIOUS
<1> QED BY <1>1, <1>2, <1>3 DEF L!Name

LEMMA WordsSpelled ==
    ASSUME NEW p \in L!Platforms, NEW req, req.arch \in L!Arches, req.secureBoot \in BOOLEAN
    PROVE  L!PlatformWords(p, req) = Spelled(p, req.arch, req.secureBoot)
<1> DEFINE a == req.arch
           sb == "secureboot"
           d == "digital"
           o == "ocean"
<1>1. a \in Spelling /\ p \in Spelling /\ sb \in Spelling /\ d \in Spelling /\ o \in Spelling
  BY NamesOfPlatforms DEF L!Arches, Spelling
<1> HIDE DEF a, sb, d, o
<1>2. CASE p = "ocean"
  <2>0. <<d, o>> \o <<a>> = <<d, o, a>>
    BY <1>1, Join21
  <2>1. L!Words[p] \o <<a>> = <<d, o, a>>
    BY <1>2, <2>0, NamesOfPlatforms, Zenon DEF d, o
  <2>2. <<d, o, a>> \o <<sb>> = <<d, o, a, sb>>
    BY <1>1, Join31
  <2>3. <<d, o, a>> \o <<>> = <<d, o, a>>
    BY <1>1, ConcatEmptySeq
  <2> QED BY <1>2, <2>1, <2>2, <2>3 DEF L!PlatformWords, L!Suffixed, Spelled, a, sb, d, o
<1>3. CASE p # "ocean"
  <2>0. <<p>> \o <<a>> = <<p, a>>
    BY <1>1, Join11
  <2>1. L!Words[p] \o <<a>> = <<p, a>>
    BY <1>3, <2>0, NamesOfPlatforms, Zenon DEF d, o
  <2>2. <<p, a>> \o <<sb>> = <<p, a, sb>>
    BY <1>1, Join21
  <2>3. <<p, a>> \o <<>> = <<p, a>>
    BY <1>1, ConcatEmptySeq
  <2> QED BY <1>3, <2>1, <2>2, <2>3 DEF L!PlatformWords, L!Suffixed, Spelled, a, sb, d, o
<1> QED BY <1>2, <1>3

\* ParsePlatformArch reads back what was spelled.
LEMMA SpelledIsParsed ==
    ASSUME NEW kind, NEW p \in L!Platforms, NEW a \in Machines, NEW secureBoot \in BOOLEAN
    PROVE  L!ParsePlatformArch(kind, Spelled(p, a, secureBoot))
               = L!Parsed(kind, L!Unset, "raw", L!Name(L!Words[p]), Meant(a), secureBoot)
<1>1. a \in Spelling /\ p \in Spelling /\ a # "secureboot" /\ "digital" \in Spelling /\ "ocean" \in Spelling
  BY NamesOfPlatforms DEF Machines, Spelling
<1> DEFINE words == Spelled(p, a, secureBoot)
           cut == L!CutSecureBoot(words)
<1>2. CASE p = "ocean"
  <2>1. cut = <<"digital", "ocean", a>> /\ L!HasSecureBoot(words) = secureBoot
    BY <1>1, <1>2, CutOfThree, CutOfFour DEF Spelled, L!HasSecureBoot
  <2>0. SubSeq(<<"digital", "ocean", a>>, 3, 3) = <<a>>
    <3> DEFINE d == "digital"
               o == "ocean"
    <3>1. d \in Spelling /\ o \in Spelling
      BY DEF Spelling
    <3> HIDE DEF d, o
    <3>2. SubSeq(<<d, o, a>>, 3, 3) = <<a>>
      BY <1>1, <3>1, ThirdOf3
    <3> QED BY <3>2 DEF d, o
  <2>2. Len(cut) = 3 /\ cut[1] = "digital" /\ cut[2] = "ocean"
    BY <2>1
  <2>5. SubSeq(cut, 3, Len(cut)) = <<a>>
    BY <2>0, <2>1, <2>2, Zenon
  <2> HIDE DEF words, cut
  <2>3. Len(cut) > 2 /\ ~(Len(cut) < 2)
    BY <2>2
  <2>4. L!ParsePlatformArch(kind, words) = L!OfArch(kind, "digital-ocean", <<a>>, secureBoot)
    BY <2>1, <2>2, <2>3, <2>5, Zenon DEF L!ParsePlatformArch, cut
  <2>6. L!OfArch(kind, "digital-ocean", <<a>>, secureBoot)
            = L!Parsed(kind, L!Unset, "raw", "digital-ocean", Meant(a), secureBoot)
    BY ArchMeant
  <2>7. L!Name(L!Words[p]) = "digital-ocean"
    BY <1>2, NamesOfPlatforms
  <2> QED BY <2>4, <2>6, <2>7 DEF words
<1>3. CASE p # "ocean"
  <2>1. cut = <<p, a>> /\ L!HasSecureBoot(words) = secureBoot
    BY <1>1, <1>3, CutOfTwo DEF Spelled, L!HasSecureBoot
  <2>0. Tail(<<p, a>>) = <<a>>
    BY <1>1, TailOf2
  <2>2. Len(cut) = 2 /\ cut[1] = p /\ Tail(cut) = <<a>>
    BY <2>0, <2>1
  <2> HIDE DEF words, cut
  <2>3. ~(Len(cut) > 2) /\ ~(Len(cut) < 2)
    BY <2>2
  <2>4. L!ParsePlatformArch(kind, words) = L!OfArch(kind, p, <<a>>, secureBoot)
    BY <2>1, <2>2, <2>3, Zenon DEF L!ParsePlatformArch, cut
  <2>6. L!OfArch(kind, p, <<a>>, secureBoot)
            = L!Parsed(kind, L!Unset, "raw", p, Meant(a), secureBoot)
    BY ArchMeant
  <2>7. L!Name(L!Words[p]) = p
    BY <1>3, NamesOfPlatforms
  <2> QED BY <2>4, <2>6, <2>7 DEF words
<1> QED BY <1>2, <1>3
---------------------------------------------------------------------------

\* What a name resolves to is what the link offers.
Shows(profile, kind, platform, arch, secureBoot) ==
    /\ profile.kind = kind /\ profile.platform = platform
    /\ profile.arch = arch /\ profile.secureBoot = secureBoot

LEMMA ParsedShows ==
    ASSUME NEW kind, NEW platform, NEW arch, NEW secureBoot
    PROVE  Shows(L!Parsed(kind, L!Unset, "raw", platform, arch, secureBoot), kind, platform, arch, secureBoot)
BY DEF Shows, L!Parsed

LEMMA SpelledBegins ==
    ASSUME NEW p \in L!Platforms, NEW a \in Machines, NEW secureBoot \in BOOLEAN
    PROVE  Spelled(p, a, secureBoot)[1] \in {"metal", "aws", "nocloud", "digital"}
<1>1. p \in {"metal", "aws", "nocloud", "ocean"}
  BY NamesOfPlatforms
<1>2. CASE p = "ocean"
  BY <1>2 DEF Spelled
<1>3. CASE p # "ocean"
  BY <1>1, <1>3 DEF Spelled
<1> QED BY <1>2, <1>3

LEMMA OpensISO ==
    ASSUME NEW p \in L!Platforms, NEW a \in Machines, NEW secureBoot \in BOOLEAN
    PROVE  Shows(L!ParseFromPath(L!Path(Spelled(p, a, secureBoot), <<"iso">>)),
                 "iso", L!Name(L!Words[p]), Meant(a), secureBoot)
<1> DEFINE words == Spelled(p, a, secureBoot)
           path == L!Path(words, <<"iso">>)
<1>1. words[1] \notin {"kernel", "cmdline", "initramfs"}
  BY SpelledBegins
<1>2. path.words = words /\ path.suffixes = <<"iso">>
  BY DEF L!Path
<1> HIDE DEF words, path
<1>3. L!ParseFromPath(path) = L!ParsePlatformArch("iso", words)
  BY <1>1, <1>2 DEF L!ParseFromPath
<1>4. L!ParsePlatformArch("iso", words)
          = L!Parsed("iso", L!Unset, "raw", L!Name(L!Words[p]), Meant(a), secureBoot)
  BY SpelledIsParsed DEF words
<1> QED BY <1>3, <1>4, ParsedShows DEF words, path

LEMMA OpensDisk ==
    ASSUME NEW p \in L!Platforms, NEW a \in Machines, NEW secureBoot \in BOOLEAN,
           NEW suffixes \in {<<"raw", "gz">>, <<"raw", "xz">>, <<"qcow2">>}
    PROVE  Shows(L!ParseFromPath(L!Path(Spelled(p, a, secureBoot), suffixes)),
                 "image", L!Name(L!Words[p]), Meant(a), secureBoot)
<1> DEFINE words == Spelled(p, a, secureBoot)
           path == L!Path(words, suffixes)
           parsed == L!Parsed("image", L!Unset, "raw", L!Name(L!Words[p]), Meant(a), secureBoot)
<1>1. words[1] \notin {"kernel", "cmdline", "initramfs", "installer"}
  BY SpelledBegins
<1>2. path.words = words /\ path.suffixes = suffixes
  BY DEF L!Path
<1>3. L!ParsePlatformArch("image", words) = parsed
  BY SpelledIsParsed
<1>4. parsed # L!Invalid
  <2>1. parsed.kind = "image" /\ L!Invalid.kind = "invalid"
    BY DEF L!Invalid, L!Parsed
  <2> HIDE DEF parsed
  <2> QED BY <2>1
<1>5. ASSUME NEW found, found = parsed, NEW disk, NEW format
      PROVE  /\ Shows([found EXCEPT !.disk = disk], "image", L!Name(L!Words[p]), Meant(a), secureBoot)
             /\ Shows([found EXCEPT !.disk = disk, !.format = format],
                      "image", L!Name(L!Words[p]), Meant(a), secureBoot)
  BY <1>5 DEF Shows, L!Parsed
<1>6. suffixes # <<"iso">> /\ suffixes # <<"efi">> /\ suffixes # <<"tar">> /\ suffixes # <<>>
  OBVIOUS
<1>7. Head(suffixes) \in L!DiskFormats
  BY DEF L!DiskFormats
<1>8. \/ Len(suffixes) = 1
      \/ Len(suffixes) # 1 /\ Len(suffixes) = 2 /\ suffixes[2] \in L!OutFormats
  BY DEF L!OutFormats
<1> HIDE DEF words, path, parsed
<1>9. L!ParseFromPath(path) = L!ParseDiskImage(path)
  BY <1>1, <1>2, <1>6 DEF L!ParseFromPath
<1> DEFINE found == L!ParsePlatformArch("image", path.words)
<1>10. found # L!Invalid /\ path.suffixes # <<>> /\ Head(path.suffixes) \in L!DiskFormats
  BY <1>2, <1>3, <1>4, <1>6, <1>7
<1>11. found = parsed
  BY <1>2, <1>3
<1>12. CASE Len(suffixes) = 1
  <2>1. Len(path.suffixes) = 1
    BY <1>2, <1>12
  <2>2. L!ParseDiskImage(path) = [found EXCEPT !.disk = path.suffixes[1]]
    BY <1>10, <2>1, Zenon DEF L!ParseDiskImage
  <2> HIDE DEF found
  <2>3. Shows([found EXCEPT !.disk = path.suffixes[1]],
              "image", L!Name(L!Words[p]), Meant(a), secureBoot)
    BY <1>5, <1>11, Zenon
  <2> QED BY <1>9, <2>2, <2>3, Zenon DEF words, path
<1>13. CASE Len(suffixes) # 1 /\ Len(suffixes) = 2 /\ suffixes[2] \in L!OutFormats
  <2>1. Len(path.suffixes) # 1 /\ Len(path.suffixes) = 2 /\ path.suffixes[2] \in L!OutFormats
    BY <1>2, <1>13
  <2>2. L!ParseDiskImage(path) = [found EXCEPT !.disk = path.suffixes[1], !.format = path.suffixes[2]]
    BY <1>10, <2>1, Zenon DEF L!ParseDiskImage
  <2> HIDE DEF found
  <2>3. Shows([found EXCEPT !.disk = path.suffixes[1], !.format = path.suffixes[2]],
              "image", L!Name(L!Words[p]), Meant(a), secureBoot)
    BY <1>5, <1>11, Zenon
  <2> QED BY <1>9, <2>2, <2>3, Zenon DEF words, path
<1> QED BY <1>8, <1>12, <1>13

\* The names that hold more than a platform, an architecture and Secure Boot.
WithUKI(p, a, secureBoot) == IF secureBoot THEN <<p, a, "secureboot", "uki">> ELSE <<p, a, "uki">>
OfCmdline(p, a, secureBoot) ==
    IF secureBoot THEN <<"cmdline", p, a, "secureboot">> ELSE <<"cmdline", p, a>>

LEMMA OpensUKI ==
    ASSUME NEW p \in L!Platforms, p # "ocean", NEW a \in Machines, NEW secureBoot \in BOOLEAN
    PROVE  Shows(L!ParseFromPath(L!Path(WithUKI(p, a, secureBoot), <<"efi">>)),
                 "uki", L!Name(L!Words[p]), Meant(a), secureBoot)
<1> DEFINE sb == "secureboot"
           uki == "uki"
           words == WithUKI(p, a, secureBoot)
           path == L!Path(words, <<"efi">>)
<1>1. a \in Spelling /\ p \in Spelling /\ sb \in Spelling /\ uki \in Spelling
  BY NamesOfPlatforms DEF Machines, Spelling
<1>2. L!Last(words) = "uki" /\ L!Front(words) = Spelled(p, a, secureBoot)
  <2> HIDE DEF sb, uki
  <2>1. L!Last(<<p, a, sb, uki>>) = uki
    BY <1>1, LastOf4
  <2>2. L!Front(<<p, a, sb, uki>>) = <<p, a, sb>>
    BY <1>1, FrontOf4
  <2>3. L!Last(<<p, a, uki>>) = uki
    BY <1>1, LastOf3
  <2>4. L!Front(<<p, a, uki>>) = <<p, a>>
    BY <1>1, FrontOf3
  <2> QED BY <2>1, <2>2, <2>3, <2>4 DEF WithUKI, Spelled, sb, uki
<1>3. words[1] \notin {"kernel", "cmdline", "initramfs"} /\ Len(words) > 1
  <2>1. p \notin {"kernel", "cmdline", "initramfs"}
    BY NamesOfPlatforms
  <2>2. words[1] = p
    BY DEF WithUKI
  <2>3. Len(words) > 1
    BY DEF WithUKI
  <2> QED BY <2>1, <2>2, <2>3
<1>4. path.words = words /\ path.suffixes = <<"efi">>
  BY DEF L!Path
<1> HIDE DEF words, path
<1>5. L!ParseFromPath(path) = L!ParsePlatformArch("uki", L!Front(words))
  BY <1>2, <1>3, <1>4 DEF L!ParseFromPath
<1>6. L!ParsePlatformArch("uki", L!Front(words))
          = L!Parsed("uki", L!Unset, "raw", L!Name(L!Words[p]), Meant(a), secureBoot)
  BY <1>2, SpelledIsParsed
<1> QED BY <1>5, <1>6, ParsedShows DEF words, path

LEMMA OpensCmdline ==
    ASSUME NEW p \in L!Platforms, p # "ocean", NEW a \in Machines, NEW secureBoot \in BOOLEAN
    PROVE  Shows(L!ParseFromPath(L!Path(OfCmdline(p, a, secureBoot), <<>>)),
                 "cmdline", L!Name(L!Words[p]), Meant(a), secureBoot)
<1> DEFINE sb == "secureboot"
           cmdline == "cmdline"
           words == OfCmdline(p, a, secureBoot)
           path == L!Path(words, <<>>)
<1>1. a \in Spelling /\ p \in Spelling /\ sb \in Spelling /\ cmdline \in Spelling
  BY NamesOfPlatforms DEF Machines, Spelling
<1>2. Tail(words) = Spelled(p, a, secureBoot)
  <2> HIDE DEF sb, cmdline
  <2>1. Tail(<<cmdline, p, a, sb>>) = <<p, a, sb>>
    BY <1>1, TailOf4
  <2>2. Tail(<<cmdline, p, a>>) = <<p, a>>
    BY <1>1, TailOf3
  <2> QED BY <2>1, <2>2 DEF OfCmdline, Spelled, sb, cmdline
<1>3. words[1] = "cmdline" /\ Len(words) > 1
  BY DEF OfCmdline
<1>4. path.words = words /\ path.suffixes = <<>>
  BY DEF L!Path
<1> HIDE DEF words, path
<1>5. L!ParseFromPath(path) = L!ParsePlatformArch("cmdline", Tail(words))
  BY <1>3, <1>4 DEF L!ParseFromPath
<1>6. L!ParsePlatformArch("cmdline", Tail(words))
          = L!Parsed("cmdline", L!Unset, "raw", L!Name(L!Words[p]), Meant(a), secureBoot)
  BY <1>2, SpelledIsParsed
<1> QED BY <1>5, <1>6, ParsedShows DEF words, path

LEMMA OpensKernel ==
    ASSUME NEW a \in Machines
    PROVE  Shows(L!ParseFromPath(L!Path(<<"kernel", a>>, <<>>)), "kernel", "metal", Meant(a), FALSE)
<1> DEFINE kernel == "kernel"
           words == <<kernel, a>>
           path == L!Path(words, <<>>)
<1>1. Tail(words) = <<a>>
  <2>1. a \in Spelling /\ kernel \in Spelling
    BY DEF Machines, Spelling
  <2> HIDE DEF kernel
  <2> QED BY <2>1, TailOf2
<1>2. words[1] = "kernel" /\ Len(words) > 1
  OBVIOUS
<1>3. path.words = words /\ path.suffixes = <<>>
  BY DEF L!Path
<1> HIDE DEF words, path
<1>4. L!ParseFromPath(path) = L!OfArch("kernel", "metal", Tail(words), FALSE)
  BY <1>2, <1>3 DEF L!ParseFromPath
<1>5. L!OfArch("kernel", "metal", Tail(words), FALSE)
          = L!Parsed("kernel", L!Unset, "raw", "metal", Meant(a), FALSE)
  BY <1>1, ArchMeant
<1> QED BY <1>4, <1>5, ParsedShows DEF words, path

LEMMA OpensInitramfs ==
    ASSUME NEW a \in Machines
    PROVE  Shows(L!ParseFromPath(L!Path(<<"initramfs", a>>, <<"xz">>)),
                 "initramfs", "metal", Meant(a), FALSE)
<1> DEFINE initramfs == "initramfs"
           words == <<initramfs, a>>
           path == L!Path(words, <<"xz">>)
<1>1. Tail(words) = <<a>>
  <2>1. a \in Spelling /\ initramfs \in Spelling
    BY DEF Machines, Spelling
  <2> HIDE DEF initramfs
  <2> QED BY <2>1, TailOf2
<1>2. words[1] = "initramfs" /\ Len(words) > 1
  OBVIOUS
<1>3. path.words = words /\ path.suffixes = <<"xz">>
  BY DEF L!Path
<1> HIDE DEF words, path
<1>4. L!ParseFromPath(path) = L!OfArch("initramfs", "metal", Tail(words), FALSE)
  BY <1>2, <1>3 DEF L!ParseFromPath
<1>5. L!OfArch("initramfs", "metal", Tail(words), FALSE)
          = L!Parsed("initramfs", L!Unset, "raw", "metal", Meant(a), FALSE)
  BY <1>1, ArchMeant
<1> QED BY <1>4, <1>5, ParsedShows DEF words, path

\* The repository of an installer, and what the registry's frontend makes of it.
Repository(platform, secureBoot) ==
    platform \o <<"installer">> \o IF secureBoot THEN <<"secureboot">> ELSE <<>>

LEMMA RepositoryIsParsed ==
    ASSUME NEW platform \in {<<>>, <<"metal">>, <<"aws">>, <<"nocloud">>, <<"digital", "ocean">>},
           NEW secureBoot \in BOOLEAN
    PROVE  L!GetRequestedImage(Repository(platform, secureBoot)) = <<platform, secureBoot>>
<1> DEFINE sb == "secureboot"
           i == "installer"
           words == Repository(platform, secureBoot)
<1>1. sb \in Spelling /\ i \in Spelling /\ sb # i
  BY DEF Spelling
<1>2. ASSUME platform = <<>>
      PROVE  L!CutSecureBoot(words) = <<i>> /\ L!HasSecureBoot(words) = secureBoot
  <2> HIDE DEF sb, i
  <2>1. <<>> \o <<i>> = <<i>> /\ <<i>> \o <<>> = <<i>>
    BY <1>1, ConcatEmptySeq
  <2>2. <<i>> \o <<sb>> = <<i, sb>>
    BY <1>1, Join11
  <2>3. words = IF secureBoot THEN <<i, sb>> ELSE <<i>>
    BY <1>2, <2>1, <2>2 DEF Repository, sb, i
  <2>4. L!CutSecureBoot(<<i>>) = <<i>> /\ ~L!HasSecureBoot(<<i>>)
    BY <1>1, CutOfOne DEF sb
  <2>5. L!CutSecureBoot(<<i, sb>>) = <<i>> /\ L!HasSecureBoot(<<i, sb>>)
    BY <1>1, CutOfOne DEF sb
  <2> HIDE DEF words
  <2>6. CASE secureBoot
    BY <2>3, <2>5, <2>6
  <2>7. CASE ~secureBoot
    BY <2>3, <2>4, <2>7 DEF L!HasSecureBoot
  <2> QED BY <2>6, <2>7
<1>3. ASSUME NEW w \in Spelling, platform = <<w>>
      PROVE  L!CutSecureBoot(words) = <<w, i>> /\ L!HasSecureBoot(words) = secureBoot
  <2> HIDE DEF sb, i
  <2>1. <<w>> \o <<i>> = <<w, i>>
    BY <1>1, Join11
  <2>2. <<w, i>> \o <<sb>> = <<w, i, sb>>
    BY <1>1, Join21
  <2>3. <<w, i>> \o <<>> = <<w, i>>
    BY <1>1, ConcatEmptySeq
  <2>4. words = IF secureBoot THEN <<w, i, sb>> ELSE <<w, i>>
    BY <1>3, <2>1, <2>2, <2>3 DEF Repository, sb, i
  <2>5. L!CutSecureBoot(<<w, i>>) = <<w, i>> /\ ~L!HasSecureBoot(<<w, i>>)
    BY <1>1, CutOfTwo DEF sb
  <2>6. L!CutSecureBoot(<<w, i, sb>>) = <<w, i>> /\ L!HasSecureBoot(<<w, i, sb>>)
    BY <1>1, CutOfTwo DEF sb
  <2> HIDE DEF words
  <2>7. CASE secureBoot
    BY <2>4, <2>6, <2>7
  <2>8. CASE ~secureBoot
    BY <2>4, <2>5, <2>8 DEF L!HasSecureBoot
  <2> QED BY <2>7, <2>8
<1>4. ASSUME NEW v \in Spelling, NEW w \in Spelling, platform = <<v, w>>
      PROVE  L!CutSecureBoot(words) = <<v, w, i>> /\ L!HasSecureBoot(words) = secureBoot
  <2> HIDE DEF sb, i
  <2>0. i \in Spelling /\ i # "secureboot"
    BY <1>1 DEF sb
  <2>1. <<v, w>> \o <<i>> = <<v, w, i>>
    BY <1>1, Join21
  <2>2. <<v, w, i>> \o <<sb>> = <<v, w, i, sb>>
    BY <1>1, Join31
  <2>3. <<v, w, i>> \o <<>> = <<v, w, i>>
    BY <1>1, ConcatEmptySeq
  <2>4. words = IF secureBoot THEN <<v, w, i, sb>> ELSE <<v, w, i>>
    BY <1>4, <2>1, <2>2, <2>3 DEF Repository, sb, i
  <2>5. L!CutSecureBoot(<<v, w, i>>) = <<v, w, i>> /\ ~L!HasSecureBoot(<<v, w, i>>)
    BY <2>0, CutOfThree DEF sb
  <2>6. L!CutSecureBoot(<<v, w, i, sb>>) = <<v, w, i>> /\ L!HasSecureBoot(<<v, w, i, sb>>)
    BY <2>0, CutOfFour DEF sb
  <2> HIDE DEF words
  <2>7. CASE secureBoot
    BY <2>4, <2>6, <2>7
  <2>8. CASE ~secureBoot
    BY <2>4, <2>5, <2>8 DEF L!HasSecureBoot
  <2> QED BY <2>7, <2>8
<1>5. ASSUME NEW cut, L!CutSecureBoot(words) = cut, cut # <<>>, L!Last(cut) = "installer",
             L!Front(cut) = platform, L!HasSecureBoot(words) = secureBoot
      PROVE  L!GetRequestedImage(words) = <<platform, secureBoot>>
  <2> HIDE DEF words
  <2> QED BY <1>5 DEF L!GetRequestedImage
<1>6. CASE platform = <<>>
  <2> HIDE DEF words, i
  <2>1. L!Last(<<i>>) = i
    BY <1>1, LastOf1
  <2>2. L!Front(<<i>>) = <<>>
    BY <1>1, FrontOf1
  <2>3. <<i>> # <<>>
    OBVIOUS
  <2> QED BY <1>2, <1>5, <1>6, <2>1, <2>2, <2>3 DEF words, i
<1>7. CASE \E w \in Spelling : platform = <<w>>
  <2> PICK w \in Spelling : platform = <<w>>
    BY <1>7
  <2> HIDE DEF words, i
  <2>1. L!Last(<<w, i>>) = i
    BY <1>1, LastOf2
  <2>2. L!Front(<<w, i>>) = <<w>>
    BY <1>1, FrontOf2
  <2>3. <<w, i>> # <<>>
    OBVIOUS
  <2> QED BY <1>3, <1>5, <2>1, <2>2, <2>3 DEF words, i
<1>8. CASE \E v, w \in Spelling : platform = <<v, w>>
  <2> PICK v \in Spelling, w \in Spelling : platform = <<v, w>>
    BY <1>8
  <2> HIDE DEF words, i
  <2>1. L!Last(<<v, w, i>>) = i
    BY <1>1, LastOf3
  <2>2. L!Front(<<v, w, i>>) = <<v, w>>
    BY <1>1, FrontOf3
  <2>3. <<v, w, i>> # <<>>
    OBVIOUS
  <2> QED BY <1>4, <1>5, <2>1, <2>2, <2>3 DEF words, i
<1>9. {"metal", "aws", "nocloud", "digital", "ocean"} \subseteq Spelling
  BY DEF Spelling
<1> QED BY <1>6, <1>7, <1>8, <1>9 DEF words

---------------------------------------------------------------------------

\* What following a link resolves to, and that this is what it offers, if its
\* version is listed.  Of a link to the PXE script the invariant says how it is
\* spelled, for a client may still write another name of the architecture into it.
Agrees(profile, offer) == Shows(profile, offer.kind, offer.platform, offer.arch, offer.secureBoot)

PXELink(version, p, a, secureBoot) ==
    [route |-> "pxe", version |-> version, path |-> L!Path(Spelled(p, a, secureBoot), <<>>), listed |-> TRUE,
     offer |-> [kind |-> "cmdline", platform |-> p, arch |-> Meant(a), secureBoot |-> secureBoot]]

IsPXELink(link) ==
    \E p \in {"metal", "nocloud"}, a \in Machines, secureBoot \in BOOLEAN :
        link = PXELink(link.version, p, a, secureBoot)

InstallerOf(link) ==
    LET requested == L!GetRequestedImage(link.path.words) IN
    IF requested = <<>> THEN L!Invalid
    ELSE L!InstallerProfile(requested[2], link.offer.arch, requested[1])

Resolves(link) ==
    /\ link.route = "image" /\ link.listed => Agrees(L!ParseArtifactPath(L!SplitArtifactPath(link.path)), link.offer)
    /\ link.route = "pxe" => IsPXELink(link)
    /\ link.route = "registry" => Agrees(InstallerOf(link), link.offer)

LinksInv == (\A link \in page : Resolves(link)) /\ LinksResolve

\* The suffixes of the names without their sidecars.
Plain == {<<>>, <<"iso">>, <<"efi">>, <<"xz">>, <<"raw", "gz">>, <<"raw", "xz">>, <<"qcow2">>}

\* One sidecar is cut off a name, and nothing else.
LEMMA SidecarsCut ==
    ASSUME NEW words, NEW suffixes \in Plain, NEW sidecar \in L!Sidecars
    PROVE  /\ L!SplitArtifactPath(L!Path(words, suffixes)) = L!Path(words, suffixes)
           /\ L!SplitArtifactPath(L!Path(words, Append(suffixes, sidecar))) = L!Path(words, suffixes)
<1> DEFINE plain == L!Path(words, suffixes)
           more == L!Path(words, Append(suffixes, sidecar))
<1>1. plain.suffixes = suffixes /\ more.suffixes = Append(suffixes, sidecar)
  BY DEF L!Path
<1>2. suffixes \in Seq(Spelling) /\ sidecar \in Spelling
  <2>1. {"iso", "efi", "xz", "raw", "gz", "qcow2"} \subseteq Spelling
    BY DEF Spelling
  <2>2. <<>> \in Seq(Spelling)
    OBVIOUS
  <2>3. ASSUME NEW a \in Spelling PROVE <<a>> \in Seq(Spelling)
    OBVIOUS
  <2>4. ASSUME NEW a \in Spelling, NEW b \in Spelling PROVE <<a, b>> \in Seq(Spelling)
    OBVIOUS
  <2>5. /\ "iso" \in Spelling /\ "efi" \in Spelling /\ "xz" \in Spelling
        /\ "raw" \in Spelling /\ "gz" \in Spelling /\ "qcow2" \in Spelling
    BY <2>1
  <2>6. Plain \subseteq Seq(Spelling)
    BY <2>2, <2>3, <2>4, <2>5 DEF Plain
  <2>7. sidecar \in Spelling
    BY DEF Spelling, L!Sidecars, L!Checksums
  <2> QED BY <2>6, <2>7
<1>3. suffixes # <<>> => L!Last(suffixes) \notin L!Sidecars
  BY DEF Plain, L!Last, L!Sidecars, L!Checksums
<1>4. /\ more.suffixes # <<>> /\ L!Last(more.suffixes) \in L!Sidecars
      /\ L!Front(more.suffixes) = suffixes
  BY <1>1, <1>2, CutAppended
<1>5. L!SplitArtifactPath(plain) = plain
  BY <1>1, <1>3 DEF L!SplitArtifactPath
<1>6. L!SplitArtifactPath(more) = [more EXCEPT !.suffixes = L!Front(@)]
  BY <1>4 DEF L!SplitArtifactPath
<1>7. [more EXCEPT !.suffixes = L!Front(@)] = plain
  BY <1>4 DEF L!Path
<1> QED BY <1>5, <1>6, <1>7

\* An asset and its sidecars resolve alike.
LEMMA SidecarsResolve ==
    ASSUME NEW words, NEW suffixes \in Plain, NEW kind, NEW p, NEW req,
           Shows(L!ParseFromPath(L!Path(words, suffixes)), kind, p, req.arch, req.secureBoot)
    PROVE  \A link \in L!WithSidecars(L!Link("image", L!Path(words, suffixes), kind, p, req)) : Resolves(link)
<1> DEFINE first == L!Link("image", L!Path(words, suffixes), kind, p, req)
<1>1. first.route = "image" /\ first.path = L!Path(words, suffixes)
  BY DEF L!Link
<1>2. Agrees(L!ParseFromPath(L!Path(words, suffixes)), first.offer)
  BY DEF L!Link, Agrees
<1>3. "sha256" \in L!Sidecars
  BY DEF L!Sidecars, L!Checksums
<1>4. Resolves(first)
  BY <1>1, <1>2, <1>3, SidecarsCut DEF Resolves, L!ParseArtifactPath
<1>5. ASSUME NEW sidecar \in L!Sidecars
      PROVE  Resolves([first EXCEPT !.path.suffixes = Append(@, sidecar)])
  <2> DEFINE link == [first EXCEPT !.path.suffixes = Append(@, sidecar)]
  <2>1. link.route = "image" /\ link.offer = first.offer
    BY <1>1 DEF L!Link
  <2>2. link.path = L!Path(words, Append(suffixes, sidecar))
    BY DEF L!Link, L!Path
  <2> HIDE DEF link, first
  <2>3. L!ParseArtifactPath(L!SplitArtifactPath(link.path)) = L!ParseFromPath(L!Path(words, suffixes))
    BY <2>2, SidecarsCut DEF L!ParseArtifactPath
  <2>4. Resolves(link)
    BY <1>2, <2>1, <2>3 DEF Resolves
  <2> QED BY <2>4 DEF link
<1> HIDE DEF first
<1>6. \A link \in L!WithSidecars(first) : Resolves(link)
  BY <1>1, <1>4, <1>5 DEF L!WithSidecars
<1> QED BY <1>6 DEF first

\* The requests for which there is a page.
LEMMA OfferedRequest ==
    ASSUME NEW req \in L!Requests, L!Offerable(req)
    PROVE  /\ req.arch \in L!Arches /\ req.arch \in Machines /\ Meant(req.arch) = req.arch
           /\ req.secureBoot \in BOOLEAN /\ L!PlatformOf(req) \in L!Platforms
           /\ req.target = "sbc" => req.arch = "arm64" /\ req.secureBoot = FALSE
<1>1. req.arch \in L!Arches
  BY DEF L!Offerable
<1>2. req.arch \in Machines /\ Meant(req.arch) = req.arch
  BY <1>1 DEF L!Arches, Machines, Meant
<1>3. req.secureBoot \in BOOLEAN /\ req.platform \in L!Platforms
  BY DEF L!Requests
<1>4. L!PlatformOf(req) \in L!Platforms
  BY <1>3 DEF L!PlatformOf, L!Platforms, L!Words
<1>5. req.target = "sbc" => req.arch = "arm64" /\ req.secureBoot = FALSE
  BY <1>3 DEF L!Offerable
<1> QED BY <1>1, <1>2, <1>3, <1>4, <1>5

\* The ISO, the disk images and the PXE script of a platform.
LEMMA BootMethodsResolve ==
    ASSUME NEW req \in L!Requests, L!Offerable(req), NEW p \in L!Platforms,
           NEW method \in L!BootMethods(p), NEW asset \in L!BootMethodAssets(p, method, req),
           NEW link \in L!WithSidecars(asset)
    PROVE  Resolves(link)
<1> DEFINE words == Spelled(p, req.arch, req.secureBoot)
<1>1. /\ req.arch \in L!Arches /\ req.arch \in Machines /\ Meant(req.arch) = req.arch
      /\ req.secureBoot \in BOOLEAN
  BY OfferedRequest
<1>2. L!PlatformWords(p, req) = words
  BY <1>1, WordsSpelled
<1>3. method \in {"iso", "disk", "pxe"} /\ (method = "pxe" => p \in {"metal", "nocloud"})
  BY DEF L!BootMethods
<1> HIDE DEF words
<1>4. CASE method = "iso"
  <2>1. asset = L!Link("image", L!Path(words, <<"iso">>), "iso", L!Name(L!Words[p]), req)
    BY <1>2, <1>4 DEF L!BootMethodAssets, L!Image
  <2>2. Shows(L!ParseFromPath(L!Path(words, <<"iso">>)), "iso", L!Name(L!Words[p]),
              req.arch, req.secureBoot)
    BY <1>1, OpensISO DEF words
  <2>3. <<"iso">> \in Plain
    BY DEF Plain
  <2> QED BY <2>1, <2>2, <2>3, SidecarsResolve
<1>5. CASE method = "disk"
  <2>1. PICK suffixes \in {<<"raw", "gz">>, <<"raw", "xz">>, <<"qcow2">>} :
            asset = L!Link("image", L!Path(words, suffixes), "image", L!Name(L!Words[p]), req)
    <3>1. L!DiskSuffixes(p) \in {<<"raw", "gz">>, <<"raw", "xz">>, <<"qcow2">>}
      BY DEF L!DiskSuffixes
    <3>2. \/ asset = L!Image(L!Path(words, L!DiskSuffixes(p)), "image", p, req)
          \/ asset = L!Image(L!Path(words, <<"qcow2">>), "image", p, req)
      BY <1>2, <1>5 DEF L!BootMethodAssets
    <3> QED BY <3>1, <3>2 DEF L!Image
  <2>2. Shows(L!ParseFromPath(L!Path(words, suffixes)), "image", L!Name(L!Words[p]),
              req.arch, req.secureBoot)
    BY <1>1, OpensDisk DEF words
  <2>3. suffixes \in Plain
    BY DEF Plain
  <2> QED BY <2>1, <2>2, <2>3, SidecarsResolve
<1>6. CASE method = "pxe"
  <2>1. asset = L!Link("pxe", L!Path(words, <<>>), "cmdline", L!Name(L!Words[p]), req)
    BY <1>2, <1>6 DEF L!BootMethodAssets
  <2>2. L!Name(L!Words[p]) = p
    BY <1>3, <1>6, NamesOfPlatforms
  <2>3. asset = PXELink(asset.version, p, req.arch, req.secureBoot)
    BY <1>1, <2>1, <2>2 DEF L!Link, PXELink, words
  <2>4. asset.route = "pxe"
    BY <2>1 DEF L!Link
  <2>5. IsPXELink(asset)
    BY <1>1, <1>3, <1>6, <2>3 DEF IsPXELink
  <2>6. link = asset
    BY <2>4 DEF L!WithSidecars
  <2> QED BY <2>4, <2>5, <2>6 DEF Resolves
<1> QED BY <1>3, <1>4, <1>5, <1>6

\* The UKI, or the kernel, its command line and the initramfs.
LEMMA ExtraAssetsResolve ==
    ASSUME NEW req \in L!Requests, L!Offerable(req), NEW asset \in L!MetalExtraAssets(req),
           NEW link \in L!WithSidecars(asset)
    PROVE  Resolves(link)
<1> DEFINE a == req.arch
           uki == "uki"
           cmdline == "cmdline"
           sb == "secureboot"
           metal == "metal"
<1>1. /\ a \in L!Arches /\ a \in Machines /\ Meant(a) = a /\ req.secureBoot \in BOOLEAN
  BY OfferedRequest
<1>2. "metal" \in L!Platforms /\ L!Name(L!Words["metal"]) = "metal"
  <2>1. "metal" \in L!Platforms
    BY DEF L!Platforms, L!Words
  <2> QED BY <2>1, NamesOfPlatforms
<1>3. L!PlatformWords("metal", req) = Spelled("metal", a, req.secureBoot)
  BY <1>1, <1>2, WordsSpelled
<1>4. /\ a \in Spelling /\ uki \in Spelling /\ cmdline \in Spelling /\ sb \in Spelling /\ metal \in Spelling
  BY <1>1 DEF Machines, Spelling
<1>5. L!PlatformWords("metal", req) \o <<"uki">> = WithUKI("metal", a, req.secureBoot)
  <2> HIDE DEF a, uki, sb, metal
  <2>1. <<metal, a>> \o <<uki>> = <<metal, a, uki>>
    BY <1>4, Join21
  <2>2. <<metal, a, sb>> \o <<uki>> = <<metal, a, sb, uki>>
    BY <1>4, Join31
  <2> QED BY <1>3, <2>1, <2>2 DEF Spelled, WithUKI, uki, sb, metal
<1>6. <<"cmdline">> \o L!PlatformWords("metal", req) = OfCmdline("metal", a, req.secureBoot)
  <2> HIDE DEF a, cmdline, sb, metal
  <2>1. <<cmdline>> \o <<metal, a>> = <<cmdline, metal, a>>
    BY <1>4, Join12
  <2>2. <<cmdline>> \o <<metal, a, sb>> = <<cmdline, metal, a, sb>>
    BY <1>4, Join13
  <2> QED BY <1>3, <2>1, <2>2 DEF Spelled, OfCmdline, cmdline, sb, metal
<1>7. /\ <<>> \in Plain /\ <<"efi">> \in Plain /\ <<"xz">> \in Plain
  BY DEF Plain
<1>8. CASE asset = L!Link("image", L!Path(WithUKI("metal", a, req.secureBoot), <<"efi">>), "uki", "metal", req)
  BY <1>1, <1>2, <1>7, <1>8, OpensUKI, SidecarsResolve
<1>9. CASE asset = L!Link("image", L!Path(OfCmdline("metal", a, req.secureBoot), <<>>), "cmdline", "metal", req)
  BY <1>1, <1>2, <1>7, <1>9, OpensCmdline, SidecarsResolve
<1>10. CASE asset = L!Link("image", L!Path(<<"kernel", a>>, <<>>), "kernel", "metal", req) /\ req.secureBoot = FALSE
  BY <1>1, <1>7, <1>10, OpensKernel, SidecarsResolve
<1>11. CASE asset = L!Link("image", L!Path(<<"initramfs", a>>, <<"xz">>), "initramfs", "metal", req)
            /\ req.secureBoot = FALSE
  BY <1>1, <1>7, <1>11, OpensInitramfs, SidecarsResolve
<1> QED BY <1>1, <1>2, <1>5, <1>6, <1>8, <1>9, <1>10, <1>11 DEF L!MetalExtraAssets, L!Image

\* The installer, under its old name or under that of the platform.
LEMMA InstallerResolves ==
    ASSUME NEW req \in L!Requests, L!Offerable(req)
    PROVE  Resolves(L!InstallerImage(req)) /\ L!InstallerImage(req).route = "registry"
<1> DEFINE p == L!PlatformOf(req)
           unified == req.version \in L!SupportsUnifiedInstaller
           platform == IF unified THEN L!Words[p] ELSE <<>>
           name == IF unified THEN L!Name(L!Words[p]) ELSE "metal"
           link == L!InstallerImage(req)
<1>1. req.secureBoot \in BOOLEAN /\ p \in L!Platforms
  BY OfferedRequest
<1>2. platform \in {<<>>, <<"metal">>, <<"aws">>, <<"nocloud">>, <<"digital", "ocean">>}
  BY <1>1, NamesOfPlatforms
<1>3. (IF platform = <<>> THEN "metal" ELSE L!Name(platform)) = name
  <2>1. <<p>> # <<>> /\ <<"digital", "ocean">> # <<>>
    OBVIOUS
  <2>2. L!Words[p] # <<>>
    BY <1>1, <2>1, NamesOfPlatforms, Zenon
  <2>3. CASE unified
    BY <2>2, <2>3
  <2>4. CASE ~unified
    BY <2>4
  <2> QED BY <2>3, <2>4
<1>4. link = L!Link("registry", L!Path(Repository(platform, req.secureBoot), <<>>), "installer", name, req)
  BY DEF L!InstallerImage, Repository, L!Suffixed
<1>5. /\ link.route = "registry" /\ link.path.words = Repository(platform, req.secureBoot)
      /\ link.offer.kind = "installer" /\ link.offer.platform = name
      /\ link.offer.secureBoot = req.secureBoot
  BY <1>4 DEF L!Link, L!Path
<1> HIDE DEF link, p, platform, name, unified
<1>6. L!GetRequestedImage(link.path.words) = <<platform, req.secureBoot>>
  BY <1>1, <1>2, <1>5, RepositoryIsParsed
<1>7. InstallerOf(link) = L!InstallerProfile(req.secureBoot, link.offer.arch, platform)
  BY <1>6 DEF InstallerOf
<1>8. L!InstallerProfile(req.secureBoot, link.offer.arch, platform)
          = L!Parsed("installer", L!Unset, "raw", name, link.offer.arch, req.secureBoot)
  BY <1>3 DEF L!InstallerProfile
<1>9. Agrees(InstallerOf(link), link.offer)
  BY <1>5, <1>7, <1>8, ParsedShows DEF Agrees
<1> QED BY <1>5, <1>9 DEF Resolves, link

LEMMA AssetsResolve ==
    ASSUME NEW req \in L!Requests, L!Offerable(req), NEW link \in L!Assets(req)
    PROVE  Resolves(link)
<1>1. CASE link = L!InstallerImage(req)
  BY <1>1, InstallerResolves
<1>2. CASE \E asset \in L!MetalExtraAssets(req) : link \in L!WithSidecars(asset)
  BY <1>2, ExtraAssetsResolve
<1>3. ASSUME NEW asset \in L!BootAssets(req), link \in L!WithSidecars(asset)
      PROVE  Resolves(link)
  <2>1. CASE req.target = "sbc"
    <3>1. req.arch = "arm64" /\ req.secureBoot = FALSE
      BY <2>1, OfferedRequest
    <3>2. "metal" \in L!Platforms /\ "arm64" \in Machines /\ Meant("arm64") = "arm64"
      BY DEF L!Platforms, L!Words, Machines, Meant
    <3>3. Spelled("metal", "arm64", FALSE) = <<"metal", "arm64">>
      BY DEF Spelled
    <3>4. L!Name(L!Words["metal"]) = "metal"
      BY <3>2, NamesOfPlatforms
    <3> DEFINE drawn == L!Link("image", L!BoardImagePath(req.board, req.version), "image", "metal", req)
    <3>5. asset = [drawn EXCEPT !.listed = req.version \in L!SupportsOverlay]
      BY <2>1, <3>4 DEF L!BootAssets, L!Image
    <3>6. CASE req.version \notin L!SupportsOverlay
      <4> DEFINE offered == req.version \in L!SupportsOverlay
      <4>1. asset = [drawn EXCEPT !.listed = FALSE]
        <5>1. offered = FALSE
          BY <3>6
        <5>2. asset = [drawn EXCEPT !.listed = offered]
          BY <3>5
        <5> HIDE DEF drawn, offered
        <5> QED BY <5>1, <5>2
      <4> HIDE DEF offered
      <4>2. asset.route = "image" /\ asset.listed = FALSE
        BY <4>1 DEF L!Link
      <4>3. link = asset \/ \E s \in L!Sidecars : link = [asset EXCEPT !.path.suffixes = Append(@, s)]
        BY <1>3, <4>2 DEF L!WithSidecars
      <4>4. link.listed = FALSE
        <5>1. ASSUME NEW s PROVE [asset EXCEPT !.path.suffixes = Append(@, s)].listed = FALSE
          BY <4>1 DEF L!Link
        <5> QED BY <4>2, <4>3, <5>1
      <4>5. link.route = "image"
        <5>1. ASSUME NEW s PROVE [asset EXCEPT !.path.suffixes = Append(@, s)].route = "image"
          BY <4>1 DEF L!Link
        <5> QED BY <4>2, <4>3, <5>1
      <4> QED BY <4>4, <4>5 DEF Resolves
    <3>7. CASE req.version \in L!SupportsOverlay
      <4>1. drawn = L!Link("image", L!Path(<<"metal", "arm64">>, <<"raw", "xz">>), "image", "metal", req)
        BY <3>7 DEF L!BoardImagePath
      <4>2. asset = drawn
        BY <3>5, <3>7 DEF L!Link
      <4>3. Shows(L!ParseFromPath(L!Path(<<"metal", "arm64">>, <<"raw", "xz">>)), "image", "metal",
                  "arm64", FALSE)
        BY <3>2, <3>3, <3>4, OpensDisk
      <4>4. <<"raw", "xz">> \in Plain
        BY DEF Plain
      <4> HIDE DEF drawn
      <4> QED BY <1>3, <3>1, <4>1, <4>2, <4>3, <4>4, SidecarsResolve
    <3> QED BY <3>6, <3>7
  <2>2. CASE req.target # "sbc"
    <3>1. PICK method \in L!BootMethods(L!PlatformOf(req)) :
              asset \in L!BootMethodAssets(L!PlatformOf(req), method, req)
      BY <2>2 DEF L!BootAssets
    <3>2. L!PlatformOf(req) \in L!Platforms
      BY OfferedRequest
    <3> QED BY <1>3, <3>1, <3>2, BootMethodsResolve
  <2> QED BY <2>1, <2>2
<1>4. ASSUME link # L!InstallerImage(req)
      PROVE  \/ \E asset \in L!MetalExtraAssets(req) : link \in L!WithSidecars(asset)
             \/ \E asset \in L!BootAssets(req) : link \in L!WithSidecars(asset)
  <2> DEFINE extra == IF req.target = "metal" THEN L!MetalExtraAssets(req) ELSE {}
  <2>1. extra \subseteq L!MetalExtraAssets(req)
    OBVIOUS
  <2>2. \E asset \in L!BootAssets(req) \cup extra : link \in L!WithSidecars(asset)
    BY <1>4 DEF L!Assets
  <2> HIDE DEF extra
  <2> QED BY <2>1, <2>2
<1> QED BY <1>1, <1>2, <1>3, <1>4

\* The script of a link names artifacts that resolve to what it offers.
LEMMA ScriptResolves ==
    ASSUME NEW link, IsPXELink(link), NEW profile, Agrees(profile, link.offer),
           NEW next \in L!Script(link, profile)
    PROVE  Resolves(next)
<1>1. PICK p \in {"metal", "nocloud"}, a \in Machines, secureBoot \in BOOLEAN :
          link = PXELink(link.version, p, a, secureBoot)
  BY DEF IsPXELink
<1>2. link.offer = [kind |-> "cmdline", platform |-> p, arch |-> Meant(a), secureBoot |-> secureBoot]
  BY <1>1 DEF PXELink
<1>3. profile.platform = p /\ profile.arch = Meant(a) /\ profile.secureBoot = secureBoot
  BY <1>2 DEF Agrees, Shows
<1> DEFINE m == Meant(a)
           req == [arch |-> m, secureBoot |-> secureBoot, version |-> link.version]
           sb == "secureboot"
           uki == "uki"
<1>4. m \in Machines /\ Meant(m) = m /\ p \in L!Platforms /\ L!Name(L!Words[p]) = p
  <2>1. m \in Machines /\ Meant(m) = m
    BY DEF Meant, Machines
  <2>2. p \in L!Platforms
    BY DEF L!Platforms, L!Words
  <2> QED BY <2>1, <2>2, NamesOfPlatforms
<1>5. req.arch = m /\ req.secureBoot = secureBoot
  OBVIOUS
<1>6. p # "digital-ocean" /\ p # "ocean"
  OBVIOUS
<1>7. <<p>> \o <<m>> \o <<"secureboot", "uki">> = WithUKI(p, m, TRUE)
  <2>1. p \in Spelling /\ m \in Spelling /\ sb \in Spelling /\ uki \in Spelling
    BY <1>4 DEF Spelling, Machines
  <2> HIDE DEF m, sb, uki
  <2>2. <<p>> \o <<m>> = <<p, m>>
    BY <2>1, Join11
  <2>3. <<p, m>> \o <<sb, uki>> = <<p, m, sb, uki>>
    BY <2>1, Join22
  <2> QED BY <2>2, <2>3 DEF WithUKI, sb, uki
<1>8. ASSUME NEW asset, asset.route = "image", \A l \in L!WithSidecars(asset) : Resolves(l)
      PROVE  Resolves(asset)
  BY <1>8 DEF L!WithSidecars
<1>9. /\ <<>> \in Plain /\ <<"efi">> \in Plain /\ <<"xz">> \in Plain
  BY DEF Plain
<1>10. \A words, suffixes, kind, platform :
           L!Link("image", L!Path(words, suffixes), kind, platform, req).route = "image"
  BY DEF L!Link
<1> HIDE DEF m, req
<1>11. CASE secureBoot = TRUE
  <2>1. next = L!Link("image", L!Path(WithUKI(p, m, TRUE), <<"efi">>), "uki", p, req)
    BY <1>3, <1>6, <1>7, <1>11 DEF L!Script, m, req
  <2>2. Shows(L!ParseFromPath(L!Path(WithUKI(p, m, TRUE), <<"efi">>)), "uki", p, m, TRUE)
    BY <1>4, <1>6, OpensUKI
  <2>3. \A l \in L!WithSidecars(next) : Resolves(l)
    BY <1>5, <1>9, <1>11, <2>1, <2>2, SidecarsResolve
  <2> QED BY <1>8, <1>10, <2>1, <2>3
<1>12. CASE secureBoot = FALSE
  <2>1. CASE next = L!Link("image", L!Path(<<"kernel", m>>, <<>>), "kernel", "metal", req)
    <3>1. Shows(L!ParseFromPath(L!Path(<<"kernel", m>>, <<>>)), "kernel", "metal", m, FALSE)
      BY <1>4, OpensKernel
    <3>2. \A l \in L!WithSidecars(next) : Resolves(l)
      BY <1>5, <1>9, <1>12, <2>1, <3>1, SidecarsResolve
    <3> QED BY <1>8, <1>10, <2>1, <3>2
  <2>2. CASE next = L!Link("image", L!Path(<<"initramfs", m>>, <<"xz">>), "initramfs", "metal", req)
    <3>1. Shows(L!ParseFromPath(L!Path(<<"initramfs", m>>, <<"xz">>)), "initramfs", "metal", m, FALSE)
      BY <1>4, OpensInitramfs
    <3>2. \A l \in L!WithSidecars(next) : Resolves(l)
      BY <1>5, <1>9, <1>12, <2>2, <3>1, SidecarsResolve
    <3> QED BY <1>8, <1>10, <2>2, <3>2
  <2> QED BY <1>3, <1>12, <2>1, <2>2 DEF L!Script, m, req
<1> QED BY <1>11, <1>12

\* An iPXE client may write its own name of the architecture into a link.
LEMMA SubstitutedResolves ==
    ASSUME NEW link \in page, Resolves(link), L!Substitute(link), NEW next \in page'
    PROVE  Resolves(next)
<1> DEFINE spell(words) == [i \in DOMAIN words |-> IF words[i] = "amd64" THEN "x86_64" ELSE words[i]]
<1>1. link.route = "pxe" /\ next = [link EXCEPT !.path.words = spell(link.path.words)]
  BY DEF L!Substitute
<1>2. PICK p \in {"metal", "nocloud"}, a \in Machines, secureBoot \in BOOLEAN :
          link = PXELink(link.version, p, a, secureBoot)
  BY <1>1 DEF Resolves, IsPXELink
<1> DEFINE b == IF a = "amd64" THEN "x86_64" ELSE a
<1>3. b \in Machines /\ Meant(b) = Meant(a)
  BY DEF Machines, Meant
<1>4. spell(Spelled(p, a, secureBoot)) = Spelled(p, b, secureBoot)
  <2>1. spell(<<p, a>>) = <<p, b>>
    OBVIOUS
  <2>2. spell(<<p, a, "secureboot">>) = <<p, b, "secureboot">>
    OBVIOUS
  <2>3. p # "ocean"
    OBVIOUS
  <2> HIDE DEF spell, b
  <2> QED BY <2>1, <2>2, <2>3 DEF Spelled
<1>5. link.path = L!Path(Spelled(p, a, secureBoot), <<>>)
  BY <1>2 DEF PXELink
<1>6. link.path.words = Spelled(p, a, secureBoot)
  BY <1>5 DEF L!Path
<1> HIDE DEF spell, b
<1>7. next = [link EXCEPT !.path.words = Spelled(p, b, secureBoot)]
  BY <1>1, <1>4, <1>6
<1>8. next = PXELink(link.version, p, b, secureBoot)
  <2> DEFINE from == Spelled(p, a, secureBoot)
             to == Spelled(p, b, secureBoot)
             sold == [kind |-> "cmdline", platform |-> p, arch |-> Meant(a), secureBoot |-> secureBoot]
             version == link.version
             before == [words |-> from, suffixes |-> <<>>]
             after == [words |-> to, suffixes |-> <<>>]
             yes == TRUE
             drawn(path) == [route |-> "pxe", version |-> version, path |-> path, listed |-> yes, offer |-> sold]
  <2>1. link = drawn(before)
    BY <1>2 DEF PXELink, L!Path
  <2>2. PXELink(version, p, b, secureBoot) = drawn(after)
    BY <1>3 DEF PXELink, L!Path
  <2>3. next = [link EXCEPT !.path.words = to]
    BY <1>7
  <2> HIDE DEF from, to, sold, version
  <2>4. [before EXCEPT !.words = to] = after
    OBVIOUS
  <2>5. drawn(before).path = before
    OBVIOUS
  <2> HIDE DEF before, after, yes
  <2>6. [drawn(before) EXCEPT !.path.words = to] = drawn(after)
    BY <2>4, <2>5
  <2> HIDE DEF drawn
  <2>7. next = PXELink(version, p, b, secureBoot)
    BY <2>1, <2>2, <2>3, <2>6
  <2> QED BY <2>7 DEF version
<1>9. next.route = "pxe" /\ next.version = link.version
  BY <1>8 DEF PXELink
<1>10. IsPXELink(next)
  BY <1>3, <1>8, <1>9 DEF IsPXELink
<1> QED BY <1>9, <1>10 DEF Resolves


\* The page stays a page of links that resolve, and what is opened is what was offered.
LEMMA LinksInitInv == L!Init => LinksInv
BY DEF L!Init, LinksInv, LinksResolve, L!LinksResolve

LEMMA OpenedAgrees ==
    ASSUME NEW link, NEW profile, link.listed => Agrees(profile, link.offer), opened' = <<link, profile>>
    PROVE  LinksResolve'
BY DEF Agrees, Shows, LinksResolve, L!LinksResolve

LEMMA LinksNextInv == LinksInv /\ [L!Next]_L!vars => LinksInv'
<1> SUFFICES ASSUME LinksInv, [L!Next]_L!vars PROVE LinksInv'
  OBVIOUS
<1>0. LinksResolve /\ \A link \in page : Resolves(link)
  BY DEF LinksInv
<1>1. ASSUME NEW req \in L!Requests, L!Offer(req) PROVE LinksInv'
  BY <1>1, AssetsResolve DEF L!Offer, LinksInv, LinksResolve, L!LinksResolve
<1>2. ASSUME NEW link \in page, L!FollowImage(link) PROVE LinksInv'
  <2>1. link.listed => Agrees(L!ParseArtifactPath(L!SplitArtifactPath(link.path)), link.offer)
    BY <1>0, <1>2 DEF L!FollowImage, Resolves
  <2>2. LinksResolve'
    BY <1>2, <2>1, OpenedAgrees DEF L!FollowImage
  <2> QED BY <1>0, <1>2, <2>2 DEF L!FollowImage, LinksInv
<1>3. ASSUME NEW link \in page, L!FollowPXE(link) PROVE LinksInv'
  <2> DEFINE path == [link.path EXCEPT !.words = <<"cmdline">> \o @]
             profile == L!ParseFromPath(path)
  <2>1. IsPXELink(link)
    BY <1>0, <1>3 DEF L!FollowPXE, Resolves
  <2>2. Agrees(profile, link.offer)
    <3>1. PICK p \in {"metal", "nocloud"}, a \in Machines, secureBoot \in BOOLEAN :
              link = PXELink(link.version, p, a, secureBoot)
      BY <2>1 DEF IsPXELink
    <3>2. link.path = L!Path(Spelled(p, a, secureBoot), <<>>)
      BY <3>1 DEF PXELink
    <3>3. <<"cmdline">> \o Spelled(p, a, secureBoot) = OfCmdline(p, a, secureBoot)
      <4> DEFINE cmdline == "cmdline"
                 sb == "secureboot"
      <4>1. p \in Spelling /\ a \in Spelling /\ cmdline \in Spelling /\ sb \in Spelling /\ p # "ocean"
        BY DEF Spelling, Machines
      <4> HIDE DEF cmdline, sb
      <4>2. <<cmdline>> \o <<p, a>> = <<cmdline, p, a>>
        BY <4>1, Join12
      <4>3. <<cmdline>> \o <<p, a, sb>> = <<cmdline, p, a, sb>>
        BY <4>1, Join13
      <4> QED BY <4>1, <4>2, <4>3 DEF Spelled, OfCmdline, cmdline, sb
    <3>4. path = L!Path(OfCmdline(p, a, secureBoot), <<>>)
      <4>1. link.path.words = Spelled(p, a, secureBoot)
        BY <3>2 DEF L!Path
      <4>2. path = [link.path EXCEPT !.words = OfCmdline(p, a, secureBoot)]
        BY <3>3, <4>1
      <4> HIDE DEF path
      <4> QED BY <3>2, <4>2 DEF L!Path
    <3>5. p \in L!Platforms /\ p # "ocean"
      BY DEF L!Platforms, L!Words
    <3>6. L!Name(L!Words[p]) = p
      BY <3>5, NamesOfPlatforms
    <3> HIDE DEF path
    <3>7. Shows(profile, "cmdline", p, Meant(a), secureBoot)
      BY <3>4, <3>5, <3>6, OpensCmdline
    <3>8. link.offer = [kind |-> "cmdline", platform |-> p, arch |-> Meant(a), secureBoot |-> secureBoot]
      BY <3>1 DEF PXELink
    <3> HIDE DEF profile
    <3> QED BY <3>7, <3>8 DEF Agrees
  <2>3. opened' = <<link, profile>> /\ page' \in {page, L!Script(link, profile)}
    BY <1>3 DEF L!FollowPXE
  <2> HIDE DEF profile
  <2>4. LinksResolve'
    BY <2>2, <2>3, OpenedAgrees
  <2>5. \A next \in page' : Resolves(next)
    BY <1>0, <2>1, <2>2, <2>3, ScriptResolves
  <2> QED BY <2>4, <2>5 DEF LinksInv
<1>4. ASSUME NEW link \in page, L!Substitute(link) PROVE LinksInv'
  <2>1. \A next \in page' : Resolves(next)
    BY <1>0, <1>4, SubstitutedResolves
  <2>2. LinksResolve'
    BY <1>0, <1>4 DEF L!Substitute, LinksResolve, L!LinksResolve
  <2> QED BY <2>1, <2>2 DEF LinksInv
<1>5. ASSUME NEW link \in page, NEW arch \in L!Arches, L!PullInstaller(link, arch) PROVE LinksInv'
  <2>1. Agrees(InstallerOf(link), link.offer)
    BY <1>0, <1>5 DEF L!PullInstaller, Resolves
  <2>2. opened' = <<link, InstallerOf(link)>>
    BY <1>5 DEF L!PullInstaller, InstallerOf
  <2>3. LinksResolve'
    BY <2>1, <2>2, OpenedAgrees
  <2> QED BY <1>0, <1>5, <2>3 DEF L!PullInstaller, LinksInv
<1>6. CASE UNCHANGED L!vars
  BY <1>0, <1>6 DEF L!vars, LinksInv, LinksResolve, L!LinksResolve
<1> QED BY <1>1, <1>2, <1>3, <1>4, <1>5, <1>6 DEF L!Next

\* Every link of a page (but for a board's image of a version that is not listed
\* for boards), of a PXE script or in an iPXE client's spelling of it resolves to
\* what it was offered as: whoever spells the names (Links.Assets, PXEHandler.Serve)
\* and whoever parses them (ParseFromPath) agree.
THEOREM LinksLeadWhereTheySay == L!Spec => []LinksResolve
<1>1. LinksInv => LinksResolve
  BY DEF LinksInv
<1> QED BY <1>1, LinksInitInv, LinksNextInv, PTL DEF L!Spec

----------------------------------------------------------------------------
(* The whole *)

\* Whichever part the service is seen from, what it serves is what was asked
\* for: the read-back of an SBOM, the VEX data of a scan, the key of an asset and
\* the links of the page, for any number of replicas, clients and restarts.
THEOREM ContentSafe ==
    ContentSpec => [](/\ TagIsSigned /\ ReadBackFinds
                      /\ VEXIsVerified
                      /\ KeyNamesAsset /\ KeySurvivesRestart
                      /\ LinksResolve)
<1> DEFINE CInv == IInv /\ VEXInv /\ KeysInv /\ LinksInv
<1>1. ContentInit => CInv
  BY InitInv, VEXInitInv, KeysInitInv, LinksInitInv DEF ContentInit
<1>2. [ContentNext]_allVars => [Next]_vars /\ [V!Next]_V!vars /\ [K!Next]_K!vars /\ [L!Next]_L!vars
  BY DEF ContentNext, allVars, vexVars, keyVars, linkVars, V!vars, K!vars, L!vars
<1>3. CInv /\ [ContentNext]_allVars => CInv'
  BY <1>2, NextInv, VEXNextInv, KeysNextInv, LinksNextInv
<1>4. IInv => TagIsSigned /\ ReadBackFinds
  BY DEF IInv
<1>5. VEXInv => VEXIsVerified
  BY DEF VEXInv, VEXIsVerified
<1>6. KeysInv => KeyNamesAsset /\ KeySurvivesRestart
  BY SameKeySameContents, SameRequestSameKey
     DEF KeysInv, KeyNamesAsset, K!KeyNamesAsset, KeySurvivesRestart, K!KeySurvivesRestart
<1>7. LinksInv => LinksResolve
  BY DEF LinksInv
<1> HIDE DEF CInv
<1>8. CInv => /\ TagIsSigned /\ ReadBackFinds
              /\ VEXIsVerified
              /\ KeyNamesAsset /\ KeySurvivesRestart
              /\ LinksResolve
  BY <1>4, <1>5, <1>6, <1>7 DEF CInv
<1> QED BY <1>1, <1>3, <1>8, PTL DEF ContentSpec
=============================================================================
