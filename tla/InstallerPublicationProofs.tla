-------------------- MODULE InstallerPublicationProofs --------------------
(***************************************************************************)
(* The version tag of an installer image, its signature and every redirect *)
(* stand for a complete index, for any number of replicas and clients.     *)
(*                                                                         *)
(* The registry only ever gains objects, so what a publication has checked *)
(* stays true; the invariant records what a flight has checked when it is  *)
(* at each of its steps.                                                   *)
(***************************************************************************)
EXTENDS InstallerPublication, TLAPS

\* What the flight of a replica knows of the index it publishes.
FlightInv ==
    \A r \in Replicas :
        LET f == flight[r]
        IN /\ f.step \in FlightSteps \ {"idle", "build"} => f.digest \in Digests
           /\ f.step \in FlightSteps \ {"idle", "build", "stage"} =>
                 <<f.digest, "index">> \in pushed
           /\ f.step \in {"sign", "verifySignature", "promote"} =>
                 \A p \in Required : <<f.digest, p>> \in visible
           /\ f.step = "promote" => <<f.digest, "signature">> \in visible

\* What a request knows of the digest it read from the tag.
ClientInv ==
    \A c \in Clients :
        /\ client[c].step = "verify" => client[c].digest \in Digests
        /\ client[c].result = "redirect" => client[c].digest \in Digests

IInv ==
    /\ TypeOK
    /\ FlightInv
    /\ ClientInv
    /\ SignatureIsCompletion
    /\ PromotedIsComplete
    /\ RedirectIsComplete

\* Objects are never taken back, so a complete index stays complete.
LEMMA CompleteStays ==
    ASSUME NEW d, pushed \subseteq pushed', visible \subseteq visible', Complete(d)
    PROVE  Complete(d)'
BY DEF Complete, Required

LEMMA InitInv == Init => IInv
<1> SUFFICES ASSUME Init PROVE IInv
  OBVIOUS
<1>1. TypeOK
  BY DEF Init, TypeOK, NoFlight, Flights, FlightSteps, Requests, ClientSteps
<1>2. FlightInv
  BY DEF Init, FlightInv, NoFlight
<1>3. ClientInv /\ RedirectIsComplete
  BY DEF Init, ClientInv, RedirectIsComplete
<1>4. SignatureIsCompletion /\ PromotedIsComplete
  BY DEF Init, SignatureIsCompletion, PromotedIsComplete
<1> QED BY <1>1, <1>2, <1>3, <1>4 DEF IInv

---------------------------------------------------------------------------
(* Type correctness *)

LEMMA EndedType ==
    ASSUME NEW cl \in Requests, NEW d \in Digests \cup {NoDigest},
           NEW result \in {"redirect", "failed", "canceled"}
    PROVE  Ended(cl, result, d) \in Requests
BY DEF Ended, Requests, ClientSteps

LEMMA EndFlightType ==
    ASSUME TypeOK, NEW r \in Replicas, NEW result \in {"redirect", "failed"},
           NEW d \in Digests \cup {NoDigest}, EndFlight(r, result, d)
    PROVE  flight' \in [Replicas -> Flights] /\ client' \in [Clients -> Requests]
<1>1. NoFlight \in Flights
  BY DEF NoFlight, Flights, FlightSteps
<1> QED BY <1>1, EndedType DEF TypeOK, EndFlight

LEMMA GotoType ==
    ASSUME TypeOK, NEW r \in Replicas, NEW step \in FlightSteps, Goto(r, step)
    PROVE  flight' \in [Replicas -> Flights] /\ client' \in [Clients -> Requests]
<1>1. ASSUME NEW f \in Flights PROVE [f EXCEPT !.step = step] \in Flights
  BY DEF Flights
<1>2. flight' = [flight EXCEPT ![r] = [flight[r] EXCEPT !.step = step]]
  BY DEF Goto
<1> QED BY <1>1, <1>2 DEF TypeOK, Goto

LEMMA NextType == TypeOK /\ FlightInv /\ [Next]_vars => TypeOK'
<1> SUFFICES ASSUME TypeOK, FlightInv, [Next]_vars PROVE TypeOK'
  OBVIOUS
<1>f. \A r \in Replicas : flight[r] \in Flights
  BY DEF TypeOK
<1>c. \A c \in Clients : client[c] \in Requests
  BY DEF TypeOK
<1>o. ASSUME NEW d \in Digests, NEW p \in Parts PROVE <<d, p>> \in Objects
  BY DEF Objects
<1>1. CASE UNCHANGED vars
  BY <1>1 DEF vars, TypeOK
<1>2. ASSUME NEW c \in Clients, NEW r \in Replicas, Request(c, r) PROVE TypeOK'
  BY <1>2 DEF Request, Registry, TypeOK, Requests, ClientSteps
<1>3. ASSUME NEW c \in Clients, ClientStep(c) \/ Cancel(c) PROVE TypeOK'
  <2>1. ASSUME NEW step \in ClientSteps, ToStep(c, step)
        PROVE  client' \in [Clients -> Requests]
    <3>1. [client[c] EXCEPT !.step = step] \in Requests
      BY <1>c DEF Requests
    <3>2. client' = [client EXCEPT ![c] = [client[c] EXCEPT !.step = step]]
      BY <2>1 DEF ToStep
    <3> QED BY <3>1, <3>2 DEF TypeOK
  <2>2. ASSUME NEW d \in Digests \cup {NoDigest}, NEW res \in {"redirect", "failed", "canceled"},
               End(c, res, d)
        PROVE  client' \in [Clients -> Requests]
    BY <2>2, EndedType DEF End, TypeOK
  <2>3. CASE HeadTag(c)
    <3>1. CASE tag = NoDigest
      BY <2>1, <2>3, <3>1 DEF HeadTag, Registry, TypeOK, ClientSteps
    <3>2. CASE tag # NoDigest
      <4>1. [client[c] EXCEPT !.step = "verify", !.digest = tag] \in Requests
        BY <1>c DEF Requests, ClientSteps, TypeOK
      <4>2. client' = [client EXCEPT ![c] = [client[c] EXCEPT !.step = "verify", !.digest = tag]]
        BY <2>3, <3>2 DEF HeadTag
      <4> QED BY <2>3, <4>1, <4>2 DEF HeadTag, Registry, TypeOK
    <3> QED BY <3>1, <3>2
  <2>4. CASE HeadFails(c)
    BY <2>2, <2>4 DEF HeadFails, Fault, Registry, TypeOK
  <2>5. CASE VerifyCached(c)
    <3>1. client[c].digest \in Digests \cup {NoDigest}
      BY <1>c DEF Requests
    <3> QED BY <2>1, <2>2, <2>5, <3>1 DEF VerifyCached, Registry, TypeOK, ClientSteps
  <2>6. CASE VerifyCachedFails(c)
    BY <2>1, <2>6 DEF VerifyCachedFails, Fault, Registry, TypeOK, ClientSteps
  <2>7. CASE Join(c)
    <3> DEFINE r == client[c].at
               g == [step    |-> IF flight[r].step = "idle" THEN "build" ELSE flight[r].step,
                     digest  |-> flight[r].digest, todo |-> flight[r].todo,
                     waiters |-> flight[r].waiters \cup {c}]
    <3>1. r \in Replicas
      BY <1>c DEF Requests
    <3>2. g \in Flights
      BY <1>f, <3>1 DEF Flights, FlightSteps
    <3>3. flight' = [flight EXCEPT ![r] = g]
      BY <2>7 DEF Join
    <3> HIDE DEF g
    <3>4. flight' \in [Replicas -> Flights]
      BY <3>1, <3>2, <3>3 DEF TypeOK
    <3> QED BY <2>1, <2>7, <3>4 DEF Join, Registry, TypeOK, ClientSteps
  <2>8. CASE Cancel(c)
    <3> DEFINE r == client[c].at
               g == [flight[r] EXCEPT !.waiters = @ \ {c}]
    <3>1. r \in Replicas
      BY <1>c DEF Requests
    <3>2. g \in Flights
      BY <1>f, <3>1 DEF Flights
    <3>3. flight' = [flight EXCEPT ![r] = g]
      BY <2>8 DEF Cancel
    <3> HIDE DEF g
    <3>4. flight' \in [Replicas -> Flights]
      BY <3>1, <3>2, <3>3 DEF TypeOK
    <3> QED BY <2>2, <2>8, <3>4 DEF Cancel, Registry, TypeOK
  <2> QED BY <1>3, <2>3, <2>4, <2>5, <2>6, <2>7, <2>8 DEF ClientStep
<1>4. ASSUME NEW r \in Replicas, FlightStep(r) \/ FlightFails(r) PROVE TypeOK'
  <2>1. flight[r].step \in FlightSteps \ {"idle", "build"} => flight[r].digest \in Digests
    BY DEF FlightInv
  <2>2. ASSUME NEW part \in Parts, flight[r].digest \in Digests, Push({<<flight[r].digest, part>>})
        PROVE  pushed' \in SUBSET Objects /\ pushed \subseteq pushed'
    BY <1>o, <2>2 DEF Push, TypeOK
  <2>3. CASE Build(r)
    <3>1. PICK d \in Digests :
             flight' = [flight EXCEPT ![r] = [flight[r] EXCEPT !.step = "stage", !.digest = d]]
      BY <2>3 DEF Build
    <3>2. [flight[r] EXCEPT !.step = "stage", !.digest = d] \in Flights
      BY <1>f DEF Flights, FlightSteps
    <3> QED BY <2>3, <3>1, <3>2 DEF Build, Registry, TypeOK
  <2>4. CASE Stage(r)
    <3> DEFINE next == IF WithEvidence THEN "attest" ELSE "sign"
               g == [flight[r] EXCEPT !.step = next, !.todo = Platforms]
    <3>1. g \in Flights
      BY <1>f DEF Flights, FlightSteps
    <3>2. flight' = [flight EXCEPT ![r] = g]
      BY <2>4 DEF Stage
    <3>3. flight[r].digest \in Digests
      BY <2>1, <2>4 DEF Stage, At, FlightSteps
    <3>4. pushed' \in SUBSET Objects /\ pushed \subseteq pushed'
      BY <2>2, <2>4, <3>3 DEF Stage, Parts
    <3> HIDE DEF g
    <3> QED BY <2>4, <3>1, <3>2, <3>4 DEF Stage, TypeOK
  <2>5. CASE AttestPlatform(r)
    <3>1. PICK p \in flight[r].todo :
             /\ Push({<<flight[r].digest, p>>})
             /\ flight' = [flight EXCEPT ![r] = [flight[r] EXCEPT !.todo = @ \ {p}]]
      BY <2>5 DEF AttestPlatform
    <3>2. p \in Parts /\ [flight[r] EXCEPT !.todo = @ \ {p}] \in Flights
      BY <1>f DEF Flights, Parts
    <3>3. flight[r].digest \in Digests
      BY <2>1, <2>5 DEF AttestPlatform, At, FlightSteps
    <3>4. pushed' \in SUBSET Objects /\ pushed \subseteq pushed'
      BY <2>2, <3>1, <3>2, <3>3
    <3> QED BY <2>5, <3>1, <3>2, <3>4 DEF AttestPlatform, TypeOK
  <2>6. CASE AttestProvenance(r)
    <3>1. flight[r].digest \in Digests
      BY <2>1, <2>6 DEF AttestProvenance, At, FlightSteps
    <3>2. pushed' \in SUBSET Objects /\ pushed \subseteq pushed'
      BY <2>2, <2>6, <3>1 DEF AttestProvenance, Parts
    <3> QED BY <2>6, <3>2, GotoType DEF AttestProvenance, TypeOK, FlightSteps
  <2>7. CASE VerifyEvidence(r) \/ VerifySignature(r)
    BY <2>7, GotoType DEF VerifyEvidence, VerifySignature, Registry, TypeOK, FlightSteps
  <2>8. CASE Sign(r)
    <3>1. flight[r].digest \in Digests
      BY <2>1, <2>8 DEF Sign, At, FlightSteps
    <3>2. pushed' \in SUBSET Objects /\ pushed \subseteq pushed'
      BY <2>2, <2>8, <3>1 DEF Sign, Parts
    <3> QED BY <2>8, <3>2, GotoType DEF Sign, TypeOK, FlightSteps
  <2>9. CASE Promote(r)
    <3>1. flight[r].digest \in Digests
      BY <2>1, <2>9 DEF Promote, At, FlightSteps
    <3> QED BY <2>9, <3>1, EndFlightType DEF Promote, TypeOK
  <2>10. CASE FlightFails(r)
    BY <2>10, EndFlightType DEF FlightFails, Fault, Registry, TypeOK
  <2> QED
    BY <1>4, <2>3, <2>4, <2>5, <2>6, <2>7, <2>8, <2>9, <2>10 DEF FlightStep
<1>5. ASSUME NEW r \in Replicas, Crash(r) PROVE TypeOK'
  <2>1. flight' \in [Replicas -> Flights]
    BY <1>5 DEF Crash, TypeOK, NoFlight, Flights, FlightSteps
  <2>2. client' \in [Clients -> Requests]
    BY <1>5, EndedType DEF Crash, TypeOK
  <2> QED BY <1>5, <2>1, <2>2 DEF Crash, Fault, Registry, TypeOK
<1>6. ASSUME NEW o \in Objects, Appear(o) PROVE TypeOK'
  BY <1>6 DEF Appear, TypeOK
<1> QED BY <1>1, <1>2, <1>3, <1>4, <1>5, <1>6 DEF Next

---------------------------------------------------------------------------
(* The invariant *)

\* What every step may do: the registry grows, a new signature comes with a
\* complete index behind it, the tag moves to a complete index, and a flight
\* or a request that changes knows what its new step requires.
LEMMA FlightStepGrows ==
    ASSUME IInv, NEW r \in Replicas, FlightStep(r)
    PROVE  pushed \subseteq pushed' /\ visible' = visible /\ (tag' = tag \/ Promote(r))
BY DEF FlightStep, Build, Stage, AttestPlatform, AttestProvenance, VerifyEvidence, Sign,
       VerifySignature, Promote, Push, Registry

LEMMA NextSignature == IInv /\ [Next]_vars => SignatureIsCompletion'
<1> SUFFICES ASSUME IInv, [Next]_vars PROVE SignatureIsCompletion'
  OBVIOUS
<1>1. ASSUME pushed' = pushed, visible \subseteq visible' PROVE SignatureIsCompletion'
  BY <1>1 DEF IInv, SignatureIsCompletion, Required
<1>2. ASSUME NEW d, NEW p, p # "signature", Push({<<d, p>>}), visible' = visible
      PROVE  SignatureIsCompletion'
  BY <1>2 DEF Push, IInv, SignatureIsCompletion, Required
<1>3. CASE UNCHANGED vars
  BY <1>1, <1>3 DEF vars
<1>4. CASE \E c \in Clients, r \in Replicas : Request(c, r)
  BY <1>1, <1>4 DEF Request, Registry
<1>5. CASE \E c \in Clients : ClientStep(c) \/ Cancel(c)
  BY <1>1, <1>5 DEF ClientStep, HeadTag, HeadFails, VerifyCached, VerifyCachedFails, Join,
                    Cancel, Registry
<1>6. ASSUME NEW r \in Replicas, FlightStep(r) PROVE SignatureIsCompletion'
  <2>1. CASE Build(r) \/ VerifyEvidence(r) \/ VerifySignature(r) \/ Promote(r)
    BY <1>1, <2>1 DEF Build, VerifyEvidence, VerifySignature, Promote, Registry
  <2>2. CASE Stage(r) \/ AttestProvenance(r)
    BY <1>2, <2>2 DEF Stage, AttestProvenance
  <2>3. CASE AttestPlatform(r)
    <3>1. flight[r].todo \subseteq Platforms
      BY DEF IInv, TypeOK, Flights
    <3> QED BY <1>2, <2>3, <3>1, PublicationAssumption DEF AttestPlatform
  <2>4. CASE Sign(r)
    BY <2>4 DEF Sign, At, Push, IInv, FlightInv, SignatureIsCompletion, Required, FlightSteps
  <2> QED BY <1>6, <2>1, <2>2, <2>3, <2>4 DEF FlightStep
<1>7. CASE \E r \in Replicas : FlightFails(r) \/ Crash(r)
  BY <1>1, <1>7 DEF FlightFails, Crash, Registry
<1>8. CASE \E o \in Objects : Appear(o)
  BY <1>1, <1>8 DEF Appear
<1> QED BY <1>3, <1>4, <1>5, <1>6, <1>7, <1>8 DEF Next

\* A signature readers find means the index is complete.
LEMMA SignedIsComplete ==
    ASSUME IInv, NEW d \in Digests, <<d, "signature">> \in visible
    PROVE  Complete(d)
BY DEF IInv, TypeOK, SignatureIsCompletion, Complete

LEMMA NextGrows == IInv /\ [Next]_vars => pushed \subseteq pushed' /\ visible \subseteq visible'
<1> SUFFICES ASSUME IInv, [Next]_vars PROVE pushed \subseteq pushed' /\ visible \subseteq visible'
  OBVIOUS
<1>1. CASE UNCHANGED vars
  BY <1>1 DEF vars
<1>2. CASE Next
  BY <1>2, FlightStepGrows DEF Next, Request, ClientStep, HeadTag, HeadFails, VerifyCached,
     VerifyCachedFails, Join, Cancel, FlightFails, Crash, Appear, Registry
<1> QED BY <1>1, <1>2

LEMMA NextTag == IInv /\ [Next]_vars => PromotedIsComplete'
<1> SUFFICES ASSUME IInv, [Next]_vars PROVE PromotedIsComplete'
  OBVIOUS
<1>1. pushed \subseteq pushed' /\ visible \subseteq visible'
  BY NextGrows
<1>2. CASE tag' = tag
  BY <1>1, <1>2, CompleteStays DEF IInv, PromotedIsComplete
<1>3. ASSUME NEW r \in Replicas, Promote(r) PROVE PromotedIsComplete'
  <2>1. PICK d \in Digests : d = flight[r].digest
    BY <1>3 DEF Promote, At, IInv, FlightInv, FlightSteps
  <2>2. Complete(d)
    BY <1>3, <2>1, SignedIsComplete DEF Promote, At, IInv, FlightInv
  <2>3. Complete(d)' /\ tag' = d
    BY <1>1, <1>3, <2>1, <2>2, CompleteStays DEF Promote
  <2> QED BY <2>3 DEF PromotedIsComplete
<1>4. tag' = tag \/ \E r \in Replicas : Promote(r)
  BY FlightStepGrows DEF Next, vars, Request, ClientStep, HeadTag, HeadFails, VerifyCached,
     VerifyCachedFails, Join, Cancel, FlightFails, Crash, Appear, Registry
<1> QED BY <1>2, <1>3, <1>4

\* The digests of complete indexes.
CompleteDigests == {d \in Digests : Complete(d)}

LEMMA CompleteDigestsStay == IInv /\ [Next]_vars => CompleteDigests \subseteq CompleteDigests'
BY NextGrows, CompleteStays DEF CompleteDigests

\* A request that ends with a redirect was told a complete digest: by the
\* signature it verified, or by the flight that promoted it.
LEMMA NextClient == IInv /\ [Next]_vars => ClientInv' /\ RedirectIsComplete'
<1> SUFFICES ASSUME IInv, [Next]_vars PROVE ClientInv' /\ RedirectIsComplete'
  OBVIOUS
<1> DEFINE good(c) == /\ client'[c].step = "verify" => client'[c].digest \in Digests
                      /\ client'[c].result = "redirect" => client'[c].digest \in CompleteDigests
<1>1. /\ CompleteDigests \subseteq Digests
      /\ \A c \in Clients : client[c].result = "redirect" => client[c].digest \in CompleteDigests
  BY DEF IInv, ClientInv, RedirectIsComplete, CompleteDigests
<1>2. SUFFICES \A c \in Clients : good(c)
  <2>1. CompleteDigests \subseteq CompleteDigests'
    BY CompleteDigestsStay
  <2>2. ASSUME NEW c \in Clients, client'[c].result = "redirect"
        PROVE  client'[c].digest \in Digests /\ Complete(client[c].digest)'
    <3>1. client'[c].digest \in CompleteDigests'
      BY <1>2, <2>1, <2>2
    <3> QED BY <3>1 DEF CompleteDigests, Complete
  <2> QED BY <1>2, <2>2 DEF ClientInv, RedirectIsComplete
<1>3. ASSUME NEW c \in Clients, client'[c] = client[c] PROVE good(c)
  BY <1>1, <1>3 DEF IInv, ClientInv
<1>4. \A c, d : \A result \in {"failed", "canceled"} :
         LET e == Ended(client[c], result, d)
         IN e.step = "done" /\ e.result = result
  BY DEF Ended
<1>5. CASE UNCHANGED client
  BY <1>3, <1>5
<1>6. ASSUME NEW c \in Clients, NEW r \in Replicas, Request(c, r) PROVE \A d \in Clients : good(d)
  <2>1. client'[c].step = "head" /\ client'[c].result = "none"
    BY <1>6 DEF Request, IInv, TypeOK
  <2>2. \A d \in Clients : d # c => client'[d] = client[d]
    BY <1>6 DEF Request, IInv, TypeOK
  <2> QED BY <1>3, <2>1, <2>2
<1>7. ASSUME NEW c \in Clients, ClientStep(c) \/ Cancel(c) PROVE \A d \in Clients : good(d)
  <2>1. \A d \in Clients : d # c => client'[d] = client[d]
    BY <1>7 DEF ClientStep, HeadTag, HeadFails, VerifyCached, VerifyCachedFails, Join, Cancel,
                ToStep, End, IInv, TypeOK
  <2> SUFFICES good(c)
    BY <1>3, <2>1
  <2>2. client[c] \in Requests
    BY DEF IInv, TypeOK
  <2>3. ASSUME NEW step \in ClientSteps \ {"verify"}, ToStep(c, step) PROVE good(c)
    <3>1. client'[c] = [client[c] EXCEPT !.step = step]
      BY <2>3 DEF ToStep, IInv, TypeOK
    <3>2. /\ client'[c].step = step /\ client'[c].digest = client[c].digest
          /\ client'[c].result = client[c].result
      BY <2>2, <3>1 DEF Requests
    <3> QED BY <1>1, <3>2
  <2>4. CASE HeadTag(c)
    <3>1. CASE tag = NoDigest
      BY <2>3, <2>4, <3>1 DEF HeadTag, ClientSteps
    <3>2. CASE tag # NoDigest
      <4>1. client'[c] = [client[c] EXCEPT !.step = "verify", !.digest = tag]
        BY <2>4, <3>2 DEF HeadTag, IInv, TypeOK
      <4>2. /\ client'[c].digest = tag /\ client'[c].result = client[c].result
            /\ tag \in CompleteDigests
        BY <2>2, <3>2, <4>1
           DEF Requests, IInv, TypeOK, PromotedIsComplete, CompleteDigests
      <4> QED BY <1>1, <4>2
    <3> QED BY <3>1, <3>2
  <2>5. CASE VerifyCached(c)
    <3>1. CASE <<client[c].digest, "signature">> \in visible
      <4>1. client'[c] = Ended(client[c], "redirect", client[c].digest)
        BY <2>5, <3>1 DEF VerifyCached, End, IInv, TypeOK
      <4>2. client'[c].digest = client[c].digest /\ client'[c].step = "done"
        BY <4>1 DEF Ended
      <4>3. client[c].digest \in Digests
        BY <2>5 DEF VerifyCached, IInv, ClientInv
      <4>4. client[c].digest \in CompleteDigests
        BY <3>1, <4>3, SignedIsComplete DEF CompleteDigests
      <4> QED BY <4>2, <4>3, <4>4
    <3>2. CASE <<client[c].digest, "signature">> \notin visible
      BY <2>3, <2>5, <3>2 DEF VerifyCached, ClientSteps
    <3> QED BY <3>1, <3>2
  <2>6. CASE HeadFails(c) \/ Cancel(c)
    <3>1. \E result \in {"failed", "canceled"} : client'[c] = Ended(client[c], result, NoDigest)
      BY <2>6 DEF HeadFails, Cancel, End, IInv, TypeOK
    <3> QED BY <1>4, <3>1
  <2>7. CASE VerifyCachedFails(c) \/ Join(c)
    BY <2>3, <2>7 DEF VerifyCachedFails, Join, ClientSteps
  <2> QED BY <1>7, <2>4, <2>5, <2>6, <2>7 DEF ClientStep
<1>8. ASSUME NEW r \in Replicas, Promote(r) PROVE \A c \in Clients : good(c)
  <2>1. flight[r].digest \in CompleteDigests
    BY <1>8, SignedIsComplete DEF Promote, At, IInv, FlightInv, FlightSteps, CompleteDigests
  <2> SUFFICES ASSUME NEW c \in Clients PROVE good(c)
    OBVIOUS
  <2>2. CASE c \in flight[r].waiters
    <3>1. client'[c] = Ended(client[c], "redirect", flight[r].digest)
      BY <1>8, <2>2 DEF Promote, EndFlight
    <3>2. client'[c].digest = flight[r].digest /\ client'[c].step = "done"
      BY <3>1 DEF Ended
    <3> QED BY <2>1, <3>2
  <2>3. CASE c \notin flight[r].waiters
    BY <1>3, <1>8, <2>3 DEF Promote, EndFlight
  <2> QED BY <2>2, <2>3
<1>9. ASSUME NEW r \in Replicas, FlightStep(r), ~Promote(r) PROVE UNCHANGED client
  BY <1>9 DEF FlightStep, Build, Stage, AttestPlatform, AttestProvenance, VerifyEvidence, Sign,
              VerifySignature, Goto
<1>10. ASSUME NEW r \in Replicas, FlightFails(r) \/ Crash(r) PROVE \A c \in Clients : good(c)
  <2> SUFFICES ASSUME NEW c \in Clients PROVE good(c)
    OBVIOUS
  <2>1. client'[c] = client[c] \/ client'[c] = Ended(client[c], "failed", NoDigest)
    BY <1>10 DEF FlightFails, Crash, EndFlight
  <2> QED BY <1>3, <1>4, <2>1
<1>11. ASSUME NEW o \in Objects, Appear(o) PROVE UNCHANGED client
  BY <1>11 DEF Appear
<1> QED BY <1>5, <1>6, <1>7, <1>8, <1>9, <1>10, <1>11 DEF Next, vars

\* A flight that moves on knows what its next step needs; the others forget
\* nothing, since the registry only grows.
LEMMA NextFlight == IInv /\ [Next]_vars => FlightInv'
<1> SUFFICES ASSUME IInv, [Next]_vars, NEW q \in Replicas
             PROVE  LET f == flight'[q]
                    IN /\ f.step \in FlightSteps \ {"idle", "build"} => f.digest \in Digests
                       /\ f.step \in FlightSteps \ {"idle", "build", "stage"} =>
                             <<f.digest, "index">> \in pushed'
                       /\ f.step \in {"sign", "verifySignature", "promote"} =>
                             \A p \in Required : <<f.digest, p>> \in visible'
                       /\ f.step = "promote" => <<f.digest, "signature">> \in visible'
  BY DEF FlightInv, Required
<1> DEFINE g == flight'[q]
<1>1. pushed \subseteq pushed' /\ visible \subseteq visible'
  BY NextGrows
<1>2. flight[q] \in Flights
  BY DEF IInv, TypeOK
<1>3. CASE g.step = flight[q].step /\ g.digest = flight[q].digest
  BY <1>1, <1>3 DEF IInv, FlightInv
<1>4. CASE g.step \in {"idle", "build"}
  BY <1>4
<1>5. CASE UNCHANGED flight
  BY <1>3, <1>5
<1>6. ASSUME NEW c \in Clients, ClientStep(c) \/ Cancel(c)
      PROVE  (g.step = flight[q].step /\ g.digest = flight[q].digest) \/ g.step = "build"
  <2>1. CASE Join(c) /\ client[c].at = q
    <3>1. client[c].at \in Replicas
      BY <2>1
    <3>2. g = [step |-> IF flight[q].step = "idle" THEN "build" ELSE flight[q].step,
               digest |-> flight[q].digest, todo |-> flight[q].todo,
               waiters |-> flight[q].waiters \cup {c}]
      BY <2>1, <3>1 DEF Join, IInv, TypeOK
    <3> QED BY <3>2
  <2>2. CASE Cancel(c) /\ client[c].at = q
    <3>1. g = [flight[q] EXCEPT !.waiters = @ \ {c}]
      BY <2>2 DEF Cancel, IInv, TypeOK
    <3> QED BY <1>2, <3>1 DEF Flights
  <2>3. CASE client[c].at # q \/ ~(Join(c) \/ Cancel(c))
    <3>1. g = flight[q]
      BY <1>6, <2>3 DEF ClientStep, HeadTag, HeadFails, VerifyCached, VerifyCachedFails, Join,
                        Cancel, IInv, TypeOK
    <3> QED BY <3>1
  <2> QED BY <1>6, <2>1, <2>2, <2>3
<1>7. ASSUME NEW r \in Replicas, r # q, FlightStep(r) \/ FlightFails(r) \/ Crash(r)
      PROVE  g = flight[q]
  BY <1>7 DEF FlightStep, Build, Stage, AttestPlatform, AttestProvenance, VerifyEvidence, Sign,
              VerifySignature, Promote, FlightFails, Crash, Goto, EndFlight, IInv, TypeOK
<1>8. CASE FlightFails(q) \/ Crash(q) \/ Promote(q)
  <2>1. g = NoFlight
    BY <1>8 DEF FlightFails, Crash, Promote, EndFlight, IInv, TypeOK
  <2> QED BY <1>4, <2>1 DEF NoFlight
<1>9. CASE Build(q)
  <2>1. PICK d \in Digests : flight' = [flight EXCEPT ![q] = [flight[q] EXCEPT !.step = "stage", !.digest = d]]
    BY <1>9 DEF Build
  <2>2. g = [flight[q] EXCEPT !.step = "stage", !.digest = d]
    BY <2>1 DEF IInv, TypeOK
  <2>3. g.step = "stage" /\ g.digest = d
    BY <1>2, <2>2 DEF Flights
  <2> QED BY <2>3
<1>10. CASE Stage(q)
  <2>1. /\ g.step = IF WithEvidence THEN "attest" ELSE "sign"
        /\ g.digest = flight[q].digest
    <3>1. g = [flight[q] EXCEPT !.step = IF WithEvidence THEN "attest" ELSE "sign", !.todo = Platforms]
      BY <1>10 DEF Stage, IInv, TypeOK
    <3> QED BY <1>2, <3>1 DEF Flights
  <2>2. g.digest \in Digests /\ <<g.digest, "index">> \in pushed'
    <3>1. flight[q].digest \in Digests
      BY <1>10 DEF Stage, At, IInv, FlightInv, FlightSteps
    <3> QED BY <1>10, <2>1, <3>1 DEF Stage, Push
  <2> QED BY <2>1, <2>2, PublicationAssumption DEF Required
<1>11. CASE AttestPlatform(q)
  <2>1. PICK p \in flight[q].todo : flight' = [flight EXCEPT ![q] = [flight[q] EXCEPT !.todo = @ \ {p}]]
    BY <1>11 DEF AttestPlatform
  <2>2. g = [flight[q] EXCEPT !.todo = @ \ {p}]
    BY <2>1 DEF IInv, TypeOK
  <2>3. g.step = flight[q].step /\ g.digest = flight[q].digest
    BY <1>2, <2>2 DEF Flights
  <2> QED BY <1>3, <2>3
<1>12. ASSUME NEW step \in FlightSteps, Goto(q, step)
       PROVE  g.step = step /\ g.digest = flight[q].digest
  <2>1. g = [flight[q] EXCEPT !.step = step]
    BY <1>12 DEF Goto, IInv, TypeOK
  <2> QED BY <1>2, <2>1 DEF Flights
<1>13. CASE AttestProvenance(q)
  <2>1. g.step = "verifyEvidence" /\ g.digest = flight[q].digest
    BY <1>12, <1>13 DEF AttestProvenance, FlightSteps
  <2> QED BY <1>1, <1>13, <2>1 DEF AttestProvenance, At, IInv, FlightInv, FlightSteps
<1>14. CASE VerifyEvidence(q)
  <2>1. g.step = "sign" /\ g.digest = flight[q].digest
    BY <1>12, <1>14 DEF VerifyEvidence, FlightSteps
  <2> QED BY <1>1, <1>14, <2>1 DEF VerifyEvidence, At, IInv, FlightInv, FlightSteps
<1>15. CASE Sign(q)
  <2>1. g.step = "verifySignature" /\ g.digest = flight[q].digest
    BY <1>12, <1>15 DEF Sign, FlightSteps
  <2> QED BY <1>1, <1>15, <2>1 DEF Sign, At, IInv, FlightInv, FlightSteps
<1>16. CASE VerifySignature(q)
  <2>1. g.step = "promote" /\ g.digest = flight[q].digest
    BY <1>12, <1>16 DEF VerifySignature, FlightSteps
  <2> QED BY <1>1, <1>16, <2>1 DEF VerifySignature, At, IInv, FlightInv, FlightSteps
<1>17. CASE \E r \in Replicas : FlightStep(r) \/ FlightFails(r) \/ Crash(r)
  <2>1. PICK r \in Replicas : FlightStep(r) \/ FlightFails(r) \/ Crash(r)
    BY <1>17
  <2>2. CASE r # q
    BY <1>3, <1>7, <2>1, <2>2
  <2>3. CASE r = q
    BY <1>8, <1>9, <1>10, <1>11, <1>13, <1>14, <1>15, <1>16, <2>1, <2>3 DEF FlightStep
  <2> QED BY <2>2, <2>3
<1>18. CASE (\E c \in Clients, r \in Replicas : Request(c, r)) \/ (\E o \in Objects : Appear(o))
  BY <1>5, <1>18 DEF Request, Appear
<1>19. CASE \E c \in Clients : ClientStep(c) \/ Cancel(c)
  BY <1>3, <1>4, <1>6, <1>19
<1>20. CASE UNCHANGED vars
  BY <1>5, <1>20 DEF vars
<1> QED BY <1>17, <1>18, <1>19, <1>20 DEF Next

LEMMA NextInv == IInv /\ [Next]_vars => IInv'
BY NextType, NextFlight, NextClient, NextSignature, NextTag DEF IInv

---------------------------------------------------------------------------
(* The theorems *)

\* Registry objects, flights and requests are always well formed.
THEOREM TypeCorrect == Spec => []TypeOK
<1>1. IInv => TypeOK
  BY DEF IInv
<1> QED BY InitInv, NextInv, <1>1, PTL DEF Spec

\* Service.Manifest may take a signature as the completion mark: none is ever
\* in the registry before the index and all its evidence are readable.
THEOREM SignatureMarksCompletion == Spec => []SignatureIsCompletion
<1>1. IInv => SignatureIsCompletion
  BY DEF IInv
<1> QED BY InitInv, NextInv, <1>1, PTL DEF Spec

\* PublishInstallerIndex promotes its tag only after all evidence verifies,
\* with any number of replicas publishing the same version at once.
THEOREM TagNamesComplete == Spec => []PromotedIsComplete
<1>1. IInv => PromotedIsComplete
  BY DEF IInv
<1> QED BY InitInv, NextInv, <1>1, PTL DEF Spec

\* Every redirect of Service.Manifest goes to a complete index.
THEOREM RedirectsToComplete == Spec => []RedirectIsComplete
<1>1. IInv => RedirectIsComplete
  BY DEF IInv
<1> QED BY InitInv, NextInv, <1>1, PTL DEF Spec

---------------------------------------------------------------------------
(* Nobody is forgotten *)

Waits(c, r) == client[c].step = "wait" /\ client[c].at = r

\* Who waits at a replica is known to its flight, and the flight runs.
WaitersKnown ==
    /\ \A r \in Replicas, c \in Clients : c \in flight[r].waiters <=> Waits(c, r)
    /\ \A r \in Replicas : flight[r].waiters # {} => flight[r].step # "idle"

\* A flight keeps its waiters, and nobody begins or ends to wait.
LEMMA WaitersStay ==
    ASSUME WaitersKnown,
           \A r \in Replicas : /\ flight'[r].waiters = flight[r].waiters
                               /\ flight'[r].step = "idle" => flight[r].step = "idle",
           \A c \in Clients : \/ client'[c] = client[c]
                              \/ client[c].step # "wait" /\ client'[c].step # "wait"
    PROVE  WaitersKnown'
BY DEF WaitersKnown, Waits

\* The flight of a replica is gone, and nobody waits there.
LEMMA WaitersLeave ==
    ASSUME TypeOK, WaitersKnown, NEW r \in Replicas, flight' = [flight EXCEPT ![r] = NoFlight],
           \A c \in Clients : \/ client'[c] = client[c] /\ ~Waits(c, r)
                              \/ client'[c].step # "wait" /\ (client[c].step = "wait" => client[c].at = r)
    PROVE  WaitersKnown'
<1>1. flight'[r].waiters = {} /\ \A q \in Replicas \ {r} : flight'[q] = flight[q]
  BY DEF TypeOK, NoFlight
<1>2. ASSUME NEW c \in Clients PROVE ~Waits(c, r)' /\ \A q \in Replicas \ {r} : Waits(c, q)' <=> Waits(c, q)
  BY DEF Waits
<1> QED BY <1>1, <1>2 DEF WaitersKnown

LEMMA EndFlightWaiters ==
    ASSUME TypeOK, WaitersKnown, NEW r \in Replicas, NEW result, NEW d, EndFlight(r, result, d)
    PROVE  WaitersKnown'
<1>1. ASSUME NEW c \in Clients, c \in flight[r].waiters
      PROVE  client'[c].step # "wait" /\ client[c].at = r
  BY <1>1 DEF EndFlight, Ended, WaitersKnown, Waits
<1>2. ASSUME NEW c \in Clients, c \notin flight[r].waiters
      PROVE  client'[c] = client[c] /\ ~Waits(c, r)
  BY <1>2 DEF EndFlight, WaitersKnown
<1> QED BY <1>1, <1>2, WaitersLeave DEF EndFlight

LEMMA GotoWaiters ==
    ASSUME TypeOK, WaitersKnown, NEW r \in Replicas, NEW step, step # "idle", Goto(r, step)
    PROVE  WaitersKnown'
<1>1. \A q \in Replicas : /\ flight'[q].waiters = flight[q].waiters
                          /\ flight'[q].step = "idle" => flight[q].step = "idle"
  BY DEF Goto, TypeOK, Flights
<1> QED BY <1>1, WaitersStay DEF Goto

LEMMA WaitersFlight ==
    ASSUME TypeOK, WaitersKnown, NEW r \in Replicas, FlightStep(r) \/ FlightFails(r)
    PROVE  WaitersKnown'
<1>1. CASE Build(r)
  <2>1. \A q \in Replicas : /\ flight'[q].waiters = flight[q].waiters
                            /\ flight'[q].step = "idle" => flight[q].step = "idle"
    BY <1>1 DEF Build, TypeOK, Flights
  <2> QED BY <1>1, <2>1, WaitersStay DEF Build
<1>2. CASE Stage(r)
  <2>1. \A q \in Replicas : /\ flight'[q].waiters = flight[q].waiters
                            /\ flight'[q].step = "idle" => flight[q].step = "idle"
    BY <1>2 DEF Stage, TypeOK, Flights
  <2> QED BY <1>2, <2>1, WaitersStay DEF Stage
<1>3. CASE AttestPlatform(r)
  <2>1. \A q \in Replicas : /\ flight'[q].waiters = flight[q].waiters
                            /\ flight'[q].step = "idle" => flight[q].step = "idle"
    BY <1>3 DEF AttestPlatform, TypeOK, Flights
  <2> QED BY <1>3, <2>1, WaitersStay DEF AttestPlatform
<1>4. CASE AttestProvenance(r) \/ VerifyEvidence(r) \/ Sign(r) \/ VerifySignature(r)
  BY <1>4, GotoWaiters DEF AttestProvenance, VerifyEvidence, Sign, VerifySignature
<1>5. CASE Promote(r) \/ FlightFails(r)
  BY <1>5, EndFlightWaiters DEF Promote, FlightFails
<1> QED BY <1>1, <1>2, <1>3, <1>4, <1>5 DEF FlightStep

LEMMA WaitersClient ==
    ASSUME TypeOK, WaitersKnown, NEW c \in Clients, ClientStep(c) \/ Cancel(c)
    PROVE  WaitersKnown'
<1> DEFINE r == client[c].at
<1>1. client[c] \in Requests /\ r \in Replicas
  BY DEF TypeOK, Requests
<1>2. flight[r] \in Flights
  BY <1>1 DEF TypeOK
<1>3. CASE Join(c)
  <2> DEFINE g == [step    |-> IF flight[r].step = "idle" THEN "build" ELSE flight[r].step,
                   digest  |-> flight[r].digest, todo |-> flight[r].todo,
                   waiters |-> flight[r].waiters \cup {c}]
  <2>1. flight' = [flight EXCEPT ![r] = g]
    BY <1>3 DEF Join
  <2>2. g.waiters = flight[r].waiters \cup {c} /\ g.step # "idle"
    OBVIOUS
  <2> HIDE DEF g
  <2>3. flight'[r] = g /\ \A q \in Replicas \ {r} : flight'[q] = flight[q]
    BY <1>1, <2>1 DEF TypeOK
  <2>4. /\ client'[c].step = "wait" /\ client'[c].at = r /\ client[c].step # "wait"
        /\ \A e \in Clients \ {c} : client'[e] = client[e]
    BY <1>1, <1>3 DEF Join, ToStep, TypeOK, Requests
  <2> HIDE DEF r
  <2> QED BY <1>1, <2>2, <2>3, <2>4 DEF WaitersKnown, Waits
<1>4. CASE Cancel(c)
  <2>1. flight'[r].waiters = flight[r].waiters \ {c} /\ flight'[r].step = flight[r].step
    BY <1>1, <1>2, <1>4 DEF Cancel, TypeOK, Flights
  <2>2. \A q \in Replicas \ {r} : flight'[q] = flight[q]
    BY <1>1, <1>4 DEF Cancel, TypeOK
  <2>3. /\ client'[c].step # "wait" /\ client[c].step = "wait"
        /\ \A e \in Clients \ {c} : client'[e] = client[e]
    BY <1>4 DEF Cancel, End, Ended, TypeOK
  <2>4. \A q \in Replicas \ {r} : c \notin flight[q].waiters
    BY <1>1 DEF WaitersKnown, Waits
  <2> HIDE DEF r
  <2> QED BY <1>1, <2>1, <2>2, <2>3, <2>4 DEF WaitersKnown, Waits
<1>5. CASE ClientStep(c) /\ ~Join(c)
  <2>1. flight' = flight /\ \A e \in Clients \ {c} : client'[e] = client[e]
    BY <1>5 DEF ClientStep, HeadTag, HeadFails, VerifyCached, VerifyCachedFails, ToStep, End, TypeOK
  <2>2. client[c].step # "wait" /\ client'[c].step # "wait"
    <3>1. ASSUME NEW step \in {"join"}, ToStep(c, step) PROVE client'[c].step = step
      BY <1>1, <3>1 DEF ToStep, TypeOK, Requests
    <3>2. ASSUME NEW result, NEW d, End(c, result, d) PROVE client'[c].step = "done"
      BY <3>2 DEF End, Ended, TypeOK
    <3>3. CASE HeadTag(c)
      <4>1. CASE tag = NoDigest
        BY <3>1, <3>3, <4>1 DEF HeadTag
      <4>2. CASE tag # NoDigest
        <5>1. client'[c] = [client[c] EXCEPT !.step = "verify", !.digest = tag]
          BY <3>3, <4>2 DEF HeadTag, TypeOK
        <5> QED BY <1>1, <3>3, <5>1 DEF HeadTag, Requests
      <4> QED BY <4>1, <4>2
    <3>4. CASE HeadFails(c)
      BY <3>2, <3>4 DEF HeadFails
    <3>5. CASE VerifyCached(c)
      BY <3>1, <3>2, <3>5 DEF VerifyCached
    <3>6. CASE VerifyCachedFails(c)
      BY <3>1, <3>6 DEF VerifyCachedFails
    <3> QED BY <1>5, <3>3, <3>4, <3>5, <3>6 DEF ClientStep
  <2> QED BY <2>1, <2>2, WaitersStay
<1> QED BY <1>3, <1>4, <1>5

LEMMA WaitersNext == TypeOK /\ WaitersKnown /\ [Next]_vars => WaitersKnown'
<1> SUFFICES ASSUME TypeOK, WaitersKnown, [Next]_vars PROVE WaitersKnown'
  OBVIOUS
<1>1. CASE UNCHANGED vars \/ \E o \in Objects : Appear(o)
  BY <1>1, WaitersStay DEF vars, Appear
<1>2. ASSUME NEW c \in Clients, NEW r \in Replicas, Request(c, r) PROVE WaitersKnown'
  BY <1>2, WaitersStay DEF Request, TypeOK
<1>3. ASSUME NEW r \in Replicas, Crash(r) PROVE WaitersKnown'
  <2>1. ASSUME NEW c \in Clients
        PROVE  \/ client'[c] = client[c] /\ ~Waits(c, r)
               \/ client'[c].step # "wait" /\ (client[c].step = "wait" => client[c].at = r)
    BY <1>3 DEF Crash, Ended, Waits
  <2> QED BY <1>3, <2>1, WaitersLeave DEF Crash
<1> QED BY <1>1, <1>2, <1>3, WaitersClient, WaitersFlight DEF Next

\* Every client that waits for a build is told by a flight that runs at its
\* replica, whoever joined it, went away or failed before (the channel of
\* sf.DoChan): what the end of all requests rests on.
THEOREM NobodyForgotten == Spec => []WaitersKnown
<1>1. Init => WaitersKnown
  BY DEF Init, WaitersKnown, Waits, NoFlight
<1>2. IInv => TypeOK
  BY DEF IInv
<1> QED BY InitInv, NextInv, WaitersNext, <1>1, <1>2, PTL DEF Spec
=============================================================================
