----------------------- MODULE InstallerPublication -----------------------
(***************************************************************************)
(* Manifest requests for one installer image (one image name, schematic    *)
(* and version tag) and the publication of its index: Service.Manifest and *)
(* PublishInstallerIndex of internal/registry, with the enterprise         *)
(* attestation publisher, for several replicas sharing one registry.       *)
(*                                                                         *)
(* A publication writes objects of an index one after the other: the index *)
(* itself (by digest), an SBOM attestation per platform, the provenance,   *)
(* the signature, and last the version tag.  The registry accepts an       *)
(* object before readers can find it: that lag is what the code's          *)
(* read-after-write verification waits for.                                *)
(***************************************************************************)
EXTENDS Naturals

CONSTANTS Replicas,
          Clients,
          Digests,        \* index digests a build of this image may have
          NoDigest,
          Platforms,      \* platforms of the index, one SBOM each
          WithEvidence,   \* is evidence published for this version?
          MaxRequests,    \* bound: requests of each client
          MaxFaults       \* bound: failures and crashes in a behaviour

ASSUME PublicationAssumption ==
    /\ NoDigest \notin Digests
    /\ WithEvidence \in BOOLEAN
    /\ Platforms \cap {"index", "provenance", "signature"} = {}
    /\ MaxRequests \in Nat /\ MaxFaults \in Nat

VARIABLES pushed,      \* objects the registry has accepted
          visible,     \* objects readers find
          tag,         \* the digest the version tag names
          flight,      \* flight[r]: the build-and-publish flight of replica r
          client,      \* client[c]: the manifest request of client c
          requests, faults

vars == <<pushed, visible, tag, flight, client, requests, faults>>

Parts   == Platforms \cup {"index", "provenance", "signature"}
Objects == Digests \X Parts

FlightSteps == {"idle", "build", "stage", "attest", "verifyEvidence",
                "sign", "verifySignature", "promote"}
ClientSteps == {"idle", "head", "verify", "join", "wait", "done"}

Flights == [step : FlightSteps, digest : Digests \cup {NoDigest},
            todo : SUBSET Platforms, waiters : SUBSET Clients]
Requests == [step : ClientSteps, at : Replicas, digest : Digests \cup {NoDigest},
             result : {"none", "redirect", "failed", "canceled"}]

NoFlight == [step |-> "idle", digest |-> NoDigest, todo |-> {}, waiters |-> {}]

TypeOK ==
    /\ pushed \in SUBSET Objects
    /\ visible \in SUBSET pushed
    /\ tag \in Digests \cup {NoDigest}
    /\ flight \in [Replicas -> Flights]
    /\ client \in [Clients -> Requests]
    /\ requests \in [Clients -> Nat]
    /\ faults \in Nat

Init ==
    /\ pushed = {} /\ visible = {} /\ tag = NoDigest
    /\ flight = [r \in Replicas |-> NoFlight]
    /\ client \in [Clients -> [step : {"idle"}, at : Replicas, digest : {NoDigest},
                               result : {"none"}]]
    /\ requests = [c \in Clients |-> 0]
    /\ faults = 0

Fault == faults < MaxFaults /\ faults' = faults + 1

---------------------------------------------------------------------------
(* Service.Manifest *)

Registry == <<pushed, visible, tag>>

Request(c, r) ==
    /\ client[c].step \in {"idle", "done"}
    /\ requests[c] < MaxRequests
    /\ requests' = [requests EXCEPT ![c] = @ + 1]
    /\ client' = [client EXCEPT ![c] =
                    [step |-> "head", at |-> r, digest |-> NoDigest, result |-> "none"]]
    /\ UNCHANGED <<Registry, flight, faults>>

ToStep(c, step) == client' = [client EXCEPT ![c].step = step]

Ended(cl, result, d) ==
    [step |-> "done", at |-> cl.at, digest |-> d, result |-> result]

End(c, result, d) == client' = [client EXCEPT ![c] = Ended(@, result, d)]

\* Puller.Head of the version tag.
HeadTag(c) ==
    /\ client[c].step = "head"
    /\ IF tag = NoDigest
          THEN ToStep(c, "join")
          ELSE client' = [client EXCEPT ![c].step = "verify", ![c].digest = tag]
    /\ UNCHANGED <<Registry, flight, requests, faults>>

\* Any other answer of the registry than 404 or 403.
HeadFails(c) ==
    /\ client[c].step = "head"
    /\ Fault
    /\ End(c, "failed", NoDigest)
    /\ UNCHANGED <<Registry, flight, requests>>

\* The signature of the tagged digest is what says the image is complete; if
\* it does not verify the image is built again.
VerifyCached(c) ==
    /\ client[c].step = "verify"
    /\ IF <<client[c].digest, "signature">> \in visible
          THEN End(c, "redirect", client[c].digest)
          ELSE ToStep(c, "join")
    /\ UNCHANGED <<Registry, flight, requests, faults>>

VerifyCachedFails(c) ==
    /\ client[c].step = "verify"
    /\ Fault
    /\ ToStep(c, "join")
    /\ UNCHANGED <<Registry, flight, requests>>

\* sf.DoChan of the image's key: one build per replica at a time.
Join(c) ==
    LET r == client[c].at
    IN /\ client[c].step = "join"
       /\ flight' = [flight EXCEPT ![r] =
             [step    |-> IF @.step = "idle" THEN "build" ELSE @.step,
              digest  |-> @.digest, todo |-> @.todo,
              waiters |-> @.waiters \cup {c}]]
       /\ ToStep(c, "wait")
       /\ UNCHANGED <<Registry, requests, faults>>

\* The client goes away while it waits; the build does not notice, its
\* context is detached from the request's cancellation.
Cancel(c) ==
    /\ client[c].step = "wait"
    /\ flight' = [flight EXCEPT ![client[c].at].waiters = @ \ {c}]
    /\ End(c, "canceled", NoDigest)
    /\ UNCHANGED <<Registry, requests, faults>>

---------------------------------------------------------------------------
(* buildInstallImage and PublishInstallerIndex *)

Required == IF WithEvidence THEN Platforms \cup {"provenance"} ELSE {}

At(r, step) == flight[r].step = step

Goto(r, step) ==
    /\ flight' = [flight EXCEPT ![r].step = step]
    /\ UNCHANGED client

Push(objs) == pushed' = pushed \cup objs

\* The flight returns to everyone who still waits for it.
EndFlight(r, result, d) ==
    /\ flight' = [flight EXCEPT ![r] = NoFlight]
    /\ client' = [c \in Clients |->
                    IF c \in flight[r].waiters THEN Ended(client[c], result, d) ELSE client[c]]

\* Both platform images are built and combined; the digest of the index is
\* the build's result.
Build(r) ==
    /\ At(r, "build")
    /\ \E d \in Digests :
          flight' = [flight EXCEPT ![r].step = "stage", ![r].digest = d]
    /\ UNCHANGED <<Registry, client, requests, faults>>

\* A wrong variant of Stage: the index is pushed by the version tag.
Stage_ByTag(r) ==
    /\ At(r, "stage")
    /\ Push({<<flight[r].digest, "index">>})
    /\ tag' = flight[r].digest
    /\ flight' = [flight EXCEPT ![r].step = IF WithEvidence THEN "attest" ELSE "sign",
                                ![r].todo = Platforms]
    /\ UNCHANGED <<visible, client, requests, faults>>

\* The index is pushed by its digest: no tag names it yet.
Stage(r) ==
    /\ At(r, "stage")
    /\ Push({<<flight[r].digest, "index">>})
    /\ flight' = [flight EXCEPT ![r].step = IF WithEvidence THEN "attest" ELSE "sign",
                                ![r].todo = Platforms]
    /\ UNCHANGED <<visible, tag, client, requests, faults>>

\* Publish: the SBOM of each platform, then the provenance of the index.
AttestPlatform(r) ==
    /\ At(r, "attest")
    /\ \E p \in flight[r].todo :
          /\ Push({<<flight[r].digest, p>>})
          /\ flight' = [flight EXCEPT ![r].todo = @ \ {p}]
    /\ UNCHANGED <<visible, tag, client, requests, faults>>

AttestProvenance(r) ==
    /\ At(r, "attest") /\ flight[r].todo = {}
    /\ Push({<<flight[r].digest, "provenance">>})
    /\ Goto(r, "verifyEvidence")
    /\ UNCHANGED <<visible, tag, requests, faults>>

\* A wrong variant of VerifyEvidence: signed without looking for the evidence.
VerifyEvidence_Skipped(r) ==
    /\ At(r, "verifyEvidence")
    /\ Goto(r, "sign")
    /\ UNCHANGED <<Registry, requests, faults>>

\* verifyPublished: retried until every piece of evidence is found.
VerifyEvidence(r) ==
    /\ At(r, "verifyEvidence")
    /\ \A p \in Required : <<flight[r].digest, p>> \in visible
    /\ Goto(r, "sign")
    /\ UNCHANGED <<Registry, requests, faults>>

Sign(r) ==
    /\ At(r, "sign")
    /\ Push({<<flight[r].digest, "signature">>})
    /\ Goto(r, "verifySignature")
    /\ UNCHANGED <<visible, tag, requests, faults>>

\* A wrong variant of VerifySignature: promoted without looking for it.
VerifySignature_Skipped(r) ==
    /\ At(r, "verifySignature")
    /\ Goto(r, "promote")
    /\ UNCHANGED <<Registry, requests, faults>>

VerifySignature(r) ==
    /\ At(r, "verifySignature")
    /\ <<flight[r].digest, "signature">> \in visible
    /\ Goto(r, "promote")
    /\ UNCHANGED <<Registry, requests, faults>>

\* The final tag is pushed; only now does anyone see the image by its tag.
Promote(r) ==
    /\ At(r, "promote")
    /\ tag' = flight[r].digest
    /\ EndFlight(r, "redirect", flight[r].digest)
    /\ UNCHANGED <<pushed, visible, requests, faults>>

\* Any step returns an error (a build or registry failure, or 30 seconds of
\* verification without success).
FlightFails(r) ==
    /\ ~At(r, "idle")
    /\ Fault
    /\ EndFlight(r, "failed", NoDigest)
    /\ UNCHANGED <<Registry, requests>>

FlightStep(r) ==
    \/ Build(r)
    \/ Stage(r)
    \/ AttestPlatform(r)
    \/ AttestProvenance(r)
    \/ VerifyEvidence(r)
    \/ Sign(r)
    \/ VerifySignature(r)
    \/ Promote(r)

---------------------------------------------------------------------------
(* The environment *)

\* An accepted object becomes readable.
Appear(o) ==
    /\ o \in pushed \ visible
    /\ visible' = visible \cup {o}
    /\ UNCHANGED <<pushed, tag, flight, client, requests, faults>>

Crash(r) ==
    /\ Fault
    /\ flight' = [flight EXCEPT ![r] = NoFlight]
    /\ client' = [c \in Clients |->
                    IF client[c].at = r /\ client[c].step \notin {"idle", "done"}
                       THEN Ended(client[c], "failed", NoDigest) ELSE client[c]]
    /\ UNCHANGED <<Registry, requests>>

ClientStep(c) ==
    \/ HeadTag(c)
    \/ HeadFails(c)
    \/ VerifyCached(c)
    \/ VerifyCachedFails(c)
    \/ Join(c)

Next ==
    \/ \E c \in Clients, r \in Replicas : Request(c, r)
    \/ \E c \in Clients : ClientStep(c) \/ Cancel(c)
    \/ \E r \in Replicas : FlightStep(r) \/ FlightFails(r) \/ Crash(r)
    \/ \E o \in Objects : Appear(o)

Spec == Init /\ [][Next]_vars

\* Goroutines run, registry and imager calls return, and the registry lag is
\* finite.  Failures, crashes and cancellations are not promised.
Fairness ==
    /\ \A c \in Clients : WF_vars(ClientStep(c))
    /\ \A r \in Replicas : WF_vars(FlightStep(r))
    /\ \A o \in Objects : WF_vars(Appear(o))

FairSpec == Spec /\ Fairness

---------------------------------------------------------------------------
(* Properties *)

\* All that a published index needs is there for every reader.
Complete(d) ==
    /\ <<d, "index">> \in pushed
    /\ \A p \in Required \cup {"signature"} : <<d, p>> \in visible

\* Manifest takes the signature of a tagged digest as the sign that the image
\* is complete, so no signature may be in the registry before the index and
\* all its evidence are, whatever replicas publish at once or die half way.
SignatureIsCompletion ==
    \A d \in Digests :
        <<d, "signature">> \in pushed =>
            /\ <<d, "index">> \in pushed
            /\ \A p \in Required : <<d, p>> \in visible

\* "PublishInstallerIndex ... promotes its tag only after all evidence
\* verifies": the version tag never names an index that readers would find
\* without evidence or signature.
PromotedIsComplete == tag # NoDigest => Complete(tag)

\* A client is only ever redirected to a complete index, whether it found it
\* by the tag, built it, or waited for another client's build.
RedirectIsComplete ==
    \A c \in Clients : client[c].result = "redirect" => Complete(client[c].digest)
=============================================================================
