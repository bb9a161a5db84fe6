---------------------------- MODULE SpdxBundles ----------------------------
(***************************************************************************)
(* SPDX bundles of one cache key (the extensions, the Talos version and    *)
(* the architecture): Builder.Build of enterprise/spdx/builder, at several *)
(* replicas, over the signed storage of enterprise/spdx/storage/registry.  *)
(*                                                                         *)
(* A bundle is a document made of what could be extracted from Talos and   *)
(* from each extension.  It carries the time it was made, so two builds    *)
(* differ even when they extracted the same: a digest is a pair of a stamp *)
(* and the set of extensions the document covers.                          *)
(***************************************************************************)
EXTENDS Naturals

CONSTANTS Replicas,
          Clients,
          Extensions,    \* the official extensions of the schematic
          Stamps,        \* creation times
          NoBundle,
          MaxRequests,   \* bound: requests of each client
          MaxFaults      \* bound: failures and crashes

Digests == Stamps \X SUBSET Extensions

ASSUME BundleAssumption ==
    /\ NoBundle \notin Digests
    /\ MaxRequests \in Nat /\ MaxFaults \in Nat

VARIABLES pushed,     \* manifests in the registry
          signed,     \* manifests with a signature
          tag,        \* the manifest the tag of the cache key names
          flight,     \* flight[r]: the singleflight call of replica r
          request,    \* request[c]: the request of client c
          requests, faults

vars == <<pushed, signed, tag, flight, request, requests, faults>>
Store == <<pushed, signed, tag>>

Maybe        == Digests \cup {NoBundle}
FlightSteps  == {"idle", "talos", "list", "extract", "push", "sign", "tag"}
RequestSteps == {"idle", "head", "verify", "join", "wait", "done"}

Flights  == [step : FlightSteps, todo : SUBSET Extensions, got : SUBSET Extensions,
             bundle : Maybe, waiters : SUBSET Clients]
Requests == [step : RequestSteps, at : Replicas, built : BOOLEAN, bundle : Maybe,
             result : {"none", "served", "failed", "canceled"}]

NoFlight == [step |-> "idle", todo |-> {}, got |-> {}, bundle |-> NoBundle, waiters |-> {}]

TypeOK ==
    /\ pushed \subseteq Digests
    /\ signed \subseteq Digests
    /\ tag \in Maybe
    /\ flight \in [Replicas -> Flights]
    /\ request \in [Clients -> Requests]
    /\ requests \in [Clients -> Nat]
    /\ faults \in Nat

Init ==
    /\ pushed = {} /\ signed = {} /\ tag = NoBundle
    /\ flight = [r \in Replicas |-> NoFlight]
    /\ request \in [Clients -> [step : {"idle"}, at : Replicas, built : {FALSE},
                                bundle : {NoBundle}, result : {"none"}]]
    /\ requests = [c \in Clients |-> 0]
    /\ faults = 0

Fault == faults < MaxFaults /\ faults' = faults + 1

---------------------------------------------------------------------------
(* Builder.Build: Get, the flight, and Get again *)

Ask(c, r) ==
    /\ request[c].step \in {"idle", "done"}
    /\ requests[c] < MaxRequests
    /\ requests' = [requests EXCEPT ![c] = @ + 1]
    /\ request' = [request EXCEPT ![c] = [step |-> "head", at |-> r, built |-> FALSE,
                                          bundle |-> NoBundle, result |-> "none"]]
    /\ UNCHANGED <<Store, flight, faults>>

Ended(q, result, d) == [q EXCEPT !.step = "done", !.result = result, !.bundle = d]

End(c, result, d) == request' = [request EXCEPT ![c] = Ended(@, result, d)]

\* The storage answers ErrNotFound: before the flight that starts one, after
\* it that fails the request.
NotFound(c) ==
    IF request[c].built THEN End(c, "failed", NoBundle)
                        ELSE request' = [request EXCEPT ![c].step = "join"]

\* Storage.Get resolves the tag ...
HeadTag(c) ==
    /\ request[c].step = "head"
    /\ IF tag = NoBundle
          THEN NotFound(c)
          ELSE request' = [request EXCEPT ![c].step = "verify", ![c].bundle = tag]
    /\ UNCHANGED <<Store, flight, requests, faults>>

\* ... and serves the manifest if its signature verifies.
VerifyTagged(c) ==
    /\ request[c].step = "verify"
    /\ IF request[c].bundle \in signed THEN End(c, "served", request[c].bundle)
                                       ELSE NotFound(c)
    /\ UNCHANGED <<Store, flight, requests, faults>>

\* The head or the pull fails for another reason than 404 or 403.
GetFails(c) ==
    /\ request[c].step \in {"head", "verify"}
    /\ Fault
    /\ End(c, "failed", NoBundle)
    /\ UNCHANGED <<Store, flight, requests>>

\* A signature that could not be looked up counts as not there.
VerifyFails(c) ==
    /\ request[c].step = "verify"
    /\ Fault
    /\ NotFound(c)
    /\ UNCHANGED <<Store, flight, requests>>

\* sf.DoChan of the cache key.
Join(c) ==
    LET r == request[c].at
        f == IF flight[r].step = "idle" THEN [NoFlight EXCEPT !.step = "talos"] ELSE flight[r]
    IN /\ request[c].step = "join"
       /\ flight' = [flight EXCEPT ![r] = [f EXCEPT !.waiters = @ \cup {c}]]
       /\ request' = [request EXCEPT ![c].step = "wait"]
       /\ UNCHANGED <<Store, requests, faults>>

Cancel(c) ==
    /\ request[c].step = "wait"
    /\ flight' = [flight EXCEPT ![request[c].at].waiters = @ \ {c}]
    /\ End(c, "canceled", NoBundle)
    /\ UNCHANGED <<Store, requests, faults>>

---------------------------------------------------------------------------
(* buildBundle and Storage.Put *)

At(r, step) == flight[r].step = step

Goto(r, step) == flight' = [flight EXCEPT ![r].step = step] /\ UNCHANGED request

\* The flight returns: whoever waits reads the bundle back, or fails with it.
EndFlight(r, ok) ==
    /\ flight' = [flight EXCEPT ![r] = NoFlight]
    /\ request' = [c \in Clients |->
                     IF c \notin flight[r].waiters THEN request[c]
                     ELSE IF ok THEN [request[c] EXCEPT !.step = "head", !.built = TRUE,
                                                        !.bundle = NoBundle]
                     ELSE Ended(request[c], "failed", NoBundle)]

\* The SBOM of Talos, out of its initramfs, which the asset builder delivers.
ExtractTalos(r) ==
    /\ At(r, "talos")
    /\ Goto(r, "list")
    /\ UNCHANGED <<Store, requests, faults>>

\* GetOfficialExtensions.
ListExtensions(r) ==
    /\ At(r, "list")
    /\ flight' = [flight EXCEPT ![r].step = "extract", ![r].todo = Extensions]
    /\ UNCHANGED <<Store, request, requests, faults>>

\* Its error is logged: the bundle covers no extension.
ListFails(r) ==
    /\ At(r, "list")
    /\ Fault
    /\ Goto(r, "extract")
    /\ UNCHANGED <<Store, requests>>

Extract(r) ==
    /\ At(r, "extract")
    /\ \E e \in flight[r].todo :
          flight' = [flight EXCEPT ![r].todo = @ \ {e}, ![r].got = @ \cup {e}]
    /\ UNCHANGED <<Store, request, requests, faults>>

\* The error of an extension is logged, and the extension left out.
ExtractFails(r) ==
    /\ At(r, "extract")
    /\ Fault
    /\ \E e \in flight[r].todo : flight' = [flight EXCEPT ![r].todo = @ \ {e}]
    /\ UNCHANGED <<Store, request, requests>>

\* BundleToJSON stamps the document.
Render(r) ==
    /\ At(r, "extract") /\ flight[r].todo = {}
    /\ \E s \in Stamps :
          flight' = [flight EXCEPT ![r].step = "push", ![r].bundle = <<s, flight[r].got>>]
    /\ UNCHANGED <<Store, request, requests, faults>>

\* A wrong variant of PushManifest: the manifest is pushed by the tag.
PushManifest_ByTag(r) ==
    /\ At(r, "push")
    /\ pushed' = pushed \cup {flight[r].bundle}
    /\ tag' = flight[r].bundle
    /\ Goto(r, "sign")
    /\ UNCHANGED <<signed, requests, faults>>

\* "Publish by digest, sign, and only then move the tag".
PushManifest(r) ==
    /\ At(r, "push")
    /\ pushed' = pushed \cup {flight[r].bundle}
    /\ Goto(r, "sign")
    /\ UNCHANGED <<signed, tag, requests, faults>>

Sign(r) ==
    /\ At(r, "sign")
    /\ signed' = signed \cup {flight[r].bundle}
    /\ Goto(r, "tag")
    /\ UNCHANGED <<pushed, tag, requests, faults>>

PushTag(r) ==
    /\ At(r, "tag")
    /\ tag' = flight[r].bundle
    /\ EndFlight(r, TRUE)
    /\ UNCHANGED <<pushed, signed, requests, faults>>

FlightFails(r) ==
    /\ \/ flight[r].step \in {"talos", "push", "sign", "tag"}
       \/ At(r, "extract") /\ flight[r].todo = {}
    /\ Fault
    /\ EndFlight(r, FALSE)
    /\ UNCHANGED <<Store, requests>>

Crash(r) ==
    /\ Fault
    /\ flight' = [flight EXCEPT ![r] = NoFlight]
    /\ request' = [c \in Clients |->
                     IF request[c].at = r /\ request[c].step \notin {"idle", "done"}
                        THEN Ended(request[c], "failed", NoBundle) ELSE request[c]]
    /\ UNCHANGED <<Store, requests>>

ClientStep(c) ==
    \/ HeadTag(c)
    \/ VerifyTagged(c)
    \/ Join(c)

FlightStep(r) ==
    \/ ExtractTalos(r)
    \/ ListExtensions(r)
    \/ Extract(r)
    \/ Render(r)
    \/ PushManifest(r)
    \/ Sign(r)
    \/ PushTag(r)

Failure ==
    \/ \E c \in Clients : GetFails(c) \/ VerifyFails(c)
    \/ \E r \in Replicas : ListFails(r) \/ ExtractFails(r) \/ FlightFails(r) \/ Crash(r)

Next ==
    \/ \E c \in Clients, r \in Replicas : Ask(c, r)
    \/ \E c \in Clients : ClientStep(c) \/ Cancel(c)
    \/ \E r \in Replicas : FlightStep(r)
    \/ Failure

Spec == Init /\ [][Next]_vars

---------------------------------------------------------------------------
(* Properties *)

\* "The tag never names a manifest whose signature is not there yet", with
\* several replicas that push different manifests of the key, fail and die.
TagIsSigned == tag # NoBundle => tag \in signed

\* "Signing before tagging leaves every value the tag can hold already
\* verifiable": a request whose flight succeeded finds a bundle when it reads
\* it back, its own or that of the replica that tagged last.  Requests fail
\* only after something failed, and not because builders raced.
ReadBackFinds ==
    faults = 0 => \A c \in Clients : request[c].result # "failed"

\* "an SPDX 2.3 JSON document containing all packages from Talos Linux and
\* the configured system extensions" (docs/api.md).
ServedIsComplete ==
    \A c \in Clients :
        request[c].result = "served" => request[c].bundle[2] = Extensions
=============================================================================
