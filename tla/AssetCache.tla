---------------------------- MODULE AssetCache ----------------------------
(***************************************************************************)
(* The two-level asset cache (internal/asset/cache/registry and .../s3)    *)
(* under the builders of several replicas, for one profile.                *)
(*                                                                         *)
(* With S3 the asset is an object of the bucket and the registry holds a   *)
(* signed reference to it, its ETag; without, the registry holds the asset *)
(* itself, signed the same way.  Nothing makes the two writes one, and     *)
(* replicas write without asking each other.  Builds of a profile need not *)
(* be byte-identical, so what two replicas store may differ: a content     *)
(* stands for the asset, its ETag and the digest of the manifest at once.  *)
(***************************************************************************)
EXTENDS Naturals, FiniteSets

CONSTANTS Replicas,
          Clients,
          Contents,      \* byte strings a build of the profile may give
          NoContent,
          WithS3,        \* is the S3 cache enabled?
          MaxRequests,   \* bound: requests of each client
          MaxFaults      \* bound: errors, losses and crashes

ASSUME CacheAssumption ==
    /\ NoContent \notin Contents
    /\ WithS3 \in BOOLEAN
    /\ IsFiniteSet(Replicas)
    /\ MaxRequests \in Nat /\ MaxFaults \in Nat

VARIABLES tag,         \* the content the registry tag of the profile names
          signatures,  \* signatures[d]: times content d was signed
          object,      \* the object in the bucket
          flight,      \* flight[r]: buildAndCache of replica r
          request,     \* request[c]: the request of client c
          requests, faults

vars == <<tag, signatures, object, flight, request, requests, faults>>
Store == <<tag, signatures, object>>

Maybe       == Contents \cup {NoContent}
Objects     == [content : Maybe, described : BOOLEAN]
NoObject    == [content |-> NoContent, described |-> FALSE]
FlightSteps == {"idle", "build", "upload", "tag", "check", "sign", "stored"}
LookupSteps == {"off", "head", "verify", "stat", "hit", "miss", "error"}
Lookups     == [step : LookupSteps, digest : Maybe]
Flights     == [step : FlightSteps, content : Maybe, lookup : Lookups,
                alone : BOOLEAN, waiters : SUBSET Clients]
Requests    == [step : {"idle", "lookup", "wait", "deliver", "done"}, at : Replicas,
                lookup : Lookups,
                result : {"none", "built", "read", "redirected", "broken", "failed"},
                content : Maybe]

NoLookup  == [step |-> "off", digest |-> NoContent]
NewLookup == [step |-> "head", digest |-> NoContent]
NoFlight  == [step |-> "idle", content |-> NoContent, lookup |-> NoLookup,
              alone |-> FALSE, waiters |-> {}]

TypeOK ==
    /\ tag \in Maybe
    /\ signatures \in [Contents -> Nat]
    /\ object \in Objects
    /\ flight \in [Replicas -> Flights]
    /\ request \in [Clients -> Requests]
    /\ requests \in [Clients -> Nat]
    /\ faults \in Nat

Init ==
    /\ tag = NoContent
    /\ signatures = [d \in Contents |-> 0]
    /\ object = NoObject
    /\ flight = [r \in Replicas |-> NoFlight]
    /\ request \in [Clients -> [step : {"idle"}, at : Replicas, lookup : {NoLookup},
                                result : {"none"}, content : {NoContent}]]
    /\ requests = [c \in Clients |-> 0]
    /\ faults = 0

Signed == {d \in Contents : signatures[d] > 0}

---------------------------------------------------------------------------
(* Cache.Get: the tag, its signature, and with S3 the object it refers to *)

\* StatObject with MatchETag, and hasRequiredMetadata.
Matches(d) == object.content = d /\ object.described

Step(l, step) == [l EXCEPT !.step = step]

LookupNext(l) ==
    CASE l.step = "head" ->
            IF tag = NoContent THEN Step(l, "miss") ELSE [step |-> "verify", digest |-> tag]
      [] l.step = "verify" ->
            IF l.digest \notin Signed THEN Step(l, "miss")
            ELSE Step(l, IF WithS3 THEN "stat" ELSE "hit")
      [] l.step = "stat" ->
            IF Matches(l.digest) THEN Step(l, "hit")
            ELSE IF object.content = NoContent \/ object.content = l.digest
                    THEN Step(l, "miss") ELSE Step(l, "error")

Looking(l) == l.step \in {"head", "verify", "stat"}

\* A call of the registry or the bucket fails: a tag that may not be read (403)
\* and a signature that cannot be verified, whatever the reason, are a miss; any
\* other failure, also of the pull after the verification, is an error.
LookupFailure(l) ==
    {Step(l, step) : step \in IF l.step \in {"head", "verify"} THEN {"miss", "error"} ELSE {"error"}}

---------------------------------------------------------------------------
(* Requests: Builder.Build and the delivery of what it returns *)

Fault == faults < MaxFaults /\ faults' = faults + 1

\* No flight can be sure to have had the cache to itself.
Disturbed(f) == [r \in Replicas |-> [f[r] EXCEPT !.alone = FALSE]]

Ask(c, r) ==
    /\ request[c].step \in {"idle", "done"}
    /\ requests[c] < MaxRequests
    /\ requests' = [requests EXCEPT ![c] = @ + 1]
    /\ request' = [request EXCEPT ![c] = [step |-> "lookup", at |-> r, lookup |-> NewLookup,
                                          result |-> "none", content |-> NoContent]]
    /\ UNCHANGED <<Store, flight, faults>>

Lookup(c) ==
    /\ request[c].step = "lookup" /\ Looking(request[c].lookup)
    /\ request' = [request EXCEPT ![c].lookup = LookupNext(@)]
    /\ UNCHANGED <<Store, flight, requests, faults>>

LookupFails(c) ==
    /\ request[c].step = "lookup" /\ Looking(request[c].lookup)
    /\ Fault
    /\ \E l \in LookupFailure(request[c].lookup) :
          request' = [request EXCEPT ![c].lookup = l]
    /\ UNCHANGED <<Store, flight, requests>>

Ended(q, result, d) ==
    [q EXCEPT !.step = "done", !.result = result, !.content = d]

End(c, result, d) == request' = [request EXCEPT ![c] = Ended(@, result, d)]

Hit(c) ==
    /\ request[c].step = "lookup" /\ request[c].lookup.step = "hit"
    /\ request' = [request EXCEPT ![c].step = "deliver"]
    /\ UNCHANGED <<Store, flight, requests, faults>>

\* Without S3 an error of the cache is an error of the request; with S3 it
\* makes it build.
Refuse(c) ==
    /\ request[c].step = "lookup" /\ request[c].lookup.step = "error"
    /\ ~WithS3
    /\ End(c, "failed", NoContent)
    /\ UNCHANGED <<Store, flight, requests, faults>>

\* sf.DoChan, which starts a flight if none runs at the replica.
Join(c) ==
    LET r == request[c].at
        others == \E q \in Replicas : flight[q].step # "idle"
        joined == [flight[r] EXCEPT !.waiters = @ \cup {c}]
        new    == [NoFlight EXCEPT !.step = "build", !.alone = ~others, !.waiters = {c}]
    IN /\ request[c].step = "lookup"
       /\ \/ request[c].lookup.step = "miss"
          \/ request[c].lookup.step = "error" /\ WithS3
       /\ flight' = IF flight[r].step = "idle"
                       THEN [Disturbed(flight) EXCEPT ![r] = new]
                       ELSE [flight EXCEPT ![r] = joined]
       /\ request' = [request EXCEPT ![c].step = "wait"]
       /\ UNCHANGED <<Store, requests, faults>>

\* A wrong variant of Reads: GetObject without MatchETag.
Reads_Any(d) == object.content # NoContent

\* objectAsset.Reader reads with MatchETag; without S3 the layer is read by
\* its digest.
Reads(d) == WithS3 => object.content = d

\* The client is sent the bytes of the cached asset.
Read(c) ==
    LET d == request[c].lookup.digest
    IN /\ request[c].step = "deliver"
       /\ IF Reads(d) THEN End(c, "read", IF WithS3 THEN object.content ELSE d)
                      ELSE End(c, "broken", NoContent)
       /\ UNCHANGED <<Store, flight, requests, faults>>

\* The client is redirected to the object, and reads what it then finds.
Redirect(c) ==
    /\ request[c].step = "deliver"
    /\ WithS3
    /\ IF object.content # NoContent THEN End(c, "redirected", object.content)
                                     ELSE End(c, "broken", NoContent)
    /\ UNCHANGED <<Store, flight, requests, faults>>

\* Presigning fails: the URL that is formatted nevertheless is nil, and the
\* handler's goroutine panics.
PresignFails(c) ==
    /\ request[c].step = "deliver"
    /\ WithS3
    /\ Fault
    /\ End(c, "broken", NoContent)
    /\ UNCHANGED <<Store, flight, requests>>

---------------------------------------------------------------------------
(* Flights: the build, Cache.Put, and with S3 the Get after it *)

At(r, step) == flight[r].step = step

Goto(r, step) ==
    /\ flight' = [flight EXCEPT ![r].step = step]
    /\ UNCHANGED request

\* The waiters go on to the delivery of the cached asset, or are served the
\* one that was built.
EndCached(r) ==
    /\ flight' = [flight EXCEPT ![r] = NoFlight]
    /\ request' = [c \in Clients |->
                     IF c \in flight[r].waiters
                        THEN [request[c] EXCEPT !.step = "deliver", !.lookup = flight[r].lookup]
                        ELSE request[c]]

\* A wrong variant of EndFlight: nobody is told.
EndFlight_Silent(r, result, d) ==
    /\ flight' = [flight EXCEPT ![r] = NoFlight]
    /\ UNCHANGED request

EndFlight(r, result, d) ==
    /\ flight' = [flight EXCEPT ![r] = NoFlight]
    /\ request' = [c \in Clients |->
                     IF c \in flight[r].waiters THEN Ended(request[c], result, d) ELSE request[c]]

Build(r) ==
    /\ At(r, "build")
    /\ \E d \in Contents :
          flight' = [flight EXCEPT ![r].content = d,
                                   ![r].step = IF WithS3 THEN "upload" ELSE "tag"]
    /\ UNCHANGED <<Store, request, requests, faults>>

BuildFails(r) ==
    /\ At(r, "build")
    /\ Fault
    /\ EndFlight(r, "failed", NoContent)
    /\ UNCHANGED <<Store, requests>>

\* A wrong variant of Upload: an object that is there is left alone.
Upload_IfMissing(r) ==
    /\ At(r, "upload")
    /\ object' = IF object.content = NoContent
                    THEN [content |-> flight[r].content, described |-> TRUE] ELSE object
    /\ Goto(r, "tag")
    /\ UNCHANGED <<tag, signatures, requests, faults>>

\* PutObject of the S3 cache.
Upload(r) ==
    /\ At(r, "upload")
    /\ object' = [content |-> flight[r].content, described |-> TRUE]
    /\ Goto(r, "tag")
    /\ UNCHANGED <<tag, signatures, requests, faults>>

\* Put of the registry cache: the manifest is pushed by the tag ...
PushTag(r) ==
    /\ At(r, "tag")
    /\ tag' = flight[r].content
    /\ Goto(r, "check")
    /\ UNCHANGED <<signatures, object, requests, faults>>

\* A wrong variant of CheckSigned: every Put signs.
CheckSigned_Never(r) ==
    /\ At(r, "check")
    /\ Goto(r, "sign")
    /\ UNCHANGED <<Store, requests, faults>>

\* ... and its digest is signed unless it already is.
CheckSigned(r) ==
    /\ At(r, "check")
    /\ Goto(r, IF flight[r].content \in Signed THEN "stored" ELSE "sign")
    /\ UNCHANGED <<Store, requests, faults>>

\* "Any error here means not signed."
CheckSignedFails(r) ==
    /\ At(r, "check")
    /\ Fault
    /\ Goto(r, "sign")
    /\ UNCHANGED <<Store, requests>>

Sign(r) ==
    /\ At(r, "sign")
    /\ signatures' = [signatures EXCEPT ![flight[r].content] = @ + 1]
    /\ Goto(r, "stored")
    /\ UNCHANGED <<tag, object, requests, faults>>

\* The Put fails half way: the error is logged, the flight goes on.
PutFails(r) ==
    /\ flight[r].step \in {"upload", "tag", "sign"}
    /\ Fault
    /\ flight' = [Disturbed(flight) EXCEPT ![r].step = "stored", ![r].alone = FALSE]
    /\ UNCHANGED <<Store, request, requests>>

\* Without S3 the flight returns what it built.
ReturnBuilt(r) ==
    /\ At(r, "stored") /\ ~WithS3
    /\ EndFlight(r, "built", flight[r].content)
    /\ UNCHANGED <<Store, requests, faults>>

\* With S3 it looks the asset up, and prefers the one it finds.
Reget(r) ==
    LET l == flight[r].lookup
    IN /\ At(r, "stored") /\ WithS3
       /\ l.step = "off" \/ Looking(l)
       /\ flight' = [flight EXCEPT ![r].lookup =
                       IF l.step = "off" THEN NewLookup ELSE LookupNext(@)]
       /\ UNCHANGED <<Store, request, requests, faults>>

RegetFails(r) ==
    /\ At(r, "stored") /\ Looking(flight[r].lookup)
    /\ Fault
    /\ \E l \in LookupFailure(flight[r].lookup) :
          flight' = [flight EXCEPT ![r].lookup = l]
    /\ UNCHANGED <<Store, request, requests>>

ReturnCached(r) ==
    /\ At(r, "stored") /\ flight[r].lookup.step = "hit"
    /\ EndCached(r)
    /\ UNCHANGED <<Store, requests, faults>>

ReturnUncached(r) ==
    /\ At(r, "stored") /\ flight[r].lookup.step \in {"miss", "error"}
    /\ EndFlight(r, "built", flight[r].content)
    /\ UNCHANGED <<Store, requests, faults>>

---------------------------------------------------------------------------
(* The environment *)

\* The bucket drops the object or loses its metadata.
LoseObject ==
    /\ object.content # NoContent
    /\ Fault
    /\ \/ object' = NoObject
       \/ object.described /\ object' = [object EXCEPT !.described = FALSE]
    /\ flight' = Disturbed(flight)
    /\ UNCHANGED <<tag, signatures, request, requests>>

\* The process dies between any two steps of a Put.
Crash(r) ==
    /\ Fault
    /\ flight' = [Disturbed(flight) EXCEPT ![r] = NoFlight]
    /\ request' = [c \in Clients |->
                     IF request[c].at = r /\ request[c].step \notin {"idle", "done"}
                        THEN Ended(request[c], "failed", NoContent) ELSE request[c]]
    /\ UNCHANGED <<Store, requests>>

ClientStep(c) ==
    \/ Lookup(c)
    \/ Hit(c)
    \/ Refuse(c)
    \/ Join(c)
    \/ Read(c)
    \/ Redirect(c)

FlightStep(r) ==
    \/ Build(r)
    \/ Upload(r)
    \/ PushTag(r)
    \/ CheckSigned(r)
    \/ Sign(r)
    \/ ReturnBuilt(r)
    \/ Reget(r)
    \/ ReturnCached(r)
    \/ ReturnUncached(r)

FlightFails(r) ==
    \/ BuildFails(r)
    \/ CheckSignedFails(r)
    \/ PutFails(r)
    \/ RegetFails(r)
    \/ Crash(r)

Next ==
    \/ \E c \in Clients, r \in Replicas : Ask(c, r)
    \/ \E c \in Clients : ClientStep(c) \/ LookupFails(c) \/ PresignFails(c)
    \/ \E r \in Replicas : FlightStep(r) \/ FlightFails(r)
    \/ LoseObject

Spec == Init /\ [][Next]_vars

\* Goroutines run and calls return; failures are not promised.
Fairness ==
    /\ \A c \in Clients : WF_vars(ClientStep(c))
    /\ \A r \in Replicas : WF_vars(FlightStep(r))

FairSpec == Spec /\ Fairness

---------------------------------------------------------------------------
(* Properties *)

\* Bytes the service itself reads from the cache are bytes some replica has
\* signed, although the object may be overwritten, with bytes not signed yet,
\* at any time between the look-up and the read.
ReadIsSigned ==
    \A c \in Clients : request[c].result = "read" => request[c].content \in Signed

\* A lookup of content d that starts now finds it.
Hits(d) == tag = d /\ d \in Signed /\ (WithS3 => Matches(d))

\* A rebuild repairs the cache, whatever replicas that raced, died or failed
\* half way have left there (an object its reference does not match, a
\* reference without signature, an object without metadata): when nothing
\* else happened during the flight, the next Get is a hit.
RebuildRepairs ==
    \A r \in Replicas :
        At(r, "stored") /\ flight[r].alone => Hits(flight[r].content)

\* With keyless signing, where every signature is one more referrer,
\* "a miss on an entry that is already in the registry must not sign it
\* again": the signatures of one manifest are as many as the replicas that
\* raced for it, not as many as the Puts.
SignaturesBounded ==
    \A d \in Contents : signatures[d] <= Cardinality(Replicas) + faults
=============================================================================
