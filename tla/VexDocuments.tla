----------------------------- MODULE VexDocuments -----------------------------
(***************************************************************************)
(* The VEX builder: the documents of a process, made of an image that a    *)
(* tag of another registry names.  The tag is resolved, the signature of   *)
(* the digest verified and the digest pulled, in a fetch that runs         *)
(* detached from the requests that wait for it.  The vulnerability scans   *)
(* (Reports) are among its callers.                                        *)
(***************************************************************************)
CONSTANTS Callers,
          Kernels,      \* the kernel versions asked for: NoKernel from the endpoint
          Images,       \* the digests the tag may name
          SignedImages  \* those with a signature that verifies

VARIABLES tag,      \* the digest the tag names
          cached,   \* kernel |-> the digest the cached document was made of
          fetches,  \* kernel |-> the fetch that runs
          calls

vars == <<tag, cached, fetches, calls>>

None == "none"
NoKernel == ""
NoFetch == [stage |-> None, digest |-> None]
Idle == [stage |-> "idle", kernel |-> None]

TypeOK ==
    /\ tag \in Images
    /\ cached \in [Kernels -> Images \cup {None}]
    /\ fetches \in [Kernels -> [stage : {None, "kernel", "head", "verify", "pull"}, digest : Images \cup {None}]]
    /\ calls \in [Callers -> [stage : {"idle", "missed", "waiting", "served", "failed", "canceled"},
                              kernel : Kernels \cup {None}]]

Init ==
    /\ tag \in Images
    /\ cached = [k \in Kernels |-> None] /\ fetches = [k \in Kernels |-> NoFetch]
    /\ calls = [c \in Callers |-> Idle]

MoveTag == tag' \in Images \ {tag} /\ UNCHANGED <<cached, fetches, calls>>

LookUp(c, k) ==
    /\ calls[c].stage \notin {"missed", "waiting"}
    /\ calls' = [calls EXCEPT ![c] = [stage |-> IF cached[k] = None THEN "missed" ELSE "served", kernel |-> k]]
    /\ UNCHANGED <<tag, cached, fetches>>

\* The fetch a call joins or starts; the endpoint names no kernel, and the fetch
\* then reads it from the SBOM of the version first.
Joined(k) ==
    IF fetches[k].stage # None THEN fetches
    ELSE [fetches EXCEPT ![k].stage = IF k = NoKernel THEN "kernel" ELSE "head"]

Join(c) ==
    /\ calls[c].stage = "missed"
    /\ calls' = [calls EXCEPT ![c].stage = "waiting"]
    /\ fetches' = Joined(calls[c].kernel)
    /\ UNCHANGED <<tag, cached>>

Cancel(c) ==
    /\ calls[c].stage = "waiting"
    /\ calls' = [calls EXCEPT ![c].stage = "canceled"]
    /\ UNCHANGED <<tag, cached, fetches>>

Advance(k, from, to, digest) ==
    /\ fetches[k].stage = from
    /\ fetches' = [fetches EXCEPT ![k] = [stage |-> to, digest |-> digest]]
    /\ UNCHANGED <<tag, cached, calls>>

KernelVersion(k) == Advance(k, "kernel", "head", None)
Head(k) == Advance(k, "head", "verify", tag)
VerifySignatures(k) == fetches[k].digest \in SignedImages /\ Advance(k, "verify", "pull", fetches[k].digest)

Ended(k, stage) ==
    /\ fetches' = [fetches EXCEPT ![k] = NoFetch]
    /\ calls' = [c \in Callers |-> IF calls[c].stage = "waiting" /\ calls[c].kernel = k
                                   THEN [calls[c] EXCEPT !.stage = stage] ELSE calls[c]]
    /\ UNCHANGED tag

Pull_ByTag(k) ==
    /\ fetches[k].stage = "pull"
    /\ cached' = [cached EXCEPT ![k] = tag]
    /\ Ended(k, "served")

\* The image is pulled by the digest that was verified, whatever the tag names now.
Pull(k) ==
    /\ fetches[k].stage = "pull"
    /\ cached' = [cached EXCEPT ![k] = fetches[k].digest]
    /\ Ended(k, "served")

\* An unresolved kernel, an unreachable registry, a signature that does not
\* verify, data that does not parse, or the time limit.
Fails(k) == fetches[k].stage # None /\ UNCHANGED cached /\ Ended(k, "failed")

Expire(k) ==
    /\ cached[k] # None
    /\ cached' = [cached EXCEPT ![k] = None]
    /\ UNCHANGED <<tag, fetches, calls>>

Next ==
    \/ MoveTag
    \/ \E c \in Callers : Join(c) \/ Cancel(c) \/ \E k \in Kernels : LookUp(c, k)
    \/ \E k \in Kernels : KernelVersion(k) \/ Head(k) \/ VerifySignatures(k) \/ Pull(k) \/ Fails(k) \/ Expire(k)

Spec == Init /\ [][Next]_vars

\* A cached document was made of data whose signature was verified, also when
\* the tag moves between the verification and the pull (fetchExploitabilityData).
VEXIsVerified == \A k \in Kernels : cached[k] # None => cached[k] \in SignedImages
=============================================================================
