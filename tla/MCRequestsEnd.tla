---------------------------- MODULE MCRequestsEnd ----------------------------
(* That requests end, in the four components whose callers wait for a flight of
   their replica: the version list, the publication of an installer in the
   open-source build (no evidence), the registry cache of assets (no S3), and a
   directory of the artifacts manager, whose tag names an image of two files, a
   later one that has only one of them, or one that is not signed.  They share
   nothing: part says which one a behaviour is of, and the others stay as they
   began. *)
EXTENDS TalosVersions, TLC

CONSTANTS r1, r2, c1, c2, d1, d2, none, earlier, later, forged, torn, kernel, initramfs

VARIABLES part,
          pushed, visible, tag, publication, client, manifests, upsets,          \* the installer
          reference, signatures, object, building, download, downloads, losses,  \* the cache
          handler, tagged, tmp, dest, fetch, caller, fetches, retags, breaks     \* the artifacts

I == INSTANCE InstallerPublication WITH
         Replicas <- {r1, r2}, Clients <- {c1, c2}, Digests <- {d1}, NoDigest <- none,
         Platforms <- {"amd64"}, WithEvidence <- FALSE, MaxRequests <- 2, MaxFaults <- 1,
         flight <- publication, requests <- manifests, faults <- upsets

C == INSTANCE AssetCache WITH
         Replicas <- {r1, r2}, Clients <- {c1, c2}, Contents <- {d1, d2}, NoContent <- none,
         WithS3 <- FALSE, MaxRequests <- 2, MaxFaults <- 1,
         tag <- reference, flight <- building, request <- download, requests <- downloads, faults <- losses

A == INSTANCE ArtifactStore WITH
         Callers <- {c1, c2}, Images <- {earlier, later, forged}, Signed <- {earlier, later},
         Parts <- {kernel, initramfs},
         PartsOf <- earlier :> {kernel, initramfs} @@ later :> {kernel} @@ forged :> {kernel},
         NoFile <- none, Torn <- torn, MaxRequests <- 2, MaxRetags <- 1, MaxFaults <- 1,
         flight <- fetch, request <- caller, requests <- fetches, faults <- breaks

ASSUME ArtifactConstants == A!StoreAssumption

\* A pre-release, and the release of a later minor version, which drops it.
MCVersions == {[minor |-> 1, pre |-> TRUE], [minor |-> 2, pre |-> FALSE]}

installerVars == <<pushed, visible, tag, publication, client, manifests, upsets>>
cacheVars == <<reference, signatures, object, building, download, downloads, losses>>
artifactVars == <<handler, tagged, tmp, dest, fetch, caller, fetches, retags, breaks>>

MCInit == /\ Init /\ I!Init /\ C!Init /\ A!Init
          /\ part \in {"versions", "installer", "cache", "artifact"}
          /\ part # "versions" => published = Versions
          /\ part # "installer" => \A c \in {c1, c2} : client[c].at = r1
          /\ part # "cache" => \A c \in {c1, c2} : download[c].at = r1
          /\ tagged = earlier /\ (part # "artifact" => handler = "oci")

MCNext ==
    /\ UNCHANGED part
    /\ \/ part = "versions" /\ Next /\ UNCHANGED <<installerVars, cacheVars, artifactVars>>
       \/ part = "installer" /\ I!Next /\ UNCHANGED <<vars, cacheVars, artifactVars>>
       \/ part = "cache" /\ C!Next /\ UNCHANGED <<vars, installerVars, artifactVars>>
       \/ part = "artifact" /\ A!Next /\ UNCHANGED <<vars, installerVars, cacheVars>>

\* The steps of a component that stays as it began are never enabled.
MCFairness == Fairness /\ I!Fairness /\ C!Fairness /\ A!Fairness

MCSpec == MCInit /\ [][MCNext]_<<vars, part, installerVars, cacheVars, artifactVars>> /\ MCFairness

Under(c) ==
    \/ part = "versions" /\ request[c].step = "check"
    \/ part = "installer" /\ client[c].step = "head"
    \/ part = "cache" /\ download[c].step = "lookup"
    \/ part = "artifact" /\ caller[c].step = "stat"

Over(c) ==
    CASE part = "versions" -> request[c].step = "done"
      [] part = "installer" -> client[c].step = "done"
      [] part = "cache" -> download[c].step = "done"
      [] part = "artifact" -> caller[c].step = "done"

\* ArtifactStore's: what callers of the artifacts manager find is one signed image.
DestinationWhole == A!DestinationWhole

\* Every request of the four components ends: whichever way its flight ends,
\* its waiters are told.
AllRequestsEnd == \A c \in {c1, c2} : Under(c) ~> Over(c)
=============================================================================
