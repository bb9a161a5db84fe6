--------------------------- MODULE ArtifactStore ---------------------------
(***************************************************************************)
(* One directory of the artifacts manager's storage (internal/artifacts):  *)
(* the imager of a Talos version, an installer, an extension, an overlay   *)
(* or talosctl.  Callers look for it on the disk and share the flight that *)
(* fetches it: resolve the tag, verify the signature, extract to a         *)
(* directory of its own, rename.                                           *)
(*                                                                         *)
(* A manager starts with a new, empty storage, so a restart is Init.       *)
(***************************************************************************)
EXTENDS Naturals

CONSTANTS Callers,
          Images,        \* what the tag may name
          Signed,        \* those with a valid signature
          Parts,         \* files
          PartsOf,       \* PartsOf[i]: the files of image i
          NoFile, Torn,  \* content of a file that is not there, or cut short
          MaxRequests,   \* bound: requests of each caller
          MaxRetags,     \* bound: pushes of another image under the tag
          MaxFaults      \* bound: failures of the registry or the disk

\* What the theorems assume of the constants.
StoreAssumption ==
    /\ Signed \subseteq Images
    /\ PartsOf \in [Images -> (SUBSET Parts) \ {{}}]
    /\ NoFile \notin Images /\ Torn \notin Images /\ NoFile # Torn
    /\ MaxRequests \in Nat /\ MaxRetags \in Nat /\ MaxFaults \in Nat

VARIABLES handler,   \* how this image is extracted: imagehandler.Export or .OCI
          tagged,    \* the image the tag names
          tmp,       \* the directory with tmpSuffix
          dest,      \* the directory callers read
          flight,    \* the singleflight call for it
          request,   \* request[c]
          requests, retags, faults

vars == <<handler, tagged, tmp, dest, flight, request, requests, retags, faults>>
Disk   == <<tmp, dest>>
Counts == <<requests, retags, faults>>

Directories == [Parts -> Images \cup {NoFile, Torn}]
Flights  == [step : {"idle", "head", "verify", "pull", "extract", "rename"},
             image : Images, todo : SUBSET Parts, waiters : SUBSET Callers]
Results  == {"none", "served", "missing", "failed", "unsigned", "exists", "canceled"}
Requests == [step : {"idle", "stat", "join", "wait", "open", "done"}, part : Parts,
             result : Results]

NoDirectory == [p \in Parts |-> NoFile]

\* os.Stat finds a directory: every image has a file.
Exists(dir) == \E p \in Parts : dir[p] # NoFile

TypeOK ==
    /\ handler \in {"export", "oci"}
    /\ tagged \in Images
    /\ tmp \in Directories /\ dest \in Directories
    /\ flight \in Flights
    /\ request \in [Callers -> Requests]
    /\ requests \in [Callers -> Nat] /\ retags \in Nat /\ faults \in Nat

Init ==
    /\ handler \in {"export", "oci"}
    /\ tagged \in Images
    /\ tmp = NoDirectory /\ dest = NoDirectory
    /\ flight \in [step : {"idle"}, image : {tagged}, todo : {{}}, waiters : {{}}]
    /\ request = [c \in Callers |-> [step |-> "idle", part |-> CHOOSE p \in Parts : TRUE,
                                     result |-> "none"]]
    /\ requests = [c \in Callers |-> 0] /\ retags = 0 /\ faults = 0

---------------------------------------------------------------------------
(* The callers: Get, GetInstallerImage, GetExtensionImage, GetOverlayImage, *)
(* GetOverlayArtifact and GetTalosctlImage                                  *)

Ask(c, p) ==
    /\ request[c].step \in {"idle", "done"}
    /\ requests[c] < MaxRequests
    /\ requests' = [requests EXCEPT ![c] = @ + 1]
    /\ request' = [request EXCEPT ![c] = [step |-> "stat", part |-> p, result |-> "none"]]
    /\ UNCHANGED <<handler, tagged, Disk, flight, retags, faults>>

\* check if already extracted
Stat(c) ==
    /\ request[c].step = "stat"
    /\ request' = [request EXCEPT ![c].step = IF Exists(dest) THEN "open" ELSE "join"]
    /\ UNCHANGED <<handler, tagged, Disk, flight, Counts>>

\* m.sf.DoChan, whatever happened since the check
Join(c) ==
    /\ request[c].step = "join"
    /\ flight' = IF flight.step = "idle"
                 THEN [flight EXCEPT !.step = "head", !.waiters = {c}]
                 ELSE [flight EXCEPT !.waiters = @ \cup {c}]
    /\ request' = [request EXCEPT ![c].step = "wait"]
    /\ UNCHANGED <<handler, tagged, Disk, Counts>>

Ended(q, result) == [q EXCEPT !.step = "done", !.result = result]

\* The flight is bound to no request and goes on.
Cancel(c) ==
    /\ request[c].step = "wait"
    /\ flight' = [flight EXCEPT !.waiters = @ \ {c}]
    /\ request' = [request EXCEPT ![c] = Ended(@, "canceled")]
    /\ UNCHANGED <<handler, tagged, Disk, Counts>>

\* An OCI layout is returned as a whole, of the rest one file.
Open(c) ==
    LET found == handler = "oci" \/ dest[request[c].part] # NoFile
    IN /\ request[c].step = "open"
       /\ request' = [request EXCEPT ![c] = Ended(@, IF found THEN "served" ELSE "missing")]
       /\ UNCHANGED <<handler, tagged, Disk, flight, Counts>>

---------------------------------------------------------------------------
(* The flight *)

\* The registry: the tag is moved to another image.  (An extension or overlay
\* is asked for by digest: MaxRetags = 0.)
Retag(i) ==
    /\ retags < MaxRetags /\ i # tagged
    /\ retags' = retags + 1 /\ tagged' = i
    /\ UNCHANGED <<handler, Disk, flight, request, requests, faults>>

\* A wrong variant of Land: an error is not passed on.
Land_Silent(result) ==
    /\ flight' = [flight EXCEPT !.step = "idle", !.todo = {}, !.waiters = {}]
    /\ request' = [c \in Callers |->
                     IF c \notin flight.waiters \/ result # "none" THEN request[c]
                     ELSE [request[c] EXCEPT !.step = "open"]]

\* The flight ends and its waiters go on, or all get its error.
Land(result) ==
    /\ flight' = [flight EXCEPT !.step = "idle", !.todo = {}, !.waiters = {}]
    /\ request' = [c \in Callers |->
                     IF c \notin flight.waiters THEN request[c]
                     ELSE IF result = "none" THEN [request[c] EXCEPT !.step = "open"]
                     ELSE Ended(request[c], result)]

\* From here on the image is named by its digest.
Head ==
    /\ flight.step = "head"
    /\ flight' = [flight EXCEPT !.step = "verify", !.image = tagged]
    /\ UNCHANGED <<handler, tagged, Disk, request, Counts>>

Verify ==
    /\ flight.step = "verify"
    /\ flight.image \in Signed
    /\ flight' = [flight EXCEPT !.step = "pull"]
    /\ UNCHANGED <<handler, tagged, Disk, request, Counts>>

VerifyFails ==
    /\ flight.step = "verify"
    /\ flight.image \notin Signed
    /\ Land("unsigned")
    /\ UNCHANGED <<handler, tagged, Disk, Counts>>

\* A wrong variant of Pull: what an earlier flight left stays in the layout.
Pull_Keeps ==
    /\ flight.step = "pull"
    /\ flight' = [flight EXCEPT !.step = "extract", !.todo = PartsOf[flight.image]]
    /\ UNCHANGED <<handler, tagged, Disk, request, Counts>>

\* The OCI handler removes what an earlier flight left behind, untarWithPrefix
\* writes over it.
Pull ==
    /\ flight.step = "pull"
    /\ flight' = [flight EXCEPT !.step = "extract", !.todo = PartsOf[flight.image]]
    /\ tmp' = IF handler = "oci" THEN NoDirectory ELSE tmp
    /\ UNCHANGED <<handler, tagged, dest, request, Counts>>

Extract(p) ==
    /\ flight.step = "extract" /\ p \in flight.todo
    /\ tmp' = [tmp EXCEPT ![p] = flight.image]
    /\ flight' = [flight EXCEPT !.todo = @ \ {p},
                                !.step = IF flight.todo = {p} THEN "rename" ELSE "extract"]
    /\ UNCHANGED <<handler, tagged, dest, request, Counts>>

\* Any step may fail; a file that was being written is cut short and stays.
FlightFails ==
    /\ flight.step # "idle"
    /\ faults < MaxFaults /\ faults' = faults + 1
    /\ \/ tmp' = tmp
       \/ \E p \in flight.todo : tmp' = [tmp EXCEPT ![p] = Torn]
    /\ Land("failed")
    /\ UNCHANGED <<handler, tagged, dest, requests, retags>>

Rename ==
    /\ flight.step = "rename" /\ ~Exists(dest)
    /\ dest' = tmp /\ tmp' = NoDirectory
    /\ Land("none")
    /\ UNCHANGED <<handler, tagged, Counts>>

\* os.Rename does not replace a directory.
RenameFails ==
    /\ flight.step = "rename" /\ Exists(dest)
    /\ Land("exists")
    /\ UNCHANGED <<handler, tagged, Disk, Counts>>

CallerStep(c) == Stat(c) \/ Join(c) \/ Open(c)

FlightStep ==
    \/ Head \/ Verify \/ VerifyFails \/ Pull
    \/ \E p \in Parts : Extract(p)
    \/ Rename \/ RenameFails

Next ==
    \/ \E c \in Callers, p \in Parts : Ask(c, p)
    \/ \E c \in Callers : CallerStep(c) \/ Cancel(c)
    \/ \E i \in Images : Retag(i)
    \/ FlightStep
    \/ FlightFails

Spec == Init /\ [][Next]_vars

\* Goroutines run, and the registry answers within FetchTimeout.
Fairness == WF_vars(FlightStep) /\ \A c \in Callers : WF_vars(CallerStep(c))

---------------------------------------------------------------------------
(* Properties *)

\* What callers find is all of one signed image, however many flights were cut
\* short before and left files behind; an OCI layout is nothing but that image.
\* (Of an image extracted by Export a file that only an earlier image of the
\* tag had may be left: fetchImager does not empty its directory.)
DestinationWhole ==
    Exists(dest) =>
        \E i \in Signed :
            /\ \A p \in PartsOf[i] : dest[p] = i
            /\ handler = "oci" => \A p \in Parts \ PartsOf[i] : dest[p] = NoFile

DestinationKept == Exists(dest) => dest' = dest

\* What was extracted stays as it is under those who read it, although late
\* callers fetch it again.
ExtractedStays == [][DestinationKept]_vars

\* "check if already extracted" (manager.go): what is on the disk is used, and
\* no request fails because it is there.
UsedWhenExtracted == \A c \in Callers : request[c].result # "exists"
=============================================================================
