------------------------ MODULE ArtifactStoreProofs ------------------------
(***************************************************************************)
(* Proofs about ArtifactStore: its types, that what callers find is whole, *)
(* and that it stays, for any images, files and callers.                   *)
(***************************************************************************)
EXTENDS ArtifactStore, TLAPS

\* A flight that extracts has verified its image, the files it is done with are
\* that image's, and an OCI layout has no others.
ExtractedSoFar ==
    /\ flight.step \in {"pull", "extract", "rename"} => flight.image \in Signed
    /\ flight.step \in {"extract", "rename"} =>
          /\ flight.todo \subseteq PartsOf[flight.image]
          /\ \A p \in PartsOf[flight.image] \ flight.todo : tmp[p] = flight.image
          /\ handler = "oci" => \A p \in Parts \ PartsOf[flight.image] : tmp[p] = NoFile
    /\ flight.step = "rename" => flight.todo = {}

\* The inductive invariant of DestinationWhole.
IInv == TypeOK /\ ExtractedSoFar /\ DestinationWhole

LEMMA EndedType ==
  ASSUME NEW q \in Requests, NEW r \in Results
  PROVE  Ended(q, r) \in Requests
  BY DEF Ended, Requests, Results

\* A flight that ends leaves flights and requests well-typed, and no step behind.
LEMMA LandType ==
  ASSUME TypeOK, NEW r \in Results, Land(r)
  PROVE  /\ flight' \in Flights /\ flight'.step = "idle"
         /\ request' \in [Callers -> Requests]
<1>1. flight \in Flights
  BY DEF TypeOK
<1>2. flight' = [flight EXCEPT !.step = "idle", !.todo = {}, !.waiters = {}]
  BY DEF Land
<1>3. flight' \in Flights /\ flight'.step = "idle"
  BY <1>1, <1>2 DEF Flights
<1>4. ASSUME NEW c \in Callers
      PROVE  request[c] \in Requests /\ [request[c] EXCEPT !.step = "open"] \in Requests
             /\ Ended(request[c], r) \in Requests
  <2>1. request[c] \in Requests
    BY DEF TypeOK
  <2>2. [request[c] EXCEPT !.step = "open"] \in Requests
    BY <2>1 DEF Requests
  <2>. QED BY <2>1, <2>2, EndedType
<1>5. request' \in [Callers -> Requests]
  BY <1>4 DEF Land
<1>. QED BY <1>3, <1>5

---------------------------------------------------------------------------

LEMMA TypeInit ==
  ASSUME StoreAssumption, Init
  PROVE  TypeOK
<1>1. \E p \in Parts : TRUE
  <2>1. PartsOf[tagged] \in (SUBSET Parts) \ {{}}
    BY DEF Init, StoreAssumption
  <2>. QED BY <2>1
<1>2. (CHOOSE p \in Parts : TRUE) \in Parts
  BY <1>1
<1>3. request \in [Callers -> Requests]
  BY <1>2 DEF Init, Requests, Results
<1>4. flight \in Flights
  BY DEF Init, Flights
<1>5. tmp \in Directories /\ dest \in Directories
  BY DEF Init, NoDirectory, Directories
<1>. QED BY <1>3, <1>4, <1>5 DEF Init, TypeOK

\* Every action leaves the state well-typed.
LEMMA TypeStep ==
  ASSUME StoreAssumption, TypeOK, [Next]_vars
  PROVE  TypeOK'
<1> USE DEF StoreAssumption
<1>a. flight \in Flights /\ flight.image \in Images /\ flight.todo \in SUBSET Parts
      /\ flight.waiters \in SUBSET Callers
  BY DEF TypeOK, Flights
<1>b. \A c \in Callers : request[c] \in Requests
  BY DEF TypeOK
<1>c. NoDirectory \in Directories
  BY DEF NoDirectory, Directories
<1>1. ASSUME NEW c \in Callers, NEW p \in Parts, Ask(c, p) PROVE TypeOK'
  <2>1. [step |-> "stat", part |-> p, result |-> "none"] \in Requests
    BY DEF Requests, Results
  <2>. QED BY <1>1, <2>1 DEF Ask, TypeOK, Disk
<1>2. ASSUME NEW c \in Callers, Stat(c) PROVE TypeOK'
  <2>1. [request[c] EXCEPT !.step = IF Exists(dest) THEN "open" ELSE "join"] \in Requests
    BY <1>b DEF Requests
  <2>. QED BY <1>2, <2>1 DEF Stat, TypeOK, Disk, Counts
<1>3. ASSUME NEW c \in Callers, Join(c) PROVE TypeOK'
  <2>1. [request[c] EXCEPT !.step = "wait"] \in Requests
    BY <1>b DEF Requests
  <2>2. flight' \in Flights
    BY <1>3, <1>a DEF Join, Flights
  <2>. QED BY <1>3, <2>1, <2>2 DEF Join, TypeOK, Disk, Counts
<1>4. ASSUME NEW c \in Callers, Cancel(c) PROVE TypeOK'
  <2>1. Ended(request[c], "canceled") \in Requests
    BY <1>b, EndedType DEF Results
  <2>2. flight' \in Flights
    BY <1>4, <1>a DEF Cancel, Flights
  <2>. QED BY <1>4, <2>1, <2>2 DEF Cancel, TypeOK, Disk, Counts
<1>5. ASSUME NEW c \in Callers, Open(c) PROVE TypeOK'
  <2>1. Ended(request[c], "served") \in Requests /\ Ended(request[c], "missing") \in Requests
    BY <1>b, EndedType DEF Results
  <2>2. request' \in [Callers -> Requests]
    BY <1>5, <2>1 DEF Open, TypeOK
  <2>. QED BY <1>5, <2>2 DEF Open, TypeOK, Disk, Counts
<1>6. ASSUME NEW i \in Images, Retag(i) PROVE TypeOK'
  BY <1>6 DEF Retag, TypeOK, Disk
<1>7. CASE Head
  <2>1. flight' \in Flights
    BY <1>7, <1>a DEF Head, TypeOK, Flights
  <2>. QED BY <1>7, <2>1 DEF Head, TypeOK, Disk, Counts
<1>8. CASE Verify
  <2>1. flight' \in Flights
    BY <1>8, <1>a DEF Verify, Flights
  <2>. QED BY <1>8, <2>1 DEF Verify, TypeOK, Disk, Counts
<1>9. CASE VerifyFails
  <2>1. flight' \in Flights /\ request' \in [Callers -> Requests]
    BY <1>9, LandType DEF VerifyFails, Results
  <2>. QED BY <1>9, <2>1 DEF VerifyFails, TypeOK, Disk, Counts
<1>10. CASE Pull
  <2>1. PartsOf[flight.image] \in SUBSET Parts
    BY <1>a
  <2>2. flight' \in Flights
    BY <1>10, <1>a, <2>1 DEF Pull, Flights
  <2>. QED BY <1>10, <1>c, <2>2 DEF Pull, TypeOK, Counts
<1>11. ASSUME NEW p \in Parts, Extract(p) PROVE TypeOK'
  <2>1. flight' \in Flights
    BY <1>11, <1>a DEF Extract, Flights
  <2>2. tmp' \in Directories
    BY <1>11, <1>a DEF Extract, TypeOK, Directories
  <2>. QED BY <1>11, <2>1, <2>2 DEF Extract, TypeOK, Counts
<1>12. CASE FlightFails
  <2>1. flight' \in Flights /\ request' \in [Callers -> Requests]
    BY <1>12, LandType DEF FlightFails, Results
  <2>2. tmp' \in Directories
    BY <1>12 DEF FlightFails, TypeOK, Directories
  <2>. QED BY <1>12, <2>1, <2>2 DEF FlightFails, TypeOK
<1>13. CASE Rename
  <2>1. flight' \in Flights /\ request' \in [Callers -> Requests]
    BY <1>13, LandType DEF Rename, Results
  <2>. QED BY <1>13, <1>c, <2>1 DEF Rename, TypeOK, Counts
<1>14. CASE RenameFails
  <2>1. flight' \in Flights /\ request' \in [Callers -> Requests]
    BY <1>14, LandType DEF RenameFails, Results
  <2>. QED BY <1>14, <2>1 DEF RenameFails, TypeOK, Disk, Counts
<1>15. CASE UNCHANGED vars
  BY <1>15 DEF vars, TypeOK
<1>. QED BY <1>1, <1>2, <1>3, <1>4, <1>5, <1>6, <1>7, <1>8, <1>9, <1>10, <1>11, <1>12, <1>13,
            <1>14, <1>15 DEF Next, CallerStep, FlightStep

\* The state is well-typed.
THEOREM TypeCorrect ==
  ASSUME StoreAssumption
  PROVE  Spec => []TypeOK
<1>1. Init => TypeOK
  BY TypeInit
<1>2. TypeOK /\ [Next]_vars => TypeOK'
  BY TypeStep
<1>. QED BY <1>1, <1>2, PTL DEF Spec

---------------------------------------------------------------------------

LEMMA WholeInit ==
  ASSUME StoreAssumption, Init
  PROVE  IInv
<1>1. flight.step = "idle" /\ ~Exists(dest)
  BY DEF Init, Exists, NoDirectory
<1>. QED BY <1>1, TypeInit DEF IInv, ExtractedSoFar, DestinationWhole

\* A step that leaves the disk alone keeps the invariant if the flight goes on
\* as it was, or begins, or ends.
LEMMA WholeElsewhere ==
  ASSUME IInv, TypeOK', UNCHANGED <<handler, Disk>>,
         \/ flight'.step \in {"idle", "head", "verify"}
         \/ /\ flight'.step = flight.step /\ flight'.image = flight.image
            /\ flight'.todo = flight.todo
  PROVE  IInv'
<1>1. DestinationWhole'
  BY DEF IInv, DestinationWhole, Exists, Disk
<1>2. ExtractedSoFar'
  BY DEF IInv, ExtractedSoFar, Disk
<1>. QED BY <1>1, <1>2 DEF IInv

\* Every step keeps the invariant.
LEMMA WholeStep ==
  ASSUME StoreAssumption, IInv, [Next]_vars
  PROVE  IInv'
<1> USE DEF StoreAssumption
<1>t. TypeOK /\ TypeOK'
  BY TypeStep DEF IInv
<1>a. flight \in Flights /\ flight.image \in Images /\ tmp \in Directories
      /\ PartsOf[flight.image] \in SUBSET Parts
  BY <1>t DEF TypeOK, Flights
<1>1. CASE UNCHANGED <<handler, Disk, flight>>
  BY <1>1, <1>t, WholeElsewhere
<1>2. ASSUME NEW c \in Callers, Join(c) PROVE IInv'
  <2>1. UNCHANGED <<handler, Disk>>
    BY <1>2 DEF Join
  <2>2. \/ flight'.step = "head"
        \/ /\ flight'.step = flight.step /\ flight'.image = flight.image
           /\ flight'.todo = flight.todo
    BY <1>2, <1>a DEF Join, Flights
  <2>. QED BY <1>t, <2>1, <2>2, WholeElsewhere
<1>3. ASSUME NEW c \in Callers, Cancel(c) PROVE IInv'
  <2>1. UNCHANGED <<handler, Disk>>
    BY <1>3 DEF Cancel
  <2>2. /\ flight'.step = flight.step /\ flight'.image = flight.image
        /\ flight'.todo = flight.todo
    BY <1>3, <1>a DEF Cancel, Flights
  <2>. QED BY <1>t, <2>1, <2>2, WholeElsewhere
<1>4. CASE Head
  <2>1. UNCHANGED <<handler, Disk>> /\ flight'.step = "verify"
    BY <1>4, <1>a DEF Head, Flights
  <2>. QED BY <1>t, <2>1, WholeElsewhere
<1>5. CASE VerifyFails \/ RenameFails
  <2>1. UNCHANGED <<handler, Disk>> /\ flight'.step = "idle"
    BY <1>5, <1>t, LandType DEF VerifyFails, RenameFails, Results
  <2>. QED BY <1>t, <2>1, WholeElsewhere
<1>6. CASE Verify
  <2>1. UNCHANGED <<handler, Disk>>
    BY <1>6 DEF Verify
  <2>2. flight'.step = "pull" /\ flight'.image = flight.image /\ flight.image \in Signed
    BY <1>6, <1>a DEF Verify, Flights
  <2>3. DestinationWhole'
    BY <2>1 DEF IInv, DestinationWhole, Exists, Disk
  <2>. QED BY <1>t, <2>2, <2>3 DEF IInv, ExtractedSoFar
<1>7. CASE Pull
  <2>1. /\ flight'.step = "extract" /\ flight'.image = flight.image
        /\ flight'.todo = PartsOf[flight.image]
    BY <1>7, <1>a DEF Pull, Flights
  <2>2. handler' = handler /\ dest' = dest
    BY <1>7 DEF Pull
  <2>3. flight.image \in Signed
    BY <1>7 DEF Pull, IInv, ExtractedSoFar
  <2>4. handler = "oci" => \A p \in Parts : tmp'[p] = NoFile
    BY <1>7 DEF Pull, NoDirectory
  <2>5. ExtractedSoFar'
    BY <2>1, <2>2, <2>3, <2>4 DEF ExtractedSoFar
  <2>6. DestinationWhole'
    BY <2>2 DEF IInv, DestinationWhole, Exists
  <2>. QED BY <1>t, <2>5, <2>6 DEF IInv
<1>8. ASSUME NEW p \in Parts, Extract(p) PROVE IInv'
  <2>1. flight.step = "extract" /\ p \in flight.todo /\ handler' = handler /\ dest' = dest
    BY <1>8 DEF Extract
  <2>2. /\ flight.image \in Signed /\ flight.todo \subseteq PartsOf[flight.image]
        /\ \A q \in PartsOf[flight.image] \ flight.todo : tmp[q] = flight.image
        /\ handler = "oci" => \A q \in Parts \ PartsOf[flight.image] : tmp[q] = NoFile
    BY <2>1 DEF IInv, ExtractedSoFar
  <2>3. /\ flight'.image = flight.image /\ flight'.todo = flight.todo \ {p}
        /\ flight'.step = IF flight.todo = {p} THEN "rename" ELSE "extract"
    BY <1>8, <1>a DEF Extract, Flights
  <2>4. tmp' = [tmp EXCEPT ![p] = flight.image]
    BY <1>8 DEF Extract
  <2>5. \A q \in Parts : tmp'[q] = IF q = p THEN flight.image ELSE tmp[q]
    BY <1>a, <2>4 DEF Directories
  <2>6. \A q \in PartsOf[flight.image] \ flight'.todo : tmp'[q] = flight.image
    BY <1>a, <2>2, <2>3, <2>5
  <2>7. handler' = "oci" => \A q \in Parts \ PartsOf[flight.image] : tmp'[q] = NoFile
    BY <2>1, <2>2, <2>5
  <2>8. flight'.step = "rename" => flight'.todo = {}
    BY <2>3
  <2>9. ExtractedSoFar'
    BY <2>2, <2>3, <2>6, <2>7, <2>8 DEF ExtractedSoFar
  <2>10. DestinationWhole'
    BY <2>1 DEF IInv, DestinationWhole, Exists
  <2>. QED BY <1>t, <2>9, <2>10 DEF IInv
<1>9. CASE FlightFails
  <2>1. flight'.step = "idle" /\ handler' = handler /\ dest' = dest
    BY <1>9, <1>t, LandType DEF FlightFails, Results
  <2>. QED BY <1>t, <2>1 DEF IInv, ExtractedSoFar, DestinationWhole, Exists
<1>10. CASE Rename
  <2>1. flight'.step = "idle" /\ handler' = handler /\ dest' = tmp
    BY <1>10, <1>t, LandType DEF Rename, Results
  <2>2. /\ flight.image \in Signed
        /\ \A p \in PartsOf[flight.image] : tmp[p] = flight.image
        /\ handler = "oci" => \A p \in Parts \ PartsOf[flight.image] : tmp[p] = NoFile
    BY <1>10 DEF Rename, IInv, ExtractedSoFar
  <2>3. DestinationWhole'
    BY <2>1, <2>2 DEF DestinationWhole
  <2>. QED BY <1>t, <2>1, <2>3 DEF IInv, ExtractedSoFar
<1>11. (\E c \in Callers, p \in Parts : Ask(c, p)) \/ (\E c \in Callers : Stat(c) \/ Open(c))
       \/ (\E i \in Images : Retag(i)) \/ UNCHANGED vars => UNCHANGED <<handler, Disk, flight>>
  BY DEF Ask, Stat, Open, Retag, vars, Disk
<1>. QED BY <1>1, <1>2, <1>3, <1>4, <1>5, <1>6, <1>7, <1>8, <1>9, <1>10, <1>11
         DEF Next, CallerStep, FlightStep

\* What callers find on the disk is all of one signed image, for any number of
\* callers, images and files and any failures in between.
THEOREM DestinationIsWhole ==
  ASSUME StoreAssumption
  PROVE  Spec => []DestinationWhole
<1>1. Init => IInv
  BY WholeInit
<1>2. IInv /\ [Next]_vars => IInv'
  BY WholeStep
<1>3. IInv => DestinationWhole
  BY DEF IInv
<1>. QED BY <1>1, <1>2, <1>3, PTL DEF Spec

\* No step touches a directory callers may already read.
LEMMA KeptStep == Next => DestinationKept
  BY DEF Next, CallerStep, FlightStep, Ask, Stat, Join, Cancel, Open, Retag, Head, Verify,
         VerifyFails, Pull, Extract, FlightFails, Rename, RenameFails, Disk, DestinationKept

\* What was extracted stays as it is.
THEOREM ExtractedIsKept == Spec => ExtractedStays
<1>1. [Next]_vars => [DestinationKept]_vars
  BY KeptStep
<1>. QED BY <1>1, PTL DEF Spec, ExtractedStays

---------------------------------------------------------------------------
(* Nobody is forgotten *)

\* Who waits is known to the flight, and the flight runs.
WaitersKnown ==
    /\ \A c \in Callers : c \in flight.waiters <=> request[c].step = "wait"
    /\ flight.waiters # {} => flight.step # "idle"

\* The flight keeps its waiters and goes on.
LEMMA WaitersGoOn ==
    ASSUME WaitersKnown, flight'.waiters = flight.waiters, flight'.step # "idle", request' = request
    PROVE  WaitersKnown'
BY DEF WaitersKnown

\* The flight lands and leaves nobody waiting.
LEMMA WaitersLand ==
    ASSUME TypeOK, WaitersKnown, NEW result, Land(result)
    PROVE  WaitersKnown'
<1>1. flight'.waiters = {}
  BY DEF Land, TypeOK, Flights
<1>2. ASSUME NEW c \in Callers PROVE request'[c].step # "wait"
  <2>1. CASE c \in flight.waiters
    <3>1. request'[c] = IF result = "none" THEN [request[c] EXCEPT !.step = "open"]
                        ELSE [request[c] EXCEPT !.step = "done", !.result = result]
      BY <2>1 DEF Land, Ended
    <3>2. request[c] \in Requests
      BY DEF TypeOK
    <3> QED BY <3>1, <3>2 DEF Requests
  <2>2. CASE c \notin flight.waiters
    <3>1. request'[c] = request[c] /\ request[c].step # "wait"
      BY <2>2 DEF Land, WaitersKnown
    <3> QED BY <3>1
  <2> QED BY <2>1, <2>2
<1> QED BY <1>1, <1>2 DEF WaitersKnown

LEMMA WaitersNext == TypeOK /\ WaitersKnown /\ [Next]_vars => WaitersKnown'
<1> SUFFICES ASSUME TypeOK, WaitersKnown, [Next]_vars PROVE WaitersKnown'
  OBVIOUS
<1>1. flight \in Flights /\ request \in [Callers -> Requests]
  BY DEF TypeOK
<1>2. CASE flight' = flight /\ \A c \in Callers : request'[c].step = "wait" <=> request[c].step = "wait"
  BY <1>2 DEF WaitersKnown
<1>3. CASE UNCHANGED vars \/ \E i \in Images : Retag(i)
  BY <1>2, <1>3 DEF vars, Retag
<1>4. ASSUME NEW c \in Callers, (\E p \in Parts : Ask(c, p)) \/ Stat(c) \/ Open(c)
      PROVE  WaitersKnown'
  <2>1. flight' = flight /\ \A d \in Callers \ {c} : request'[d] = request[d]
    BY <1>1, <1>4 DEF Ask, Stat, Open
  <2>2. request[c].step # "wait" /\ request'[c].step # "wait"
    <3>1. \A q \in Requests : \A result : Ended(q, result).step = "done"
      BY DEF Ended, Requests
    <3>2. CASE \E p \in Parts : Ask(c, p)
      BY <1>1, <3>2 DEF Ask
    <3>3. CASE Stat(c)
      BY <1>1, <3>3 DEF Stat, Requests
    <3>4. CASE Open(c)
      BY <1>1, <3>1, <3>4 DEF Open
    <3> QED BY <1>4, <3>2, <3>3, <3>4
  <2> QED BY <1>2, <2>1, <2>2
<1>5. ASSUME NEW c \in Callers, Join(c) PROVE WaitersKnown'
  <2>1. request'[c].step = "wait" /\ \A d \in Callers \ {c} : request'[d] = request[d]
    BY <1>1, <1>5 DEF Join, Requests
  <2>2. flight'.waiters = flight.waiters \cup {c} /\ flight'.step # "idle"
    <3>1. CASE flight.step = "idle"
      BY <1>1, <1>5, <3>1 DEF Join, Flights, WaitersKnown
    <3>2. CASE flight.step # "idle"
      BY <1>1, <1>5, <3>2 DEF Join, Flights
    <3> QED BY <3>1, <3>2
  <2> QED BY <2>1, <2>2 DEF WaitersKnown
<1>6. ASSUME NEW c \in Callers, Cancel(c) PROVE WaitersKnown'
  <2>1. request'[c].step = "done" /\ \A d \in Callers \ {c} : request'[d] = request[d]
    BY <1>1, <1>6 DEF Cancel, Ended, Requests
  <2>2. flight'.waiters = flight.waiters \ {c} /\ flight'.step = flight.step
    BY <1>1, <1>6 DEF Cancel, Flights
  <2> QED BY <2>1, <2>2 DEF WaitersKnown
<1>7. CASE Head \/ Verify \/ Pull \/ \E p \in Parts : Extract(p)
  <2>1. flight'.waiters = flight.waiters /\ flight'.step # "idle" /\ request' = request
    BY <1>1, <1>7 DEF Head, Verify, Pull, Extract, Flights
  <2> QED BY <2>1, WaitersGoOn
<1>8. CASE VerifyFails \/ FlightFails \/ Rename \/ RenameFails
  BY <1>8, WaitersLand DEF VerifyFails, FlightFails, Rename, RenameFails
<1> QED BY <1>3, <1>4, <1>5, <1>6, <1>7, <1>8 DEF Next, CallerStep, FlightStep

\* Every caller of the manager that waits for an image is told by a flight that
\* runs, whichever callers came and went before (the channel of m.sf.DoChan):
\* what the end of every request rests on.
THEOREM NobodyForgotten ==
  ASSUME StoreAssumption
  PROVE  Spec => []WaitersKnown
<1>1. Init => WaitersKnown
  BY DEF Init, WaitersKnown
<1> QED BY <1>1, TypeCorrect, WaitersNext, PTL DEF Spec
=============================================================================
