------------------------ MODULE SchematicStoreProofs ------------------------
(***************************************************************************)
(* Safety of the schematic store, for any number of replicas, ids and      *)
(* clients and any bounds: type correctness, and that the inductive        *)
(* invariant IInv, which gives the three safety properties of              *)
(* SchematicStore, holds of every behaviour; that SchematicStore           *)
(* implements SchematicRegister; and that no call waits for a flight that  *)
(* has ended.                                                              *)
(***************************************************************************)
EXTENDS SchematicStore, TLAPS

\* What is known of the calls.  A call that began sure of its id is about an
\* id that its replica has confirmed, and is not answered "missing".
CallInv ==
    \A c \in Clients :
        /\ call[c].state # "idle" /\ call[c].sure => call[c].id \in settled[call[c].at]
        /\ call[c].state = "done" =>
              /\ call[c].sure => call[c].answer # "missing"
              /\ call[c].op = "put" => call[c].answer # "missing"
              /\ call[c].op = "put" /\ call[c].answer = "found" => call[c].id \in blobs

\* What a flight knows at each of its steps.  While it is past the cache the
\* item of its id is empty: nobody else fills it.
FlightInv ==
    \A r \in Replicas, i \in Ids :
        LET f == flight[r][i]
        IN /\ f.step # "idle" => f.kind \in Ops
           /\ f.step \in {"layer", "manifest"} => f.kind = "put"
           /\ f.step \in {"fetch", "sawfound", "sawmissing"} => entry[r][i] = "none"
           /\ f.step \in {"sawfound", "manifest"} => i \in blobs
           /\ f.step = "sawmissing" => i \notin settled[r]

WaiterInv ==
    \A r \in Replicas, i \in Ids : \A c \in flight[r][i].waiters :
        call[c].state = "waiting" /\ call[c].at = r /\ call[c].id = i

\* The cache and the history agree with the registry.
CacheInv ==
    /\ \A r \in Replicas : settled[r] \subseteq blobs
    /\ \A r \in Replicas, i \in Ids :
          /\ entry[r][i] = "present" => i \in blobs
          /\ entry[r][i] = "absent" => i \notin settled[r]

IInv == TypeOK /\ CallInv /\ FlightInv /\ WaiterInv /\ CacheInv

---------------------------------------------------------------------------
(* Type correctness *)

\* The replies of a flight are well typed, whatever the kind of the flight.
LEMMA OutcomeType ==
    ASSUME NEW cl \in Calls, NEW kind, NEW ans \in {"found", "missing", "failed"}
    PROVE  Outcome(cl, kind, ans) \in Calls \cup Replies
BY DEF Outcome, Answered, Calls, Replies

\* Finish keeps the variables it changes well typed.
LEMMA FinishType ==
    ASSUME TypeOK, WaiterInv, NEW r \in Replicas, NEW i \in Ids,
           NEW ans \in {"found", "missing", "failed"}, Finish(r, i, ans)
    PROVE  /\ flight' \in [Replicas -> [Ids -> Flights]]
           /\ call' \in [Clients -> Calls \cup Replies \cup {NoCall}]
           /\ settled' \in [Replicas -> SUBSET Ids]
<1>1. flight' \in [Replicas -> [Ids -> Flights]]
  BY DEF TypeOK, Finish, NoFlight, Flights, Steps
<1>2. \A c \in flight[r][i].waiters : c \in Clients => call[c] \in Calls
  BY DEF TypeOK, WaiterInv, Calls, Replies, NoCall
<1>3. call' \in [Clients -> Calls \cup Replies \cup {NoCall}]
  BY <1>2, OutcomeType DEF TypeOK, Finish
<1>4. settled' \in [Replicas -> SUBSET Ids]
  BY DEF TypeOK, Finish
<1> QED BY <1>1, <1>3, <1>4

\* So do the two ways a flight goes on.
LEMMA GotoType ==
    ASSUME TypeOK, NEW r \in Replicas, NEW i \in Ids, NEW step \in Steps, Goto(r, i, step)
    PROVE  /\ flight' \in [Replicas -> [Ids -> Flights]]
           /\ call' \in [Clients -> Calls \cup Replies \cup {NoCall}]
           /\ settled' \in [Replicas -> SUBSET Ids]
<1> DEFINE g == [flight[r][i] EXCEPT !.step = step]
<1>0. flight[r][i] \in Flights
  BY DEF TypeOK
<1>1. g \in Flights
  BY <1>0 DEF Flights
<1>2. flight' = [flight EXCEPT ![r] = [flight[r] EXCEPT ![i] = g]]
  BY DEF Goto
<1> HIDE DEF g
<1>3. flight' \in [Replicas -> [Ids -> Flights]]
  BY <1>1, <1>2 DEF TypeOK
<1> QED BY <1>3 DEF TypeOK, Goto

---------------------------------------------------------------------------
(* The invariant across the two ways a flight's step ends *)

\* What every step of the flight of i at r does to the store and the cache:
\* the registry only grows, other items stay, and its own stays honest.
StoreStep(r, i) ==
    /\ blobs' \in SUBSET Ids /\ blobs \subseteq blobs'
    /\ entry' \in [Replicas -> [Ids -> Items]]
    /\ \A q \in Replicas, j \in Ids : q # r \/ j # i => entry'[q][j] = entry[q][j]
    /\ entry'[r][i] = "present" => i \in blobs'
    /\ entry'[r][i] = "absent" => i \notin settled[r]

\* A flight that ends with "found" only for stored ids, and with "missing"
\* only as a read of an id not yet confirmed, preserves the invariant.
LEMMA FinishInv ==
    ASSUME IInv, NEW r \in Replicas, NEW i \in Ids,
           NEW ans \in {"found", "missing", "failed"}, Finish(r, i, ans),
           StoreStep(r, i), flight[r][i].step # "idle",
           ans = "found" => i \in blobs' /\ entry'[r][i] # "absent",
           ans = "missing" => flight[r][i].kind = "get" /\ i \notin settled[r]
    PROVE  CallInv' /\ FlightInv' /\ WaiterInv' /\ CacheInv'
<1> DEFINE f == flight[r][i]
<1>1. \A q \in Replicas : settled[q] \subseteq settled'[q]
  BY DEF Finish, IInv, TypeOK
<1>2. \A q \in Replicas, j \in Ids : q # r \/ j # i => (j \in settled'[q] <=> j \in settled[q])
  BY DEF Finish, IInv, TypeOK
<1>3. /\ \A q \in Replicas, j \in Ids : q # r \/ j # i => flight'[q][j] = flight[q][j]
      /\ flight'[r][i] = NoFlight
  BY DEF Finish, IInv, TypeOK
<1>4. f.kind \in Ops
  BY DEF IInv, FlightInv
<1>5. CallInv'
  <2> SUFFICES ASSUME NEW c \in Clients
               PROVE  /\ call'[c].state # "idle" /\ call'[c].sure => call'[c].id \in settled'[call'[c].at]
                      /\ call'[c].state = "done" =>
                            /\ call'[c].sure => call'[c].answer # "missing"
                            /\ call'[c].op = "put" => call'[c].answer # "missing"
                            /\ call'[c].op = "put" /\ call'[c].answer = "found" => call'[c].id \in blobs'
    BY DEF CallInv
  <2>1. CASE c \notin f.waiters
    <3>1. call'[c] = call[c]
      BY <2>1 DEF Finish
    <3>2. call[c].state # "idle" => call[c].at \in Replicas
      BY DEF IInv, TypeOK, Calls, Replies, NoCall
    <3> QED BY <1>1, <3>1, <3>2 DEF IInv, CallInv, StoreStep
  <2>2. CASE c \in f.waiters
    <3>1. call[c].state = "waiting" /\ call[c].at = r /\ call[c].id = i
      BY <2>2 DEF IInv, WaiterInv
    <3>2. call'[c] = Outcome(call[c], f.kind, ans)
      BY <2>2 DEF Finish
    <3>3. call[c] \in Calls
      BY <3>1 DEF IInv, TypeOK, Calls, Replies, NoCall
    <3>4. call[c].sure => i \in settled[r]
      BY <3>1 DEF IInv, CallInv
    <3>5. CASE call[c].op = "put" /\ f.kind = "get" /\ ans # "found"
      <4>1. call'[c] = [call[c] EXCEPT !.state = "calling"]
        BY <3>2, <3>5 DEF Outcome
      <4>2. /\ call'[c].state = "calling" /\ call'[c].sure = call[c].sure
            /\ call'[c].at = r /\ call'[c].id = i
        BY <4>1, <3>1, <3>3 DEF Calls
      <4> QED BY <4>2, <3>4, <1>1
    <3>6. CASE ~(call[c].op = "put" /\ f.kind = "get" /\ ans # "found")
      <4>1. call'[c] = Answered(call[c], ans)
        BY <3>2, <3>6 DEF Outcome
      <4>2. /\ call'[c].sure = call[c].sure /\ call'[c].op = call[c].op /\ call'[c].answer = ans
            /\ call'[c].at = r /\ call'[c].id = i
        BY <4>1, <3>1 DEF Answered
      <4> QED BY <4>2, <3>4, <3>6, <1>1 DEF IInv
    <3> QED BY <3>5, <3>6
  <2> QED BY <2>1, <2>2
<1>6. FlightInv'
  <2>1. ASSUME NEW q \in Replicas, NEW j \in Ids, q # r \/ j # i
        PROVE  /\ flight'[q][j] = flight[q][j] /\ entry'[q][j] = entry[q][j]
               /\ j \in settled'[q] <=> j \in settled[q]
               /\ j \in blobs => j \in blobs'
    BY <1>2, <1>3, <2>1 DEF StoreStep
  <2> QED BY <1>3, <2>1 DEF IInv, FlightInv, NoFlight, Ops
<1>7. WaiterInv'
  <2> SUFFICES ASSUME NEW q \in Replicas, NEW j \in Ids, NEW c \in flight'[q][j].waiters
               PROVE  call'[c].state = "waiting" /\ call'[c].at = q /\ call'[c].id = j
    BY DEF WaiterInv
  <2>1. q # r \/ j # i
    BY <1>3 DEF NoFlight
  <2>2. c \in flight[q][j].waiters /\ c \in Clients
    BY <1>3, <2>1 DEF IInv, TypeOK, Flights
  <2>3. c \notin f.waiters
    BY <2>1, <2>2 DEF IInv, WaiterInv
  <2> QED BY <2>2, <2>3 DEF Finish, IInv, WaiterInv
<1>8. CacheInv'
  BY <1>2 DEF IInv, CacheInv, StoreStep, Finish, TypeOK
<1> QED BY <1>5, <1>6, <1>7, <1>8

\* A flight that goes on to a step whose knowledge it has preserves it too.
LEMMA GotoInv ==
    ASSUME IInv, NEW r \in Replicas, NEW i \in Ids,
           NEW step \in Steps, Goto(r, i, step),
           StoreStep(r, i), flight[r][i].step # "idle",
           step \in {"layer", "manifest"} => flight[r][i].kind = "put",
           step \in {"fetch", "sawfound", "sawmissing"} => entry'[r][i] = "none",
           step \in {"sawfound", "manifest"} => i \in blobs',
           step = "sawmissing" => i \notin settled[r]
    PROVE  CallInv' /\ FlightInv' /\ WaiterInv' /\ CacheInv'
<1>1. /\ \A q \in Replicas, j \in Ids : q # r \/ j # i => flight'[q][j] = flight[q][j]
      /\ flight'[r][i] = [flight[r][i] EXCEPT !.step = step]
      /\ call' = call /\ settled' = settled
  BY DEF Goto, IInv, TypeOK
<1>2. flight[r][i] \in Flights
  BY DEF IInv, TypeOK
<1>3. /\ flight'[r][i].kind = flight[r][i].kind /\ flight'[r][i].step = step
      /\ flight'[r][i].waiters = flight[r][i].waiters
  BY <1>1, <1>2 DEF Flights
<1>4. CallInv'
  BY <1>1 DEF IInv, CallInv, StoreStep
<1>5. FlightInv'
  <2> SUFFICES ASSUME NEW q \in Replicas, NEW j \in Ids
               PROVE  LET g == flight'[q][j]
                      IN /\ g.step # "idle" => g.kind \in Ops
                         /\ g.step \in {"layer", "manifest"} => g.kind = "put"
                         /\ g.step \in {"fetch", "sawfound", "sawmissing"} => entry'[q][j] = "none"
                         /\ g.step \in {"sawfound", "manifest"} => j \in blobs'
                         /\ g.step = "sawmissing" => j \notin settled'[q]
    BY DEF FlightInv
  <2>1. CASE q # r \/ j # i
    <3>1. /\ flight'[q][j] = flight[q][j] /\ entry'[q][j] = entry[q][j]
          /\ j \in blobs => j \in blobs'
      BY <1>1, <2>1 DEF StoreStep
    <3> QED BY <1>1, <3>1 DEF IInv, FlightInv
  <2>2. CASE q = r /\ j = i
    BY <1>1, <1>3, <2>2 DEF IInv, FlightInv
  <2> QED BY <2>1, <2>2
<1>6. WaiterInv'
  <2>1. \A q \in Replicas, j \in Ids : flight'[q][j].waiters = flight[q][j].waiters
    BY <1>1, <1>3
  <2> QED BY <1>1, <2>1 DEF IInv, WaiterInv
<1>7. CacheInv'
  BY <1>1 DEF IInv, CacheInv, StoreStep
<1> QED BY <1>4, <1>5, <1>6, <1>7

---------------------------------------------------------------------------
(* One lemma per kind of action *)

\* Every step of a flight preserves the invariant.
LEMMA FlightStepInv ==
    ASSUME IInv, NEW r \in Replicas, NEW i \in Ids, FlightStep(r, i)
    PROVE  IInv'
<1> DEFINE f == flight[r][i]
<1>1. /\ flight[r][i] \in Flights /\ entry[r][i] \in Items
      /\ settled[r] \subseteq blobs
  BY DEF IInv, TypeOK, CacheInv
<1>2. \A q \in Replicas, j \in Ids : j \in settled[q] => j \in blobs
  BY DEF IInv, CacheInv
<1>3. CASE Lookup(r, i)
  <2>1. StoreStep(r, i) /\ entry' = entry
    BY <1>3 DEF Lookup, StoreStep, IInv, TypeOK, CacheInv
  <2>2. f.step = "lookup" /\ f.kind \in Ops
    BY <1>3 DEF Lookup, IInv, FlightInv
  <2>3. CASE entry[r][i] = "present" /\ Finish(r, i, "found")
    <3>1. i \in blobs'
      BY <2>1, <2>3 DEF StoreStep
    <3> QED BY <1>3, <2>1, <2>2, <2>3, <3>1, FinishInv, FinishType DEF Lookup, IInv, TypeOK
  <2>4. CASE entry[r][i] = "absent" /\ Finish(r, i, "missing") /\ f.kind # "put"
    <3>1. f.kind = "get" /\ i \notin settled[r]
      BY <2>2, <2>4 DEF Ops, IInv, CacheInv
    <3> QED BY <1>3, <2>1, <2>2, <2>4, <3>1, FinishInv, FinishType DEF Lookup, IInv, TypeOK
  <2>5. CASE f.kind = "put" /\ Goto(r, i, "layer")
    BY <1>3, <2>1, <2>2, <2>5, GotoInv, GotoType DEF Lookup, IInv, TypeOK, Steps
  <2>6. CASE entry[r][i] = "none" /\ Goto(r, i, "fetch")
    BY <1>3, <2>1, <2>2, <2>6, GotoInv, GotoType DEF Lookup, IInv, TypeOK, Steps
  <2> QED BY <1>3, <2>3, <2>4, <2>5, <2>6 DEF Lookup, NotThere
<1>4. CASE Fetch(r, i)
  <2>1. StoreStep(r, i) /\ entry' = entry /\ blobs' = blobs
    BY <1>4 DEF Fetch, StoreStep, IInv, TypeOK, CacheInv
  <2>2. f.step = "fetch" /\ entry[r][i] = "none"
    BY <1>4 DEF Fetch, IInv, FlightInv
  <2>3. CASE i \in blobs /\ Goto(r, i, "sawfound")
    BY <1>4, <2>1, <2>2, <2>3, GotoInv, GotoType DEF Fetch, IInv, TypeOK, Steps
  <2>4. CASE i \notin blobs /\ Goto(r, i, "sawmissing")
    BY <1>2, <1>4, <2>1, <2>2, <2>4, GotoInv, GotoType DEF Fetch, IInv, TypeOK, Steps
  <2> QED BY <1>4, <2>3, <2>4 DEF Fetch
<1>5. CASE FetchFails(r, i)
  <2>1. StoreStep(r, i) /\ entry' = entry /\ faults' \in Nat
    BY <1>5 DEF FetchFails, Fault, StoreStep, IInv, TypeOK, CacheInv
  <2>2. f.step = "fetch"
    BY <1>5 DEF FetchFails
  <2>3. CASE f.kind = "put" /\ Goto(r, i, "layer")
    BY <1>5, <2>1, <2>2, <2>3, GotoInv, GotoType DEF FetchFails, IInv, TypeOK, Steps
  <2>4. CASE Finish(r, i, "failed")
    BY <1>5, <2>1, <2>2, <2>4, FinishInv, FinishType DEF FetchFails, IInv, TypeOK
  <2> QED BY <1>5, <2>3, <2>4 DEF FetchFails, NotThere
<1>6. CASE FillFound(r, i)
  <2>1. f.step = "sawfound" /\ entry[r][i] = "none" /\ i \in blobs
    BY <1>6 DEF FillFound, IInv, FlightInv
  <2>2. StoreStep(r, i) /\ entry'[r][i] = "present" /\ i \in blobs'
    BY <1>6, <2>1 DEF FillFound, FillItem, StoreStep, IInv, TypeOK, Items
  <2>3. Finish(r, i, "found") /\ UNCHANGED <<blobs, tagged, calls, faults>>
    BY <1>6 DEF FillFound
  <2>4. CallInv' /\ FlightInv' /\ WaiterInv' /\ CacheInv'
    BY <2>1, <2>2, <2>3, FinishInv
  <2>5. TypeOK'
    BY <2>2, <2>3, FinishType DEF StoreStep, IInv, TypeOK
  <2> QED BY <2>4, <2>5 DEF IInv
<1>7. CASE FillMissing(r, i)
  <2>1. f.step = "sawmissing" /\ entry[r][i] = "none" /\ i \notin settled[r] /\ f.kind \in Ops
    BY <1>7 DEF FillMissing, IInv, FlightInv
  <2>2. StoreStep(r, i)
    BY <1>7, <2>1 DEF FillMissing, FillItem, StoreStep, IInv, TypeOK, Items
  <2>3. CASE f.kind = "put" /\ Goto(r, i, "layer")
    <3>1. CallInv' /\ FlightInv' /\ WaiterInv' /\ CacheInv'
      BY <2>1, <2>2, <2>3, GotoInv DEF Steps
    <3>2. TypeOK'
      BY <1>7, <2>2, <2>3, GotoType DEF FillMissing, StoreStep, IInv, TypeOK, Steps
    <3> QED BY <3>1, <3>2 DEF IInv
  <2>4. CASE f.kind # "put" /\ Finish(r, i, "missing")
    <3>1. f.kind = "get"
      BY <2>1, <2>4 DEF Ops
    <3>2. CallInv' /\ FlightInv' /\ WaiterInv' /\ CacheInv'
      BY <2>1, <2>2, <2>4, <3>1, FinishInv
    <3>3. TypeOK'
      BY <1>7, <2>2, <2>4, FinishType DEF FillMissing, StoreStep, IInv, TypeOK
    <3> QED BY <3>2, <3>3 DEF IInv
  <2> QED BY <1>7, <2>3, <2>4 DEF FillMissing, NotThere
<1>8. CASE PushLayer(r, i)
  <2>1. f.step = "layer" /\ f.kind = "put"
    BY <1>8 DEF PushLayer, IInv, FlightInv
  <2>2. StoreStep(r, i) /\ i \in blobs'
    BY <1>8 DEF PushLayer, StoreStep, IInv, TypeOK, CacheInv
  <2> QED BY <1>8, <2>1, <2>2, GotoInv, GotoType DEF PushLayer, StoreStep, IInv, TypeOK, Steps
<1>9. CASE PushManifest(r, i)
  <2>1. f.step = "manifest" /\ i \in blobs
    BY <1>9 DEF PushManifest, IInv, FlightInv
  <2>2. StoreStep(r, i) /\ entry'[r][i] = "present" /\ i \in blobs'
    BY <1>9, <2>1 DEF PushManifest, PushedItem, StoreStep, IInv, TypeOK, Items
  <2>3. Finish(r, i, "found") /\ UNCHANGED <<blobs, calls, faults>> /\ tagged' = tagged \cup {i}
    BY <1>9 DEF PushManifest
  <2>4. CallInv' /\ FlightInv' /\ WaiterInv' /\ CacheInv'
    BY <2>1, <2>2, <2>3, FinishInv
  <2>5. TypeOK'
    BY <2>2, <2>3, FinishType DEF StoreStep, IInv, TypeOK
  <2> QED BY <2>4, <2>5 DEF IInv
<1>10. CASE PushFails(r, i)
  <2>1. StoreStep(r, i) /\ faults' \in Nat
    BY <1>10 DEF PushFails, Fault, StoreStep, IInv, TypeOK, CacheInv
  <2> QED BY <1>10, <2>1, FinishInv, FinishType DEF PushFails, IInv, TypeOK
<1> QED BY <1>3, <1>4, <1>5, <1>6, <1>7, <1>8, <1>9, <1>10 DEF FlightStep

\* A new request records what its replica has confirmed so far.
LEMMA RequestInv ==
    ASSUME IInv, NEW c \in Clients, NEW op \in Ops, NEW r \in Replicas, NEW i \in Ids,
           Request(c, op, r, i)
    PROVE  IInv'
<1>1. NewCall(op, r, i) \in Calls
  BY DEF NewCall, Calls
<1>2. TypeOK'
  BY <1>1 DEF Request, IInv, TypeOK
<1>3. CallInv'
  <2>1. /\ call'[c].state = "calling" /\ call'[c].at = r /\ call'[c].id = i
        /\ call'[c].sure => i \in settled[r]
    BY DEF Request, NewCall, IInv, TypeOK
  <2>2. \A d \in Clients : d # c => call'[d] = call[d]
    BY DEF Request, IInv, TypeOK
  <2> QED BY <2>1, <2>2 DEF Request, IInv, CallInv
<1>4. WaiterInv'
  <2>1. \A q \in Replicas, j \in Ids : c \notin flight[q][j].waiters
    BY DEF Request, IInv, WaiterInv
  <2>2. \A q \in Replicas, j \in Ids, d \in Clients : d # c => call'[d] = call[d]
    BY DEF Request, IInv, TypeOK
  <2>3. \A q \in Replicas, j \in Ids : flight[q][j].waiters \subseteq Clients
    BY DEF IInv, TypeOK, Flights
  <2> QED BY <2>1, <2>2, <2>3 DEF Request, IInv, WaiterInv
<1>5. FlightInv' /\ CacheInv'
  BY DEF Request, IInv, FlightInv, CacheInv
<1> QED BY <1>2, <1>3, <1>4, <1>5 DEF IInv

\* A caller leads the flight of its id or waits for the one that runs.
LEMMA DoInv ==
    ASSUME IInv, NEW c \in Clients, Do(c)
    PROVE  IInv'
<1> DEFINE r == call[c].at
           i == call[c].id
           g == IF flight[r][i].step = "idle"
                   THEN [kind |-> call[c].op, step |-> "lookup", waiters |-> {c}]
                   ELSE [flight[r][i] EXCEPT !.waiters = @ \cup {c}]
<1>1. call[c] \in Calls
  BY DEF Do, IInv, TypeOK, Calls, Replies, NoCall
<1>2. r \in Replicas /\ i \in Ids /\ call[c].op \in Ops
  BY <1>1 DEF Calls
<1>3. flight[r][i] \in Flights
  BY <1>2 DEF IInv, TypeOK
<1>4. /\ g \in Flights /\ c \in g.waiters /\ g.waiters \subseteq flight[r][i].waiters \cup {c}
      /\ \/ g.step = "lookup" /\ g.kind \in Ops
         \/ g.step = flight[r][i].step /\ g.kind = flight[r][i].kind
  <2>1. CASE flight[r][i].step = "idle"
    <3>1. g = [kind |-> call[c].op, step |-> "lookup", waiters |-> {c}]
      BY <2>1
    <3>2. [kind |-> call[c].op, step |-> "lookup", waiters |-> {c}] \in Flights
      BY <1>2 DEF Flights, Steps
    <3> HIDE DEF g
    <3> QED BY <1>2, <3>1, <3>2
  <2>2. CASE flight[r][i].step # "idle"
    <3>1. g = [flight[r][i] EXCEPT !.waiters = @ \cup {c}]
      BY <2>2
    <3> QED BY <1>3, <3>1 DEF Flights
  <2> QED BY <2>1, <2>2
<1>5. flight' = [flight EXCEPT ![r] = [flight[r] EXCEPT ![i] = g]]
  BY DEF Do
<1>6. /\ flight'[r][i] = g
      /\ \A q \in Replicas, j \in Ids : q # r \/ j # i => flight'[q][j] = flight[q][j]
  BY <1>2, <1>5 DEF IInv, TypeOK
<1>7. /\ call'[c] = [call[c] EXCEPT !.state = "waiting"]
      /\ \A d \in Clients : d # c => call'[d] = call[d]
  BY DEF Do, IInv, TypeOK
<1>8. /\ call'[c].state = "waiting" /\ call'[c].at = r /\ call'[c].id = i
      /\ call'[c].sure = call[c].sure /\ call'[c] \in Calls
  BY <1>1, <1>7 DEF Calls
<1> HIDE DEF g
<1>9. TypeOK'
  <2>1. flight' \in [Replicas -> [Ids -> Flights]]
    BY <1>2, <1>4, <1>5 DEF IInv, TypeOK
  <2>2. call' \in [Clients -> Calls \cup Replies \cup {NoCall}]
    BY <1>8 DEF Do, IInv, TypeOK
  <2> QED BY <2>1, <2>2 DEF Do, IInv, TypeOK
<1>10. CallInv'
  <2>1. call[c].sure => i \in settled[r]
    BY DEF Do, IInv, CallInv
  <2>2. blobs' = blobs /\ settled' = settled
    BY DEF Do
  <2>3. ASSUME NEW d \in Clients, d # c PROVE call'[d] = call[d]
    BY <1>7, <2>3
  <2> QED BY <1>8, <2>1, <2>2, <2>3 DEF IInv, CallInv
<1>11. FlightInv'
  <2>1. \A q \in Replicas, j \in Ids :
           \/ flight'[q][j].step = "lookup" /\ flight'[q][j].kind \in Ops
           \/ flight'[q][j].step = flight[q][j].step /\ flight'[q][j].kind = flight[q][j].kind
    BY <1>4, <1>6
  <2>2. UNCHANGED <<blobs, entry, settled>>
    BY DEF Do
  <2> QED BY <2>1, <2>2 DEF IInv, FlightInv
<1>12. WaiterInv'
  <2> SUFFICES ASSUME NEW q \in Replicas, NEW j \in Ids, NEW d \in flight'[q][j].waiters
               PROVE  call'[d].state = "waiting" /\ call'[d].at = q /\ call'[d].id = j
    BY DEF WaiterInv
  <2>1. CASE d \in flight[q][j].waiters
    <3>1. call[d].state = "waiting" /\ call[d].at = q /\ call[d].id = j /\ d \in Clients
      BY <2>1 DEF IInv, WaiterInv, TypeOK, Flights
    <3>2. d # c
      BY <3>1 DEF Do
    <3> QED BY <1>7, <3>1, <3>2
  <2>2. CASE d \notin flight[q][j].waiters
    <3>1. q = r /\ j = i /\ d = c
      BY <1>4, <1>6, <2>2
    <3> QED BY <1>8, <3>1
  <2> QED BY <2>1, <2>2
<1>13. CacheInv'
  BY DEF Do, IInv, CacheInv
<1> QED BY <1>9, <1>10, <1>11, <1>12, <1>13 DEF IInv

\* An item that leaves the cache leaves nothing wrong behind.
LEMMA ForgetInv ==
    ASSUME IInv, NEW r \in Replicas, NEW i \in Ids, Expire(r, i) \/ Evict(r, i)
    PROVE  IInv'
<1>1. /\ entry' = [entry EXCEPT ![r][i] = "none"]
      /\ UNCHANGED <<blobs, tagged, flight, call, settled, calls, faults>>
  BY DEF Expire, Evict
<1>2. /\ entry' \in [Replicas -> [Ids -> Items]]
      /\ \A q \in Replicas, j \in Ids : entry'[q][j] = entry[q][j] \/ entry'[q][j] = "none"
  BY <1>1 DEF IInv, TypeOK, Items
<1>3. TypeOK' /\ CallInv' /\ WaiterInv'
  BY <1>1, <1>2 DEF IInv, TypeOK, CallInv, WaiterInv
<1>4. FlightInv' /\ CacheInv'
  BY <1>1, <1>2 DEF IInv, FlightInv, CacheInv
<1> QED BY <1>3, <1>4 DEF IInv

\* A crash answers the replica's calls with a failure and empties its memory.
LEMMA CrashInv ==
    ASSUME IInv, NEW r \in Replicas, Crash(r)
    PROVE  IInv'
<1> DEFINE hit(c) == call[c].state \in {"calling", "waiting"} /\ call[c].at = r
<1>1. /\ entry' \in [Replicas -> [Ids -> Items]] /\ flight' \in [Replicas -> [Ids -> Flights]]
      /\ \A i \in Ids : entry'[r][i] = "none" /\ flight'[r][i] = NoFlight
      /\ \A q \in Replicas : q # r => entry'[q] = entry[q] /\ flight'[q] = flight[q]
  BY DEF Crash, IInv, TypeOK, Items, Flights, NoFlight, Steps
<1>2. \A c \in Clients : hit(c) => call[c] \in Calls
  BY DEF IInv, TypeOK, Calls, Replies, NoCall
<1>3. \A c \in Clients : call'[c] = IF hit(c) THEN Answered(call[c], "failed") ELSE call[c]
  BY DEF Crash
<1>4. \A c \in Clients : call[c] \in Calls => Answered(call[c], "failed") \in Replies
  BY DEF Answered, Calls, Replies
<1>5. TypeOK'
  <2>1. call' \in [Clients -> Calls \cup Replies \cup {NoCall}]
    BY <1>2, <1>4 DEF Crash, IInv, TypeOK
  <2> QED BY <1>1, <2>1 DEF Crash, Fault, IInv, TypeOK
<1>6. CallInv'
  BY <1>3 DEF Crash, Answered, IInv, CallInv
<1>7. FlightInv' /\ CacheInv'
  BY <1>1 DEF Crash, IInv, FlightInv, CacheInv, NoFlight
<1>8. WaiterInv'
  <2> SUFFICES ASSUME NEW q \in Replicas, NEW j \in Ids, NEW c \in flight'[q][j].waiters
               PROVE  call'[c].state = "waiting" /\ call'[c].at = q /\ call'[c].id = j
    BY DEF WaiterInv
  <2>1. q # r /\ c \in flight[q][j].waiters
    BY <1>1 DEF NoFlight
  <2>2. call[c].state = "waiting" /\ call[c].at = q /\ call[c].id = j /\ c \in Clients
    BY <2>1 DEF IInv, WaiterInv, TypeOK, Flights
  <2> QED BY <1>3, <2>1, <2>2
<1> QED BY <1>5, <1>6, <1>7, <1>8 DEF IInv

---------------------------------------------------------------------------
(* The theorems *)

LEMMA InitInv == Init => IInv
BY DEF Init, IInv, TypeOK, CallInv, FlightInv, WaiterInv, CacheInv, NoFlight, NoCall,
       Flights, Steps, Items

LEMMA NextInv == IInv /\ [Next]_vars => IInv'
<1> SUFFICES ASSUME IInv, [Next]_vars PROVE IInv'
  OBVIOUS
<1>1. CASE UNCHANGED vars
  BY <1>1 DEF vars, IInv, TypeOK, CallInv, FlightInv, WaiterInv, CacheInv
<1>2. CASE Next
  BY <1>2, RequestInv, DoInv, FlightStepInv, ForgetInv, CrashInv DEF Next
<1> QED BY <1>1, <1>2

\* Every reachable state is well typed: calls, flights and cache items have
\* the shapes the factory gives them.
THEOREM TypeCorrect == Spec => []TypeOK
<1>1. IInv => TypeOK
  BY DEF IInv
<1> QED BY InitInv, NextInv, <1>1, PTL DEF Spec

\* Neither an acknowledgement of Factory.Put nor a positive cache item ever
\* speaks of a schematic that is not in the registry.
THEOREM PromisesStored == Spec => []StoredBehindPromise
<1>1. IInv => StoredBehindPromise
  BY DEF IInv, CallInv, CacheInv, StoredBehindPromise, Acknowledged
<1> QED BY InitInv, NextInv, <1>1, PTL DEF Spec

\* Read your writes at one replica: Factory.Get never denies a schematic the
\* replica had confirmed before the call began.
THEOREM ReadYourWrites == Spec => []ConfirmedStaysFound
<1>1. IInv => ConfirmedStaysFound
  BY DEF IInv, CallInv, ConfirmedStaysFound
<1> QED BY InitInv, NextInv, <1>1, PTL DEF Spec

\* The retry loop of Factory.Put keeps the failure of a joined read from
\* being the answer of a write.
THEOREM PutRetries == Spec => []PutNeverMissing
<1>1. IInv => PutNeverMissing
  BY DEF IInv, CallInv, PutNeverMissing
<1> QED BY InitInv, NextInv, <1>1, PTL DEF Spec

---------------------------------------------------------------------------
(* The store implements the register *)

\* A flight that pushes was led, or joined, by a Put: nobody leaves a flight
\* before it ends, so the upload has an open Put it can be ascribed to.
LeaderInv ==
    \A r \in Replicas, i \in Ids :
        flight[r][i].kind = "put" => \E c \in flight[r][i].waiters : call[c].op = "put"

LEMMA CallerType == ASSUME IInv, NEW c \in Clients, Do(c) PROVE call[c] \in Calls
<1>1. call[c].state = "calling"
  BY DEF Do
<1> QED BY <1>1 DEF IInv, TypeOK, Calls, Replies, NoCall

\* What a step does to a call that waits: it may be answered, but never
\* turns into another one.
LEMMA OpsKept ==
    ASSUME IInv, Next, NEW c \in Clients, call[c].state = "waiting"
    PROVE  call'[c].op = call[c].op
<1>1. call[c] \in Calls
  BY DEF IInv, TypeOK, Calls, Replies, NoCall
<1>2. ASSUME NEW d \in Clients, NEW op \in Ops, NEW r \in Replicas, NEW i \in Ids,
             Request(d, op, r, i)
      PROVE  call'[c] = call[c]
  BY <1>2 DEF Request, IInv, TypeOK
<1>3. ASSUME NEW d \in Clients, Do(d) PROVE call'[c] = call[c]
  BY <1>3 DEF Do, IInv, TypeOK
<1>4. ASSUME NEW r \in Replicas, NEW i \in Ids, FlightStep(r, i) PROVE call'[c].op = call[c].op
  <2>1. ASSUME NEW kind, NEW ans PROVE Outcome(call[c], kind, ans).op = call[c].op
    BY <1>1 DEF Outcome, Answered, Calls
  <2>2. ASSUME NEW ans, Finish(r, i, ans) PROVE call'[c].op = call[c].op
    BY <2>1, <2>2 DEF Finish
  <2>3. ASSUME NEW step, Goto(r, i, step) PROVE call'[c].op = call[c].op
    BY <2>3 DEF Goto
  <2> QED BY <1>4, <2>2, <2>3 DEF FlightStep, Lookup, NotThere, Fetch, FetchFails, FillFound,
                                  FillMissing, PushLayer, PushManifest, PushFails
<1>5. ASSUME NEW r \in Replicas, NEW i \in Ids, Expire(r, i) \/ Evict(r, i)
      PROVE  call'[c] = call[c]
  BY <1>5 DEF Expire, Evict
<1>6. ASSUME NEW r \in Replicas, Crash(r) PROVE call'[c].op = call[c].op
  BY <1>6 DEF Crash, Answered
<1> QED BY <1>2, <1>3, <1>4, <1>5, <1>6 DEF Next

\* What a step does to a flight: it ends, keeps its kind and its waiters,
\* takes one more, or begins with the one that leads it.
LEMMA FlightsKept ==
    ASSUME IInv, Next, NEW r \in Replicas, NEW i \in Ids
    PROVE  LET f == flight[r][i]
               g == flight'[r][i]
           IN  \/ g = NoFlight
               \/ g.kind = f.kind /\ f.waiters \subseteq g.waiters
               \/ \E c \in Clients : Do(c) /\ g.kind = call[c].op /\ g.waiters = {c}
<1> DEFINE Kept == \/ flight'[r][i] = NoFlight
                   \/ /\ flight'[r][i].kind = flight[r][i].kind
                      /\ flight[r][i].waiters \subseteq flight'[r][i].waiters
<1>0. flight[r][i] \in Flights
  BY DEF IInv, TypeOK
<1>1. ASSUME NEW d \in Clients, NEW op \in Ops, NEW q \in Replicas, NEW j \in Ids,
             Request(d, op, q, j)
      PROVE  Kept
  BY <1>1 DEF Request
<1>2. ASSUME NEW c \in Clients, Do(c)
      PROVE  Kept \/ (flight'[r][i].kind = call[c].op /\ flight'[r][i].waiters = {c})
  <2> DEFINE led    == [kind |-> call[c].op, step |-> "lookup", waiters |-> {c}]
             joined == [flight[r][i] EXCEPT !.waiters = @ \cup {c}]
  <2>1. call[c].at \in Replicas /\ call[c].id \in Ids
    BY <1>2, CallerType DEF Calls
  <2>2. joined.kind = flight[r][i].kind /\ flight[r][i].waiters \subseteq joined.waiters
    BY <1>0 DEF Flights
  <2>3. flight'[r][i] = flight[r][i] \/ flight'[r][i] = led \/ flight'[r][i] = joined
    BY <1>2, <2>1 DEF Do, IInv, TypeOK
  <2>4. led.kind = call[c].op /\ led.waiters = {c}
    OBVIOUS
  <2> HIDE DEF led, joined
  <2> QED BY <2>2, <2>3, <2>4
<1>3. ASSUME NEW q \in Replicas, NEW j \in Ids, FlightStep(q, j) PROVE Kept
  <2>1. ASSUME NEW ans, Finish(q, j, ans) PROVE Kept
    BY <2>1 DEF Finish, IInv, TypeOK
  <2>2. ASSUME NEW step, Goto(q, j, step) PROVE Kept
    <3> DEFINE g == [flight[q][j] EXCEPT !.step = step]
    <3>1. flight[q][j] \in Flights
      BY DEF IInv, TypeOK
    <3>2. g.kind = flight[q][j].kind /\ g.waiters = flight[q][j].waiters
      BY <3>1 DEF Flights
    <3>3. flight' = [flight EXCEPT ![q] = [flight[q] EXCEPT ![j] = g]]
      BY <2>2 DEF Goto
    <3> HIDE DEF g
    <3> QED BY <3>2, <3>3 DEF IInv, TypeOK
  <2> QED BY <1>3, <2>1, <2>2 DEF FlightStep, Lookup, NotThere, Fetch, FetchFails, FillFound,
                                  FillMissing, PushLayer, PushManifest, PushFails
<1>4. ASSUME NEW q \in Replicas, NEW j \in Ids, Expire(q, j) \/ Evict(q, j) PROVE Kept
  BY <1>4 DEF Expire, Evict
<1>5. ASSUME NEW q \in Replicas, Crash(q) PROVE Kept
  BY <1>5 DEF Crash, IInv, TypeOK
<1> QED BY <1>1, <1>2, <1>3, <1>4, <1>5 DEF Next

LEMMA LeaderKept == IInv /\ LeaderInv /\ [Next]_vars => LeaderInv'
<1> SUFFICES ASSUME IInv, LeaderInv, [Next]_vars, NEW r \in Replicas, NEW i \in Ids,
                    flight'[r][i].kind = "put"
             PROVE  \E c \in flight'[r][i].waiters : call'[c].op = "put"
  BY DEF LeaderInv
<1>1. CASE UNCHANGED vars
  BY <1>1 DEF vars, LeaderInv
<1>2. CASE Next
  <2>1. flight'[r][i] # NoFlight
    BY DEF NoFlight
  <2>2. CASE /\ flight'[r][i].kind = flight[r][i].kind
             /\ flight[r][i].waiters \subseteq flight'[r][i].waiters
    <3>1. PICK c \in flight[r][i].waiters : call[c].op = "put"
      BY <2>2 DEF LeaderInv
    <3>2. c \in Clients /\ call[c].state = "waiting"
      BY DEF IInv, WaiterInv, TypeOK, Flights
    <3> QED BY <1>2, <2>2, <3>1, <3>2, OpsKept
  <2>3. ASSUME NEW c \in Clients, Do(c), flight'[r][i].kind = call[c].op,
               flight'[r][i].waiters = {c}
        PROVE  \E d \in flight'[r][i].waiters : call'[d].op = "put"
    <3>1. call[c] \in Calls
      BY <2>3, CallerType
    <3>2. call' = [call EXCEPT ![c] = [call[c] EXCEPT !.state = "waiting"]]
      BY <2>3 DEF Do
    <3>3. call'[c].op = call[c].op
      BY <3>1, <3>2 DEF IInv, TypeOK, Calls
    <3> QED BY <2>3, <3>3
  <2> QED BY <1>2, <2>1, <2>2, <2>3, FlightsKept
<1> QED BY <1>1, <1>2

\* A call as the register sees it: open while its caller waits, and the same
\* answer after it.
LEMMA AbstractFacts ==
    /\ \A cl \in Calls :
          AbstractCall(cl) = [state |-> "open", op |-> cl.op, at |-> cl.at, id |-> cl.id,
                              sure |-> cl.sure]
    /\ \A cl \in Calls : \A ans :
          AbstractCall(Answered(cl, ans)) = Register!Closed(AbstractCall(cl), ans)
    /\ \A cl \in Calls : AbstractCall([cl EXCEPT !.state = "calling"]) = AbstractCall(cl)
    /\ \A cl \in Calls : AbstractCall([cl EXCEPT !.state = "waiting"]) = AbstractCall(cl)
    /\ \A cl \in Calls \cup Replies \cup {NoCall} :
          AbstractCall(cl).state = "open" <=> cl \in Calls
<1>1. ASSUME NEW cl \in Calls
      PROVE  AbstractCall(cl) = [state |-> "open", op |-> cl.op, at |-> cl.at, id |-> cl.id,
                                 sure |-> cl.sure]
  BY DEF AbstractCall, Calls
<1>2. ASSUME NEW cl \in Calls, NEW ans
      PROVE  AbstractCall(Answered(cl, ans)) = Register!Closed(AbstractCall(cl), ans)
  <2>1. AbstractCall(Answered(cl, ans)) = Answered(cl, ans)
    BY DEF AbstractCall, Answered
  <2> QED BY <1>1, <2>1 DEF Answered, Register!Closed
<1>3. ASSUME NEW cl \in Calls, NEW state \in {"calling", "waiting"}
      PROVE  AbstractCall([cl EXCEPT !.state = state]) = AbstractCall(cl)
  <2>1. [cl EXCEPT !.state = state] \in Calls
    BY DEF Calls
  <2> QED BY <1>1, <2>1 DEF Calls
<1>4. ASSUME NEW cl \in Replies \cup {NoCall}
      PROVE  AbstractCall(cl).state # "open" /\ cl \notin Calls
  <2>1. cl.state \in {"idle", "done"}
    BY DEF Replies, NoCall
  <2>2. AbstractCall(cl) = cl
    BY <2>1 DEF AbstractCall
  <2> QED BY <2>1, <2>2 DEF Calls
<1>5. \A cl \in Calls : AbstractCall([cl EXCEPT !.state = "calling"]) = AbstractCall(cl)
  BY <1>3
<1>6. \A cl \in Calls : AbstractCall([cl EXCEPT !.state = "waiting"]) = AbstractCall(cl)
  BY <1>3
<1>7. ASSUME NEW cl \in Calls \cup Replies \cup {NoCall}
      PROVE  AbstractCall(cl).state = "open" <=> cl \in Calls
  <2>1. CASE cl \in Calls
    <3>1. AbstractCall(cl) = [state |-> "open", op |-> cl.op, at |-> cl.at, id |-> cl.id,
                              sure |-> cl.sure]
      BY <1>1, <2>1
    <3> QED BY <2>1, <3>1
  <2>2. CASE cl \notin Calls
    BY <1>4, <2>2
  <2> QED BY <2>1, <2>2
<1>8. \A cl \in Calls : AbstractCall(cl) = [state |-> "open", op |-> cl.op, at |-> cl.at,
                                            id |-> cl.id, sure |-> cl.sure]
  BY <1>1
<1>9. \A cl \in Calls : \A ans :
          AbstractCall(Answered(cl, ans)) = Register!Closed(AbstractCall(cl), ans)
  BY <1>2
<1> QED BY <1>5, <1>6, <1>7, <1>8, <1>9, Zenon

\* The end of a flight is one reply to the waiters it answers; those that go
\* round the loop of Factory.Put again stay open.
LEMMA FinishReplies ==
    ASSUME IInv, NEW r \in Replicas, NEW i \in Ids,
           NEW ans \in {"found", "missing", "failed"}, Finish(r, i, ans), blobs' = blobs,
           ans = "found" => i \in blobs,
           ans = "missing" => flight[r][i].kind = "get" /\ i \notin settled[r]
    PROVE  Register!Next
<1> DEFINE f == flight[r][i]
           again(c) == call[c].op = "put" /\ f.kind = "get" /\ ans # "found"
           S == {c \in f.waiters : ~ again(c)}
           old == [c \in Clients |-> AbstractCall(call[c])]
           new == [c \in Clients |-> AbstractCall(call'[c])]
<1>1. f.waiters \subseteq Clients
  BY DEF IInv, TypeOK, Flights
<1>2. ASSUME NEW c \in f.waiters
      PROVE  call[c] \in Calls /\ call[c].at = r /\ call[c].id = i
  BY <1>1 DEF IInv, WaiterInv, TypeOK, Calls, Replies, NoCall
<1>3. ASSUME NEW c \in S
      PROVE  /\ old[c].state = "open" /\ old[c].at = r /\ old[c].id = i
             /\ ans = "missing" => old[c].op = "get" /\ ~ old[c].sure
  <2>1. call[c] \in Calls /\ call[c].at = r /\ call[c].id = i /\ c \in Clients
    BY <1>1, <1>2
  <2>2. old[c] = [state |-> "open", op |-> call[c].op, at |-> call[c].at, id |-> call[c].id,
                  sure |-> call[c].sure]
    BY <2>1, AbstractFacts
  <2>3. ans = "missing" => call[c].op # "put" /\ ~ call[c].sure
    BY <2>1 DEF IInv, CallInv, Calls
  <2>4. call[c].op \in Ops
    BY <2>1 DEF Calls
  <2> QED BY <2>1, <2>2, <2>3, <2>4 DEF Ops
<1>4. ASSUME NEW c \in Clients
      PROVE  new[c] = IF c \in S THEN Register!Closed(old[c], ans) ELSE old[c]
  <2>1. CASE c \notin f.waiters
    BY <2>1 DEF Finish
  <2>2. CASE c \in f.waiters /\ again(c)
    <3>1. call'[c] = [call[c] EXCEPT !.state = "calling"]
      BY <2>2 DEF Finish, Outcome
    <3> QED BY <1>2, <2>2, <3>1, AbstractFacts
  <2>3. CASE c \in S
    <3>1. call'[c] = Answered(call[c], ans)
      BY <2>3 DEF Finish, Outcome
    <3> QED BY <1>2, <2>3, <3>1, AbstractFacts
  <2> QED BY <2>1, <2>2, <2>3
<1>5. new = [c \in Clients |-> IF c \in S THEN Register!Closed(old[c], ans) ELSE old[c]]
  BY <1>4
<1>6. settled' = IF ans = "found" THEN [settled EXCEPT ![r] = @ \cup {i}] ELSE settled
  BY DEF Finish
<1>7. S \in SUBSET Clients /\ ans \in Register!Answers
  BY <1>1 DEF Register!Answers
<1> HIDE DEF S
<1>8. Register!Reply(S, r, i, ans)
  BY <1>3, <1>5, <1>6 DEF Register!Reply
<1> QED BY <1>7, <1>8 DEF Register!Next

\* Every step of a flight is a reply, the write of its content while a Put of
\* it is open, or nothing the register sees.
LEMMA FlightRefines ==
    ASSUME IInv, LeaderInv, NEW r \in Replicas, NEW i \in Ids, FlightStep(r, i)
    PROVE  Register!Next \/ UNCHANGED Register!vars
<1> DEFINE f == flight[r][i]
<1>i. /\ f.step # "idle" => f.kind \in Ops
      /\ f.step \in {"fetch", "sawfound", "sawmissing"} => entry[r][i] = "none"
      /\ f.step \in {"layer", "manifest"} => f.kind = "put"
      /\ f.step \in {"sawfound", "manifest"} => i \in blobs
      /\ f.step = "sawmissing" => i \notin settled[r]
      /\ entry[r][i] = "present" => i \in blobs
      /\ entry[r][i] = "absent" => i \notin settled[r]
  BY DEF IInv, FlightInv, CacheInv
<1>g. ASSUME NEW step, Goto(r, i, step), blobs' = blobs PROVE UNCHANGED Register!vars
  BY <1>g DEF Goto, Register!vars
<1>n. ASSUME NEW ans \in {"missing", "failed"}, NotThere(r, i, ans), blobs' = blobs,
             f.step # "idle", ans = "missing" => i \notin settled[r]
      PROVE  Register!Next \/ UNCHANGED Register!vars
  <2>1. CASE f.kind = "put"
    BY <1>n, <1>g, <2>1 DEF NotThere
  <2>2. CASE f.kind # "put"
    <3>1. f.kind = "get"
      BY <1>i, <1>n, <2>2 DEF Ops
    <3>2. Finish(r, i, ans)
      BY <1>n, <2>2 DEF NotThere
    <3> QED BY <1>n, <3>1, <3>2, FinishReplies
  <2> QED BY <2>1, <2>2
<1>1. CASE Lookup(r, i)
  <2>1. f.step = "lookup" /\ blobs' = blobs
    BY <1>1 DEF Lookup
  <2>2. CASE entry[r][i] = "present" /\ Finish(r, i, "found")
    BY <1>i, <2>1, <2>2, FinishReplies
  <2>3. CASE entry[r][i] = "absent" /\ NotThere(r, i, "missing")
    BY <1>i, <1>n, <2>1, <2>3
  <2>4. CASE entry[r][i] = "none" /\ Goto(r, i, "fetch")
    BY <1>g, <2>1, <2>4
  <2> QED BY <1>1, <2>2, <2>3, <2>4 DEF Lookup
<1>2. CASE Fetch(r, i)
  BY <1>2, <1>g DEF Fetch
<1>3. CASE FetchFails(r, i)
  BY <1>3, <1>n DEF FetchFails
<1>4. CASE FillFound(r, i)
  BY <1>4, <1>i, FinishReplies DEF FillFound
<1>5. CASE FillMissing(r, i)
  BY <1>5, <1>i, <1>n DEF FillMissing
<1>6. CASE PushLayer(r, i)
  <2>1. PICK c \in f.waiters : call[c].op = "put"
    BY <1>6, <1>i DEF PushLayer, LeaderInv
  <2>2. c \in Clients /\ call[c] \in Calls /\ call[c].id = i
    BY DEF IInv, WaiterInv, TypeOK, Flights, Calls, Replies, NoCall
  <2>3. LET cl == AbstractCall(call[c]) IN cl.state = "open" /\ cl.op = "put" /\ cl.id = i
    BY <2>1, <2>2, AbstractFacts
  <2>4. blobs' = blobs \cup {i} /\ UNCHANGED <<call, settled>>
    BY <1>6 DEF PushLayer, Goto
  <2>5. Register!Store(i)
    BY <2>2, <2>3, <2>4 DEF Register!Store
  <2> QED BY <2>5 DEF Register!Next
<1>7. CASE PushManifest(r, i)
  BY <1>7, <1>i, FinishReplies DEF PushManifest
<1>8. CASE PushFails(r, i)
  BY <1>8, FinishReplies DEF PushFails
<1> QED BY <1>1, <1>2, <1>3, <1>4, <1>5, <1>6, <1>7, <1>8 DEF FlightStep

LEMMA StepRefines == IInv /\ LeaderInv /\ [Next]_vars => [Register!Next]_(Register!vars)
<1> SUFFICES ASSUME IInv, LeaderInv, [Next]_vars
             PROVE  Register!Next \/ UNCHANGED Register!vars
  OBVIOUS
<1>1. ASSUME NEW c \in Clients, NEW op \in Ops, NEW r \in Replicas, NEW i \in Ids,
             Request(c, op, r, i)
      PROVE  Register!Next
  <2>1. NewCall(op, r, i) \in Calls
    BY DEF NewCall, Calls, IInv, TypeOK
  <2>2. AbstractCall(NewCall(op, r, i)) = Register!OpenCall(op, r, i)
    BY <2>1, AbstractFacts DEF NewCall, Register!OpenCall
  <2>3. AbstractCall(call[c]).state # "open"
    <3>1. call[c] \in Calls \cup Replies \cup {NoCall} /\ call[c] \notin Calls
      BY <1>1 DEF Request, IInv, TypeOK, Calls
    <3> QED BY <3>1, AbstractFacts
  <2>4. [d \in Clients |-> AbstractCall(call'[d])] =
           [[d \in Clients |-> AbstractCall(call[d])] EXCEPT ![c] = Register!OpenCall(op, r, i)]
    BY <1>1, <2>2 DEF Request, IInv, TypeOK
  <2>5. UNCHANGED <<blobs, settled>>
    BY <1>1 DEF Request
  <2>6. Register!Begin(c, op, r, i)
    BY <2>3, <2>4, <2>5 DEF Register!Begin
  <2> QED BY <2>6 DEF Register!Next, Register!Ops, Ops
<1>2. ASSUME NEW c \in Clients, Do(c) PROVE UNCHANGED Register!vars
  <2>1. call[c] \in Calls
    BY <1>2, CallerType
  <2>2. call' = [call EXCEPT ![c] = [call[c] EXCEPT !.state = "waiting"]]
    BY <1>2 DEF Do
  <2>3. \A d \in Clients : AbstractCall(call'[d]) = AbstractCall(call[d])
    BY <2>1, <2>2, AbstractFacts DEF IInv, TypeOK
  <2> QED BY <1>2, <2>3 DEF Do, Register!vars
<1>3. ASSUME NEW r \in Replicas, NEW i \in Ids, Expire(r, i) \/ Evict(r, i)
      PROVE  UNCHANGED Register!vars
  BY <1>3 DEF Expire, Evict, Register!vars
<1>4. ASSUME NEW r \in Replicas, Crash(r) PROVE Register!Next
  <2> DEFINE S == {c \in Clients : call[c].state \in {"calling", "waiting"} /\ call[c].at = r}
             old == [c \in Clients |-> AbstractCall(call[c])]
  <2>1. \A c \in S : call[c] \in Calls
    BY DEF IInv, TypeOK, Calls, Replies, NoCall
  <2>2. \A c \in S : old[c].state = "open"
    BY <2>1, AbstractFacts
  <2>3. \A c \in Clients : AbstractCall(call'[c]) =
                           IF c \in S THEN Register!Closed(old[c], "failed") ELSE old[c]
    BY <1>4, <2>1, AbstractFacts DEF Crash
  <2>4. [c \in Clients |-> AbstractCall(call'[c])] =
           [c \in Clients |-> IF c \in S THEN Register!Closed(old[c], "failed") ELSE old[c]]
    BY <2>3
  <2>5. UNCHANGED <<blobs, settled>>
    BY <1>4 DEF Crash
  <2>6. S \in SUBSET Clients
    OBVIOUS
  <2> HIDE DEF S
  <2>7. Register!Drop(S)
    BY <2>2, <2>4, <2>5 DEF Register!Drop
  <2> QED BY <2>6, <2>7 DEF Register!Next
<1>5. CASE UNCHANGED vars
  BY <1>5 DEF vars, Register!vars
<1> QED BY <1>1, <1>2, <1>3, <1>4, <1>5, FlightRefines DEF Next

\* The factory over its cache and registry implements the register: whatever
\* joins, evictions, expiries, failed uploads and crashes do, callers see of
\* Factory.Put and Factory.Get what SchematicRegister allows.
THEOREM StoreRefinesRegister == Spec => ImplementsRegister
<1>1. Init => Register!Init
  <2>1. AbstractCall(NoCall) = NoCall
    BY DEF AbstractCall, NoCall
  <2> QED BY <2>1 DEF Init, Register!Init, NoCall, Register!NoCall
<1>2. Init => LeaderInv
  BY DEF Init, LeaderInv, NoFlight
<1> QED BY <1>1, <1>2, InitInv, NextInv, LeaderKept, StepRefines, PTL
        DEF Spec, ImplementsRegister, Register!Spec
---------------------------------------------------------------------------
(* Nobody is forgotten *)

Waits(c, r, i) == call[c].state = "waiting" /\ call[c].at = r /\ call[c].id = i

\* Who waits is known to the flight of their id at their replica, and flights
\* run exactly while somebody waits for them.
WaitersKnown ==
    /\ \A r \in Replicas, i \in Ids, c \in Clients :
          c \in flight[r][i].waiters <=> Waits(c, r, i)
    /\ \A r \in Replicas, i \in Ids :
          flight[r][i].waiters = {} <=> flight[r][i].step = "idle"

\* The flights keep their waiters, and nobody begins or ends to wait.
LEMMA WaitersStay ==
    ASSUME WaitersKnown,
           \A r \in Replicas, i \in Ids :
              /\ flight'[r][i].waiters = flight[r][i].waiters
              /\ flight'[r][i].step = "idle" <=> flight[r][i].step = "idle",
           \A c \in Clients : call'[c] = call[c]
                              \/ (call[c].state # "waiting" /\ call'[c].state # "waiting")
    PROVE  WaitersKnown'
BY DEF WaitersKnown, Waits

LEMMA GotoWaiters ==
    ASSUME IInv, WaitersKnown, NEW r \in Replicas, NEW i \in Ids, NEW step,
           flight[r][i].step # "idle", step # "idle", Goto(r, i, step)
    PROVE  WaitersKnown'
<1> DEFINE g == [flight[r][i] EXCEPT !.step = step]
<1>1. flight[r][i] \in Flights
  BY DEF IInv, TypeOK
<1>2. g.waiters = flight[r][i].waiters /\ g.step = step
  BY <1>1 DEF Flights
<1>3. flight' = [flight EXCEPT ![r] = [flight[r] EXCEPT ![i] = g]]
  BY DEF Goto
<1> HIDE DEF g
<1>4. /\ flight'[r][i] = g
      /\ \A q \in Replicas, j \in Ids : q # r \/ j # i => flight'[q][j] = flight[q][j]
  BY <1>3 DEF IInv, TypeOK
<1>5. \A q \in Replicas, j \in Ids :
         /\ flight'[q][j].waiters = flight[q][j].waiters
         /\ flight'[q][j].step = "idle" <=> flight[q][j].step = "idle"
  BY <1>2, <1>4
<1> QED BY <1>5, WaitersStay DEF Goto

LEMMA FinishWaiters ==
    ASSUME IInv, WaitersKnown, NEW r \in Replicas, NEW i \in Ids, NEW ans, Finish(r, i, ans)
    PROVE  WaitersKnown'
<1>1. flight'[r][i] = NoFlight
  BY DEF Finish, IInv, TypeOK
<1>2. \A q \in Replicas, j \in Ids : q # r \/ j # i => flight'[q][j] = flight[q][j]
  BY DEF Finish, IInv, TypeOK
<1>3. NoFlight.waiters = {} /\ NoFlight.step = "idle"
  BY DEF NoFlight
<1>4. ASSUME NEW c \in Clients, c \in flight[r][i].waiters
      PROVE  call'[c].state # "waiting" /\ Waits(c, r, i)
  <2>1. Waits(c, r, i)
    BY <1>4 DEF WaitersKnown
  <2>2. call[c] \in Calls
    BY <2>1 DEF Waits, IInv, TypeOK, Calls, Replies, NoCall
  <2>3. call'[c] = Outcome(call[c], flight[r][i].kind, ans)
    BY <1>4 DEF Finish
  <2> QED BY <2>1, <2>2, <2>3 DEF Outcome, Answered, Calls
<1>5. ASSUME NEW c \in Clients, c \notin flight[r][i].waiters
      PROVE  call'[c] = call[c] /\ ~Waits(c, r, i)
  BY <1>5 DEF Finish, WaitersKnown
<1>6. \A c \in Clients : ~Waits(c, r, i)'
  BY <1>4, <1>5 DEF Waits
<1>7. \A c \in Clients, q \in Replicas, j \in Ids :
         q # r \/ j # i => (Waits(c, q, j)' <=> Waits(c, q, j))
  BY <1>4, <1>5 DEF Waits
<1> QED BY <1>1, <1>2, <1>3, <1>6, <1>7 DEF WaitersKnown

LEMMA DoWaiters ==
    ASSUME IInv, WaitersKnown, NEW c \in Clients, Do(c)
    PROVE  WaitersKnown'
<1> DEFINE r == call[c].at
           i == call[c].id
           g == IF flight[r][i].step = "idle"
                   THEN [kind |-> call[c].op, step |-> "lookup", waiters |-> {c}]
                   ELSE [flight[r][i] EXCEPT !.waiters = @ \cup {c}]
<1>1. call[c] \in Calls /\ r \in Replicas /\ i \in Ids
  BY CallerType DEF Calls
<1>2. flight[r][i] \in Flights
  BY <1>1 DEF IInv, TypeOK
<1>3. g.waiters = flight[r][i].waiters \cup {c} /\ g.step # "idle"
  <2>1. CASE flight[r][i].step = "idle"
    <3>1. flight[r][i].waiters = {}
      BY <1>1, <2>1 DEF WaitersKnown
    <3> QED BY <2>1, <3>1
  <2>2. CASE flight[r][i].step # "idle"
    <3>1. g = [flight[r][i] EXCEPT !.waiters = @ \cup {c}]
      BY <2>2
    <3> QED BY <1>2, <2>2, <3>1 DEF Flights
  <2> QED BY <2>1, <2>2
<1>4. flight' = [flight EXCEPT ![r] = [flight[r] EXCEPT ![i] = g]]
  BY DEF Do
<1> HIDE DEF g
<1>5. /\ flight'[r][i] = g
      /\ \A q \in Replicas, j \in Ids : q # r \/ j # i => flight'[q][j] = flight[q][j]
  BY <1>1, <1>4 DEF IInv, TypeOK
<1>6. /\ call'[c] = [call[c] EXCEPT !.state = "waiting"]
      /\ \A d \in Clients : d # c => call'[d] = call[d]
  BY DEF Do, IInv, TypeOK
<1>7. call'[c].state = "waiting" /\ call'[c].at = r /\ call'[c].id = i
  BY <1>1, <1>6 DEF Calls
<1>8. call[c].state = "calling"
  BY DEF Do
<1> HIDE DEF r, i
<1>9. \A q \in Replicas, j \in Ids : flight'[q][j].waiters = {} <=> flight'[q][j].step = "idle"
  BY <1>3, <1>5 DEF WaitersKnown
<1>10. ASSUME NEW q \in Replicas, NEW j \in Ids, NEW d \in Clients
       PROVE  d \in flight'[q][j].waiters <=> Waits(d, q, j)'
  <2>1. CASE d = c
    <3>1. ~Waits(c, q, j)
      BY <1>8 DEF Waits
    <3>2. c \notin flight[q][j].waiters
      BY <3>1 DEF WaitersKnown
    <3>3. Waits(c, q, j)' <=> q = r /\ j = i
      BY <1>7 DEF Waits
    <3> QED BY <1>3, <1>5, <2>1, <3>2, <3>3
  <2>2. CASE d # c
    <3>1. Waits(d, q, j)' <=> Waits(d, q, j)
      BY <1>6, <2>2 DEF Waits
    <3>2. d \in flight'[q][j].waiters <=> d \in flight[q][j].waiters
      BY <1>3, <1>5, <2>2
    <3> QED BY <3>1, <3>2 DEF WaitersKnown
  <2> QED BY <2>1, <2>2
<1> QED BY <1>9, <1>10 DEF WaitersKnown

LEMMA CrashWaiters ==
    ASSUME IInv, WaitersKnown, NEW r \in Replicas, Crash(r)
    PROVE  WaitersKnown'
<1>1. \A i \in Ids : flight'[r][i] = NoFlight
  BY DEF Crash, IInv, TypeOK
<1>2. \A q \in Replicas, i \in Ids : q # r => flight'[q][i] = flight[q][i]
  BY DEF Crash, IInv, TypeOK
<1>3. NoFlight.waiters = {} /\ NoFlight.step = "idle"
  BY DEF NoFlight
<1>4. ASSUME NEW c \in Clients, NEW q \in Replicas, NEW i \in Ids
      PROVE  Waits(c, q, i)' <=> q # r /\ Waits(c, q, i)
  <2>1. call'[c] = IF call[c].state \in {"calling", "waiting"} /\ call[c].at = r
                      THEN Answered(call[c], "failed") ELSE call[c]
    BY DEF Crash
  <2> QED BY <2>1 DEF Waits, Answered
<1> QED BY <1>1, <1>2, <1>3, <1>4 DEF WaitersKnown

LEMMA WaitersNext == IInv /\ WaitersKnown /\ [Next]_vars => WaitersKnown'
<1> SUFFICES ASSUME IInv, WaitersKnown, [Next]_vars PROVE WaitersKnown'
  OBVIOUS
<1>1. CASE UNCHANGED vars
  BY <1>1, WaitersStay DEF vars
<1>2. ASSUME NEW c \in Clients, NEW op \in Ops, NEW r \in Replicas, NEW i \in Ids,
             Request(c, op, r, i)
      PROVE  WaitersKnown'
  BY <1>2, WaitersStay DEF Request, NewCall, IInv, TypeOK
<1>3. ASSUME NEW r \in Replicas, NEW i \in Ids, FlightStep(r, i)
      PROVE  WaitersKnown'
  <2>1. flight[r][i].step # "idle"
    BY <1>3 DEF FlightStep, Lookup, Fetch, FetchFails, FillFound, FillMissing, PushLayer,
                PushManifest, PushFails
  <2>2. \/ \E ans : Finish(r, i, ans)
        \/ \E step \in {"fetch", "sawfound", "sawmissing", "layer", "manifest"} : Goto(r, i, step)
    BY <1>3 DEF FlightStep, Lookup, Fetch, FetchFails, FillFound, FillMissing, PushLayer,
                PushManifest, PushFails, NotThere
  <2> QED BY <2>1, <2>2, FinishWaiters, GotoWaiters
<1>4. ASSUME NEW r \in Replicas, NEW i \in Ids, Expire(r, i) \/ Evict(r, i)
      PROVE  WaitersKnown'
  BY <1>4, WaitersStay DEF Expire, Evict
<1> QED BY <1>1, <1>2, <1>3, <1>4, DoWaiters, CrashWaiters DEF Next

\* Every caller of Factory.Put or Factory.Get that waits is in a flight of
\* its own id that runs at its own replica, and no flight runs for nobody:
\* whoever joined, went round the loop of Put again or died with the process.
THEOREM NobodyForgotten == Spec => []WaitersKnown
<1>1. ASSUME Init PROVE WaitersKnown
  <2>1. \A r \in Replicas, i \in Ids : flight[r][i] = NoFlight
    BY <1>1 DEF Init
  <2>2. NoFlight.waiters = {} /\ NoFlight.step = "idle"
    BY DEF NoFlight
  <2>3. \A c \in Clients : call[c].state = "idle"
    BY <1>1 DEF Init, NoCall
  <2> QED BY <2>1, <2>2, <2>3 DEF WaitersKnown, Waits
<1> QED BY <1>1, InitInv, NextInv, WaitersNext, PTL DEF Spec

=============================================================================
