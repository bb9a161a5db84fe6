------------------------------- MODULE Reports -------------------------------
(***************************************************************************)
(* The vulnerability scanner of one process: the database as it is         *)
(* published, installed, opened and replaced while scans match against it, *)
(* the scans that run detached from the requests that started them, their  *)
(* cache, and the life of the process from its first request to the end of *)
(* its shutdown.                                                           *)
(*                                                                         *)
(* The ownership of schematics is in Frontend, the bundles a scan reads in *)
(* SpdxBundles, the VEX documents in VexDocuments.                         *)
(***************************************************************************)
EXTENDS Naturals, FiniteSets

CONSTANTS Requests,
          Keys,         \* the SBOM hashes: extensions, version and architecture
          MaxDB         \* the bound of the database builds published

\* A build is published before the process starts.
ReportsAssumption == MaxDB \in Nat \ {0}

VARIABLES
    db,        \* [published, installed, kept]: the newest build, the one on disk (0:
               \* none), and whether one was loaded and no reload has failed since
    open,      \* the builds with an open handle
    scanner,   \* the build the scanner pointer holds (0: nil)
    init,      \* the initial load: "loading", "loaded" or "failed"
    loader,    \* the refresh loop
    results,   \* the scans cached, by key
    flights,   \* the scan that runs for a key
    requests,
    life       \* of the process

vars == <<db, open, scanner, init, loader, results, flights, requests, life>>

dbVars == <<db, open, scanner, init, loader>>

NoResult == [db |-> 0, crossed |-> FALSE]
NoFlight == [stage |-> "none", db |-> 0, crossed |-> FALSE]

Refusals == {"notready", "initerror"}
Outcomes == {"report", "error"} \cup Refusals
RequestStages == {"new", "hashing", "missed", "waiting", "answered"}
Servers == {"http", "metrics"}

TypeOK ==
    /\ db \in [published : 0..MaxDB, installed : 0..MaxDB, kept : BOOLEAN]
    /\ open \subseteq 1..MaxDB /\ scanner \in 0..MaxDB
    /\ init \in {"loading", "loaded", "failed"}
    /\ loader \in {"waiting", "sleeping", "updating", "locking", "reopening", "retrying", "off"}
    /\ results \in [Keys -> [db : 0..MaxDB, crossed : BOOLEAN]]
    /\ flights \in [Keys -> [stage : {"none", "sbom", "vex", "ready", "matching", "matched"},
                             db : 0..MaxDB, crossed : BOOLEAN]]
    /\ requests \in [Requests -> [stage : RequestStages, key : Keys \cup {"none"},
                                  answer : Outcomes \cup {"none"}, serving : BOOLEAN]]
    /\ life \in [cancelled : BOOLEAN, servers : SUBSET Servers,
                 scanner : {"up", "closing", "stopped"}, exited : BOOLEAN]

Init ==
    /\ db \in [published : {1}, installed : {0, 1}, kept : {FALSE}]
    /\ open = {} /\ scanner = 0 /\ init = "loading"
    /\ loader \in {"waiting", "off"}
    /\ results = [k \in Keys |-> NoResult] /\ flights = [k \in Keys |-> NoFlight]
    /\ requests = [r \in Requests |->
                      [stage |-> "new", key |-> "none", answer |-> "none", serving |-> FALSE]]
    /\ life = [cancelled |-> FALSE, servers |-> Servers, scanner |-> "up", exited |-> FALSE]

\* dbMu, held for reading while a scan matches and for writing during a swap.
Readers == {k \in Keys : flights[k].stage = "matching"}
Locked == loader = "reopening"

\* There is a database to answer from: one that was loaded and neither a failed
\* reload nor Stop has taken away.  It is being swapped while the lock is held.
Serving == db.kept /\ life.scanner # "stopped"

-----------------------------------------------------------------------------
(* The vulnerability database. *)

Publish ==
    /\ db.published < MaxDB
    /\ db' = [db EXCEPT !.published = @ + 1]
    /\ UNCHANGED <<open, scanner, init, loader, results, flights, requests, life>>

\* Loading updates the installation first, from the distribution if it answers,
\* and opens a reader: which sees the contents from before an update while
\* another reader of the directory is open.
Opened(installed, handles) ==
    IF handles = {} THEN installed ELSE CHOOSE h \in handles : \A g \in handles : g <= h

LoadDB(handles) ==
    \E installed \in {db.published, db.installed} \ {0} :
        LET build == Opened(installed, handles) IN
        /\ db' = [db EXCEPT !.installed = installed, !.kept = TRUE]
        /\ open' = handles \cup {build}
        /\ scanner' = build

InitScanner ==
    /\ init = "loading"
    /\ \/ Readers = {} /\ LoadDB(open) /\ init' = "loaded"
       \/ init' = "failed" /\ UNCHANGED <<db, open, scanner>>
    /\ UNCHANGED <<loader, results, flights, requests, life>>

StopSignalled == life.scanner # "up"

LoaderMoves(from, to) ==
    /\ loader = from /\ loader' = to
    /\ UNCHANGED <<init, requests, life>>

\* The loop waits for the first load, then a day at a time; Stop interrupts any wait.
AwaitInit == init # "loading" /\ LoaderMoves("waiting", "sleeping") /\ UNCHANGED <<db, open, scanner, results, flights>>

Timer(from) == ~StopSignalled /\ LoaderMoves(from, "updating") /\ UNCHANGED <<db, open, scanner, results, flights>>

Interrupted_NotInRetry(from) ==
    /\ StopSignalled /\ LoaderMoves(from, IF from = "retrying" THEN "updating" ELSE "off")
    /\ UNCHANGED <<db, open, scanner, results, flights>>

Interrupted(from) ==
    StopSignalled /\ LoaderMoves(from, "off") /\ UNCHANGED <<db, open, scanner, results, flights>>

UpdateDB ==
    /\ LoaderMoves("updating", "locking")
    /\ db' = [db EXCEPT !.installed = db.published]
    /\ UNCHANGED <<open, scanner, results, flights>>

UpdateFails == LoaderMoves("updating", "retrying") /\ UNCHANGED <<db, open, scanner, results, flights>>

CloseOld_Unlocked ==
    /\ LoaderMoves("locking", "reopening")
    /\ scanner' = 0 /\ open' = open \ {scanner}
    /\ UNCHANGED <<db, results, flights>>

\* The old handle is closed under the lock, which the scans that match hold.
CloseOld ==
    /\ Readers = {}
    /\ LoaderMoves("locking", "reopening")
    /\ scanner' = 0 /\ open' = open \ {scanner}
    /\ UNCHANGED <<db, results, flights>>

Reopen_KeepResults ==
    /\ LoaderMoves("reopening", "sleeping")
    /\ LoadDB(open)
    /\ UNCHANGED results
    /\ flights' = [k \in Keys |-> [flights[k] EXCEPT !.crossed = flights[k].stage = "matched"]]

\* The results are dropped: of the scans that have matched and not stored yet
\* the result comes later (recorded in crossed).
Reopen ==
    /\ LoaderMoves("reopening", "sleeping")
    /\ LoadDB(open)
    /\ results' = [k \in Keys |-> NoResult]
    /\ flights' = [k \in Keys |-> [flights[k] EXCEPT !.crossed = flights[k].stage = "matched"]]

ReopenFails ==
    /\ LoaderMoves("reopening", "retrying")
    /\ db' = [db EXCEPT !.kept = FALSE]
    /\ UNCHANGED <<open, scanner, results, flights>>

Refresh ==
    \/ AwaitInit
    \/ \E from \in {"sleeping", "retrying"} : Timer(from)
    \/ \E from \in {"waiting", "sleeping", "retrying"} : Interrupted(from)
    \/ UpdateDB \/ UpdateFails \/ CloseOld \/ Reopen \/ ReopenFails

-----------------------------------------------------------------------------
(* Requests for a report, and the scans they wait for. *)

\* A refusal records whether there was a database when it was given.
Answered(answer) == [stage |-> "answered", key |-> "none", answer |-> answer,
                     serving |-> answer \in Refusals /\ Serving]
Answer(r, answer) == [requests EXCEPT ![r] = Answered(answer)]

\* A client sends one request after another.
Idle(r) == requests[r].stage \in {"new", "answered"}
Sent(r, stage, k) ==
    [requests EXCEPT ![r] = [stage |-> stage, key |-> k, answer |-> "none", serving |-> FALSE]]

\* Ready: the error of the initial load outlives it.
Unready == IF init = "failed" THEN "initerror" ELSE "notready"

ReadyForScan_LockFree(r) ==
    /\ IF scanner = 0 THEN requests' = Answer(r, Unready)
       ELSE \E k \in Keys : requests' = Sent(r, "hashing", k)
    /\ UNCHANGED <<dbVars, results, flights, life>>

\* A scan waits for a swap in progress before it asks whether there is a database.
ReadyForScan(r) ==
    /\ ~Locked
    /\ IF scanner = 0 THEN requests' = Answer(r, Unready)
       ELSE \E k \in Keys : requests' = Sent(r, "hashing", k)
    /\ UNCHANGED <<dbVars, results, flights, life>>

Arrive(r) == "http" \in life.servers /\ Idle(r) /\ ReadyForScan(r)

\* PayloadHash reads the schematic, which can fail; then the cache is looked up.
LookUp(r) ==
    /\ requests[r].stage = "hashing"
    /\ \/ requests' = Answer(r, "error")
       \/ requests' = IF results[requests[r].key].db # 0 THEN Answer(r, "report")
                      ELSE [requests EXCEPT ![r].stage = "missed"]
    /\ UNCHANGED <<dbVars, results, flights, life>>

Join(r) ==
    LET k == requests[r].key IN
    /\ requests[r].stage = "missed"
    /\ requests' = [requests EXCEPT ![r].stage = "waiting"]
    /\ flights' = IF flights[k].stage = "none" THEN [flights EXCEPT ![k].stage = "sbom"] ELSE flights
    /\ UNCHANGED <<dbVars, results, life>>

\* A client that goes away leaves the scan running.
Cancel(r) ==
    /\ requests[r].stage = "waiting"
    /\ requests' = Answer(r, "error")
    /\ UNCHANGED <<dbVars, results, flights, life>>

Ended_OnlyGone(k, answer) ==
    /\ flights' = [flights EXCEPT ![k] = NoFlight]
    /\ requests' = IF answer = "error" THEN requests
                   ELSE [r \in Requests |-> IF requests[r].stage = "waiting" /\ requests[r].key = k
                                            THEN Answered(answer) ELSE requests[r]]

Ended(k, answer) ==
    /\ flights' = [flights EXCEPT ![k] = NoFlight]
    /\ requests' = [r \in Requests |->
                       IF requests[r].stage = "waiting" /\ requests[r].key = k
                       THEN Answered(answer) ELSE requests[r]]

ScanFails(k) ==
    /\ flights[k].stage \in {"sbom", "vex", "ready", "matching"}
    /\ Ended(k, "error")
    /\ UNCHANGED <<dbVars, results, life>>

\* The SBOM is built, then the VEX document for its kernel (VexDocuments).
Prepare(k, from, to) ==
    /\ flights[k].stage = from
    /\ flights' = [flights EXCEPT ![k].stage = to]
    /\ UNCHANGED <<dbVars, results, requests, life>>

BuildSBOM(k) == Prepare(k, "sbom", "vex")
BuildVEX(k) == Prepare(k, "vex", "ready")

StartMatch_LockFree(k) ==
    /\ flights[k].stage = "ready"
    /\ IF scanner = 0 THEN Ended(k, "notready")
       ELSE /\ flights' = [flights EXCEPT ![k] = [@ EXCEPT !.stage = "matching", !.db = scanner]]
            /\ UNCHANGED requests
    /\ UNCHANGED <<dbVars, results, life>>

\* scanSBOM: the read lock is held from here until the match is done.
StartMatch(k) ==
    /\ flights[k].stage = "ready" /\ ~Locked
    /\ IF scanner = 0 THEN Ended(k, "notready")
       ELSE /\ flights' = [flights EXCEPT ![k] = [@ EXCEPT !.stage = "matching", !.db = scanner]]
            /\ UNCHANGED requests
    /\ UNCHANGED <<dbVars, results, life>>

EndMatch(k) ==
    /\ flights[k].stage = "matching"
    /\ flights' = [flights EXCEPT ![k].stage = "matched"]
    /\ UNCHANGED <<dbVars, results, requests, life>>

\* The result is cached after the lock is released.
Store(k) ==
    /\ flights[k].stage = "matched"
    /\ results' = [results EXCEPT ![k] = [db |-> flights[k].db, crossed |-> flights[k].crossed]]
    /\ Ended(k, "report")
    /\ UNCHANGED <<dbVars, life>>

Expire(k) ==
    /\ results[k].db # 0
    /\ results' = [results EXCEPT ![k] = NoResult]
    /\ UNCHANGED <<dbVars, flights, requests, life>>

Scan(k) == ScanFails(k) \/ BuildSBOM(k) \/ BuildVEX(k) \/ StartMatch(k) \/ EndMatch(k) \/ Store(k)
Request(r) == Arrive(r) \/ LookUp(r) \/ Join(r) \/ Cancel(r)

-----------------------------------------------------------------------------
(* The end of the process: a signal, or a member of the group that fails,
   cancels its context. *)

Lives(change) == life' = change /\ UNCHANGED <<db, init, loader, results, flights, requests>>

CancelProcess ==
    ~life.cancelled /\ Lives([life EXCEPT !.cancelled = TRUE]) /\ UNCHANGED <<open, scanner>>

\* A server takes no more requests and is down when those it has are answered, or
\* after five seconds.
ShutdownServer(s) ==
    /\ life.cancelled /\ s \in life.servers
    /\ Lives([life EXCEPT !.servers = @ \ {s}]) /\ UNCHANGED <<open, scanner>>

SignalStop ==
    /\ life.cancelled /\ life.scanner = "up"
    /\ Lives([life EXCEPT !.scanner = "closing"]) /\ UNCHANGED <<open, scanner>>

CloseScanner_AnyTime ==
    /\ life.scanner = "closing" /\ loader = "off" /\ Readers = {}
    /\ scanner' = 0 /\ open' = open \ {scanner}
    /\ Lives([life EXCEPT !.scanner = "stopped"])

\* Stop waits for the first load and for the refresh loop before it closes.
CloseScanner ==
    /\ life.scanner = "closing" /\ init # "loading" /\ loader = "off" /\ Readers = {}
    /\ scanner' = 0 /\ open' = open \ {scanner}
    /\ Lives([life EXCEPT !.scanner = "stopped"])

\* The group has ended: main returns, and what still runs goes with the process.
Exit ==
    /\ life.servers = {} /\ life.scanner = "stopped"
    /\ Lives([life EXCEPT !.exited = TRUE]) /\ UNCHANGED <<open, scanner>>

Shutdown == (\E s \in Servers : ShutdownServer(s)) \/ SignalStop \/ CloseScanner \/ Exit

World == Publish \/ CancelProcess \/ \E k \in Keys : Expire(k)

Next ==
    /\ ~life.exited
    /\ \/ World \/ Shutdown \/ InitScanner \/ Refresh
       \/ \E r \in Requests : Request(r)
       \/ \E k \in Keys : Scan(k)

\* Every goroutine goes on: loads, builds and fetches have timeouts of their own.
Fairness ==
    /\ WF_vars(~life.exited /\ InitScanner) /\ WF_vars(~life.exited /\ Refresh)
    /\ WF_vars(~life.exited /\ Shutdown)
    /\ \A k \in Keys : WF_vars(~life.exited /\ Scan(k))
    /\ \A r \in Requests : WF_vars(~life.exited /\ (LookUp(r) \/ Join(r)))

Spec == Init /\ [][Next]_vars /\ Fairness

-----------------------------------------------------------------------------
(* Properties. *)

\* No database is closed under a scan that matches against it: the read lock of
\* scanSBOM and the write lock of refresh and Stop exclude each other.
ScansUseOpenDB == \A k \in Keys : flights[k].stage = "matching" => flights[k].db \in open

\* A cached result of another database than the loaded one comes from a scan
\* that had matched before the swap and stored after it: refresh drops the rest.
StaleResultsCrossed ==
    \A k \in Keys : results[k].db # 0 /\ scanner # 0 /\ results[k].db # scanner => results[k].crossed

\* No request is told that there is no database while there is one: neither one
\* that comes during a swap, when the scanner is nil (readyForScan), nor one whose
\* scan was under way when the swap began (scanSBOM), nor by the error of a first
\* load that a later one has made good.
SwapTurnsNoneAway ==
    \A r \in Requests : requests[r].answer \in Refusals => ~requests[r].serving

\* No handle outlives Stop, whatever load or refresh was under way.
StopReleasesDB == life.scanner = "stopped" => open = {} /\ scanner = 0

\* A process whose context is cancelled exits: the refresh loop leaves every
\* wait, and Stop and Shutdown end.
Exits == life.cancelled ~> life.exited

\* A request for a report is answered, whatever becomes of the scan it waits for,
\* or the process ends with it.
ReportsEnd ==
    \A r \in Requests : requests[r].stage \in {"hashing", "missed", "waiting"}
                         ~> requests[r].stage = "answered" \/ life.exited
=============================================================================
