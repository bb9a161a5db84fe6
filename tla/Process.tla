------------------------------- MODULE Process -------------------------------
(* What runs detached from its request in one process: the builds of boot
   assets, and the scans with the database they match against and the end of
   the process.  They share nothing: part says which one a behaviour is of, and
   the other one stays as it began. *)
EXTENDS AssetBuilder

CONSTANTS Askers,     \* the clients that ask for a vulnerability report
          Keys, MaxDB \* see Reports

VARIABLES part, db, open, scanner, init, loader, results, flights, reports, life

R == INSTANCE Reports WITH Requests <- Askers, requests <- reports

ASSUME ReportsConstants == R!ReportsAssumption

scanVars == <<db, open, scanner, init, loader, results, flights, reports, life>>
allVars == <<vars, scanVars, part>>

ProcessInit ==
    /\ Init /\ R!Init
    /\ \/ part = "builds" /\ db.installed = 0 /\ loader = "off"
       \/ part = "scans"

ProcessNext ==
    \/ part = "builds" /\ Next /\ UNCHANGED <<part, scanVars>>
    \/ part = "scans" /\ R!Next /\ UNCHANGED <<part, vars>>

\* Fairness of Reports, in the behaviours that are of it.
Scans(A) == part = "scans" /\ ~life.exited /\ A

ProcessFairness ==
    /\ Fairness
    /\ WF_scanVars(Scans(R!InitScanner)) /\ WF_scanVars(Scans(R!Refresh)) /\ WF_scanVars(Scans(R!Shutdown))
    /\ \A k \in Keys : WF_scanVars(Scans(R!Scan(k)))
    /\ \A r \in Askers : WF_scanVars(Scans(R!LookUp(r) \/ R!Join(r)))

ProcessSpec == ProcessInit /\ [][ProcessNext]_allVars /\ ProcessFairness

\* The properties of Reports, for the behaviours of the instance.
ScansUseOpenDB == R!ScansUseOpenDB
StaleResultsCrossed == R!StaleResultsCrossed
StopReleasesDB == R!StopReleasesDB
SwapTurnsNoneAway == R!SwapTurnsNoneAway
Exits == part = "scans" /\ life.cancelled ~> life.exited
ReportsEnd == R!ReportsEnd
=============================================================================
