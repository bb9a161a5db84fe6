------------------------------ MODULE Downloads ------------------------------
(* What a client downloads and who is given it: the asset in the cache, a
   request on its way through the frontend, and a browser that signs in.  They
   share nothing: part says which one a behaviour is of, and the others stay as
   they began. *)
EXTENDS AssetCache

CONSTANTS Users, TokenClaims, Credentials, Files,  \* see Frontend
          Tabs, MaxFlows                           \* see BrowserLogin

VARIABLES part,
          provider, file, users, live, stored, exchange, script,            \* frontend
          keeps, tab, jar, signedIn, started, hops, causes, refusals        \* browser

F == INSTANCE Frontend

B == INSTANCE BrowserLogin

ASSUME FrontendConstants == F!FrontendAssumption
ASSUME LoginConstants == MaxFlows \in Nat

frontend == <<provider, file, users, live, stored, exchange, script>>
browser == <<keeps, tab, jar, signedIn, started, hops, causes, refusals>>
allVars == <<part, vars, frontend, browser>>

DownloadsInit ==
    /\ Init /\ F!Init /\ B!Init
    /\ part \in {"cache", "request", "login"}
    /\ part # "cache" => \A c, d \in Clients : request[c].at = request[d].at
    /\ part # "login" => keeps

DownloadsNext ==
    \/ part = "cache" /\ Next /\ UNCHANGED <<part, frontend, browser>>
    \/ part = "request" /\ F!Next /\ UNCHANGED <<part, vars, browser>>
    \/ part = "login" /\ B!Next /\ UNCHANGED <<part, vars, frontend>>

DownloadsSpec == DownloadsInit /\ [][DownloadsNext]_allVars

\* The properties of the instances, for the behaviours of the whole.
OwnerOnly == F!OwnerOnly
ScopesBound == F!ScopesBound
NeverCached == F!NeverCached
AuditMatches == F!AuditMatches
ScriptWorks == F!ScriptWorks
BouncesHaveCauses == B!BouncesHaveCauses
=============================================================================
