------------------------------ MODULE Frontend ------------------------------
(***************************************************************************)
(* A request on its way through the HTTP frontend: contract validation,    *)
(* the credential the selector takes, the identity provider behind it      *)
(* (htpasswd or auth0), the endpoint with the ownership of schematics, the *)
(* response as the observed writer commits it, the rendering of errors and *)
(* the audit record.  Around it the accounts file, the API tokens, the     *)
(* stored schematics and the deployment change.                            *)
(*                                                                         *)
(* One request is in flight at a time: requests share nothing but the      *)
(* services behind them, which have modules of their own.                  *)
(***************************************************************************)
EXTENDS Scopes

CONSTANTS Users,
          TokenClaims,     \* the API tokens: token |-> [subject, scopes]
          Credentials,     \* what clients send: see CredentialType
          Files            \* the contents the htpasswd file takes

Providers == {"none", "htpasswd", "auth0"}
Tokens == DOMAIN TokenClaims

\* A Basic user with a secret, or a Bearer secret: the user is then the one the
\* secret of the identity provider ("jwt") was issued to.
CredentialType ==
    [query  : Tokens \cup {"none"},
     scheme : {"none", "basic", "bearer"},
     user   : Users \cup {"none"},
     secret : Tokens \cup {"none", "password", "jwt", "junk"},
     cookie : Users \cup {"none", "expired"},
     client : {"cli", "page", "fetch"}]

\* A schematic is addressed by its contents, the owner among them.
Schematics == [owner : Users \cup {"none"}]

\* What the constants are expected to be.
FrontendAssumption ==
    /\ Credentials \subseteq CredentialType
    /\ Files \subseteq (SUBSET Users) \cup {{"broken"}}
    /\ \A t \in Tokens : TokenClaims[t].subject \in Users /\ TokenClaims[t].scopes \subseteq ScopeNames
    /\ Users \cap {"none", "expired", "broken"} = {}
    /\ Tokens \cap {"none", "password", "jwt", "junk"} = {}

VARIABLES
    provider,    \* the identity provider the process was started with
    file, users, \* the htpasswd file, and the accounts loaded from it
    live,        \* the API tokens that verify
    stored,      \* the schematics stored
    exchange,    \* the request in flight, or the last one, and its response
    script       \* the image request of the last PXE script, while nothing has changed

vars == <<provider, file, users, live, stored, exchange, script>>

AuthEnabled == provider # "none"

-----------------------------------------------------------------------------
(* Routes. *)

Row(method, area, access, protocol) ==
    [method |-> method, area |-> area, access |-> access, protocol |-> protocol]

\* RouteV2: what a path below /v2/ asks for, all under the dispatcher's policy.
RegistryRoutes ==
    [ping      |-> Row("GET", "ping", "download", "oci"),
     manifest  |-> Row("GET", "registry", "download", "oci"),
     blob      |-> Row("GET", "registry", "download", "oci"),
     referrers |-> Row("GET", "registry", "download", "oci"),
     source    |-> Row("GET", "source", "download", "oci")]

EnterpriseRoutes ==
    [spdx   |-> Row("GET", "report", "authenticated", "api"),
     scan   |-> Row("GET", "report", "authenticated", "api"),
     vex    |-> Row("GET", "report", "authenticated", "api"),
     tokens |-> Row("GET", "tokens", "authenticated", "api")]

PageRoutes == [index |-> Row("GET", "other", "authenticated", "html")]

Routes ==
    [image     |-> Row("GET", "image", "download", "api"),
     imageHead |-> Row("HEAD", "image", "download", "api"),
     pxe       |-> Row("GET", "pxe", "download", "api"),
     create    |-> Row("POST", "schematics", "authenticated", "api"),
     schematic |-> Row("GET", "schematic", "authenticated", "api"),
     assets    |-> Row("GET", "other", "authenticated", "api"),
     versions  |-> Row("GET", "other", "public", "api")]

RouteNames == DOMAIN Routes \cup DOMAIN RegistryRoutes \cup DOMAIN EnterpriseRoutes \cup DOMAIN PageRoutes

\* Registrar.Register: one table of what core, registry, pages and plugins declare.
RouteTable(name) ==
    CASE name \in DOMAIN Routes           -> Routes[name]
      [] name \in DOMAIN RegistryRoutes   -> RegistryRoutes[name]
      [] name \in DOMAIN EnterpriseRoutes -> EnterpriseRoutes[name]
      [] name \in DOMAIN PageRoutes       -> PageRoutes[name]

\* The routes whose path, or body, names a schematic.
SchematicRoutes == {"image", "imageHead", "pxe", "create", "schematic", "assets", "spdx", "scan",
                    "manifest", "blob", "referrers"}

\* Route.validatePolicy: what a protocol's routes may declare.
ValidPolicy(row) ==
    CASE row.protocol = "static" -> row.access = "public"
      [] row.protocol = "oci"    -> row.access # "public"
      [] row.protocol = "html"   -> row.access # "download"
      [] OTHER                   -> TRUE

\* Without an issuer of tokens and without reports a plugin contributes no route.
Public(x) == RouteTable(x.route).access = "public"
Area(x)   == RouteTable(x.route).area
Method(x) == RouteTable(x.route).method

-----------------------------------------------------------------------------
(* The response and its error. *)

NoCredential == [query |-> "none", scheme |-> "none", user |-> "none", secret |-> "none",
                 cookie |-> "none", client |-> "cli"]
Ownerless == [owner |-> "none"]
NoAudit == [user |-> "none", status |-> 0]

\* principal and requestPrincipal are the identity in the context the handler is
\* given and in the context of the request; mechanism is what authenticated it;
\* token is the URL-safe token kept for PXE scripts; body what the answer holds;
\* audits counts the audit records; via tells whether a script led here, and
\* whether accounts, tokens or provider changed on the way.
Idle == [step |-> "idle", route |-> "ping", target |-> Ownerless, cred |-> NoCredential,
         principal |-> "none", requestPrincipal |-> "none", mechanism |-> "none",
         token |-> "none", status |-> 0, err |-> "nil", cache |-> "none", pinned |-> "none",
         challenge |-> FALSE, body |-> {}, audit |-> NoAudit, audits |-> 0, via |-> "client"]

ClassifyError(err) ==
    CASE err \in {"nil", "responded"}              -> 200
      [] err = "notEnabled"                        -> 402
      [] err \in {"notReady", "proxyUnavailable"}  -> 503
      [] err = "notFound"                          -> 404
      [] err = "notAllowed"                        -> 405
      [] err = "invalid"                           -> 400
      [] err = "requiresAuthentication"            -> 401
      [] err = "forbidden"                         -> 403
      [] err = "canceled"                          -> 499
      [] err = "internal"                          -> 500

Rendered(err) == err \notin {"nil", "responded", "canceled"}

\* The pin of Cache-Control overrides whatever was set since, a proxied
\* registry's header too.
ApplyCacheControlPin(x) == IF x.pinned = "none" THEN x ELSE [x EXCEPT !.cache = x.pinned]

\* ObserveResponse: the first final status is the one on the wire.
Commit_Unpinned(x, status) == IF x.status # 0 THEN x ELSE [x EXCEPT !.status = status]
Commit(x, status) ==
    IF x.status # 0 THEN x ELSE ApplyCacheControlPin([x EXCEPT !.status = status])

\* RenderError: a 401 gets the Basic challenge unless a header is there already.
RenderError(x) ==
    IF ~Rendered(x.err) THEN x
    ELSE Commit([x EXCEPT !.challenge = @ \/ ClassifyError(x.err) = 401], ClassifyError(x.err))

Failed(x, err) == [x EXCEPT !.err = err]
Wrote(x, status, body) == [Commit(x, status) EXCEPT !.body = body]

-----------------------------------------------------------------------------
(* Authentication. *)

Credential(x) ==
    IF x.cred.query # "none" /\ ReadOnly(Method(x)) THEN <<x.cred.query, TRUE>>
    ELSE <<IF x.cred.scheme = "none" THEN "none" ELSE x.cred.secret, FALSE>>

\* auth.Provider.Middleware: Basic with a password of the loaded accounts.
HtpasswdIdentity(x) ==
    IF x.cred.scheme = "basic" /\ x.cred.secret = "password" /\ x.cred.user \in users
    THEN x.cred.user ELSE "none"

\* extractToken: any Bearer value, or a Basic password that looks like a JWT, as
\* the API tokens do.
ExtractToken(x) ==
    CASE x.cred.scheme = "bearer"                                         -> x.cred.secret
      [] x.cred.scheme = "basic" /\ x.cred.secret \in {"jwt"} \cup Tokens -> x.cred.secret
      [] OTHER                                                            -> "none"

SessionToken(x) == IF x.cred.cookie \in Users THEN x.cred.cookie ELSE "none"

IsLandingRequest(x) == x.route = "index" /\ x.cred.query = "none"

\* deny: a page is sent to the login, its own requests get a bare 401, every
\* other client a challenge.
Deny(x) ==
    CASE x.cred.client = "page"  -> Failed(Commit(x, 303), "responded")
      [] x.cred.client = "fetch" -> Failed(Commit(x, 401), "responded")
      [] OTHER                   -> Failed([x EXCEPT !.challenge = TRUE], "requiresAuthentication")

\* bridgeProviderPrincipal: the provider's name becomes the principal of the
\* context and of the request, which the audit reads.
Bridge_ContextOnly(x, user, mechanism) ==
    [x EXCEPT !.step = "handling", !.principal = user, !.mechanism = mechanism]
Bridge(x, user, mechanism) ==
    [x EXCEPT !.step = "handling", !.principal = user, !.requestPrincipal = user,
              !.mechanism = mechanism]

Refused(x) == [x EXCEPT !.step = "handled"]

HtpasswdMiddleware(x) ==
    IF HtpasswdIdentity(x) # "none" THEN Bridge(x, HtpasswdIdentity(x), "provider")
    ELSE Refused(Failed(x, "requiresAuthentication"))

Auth0Middleware(x) ==
    CASE ExtractToken(x) = "jwt"  -> Bridge(x, x.cred.user, "provider")
      [] ExtractToken(x) \notin {"jwt", "none"} -> Refused(Deny(x))
      [] ExtractToken(x) = "none" /\ SessionToken(x) # "none" ->
            Bridge([x EXCEPT !.cache = "no-store"], SessionToken(x), "session")
      [] OTHER -> \* nobody: the landing page is shown to who comes without a session
                  IF x.cred.cookie # "expired" /\ IsLandingRequest(x)
                  THEN [x EXCEPT !.step = "handling"]
                  ELSE Refused(Deny(x))

Fallback(x) == IF provider = "htpasswd" THEN HtpasswdMiddleware(x) ELSE Auth0Middleware(x)

\* Selector.Middleware: a live token that covers the request, or the provider.
Accepted_AnyRoute(x) ==
    LET t == Credential(x)[1] IN
    t \in live /\ (Credential(x)[2] => URLSafe(TokenClaims[t].scopes))
Accepted(x) ==
    LET t == Credential(x)[1] IN
    /\ t \in live
    /\ Allows(TokenClaims[t].scopes, Method(x), Area(x))
    /\ Credential(x)[2] => URLSafe(TokenClaims[t].scopes)

Select(x) ==
    LET t == Credential(x)[1] IN
    IF ~Accepted(x) THEN Fallback(x)
    ELSE [Bridge(x, TokenClaims[t].subject, "token") EXCEPT
             !.token = IF URLSafe(TokenClaims[t].scopes) THEN t ELSE "none"]

\* withAuth: nothing that authentication decided on is to be kept by a cache.
WithAuth(x) == Select([x EXCEPT !.cache = "no-store", !.pinned = "no-store"])

-----------------------------------------------------------------------------
(* Endpoints.  course is how the work behind an endpoint goes: "ok",       *)
(* "moved" for an asset the object store delivers, "broken" when the       *)
(* stream breaks after the header, or the error it ends with.              *)

Errors == {"notEnabled", "invalid", "notFound", "notReady", "proxyUnavailable", "internal",
           "canceled"}
Courses == {"ok", "moved", "broken"} \cup Errors

\* Service.Get: a schematic without owner is readable only while nobody has to
\* authenticate, any other only by its owner.
MayRead_Ownerless(x) == x.target.owner \in {"none", x.principal}
MayRead(x) ==
    IF x.target.owner = "none" THEN ~AuthEnabled ELSE x.principal = x.target.owner

ServiceGet(x) ==
    IF AuthEnabled /\ x.principal = "none" THEN "requiresAuthentication"
    ELSE IF x.target \notin stored THEN "notFound"
    ELSE IF MayRead(x) THEN "nil"
    ELSE IF x.principal = "none" THEN "requiresAuthentication"
    ELSE "forbidden"

\* The body of the answer is on the wire unless the stream broke.
Streamed(x, body, course) ==
    IF course = "broken" THEN Failed(Wrote(x, 200, body), "internal") ELSE Wrote(x, 200, body)

\* An endpoint that reads a schematic, works, and answers with what it read.
Guarded(x, course, errors) ==
    IF ServiceGet(x) # "nil" THEN Failed(x, ServiceGet(x))
    ELSE IF course \in errors THEN Failed(x, course)
    ELSE Streamed(x, {x.target}, course)

\* ImageService.Resolve: sidecars need their generator before anything is read.
Resolve(x, course) ==
    IF course = "notEnabled" \/ (ServiceGet(x) = "nil" /\ course \in {"invalid", "notFound", "internal", "canceled"})
    THEN course ELSE ServiceGet(x)

\* resolveDelivery: only a GET is redirected to the object store.
ServeImage(x, course) ==
    IF Resolve(x, course) # "nil" THEN Failed(x, Resolve(x, course))
    ELSE IF Method(x) = "HEAD" THEN Wrote(x, 200, {})
    ELSE IF course = "moved" THEN Wrote(x, 302, {x.target})
    ELSE Streamed(x, {x.target}, course)

\* The script names an image with the URL-safe token of the request, or with its
\* Basic credentials.
ScriptCredential_AnyToken(x) ==
    IF x.mechanism = "token" THEN [NoCredential EXCEPT !.query = Credential(x)[1]]
    ELSE IF x.cred.scheme = "basic"
         THEN [x.cred EXCEPT !.query = "none", !.cookie = "none", !.client = "cli"]
         ELSE NoCredential
ScriptCredential(x) ==
    IF x.token # "none" THEN [NoCredential EXCEPT !.query = x.token]
    ELSE IF x.cred.scheme = "basic"
         THEN [x.cred EXCEPT !.query = "none", !.cookie = "none", !.client = "cli"]
         ELSE NoCredential

ServePXE(x, course) ==
    Guarded([x EXCEPT !.cache = IF AuthEnabled THEN "no-store" ELSE "public"], course,
            {"invalid", "notFound", "internal", "canceled"})

Downloads(x, course) == Guarded(x, course, {"invalid", "internal", "canceled"})
ServeSpdx(x, course) == Guarded(x, course, {"invalid", "notFound", "internal", "canceled"})
ServeScan(x, course) == Guarded(x, course, {"invalid", "notReady", "internal", "canceled"})
GetSchematic(x, course) ==
    IF ServiceGet(x) = "notFound" THEN Wrote(x, 404, {}) ELSE Guarded(x, course, {"internal", "canceled"})

ServeVex(x, course) ==
    IF course \in {"invalid", "notReady", "internal", "canceled"} THEN Failed(x, course)
    ELSE Streamed(x, {}, course)

\* proxyRegistryRequest: the registry's headers are copied, its failure is a 502.
ProxyRegistry(x, course, body) ==
    IF course = "broken" THEN Wrote(x, 502, {})
    ELSE Wrote([x EXCEPT !.cache = "public"], 200, body)

\* location: with authentication the factory proxies, so that nobody has to
\* reach the registry; otherwise it redirects.
Deliver(x, course) ==
    IF AuthEnabled THEN ProxyRegistry(x, course, {x.target}) ELSE Wrote(x, 307, {x.target})

\* Manifest and Blob: the schematic is read before the name is looked at.
ServeContent(x, course) ==
    IF ServiceGet(x) # "nil" THEN Failed(x, ServiceGet(x))
    ELSE IF course \in {"invalid", "notFound", "internal", "canceled"} THEN Failed(x, course)
    ELSE Deliver(x, course)
ServeReferrers(x, course) == Guarded(x, course, {"invalid", "notFound", "internal", "canceled"})

\* Proxy: images of the source registry have no owner.
ServeSource(x, course) ==
    IF course \in {"proxyUnavailable", "notFound", "notEnabled"} THEN Failed(x, course)
    ELSE ProxyRegistry(x, course, {})

\* ServeIndex adds no-cache only where authentication has not decided.
ServeIndex(x, course) ==
    Streamed([x EXCEPT !.cache = IF @ = "none" THEN "no-cache" ELSE @], {}, course)

\* listTokens: the tokens of the account that asks.
ServeTokens(x, course) ==
    IF x.principal = "none" THEN Wrote(x, 401, {})
    ELSE IF course \in {"internal", "notReady", "canceled"} THEN Failed(x, course)
    ELSE Streamed(x, {[owner |-> x.principal]}, course)

Serve(x, course) ==
    CASE x.route \in {"image", "imageHead"}  -> ServeImage(x, course)
      [] x.route = "pxe"                     -> ServePXE(x, course)
      [] x.route = "schematic"               -> GetSchematic(x, course)
      [] x.route = "assets"                  -> Downloads(x, course)
      [] x.route = "spdx"                    -> ServeSpdx(x, course)
      [] x.route = "scan"                    -> ServeScan(x, course)
      [] x.route = "vex"                     -> ServeVex(x, course)
      [] x.route \in {"manifest", "blob"}    -> ServeContent(x, course)
      [] x.route = "referrers"               -> ServeReferrers(x, course)
      [] x.route = "source"                  -> ServeSource(x, course)
      [] x.route = "index"                   -> ServeIndex(x, course)
      [] x.route = "tokens"                  -> ServeTokens(x, course)
      [] x.route = "versions"                -> IF course \in Errors THEN Failed(x, course)
                                                ELSE Streamed(x, {}, course)
      [] x.route = "ping"                    -> x

-----------------------------------------------------------------------------
(* Actions. *)

Init == /\ provider = "none"
        /\ file = Users
        /\ users = Users
        /\ live = Tokens
        /\ stored = {}
        /\ exchange = Idle
        /\ script = {}

\* What was promised about a script's credential ends when anything changes.
Changed == /\ script' = {}
           /\ exchange' = [exchange EXCEPT !.via = "changed"]

\* What validation says of a request: that it is fine or breaks the contract, or,
\* below /v2/, which one route serves, that the contract has no such path or method.
Verdicts(route) ==
    {"nil", "invalid"}
    \cup (IF RouteTable(route).protocol = "oci" THEN {"notFound", "notAllowed"} ELSE {})

\* A request is routed; one that breaks the contract goes no further.
Receive ==
    /\ exchange.step = "idle"
    /\ \E route \in RouteNames, target \in Schematics, cred \in Credentials :
          /\ ValidPolicy(RouteTable(route))
          /\ target # Ownerless => route \in SchematicRoutes
          /\ route = "tokens" => AuthEnabled
          /\ \E verdict \in Verdicts(route) :
                exchange' = [Idle EXCEPT !.step = IF verdict = "nil" THEN "received" ELSE "handled",
                                         !.err = verdict,
                                         !.route = route, !.target = target, !.cred = cred]
    /\ script' = {}
    /\ UNCHANGED <<provider, file, users, live, stored>>

\* A machine boots the last script and asks for the image it names.
Follow ==
    /\ exchange.step = "idle"
    /\ \E next \in script :
          exchange' = [Idle EXCEPT !.step = "received", !.route = "image",
                                   !.via = IF next.promised THEN "script" ELSE "client",
                                   !.target = next.target, !.cred = next.cred]
    /\ script' = {}
    /\ UNCHANGED <<provider, file, users, live, stored>>

\* The record of a stored token cannot be read: the request ends there.
Authenticate(reachable) ==
    /\ exchange.step = "received"
    /\ exchange' =
          IF Public(exchange) \/ ~AuthEnabled THEN [exchange EXCEPT !.step = "handling"]
          ELSE IF ~reachable /\ Credential(exchange)[1] \in Tokens
               THEN Refused(Failed([exchange EXCEPT !.cache = "no-store", !.pinned = "no-store"],
                                   "notReady"))
               ELSE WithAuth(exchange)
    /\ UNCHANGED <<provider, file, users, live, stored, script>>

\* Service.Create: the schematic belongs to who creates it.
Create(x, owner, course) ==
    IF AuthEnabled /\ x.principal = "none" THEN Failed(x, "requiresAuthentication")
    ELSE IF AuthEnabled /\ owner \notin {"none", x.principal} THEN Failed(x, "forbidden")
    ELSE IF course \in {"invalid", "internal", "canceled"} THEN Failed(x, course)
    ELSE Wrote(x, 201, {[owner |-> IF AuthEnabled THEN x.principal ELSE owner]})

\* The endpoint runs under the context authentication made.
Handle(course) ==
    /\ exchange.step = "handling"
    /\ LET x == IF exchange.route = "create" THEN Create(exchange, exchange.target.owner, course)
                ELSE Serve(exchange, course)
       IN /\ exchange' = [x EXCEPT !.step = "handled"]
          /\ stored' = IF x.route = "create" THEN stored \cup x.body ELSE stored
          /\ script' = IF x.route = "pxe" /\ x.err = "nil" /\ x.via # "changed"
                       THEN {[target |-> x.target, cred |-> ScriptCredential(x),
                              promised |-> x.mechanism # "session"]} ELSE script
    /\ UNCHANGED <<provider, file, users, live>>

\* RequestMiddleware.Wrap after the handler: the error is rendered if nothing was
\* committed, an empty response is an implicit 200 under the pinned header, and
\* every request of a protected route is audited.
AuditStatus(x) == IF x.status # 0 THEN x.status ELSE ClassifyError(x.err)

Finish ==
    /\ exchange.step = "handled"
    /\ LET r == IF exchange.status = 0 THEN RenderError(exchange) ELSE exchange
           w == IF r.status = 0 THEN ApplyCacheControlPin(r) ELSE r
       IN exchange' = [w EXCEPT
             !.step = "done",
             !.audit = IF Public(w) THEN NoAudit
                       ELSE [user |-> w.requestPrincipal, status |-> AuditStatus(w)],
             !.audits = IF Public(w) THEN @ ELSE @ + 1]
    /\ UNCHANGED <<provider, file, users, live, stored, script>>

\* The client has its answer.
Close == /\ exchange.step = "done"
         /\ exchange' = Idle
         /\ UNCHANGED <<provider, file, users, live, stored, script>>

\* The operator edits the accounts, perhaps into a file that does not parse.
Edit(contents) ==
    /\ provider = "htpasswd"
    /\ file' = contents
    /\ UNCHANGED <<provider, users, live, stored, exchange, script>>

\* reload: a file that does not parse leaves the loaded accounts as they are.
Reload ==
    /\ provider = "htpasswd"
    /\ file \notin {users, {"broken"}}
    /\ users' = file
    /\ Changed
    /\ UNCHANGED <<provider, file, live, stored>>

Revoke(t) ==
    /\ t \in live
    /\ live' = live \ {t}
    /\ Changed
    /\ UNCHANGED <<provider, file, users, stored>>

\* The service is started again, with another provider; the accounts file must
\* parse then.  The stored schematics and tokens stay.
Restart(p) ==
    /\ p # provider
    /\ file # {"broken"}
    /\ provider' = p
    /\ users' = file
    /\ exchange' = Idle
    /\ script' = {}
    /\ UNCHANGED <<file, live, stored>>

World == \/ \E contents \in Files : Edit(contents)
         \/ Reload
         \/ \E t \in Tokens : Revoke(t)
         \/ \E p \in Providers : Restart(p)

Next == \/ Receive
        \/ Follow
        \/ \E reachable \in BOOLEAN : Authenticate(reachable)
        \/ \E course \in Courses : Handle(course)
        \/ Finish
        \/ Close
        \/ World

Spec == Init /\ [][Next]_vars

-----------------------------------------------------------------------------
(* Properties. *)

Steps == {"idle", "received", "handling", "handled", "done"}
Statuses == {0, 200, 201, 302, 303, 307, 400, 401, 402, 403, 404, 405, 499, 500, 502, 503}
Names == Users \cup {"none"}

\* The types of the variables of the request pipeline.
TypeOK ==
    /\ provider \in Providers
    /\ file \in (SUBSET Users) \cup {{"broken"}}
    /\ users \in SUBSET Users
    /\ live \in SUBSET Tokens
    /\ stored \in SUBSET Schematics
    /\ exchange.step \in Steps /\ exchange.route \in RouteNames
    /\ exchange.target \in Schematics /\ exchange.status \in Statuses
    /\ {exchange.principal, exchange.requestPrincipal} \subseteq Names
    /\ exchange.body \in SUBSET Schematics
    /\ exchange.audit.user \in Names /\ exchange.audits \in 0..1

Done == exchange.step = "done"

\* Whom the credentials of a request can stand for.
Proves(cred) ==
    {TokenClaims[t].subject : t \in Tokens \cap {cred.query, cred.secret}}
    \cup (IF cred.secret \in {"password", "jwt"} THEN {cred.user} ELSE {})
    \cup ({cred.cookie} \cap Users)

\* With authentication on, what an endpoint answers about a schematic goes to its
\* owner, who is somebody the request's credentials stand for; a schematic
\* created while authentication was off and without owner goes to nobody.  With
\* authentication off nobody is given a schematic that has an owner (Service.Get
\* behind every endpoint, in whatever order the deployment changed).
OwnerOnly ==
    \A s \in exchange.body :
        IF AuthEnabled THEN s.owner = exchange.principal /\ s.owner \in Proves(exchange.cred)
        ELSE s.owner = "none" \/ exchange.route = "create"

\* A request that has nothing to show but API tokens is answered with content, or
\* acted on, only where the scopes of the token it offered reach, and from the
\* query string only with a token that may travel there: whatever the selector
\* falls back to (the landing page, shown to anybody, aside).
ScopesBound ==
    (/\ AuthEnabled /\ Done /\ ~Public(exchange) /\ exchange.route # "index"
     /\ exchange.status \in {0, 200, 201, 302, 307}
     /\ exchange.cred.secret \notin {"password", "jwt"} /\ exchange.cred.cookie \notin Users)
    => \E t \in Tokens :
          /\ t = Credential(exchange)[1]
          /\ Allows(TokenClaims[t].scopes, Method(exchange), Area(exchange))
          /\ Credential(exchange)[2] => URLSafe(TokenClaims[t].scopes)

\* No response that depends on who asks may be stored by a cache: it carries
\* no-store on the wire, also where the registry's headers were copied into it or
\* the handler wrote nothing.
NeverCached ==
    (/\ AuthEnabled /\ Done /\ ~Public(exchange)
     /\ exchange.principal # "none" \/ exchange.body # {} \/ exchange.status \in {401, 403})
    => exchange.cache = "no-store"

\* The audit record of a protected request is the only one, names who the handler
\* acted for, and has the status that went over the wire; only a request that
\* was given up before an answer is recorded as 499.
AuditMatches ==
    (Done /\ ~Public(exchange)) =>
        /\ exchange.audits = 1
        /\ exchange.audit.user = exchange.principal
        /\ exchange.audit.status =
              IF exchange.status # 0 THEN exchange.status
              ELSE IF exchange.err = "canceled" THEN 499 ELSE 200

\* The image a PXE script names is not refused to the machine that boots it: the
\* credential written into the script authenticates there as it did for the
\* script, as long as the accounts, the tokens and the provider are the same.
\* (A script made for a Bearer token of the provider carries nothing: NoCredential
\* is not followed here.  Nor is one made for a session: the cookie cannot travel,
\* and Basic credentials beside it, which the script takes, prove nothing.)
ScriptWorks ==
    (Done /\ exchange.via = "script" /\ exchange.cred # NoCredential /\ AuthEnabled)
    => exchange.status \notin {401, 403}
=============================================================================
