------------------------------ MODULE Scopes ------------------------------
(***************************************************************************)
(* The catalog of API token scopes (internal/apitoken/scope.go): which     *)
(* requests a scope authenticates and which scopes a token may hand on.    *)
(* The fixed profiles of the browser (actorProfiles) are left out: nothing *)
(* enforces them, the page only proposes them.                             *)
(*                                                                         *)
(* A request is a method and the part of the URL space its path lies in:   *)
(* the prefixes the code compares are the areas.  "ping" is /v2 and /v2/,  *)
(* "source" /v2/siderolabs/..., "registry" the rest of /v2/.               *)
(***************************************************************************)
EXTENDS Naturals, FiniteSets

ReadOnly(method) == method \in {"GET", "HEAD"}

\* The route table: the requests a scope covers.
ScopeRoutes(scope) ==
    CASE scope = "image:read"       -> {"GET", "HEAD"} \X {"image", "pxe", "ping", "registry"}
      [] scope = "source:pull"      -> {"GET", "HEAD"} \X {"ping", "source"}
      [] scope = "schematic:create" -> {"POST"} \X {"schematics"}
      [] scope = "schematic:read"   -> {"GET", "HEAD"} \X {"schematic"}
      [] scope = "report:read"      -> {"GET", "HEAD"} \X {"report"}
      [] scope = "token:issue"      -> {"POST"} \X {"tokens"}
      [] scope = "token:read"       -> {"GET"} \X {"tokens"}
      [] scope = "token:revoke"     -> {"POST"} \X {"revoke"}

TokenScopes == {"token:issue", "token:read", "token:revoke"}
ScopeNames  == {"image:read", "source:pull", "schematic:create", "schematic:read",
                "report:read"} \cup TokenScopes

Allows(scopes, method, area) ==
    \E scope \in scopes : <<method, area>> \in ScopeRoutes(scope)

CanGrant(issuable, want) == want \subseteq issuable

\* A token that manages tokens may not travel in a query string.
URLSafe(scopes) == scopes \cap TokenScopes = {}
=============================================================================
