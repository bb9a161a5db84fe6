---------------------------- MODULE MCDownloads ----------------------------
(* The downloads on a small instance: two replicas and two clients of the cache
   with S3, the accounts and credentials below, and a browser with two tabs.
   Replicas, clients and contents are interchangeable. *)
EXTENDS Downloads, TLC

-----------------------------------------------------------------------------
(* The frontend: two accounts, a token for downloads, one that also manages
   tokens, and one that only creates schematics. *)

MCUsers == {"u1", "u2"}

MCTokenClaims ==
    [download |-> [subject |-> "u1", scopes |-> {"image:read"}],
     manage   |-> [subject |-> "u2", scopes |-> {"image:read", "schematic:read", "token:read"}],
     make     |-> [subject |-> "u1", scopes |-> {"schematic:create", "source:pull"}]]

None == [query |-> "none", scheme |-> "none", user |-> "none", secret |-> "none",
         cookie |-> "none", client |-> "cli"]

Query(t)          == [None EXCEPT !.query = t]
Basic(u, secret)  == [None EXCEPT !.scheme = "basic", !.user = u, !.secret = secret]
Bearer(u, secret) == [None EXCEPT !.scheme = "bearer", !.user = u, !.secret = secret]
Session(u)        == [None EXCEPT !.cookie = u]

\* What one client sends, and two credentials in one request.
MCCredentials ==
    {None, Query("download"), Query("manage"),
     Basic("u2", "manage"), Basic("u1", "jwt"), Bearer("u2", "jwt"),
     Bearer("none", "download"), Bearer("none", "make"), Session("u1"),
     [Session("expired") EXCEPT !.client = "page"],
     [None EXCEPT !.client = "fetch"],
     [Basic("u2", "password") EXCEPT !.query = "download"],
     [Basic("u2", "jwt") EXCEPT !.query = "make"],
     [Basic("u2", "password") EXCEPT !.cookie = "u1"]}

MCFiles == {{"u1", "u2"}, {"u1"}, {"broken"}}

\* Nothing changes, or one token is revoked, or the accounts do under htpasswd,
\* where alone they matter.  A request is about one schematic: one is stored.
Bounded ==
    LET revoked == live # DOMAIN MCTokenClaims
        edited == file # MCUsers \/ users # MCUsers
    IN /\ {"manage", "make"} \subseteq live
       /\ edited => provider = "htpasswd" /\ ~revoked
       /\ Cardinality(stored) <= 1

-----------------------------------------------------------------------------

Symmetry == Permutations(Replicas) \cup Permutations(Clients) \cup Permutations(Contents)
=============================================================================
