------------------------------- MODULE Tokens -------------------------------
(***************************************************************************)
(* The life of API tokens on several replicas (enterprise/tokens and       *)
(* internal/apitoken): minting over POST /tokens, the stored record that   *)
(* keeps a token valid, revocation by a tombstone, verification on any     *)
(* replica through shared look-ups, and the rotation of the signing keys.  *)
(*                                                                         *)
(* The registry is the only state the replicas share.  The ids (jti) are   *)
(* random, so a new token takes any unused one.  The identity provider     *)
(* accepts the account it is offered and is never down.                    *)
(***************************************************************************)
EXTENDS Scopes, Sequences

CONSTANTS Replicas, Clients, Accounts, Ids,
          Bodies,          \* the requests clients make: see BodyType
          MaxPerOrg,       \* authentication.tokens.maxPerOrg
          StoredTTL, EphemeralTTL, BootstrapTTL, Leeway,
          MaxTime,         \* bound on the clock
          MaxFaults        \* bound on failed registry calls

Operations == {"use", "create", "revoke"}

\* What a client asks: to use a read route, to mint a token with these scopes
\* for a subject ("own" is the empty subject of the request), to revoke one.
BodyType == [op : Operations, scopes : SUBSET ScopeNames, issuable : SUBSET ScopeNames,
             stored : BOOLEAN, subject : Accounts \cup {"own"}]

\* The key rotation the documentation prescribes: the signing key is the first
\* of the ring, all of the ring verify.  Stage 4 retires the old key.
Ring == <<<<"old">>, <<"old", "new">>, <<"new", "old">>, <<"new">>>>
Stages == 1..4

ASSUME TokensAssumption ==
    /\ Bodies \subseteq BodyType
    /\ MaxPerOrg \in Nat \ {0}
    /\ {StoredTTL, EphemeralTTL, BootstrapTTL} \subseteq Nat \ {0}
    /\ {Leeway, MaxTime, MaxFaults} \subseteq Nat
    /\ Accounts \cap {"own", "none"} = {}
    /\ Ids \cap {"provider", "none"} = {}
    /\ Replicas \cap {"none"} = {}
    /\ IsFiniteSet(Clients)

VARIABLES
    stage,      \* the deployment each replica runs: its key ring
    claims,     \* the signed claims of each token
    lineage,    \* the tokens that authorized a token, one after the other
    record,     \* the registry: the record stored under each token's tag
    held,       \* the tokens somebody was given
    acked,      \* the tokens whose revocation was answered with success
    lookup,     \* singleflight: the shared look-up of a token on a replica
    request,    \* the request each client has in flight, or its last one
    now,
    faults

vars == <<stage, claims, lineage, record, held, acked, lookup, request, now, faults>>

Blank == [subject |-> "none", scopes |-> {}, issuable |-> {}, stored |-> FALSE,
          any |-> FALSE, expires |-> 0, key |-> "none"]
Made == {id \in Ids : claims[id].key # "none"}

\* via is the token offered, or "provider"; account is who the request acts as;
\* seen are the tags a create has listed, token the id it minted or revokes;
\* revoked tells, when the token's revocation had been answered on arrival,
\* whether the request joined a look-up that had read the record before.
\* result is what the last request's token was good for: its later outcomes
\* (403, 404, 409, an error of a push) are the answer to an authenticated request.
NoBody == [op |-> "none", scopes |-> {}, issuable |-> {}, stored |-> FALSE, subject |-> "own"]
Idle == [step |-> "idle", replica |-> "none", via |-> "provider", account |-> "none",
         body |-> NoBody, seen |-> {}, token |-> "none", revoked |-> "no", result |-> "none"]

Init == /\ stage = [r \in Replicas |-> 1]
        /\ claims = [id \in Ids |-> Blank]
        /\ lineage = [id \in Ids |-> {}]
        /\ record = [id \in Ids |-> "none"]
        /\ held = {}
        /\ acked = {}
        /\ lookup = [r \in Replicas |-> [id \in Ids |-> "off"]]
        /\ request = [c \in Clients |-> Idle]
        /\ now = 0
        /\ faults = 0

-----------------------------------------------------------------------------
(* Verification. *)

KeysOf_ActiveOnly(ring) == {ring[1]}
KeysOf(ring) == {ring[i] : i \in DOMAIN ring}

\* Issuer.Verify: a key of this replica's ring, and not past the leeway.
Signed(r, id) == /\ claims[id].key \in KeysOf(Ring[stage[r]])
                 /\ now <= claims[id].expires + Leeway

\* Storage.Valid: one read of the token's tag.
Valid_AnyRecord(id) == record[id] # "none" /\ claims[id].expires > now
Valid(id) == record[id] = "live" /\ claims[id].expires > now

Route(op) == CASE op = "use"    -> <<"GET", "image">>
               [] op = "create" -> <<"POST", "tokens">>
               [] op = "revoke" -> <<"POST", "revoke">>

Covered(q) == q.via = "provider"
              \/ Allows(claims[q.via].scopes, Route(q.body.op)[1], Route(q.body.op)[2])

Subject(q) == IF q.body.subject = "own" THEN q.account ELSE q.body.subject

\* decodeCreateBody: some scope, and delegation only with the right to issue.
WellFormed(body) == /\ body.scopes # {}
                    /\ body.issuable # {} => "token:issue" \in body.scopes

\* create: a token hands on no more than it may, and only the bootstrap
\* credential names another identity.
MayCreate_AnyScopes(q) ==
    Subject(q) # q.account => q.via # "provider" /\ claims[q.via].any
MayCreate(q) ==
    /\ q.via # "provider" => CanGrant(claims[q.via].issuable, q.body.scopes \cup q.body.issuable)
    /\ Subject(q) # q.account => q.via # "provider" /\ claims[q.via].any

\* A refused request keeps the token it was refused for.
Ended(q, result) == [Idle EXCEPT !.via = IF result = "refused" THEN q.via ELSE "provider",
                                 !.revoked = q.revoked, !.result = result]
Answered(q) == Ended(q, IF q.via = "provider" THEN "none" ELSE "served")

\* Where a request goes once its credential is verified.
Admitted(q) ==
    IF ~Covered(q) THEN Ended(q, "none")
    ELSE CASE q.body.op = "use"    -> Answered(q)
           [] q.body.op = "revoke" -> [q EXCEPT !.step = "find"]
           [] q.body.op = "create" ->
                 IF ~(WellFormed(q.body) /\ MayCreate(q)) THEN Answered(q)
                 ELSE [q EXCEPT !.step = IF q.body.stored THEN "list" ELSE "issue"]

\* Where a request goes when the look-up it waits for ends.
Resumed(q, verdict) ==
    CASE verdict = "valid"   -> Admitted(q)
      [] verdict = "invalid" -> Ended(q, "refused")
      [] verdict = "failed"  -> Ended(q, "unavailable")

Waits(q, r, id) == q.step = "lookup" /\ q.replica = r /\ q.via = id

Free(c) == request[c].step = "idle"

\* A request of an account that the identity provider authenticates.
ArriveProvider(c, r, account, body, target) ==
    /\ Free(c)
    /\ request' = [request EXCEPT ![c] = Admitted(
           [Idle EXCEPT !.step = "lookup", !.replica = r, !.account = account,
                        !.body = body, !.token = target])]
    /\ UNCHANGED <<stage, claims, lineage, record, held, acked, lookup, now, faults>>

\* A request with a token: the ephemeral ones need no look-up, a stored one
\* joins the look-up in flight on this replica or starts it.
ArriveToken(c, r, id, body, target) ==
    LET q == [Idle EXCEPT !.step = "lookup", !.replica = r, !.via = id,
                          !.account = claims[id].subject, !.body = body, !.token = target,
                          !.revoked = IF id \notin acked THEN "no"
                                      ELSE IF lookup[r][id] \in {"off", "reading"} THEN "yes"
                                      ELSE "joined"]
    IN  /\ Free(c)
        /\ id \in held
        /\ \/ /\ ~Signed(r, id)
              /\ request' = [request EXCEPT ![c] = Ended(q, "refused")]
              /\ UNCHANGED lookup
           \/ /\ Signed(r, id) /\ ~claims[id].stored
              /\ request' = [request EXCEPT ![c] = Admitted(q)]
              /\ UNCHANGED lookup
           \/ /\ Signed(r, id) /\ claims[id].stored
              /\ request' = [request EXCEPT ![c] = q]
              /\ lookup' = IF lookup[r][id] = "off"
                           THEN [lookup EXCEPT ![r][id] = "reading"] ELSE lookup
        /\ UNCHANGED <<stage, claims, lineage, record, held, acked, now, faults>>

\* The shared read, detached from the requests that wait for it.
ReadRecord(r, id) ==
    /\ lookup[r][id] = "reading"
    /\ \/ /\ lookup' = [lookup EXCEPT ![r][id] = IF Valid(id) THEN "valid" ELSE "invalid"]
          /\ UNCHANGED faults
       \/ /\ faults < MaxFaults
          /\ lookup' = [lookup EXCEPT ![r][id] = "failed"]
          /\ faults' = faults + 1
    /\ UNCHANGED <<stage, claims, lineage, record, held, acked, request, now>>

\* The flight is forgotten and everybody who joined it gets its verdict.
LookupEnds(r, id) ==
    /\ lookup[r][id] \in {"valid", "invalid", "failed"}
    /\ request' = [c \in Clients |-> IF Waits(request[c], r, id)
                                     THEN Resumed(request[c], lookup[r][id])
                                     ELSE request[c]]
    /\ lookup' = [lookup EXCEPT ![r][id] = "off"]
    /\ UNCHANGED <<stage, claims, lineage, record, held, acked, now, faults>>

\* The client goes away: it leaves the look-up to the others.
Cancel(c) ==
    /\ request[c].step = "lookup"
    /\ request' = [request EXCEPT ![c] = Ended(@, "unavailable")]
    /\ UNCHANGED <<stage, claims, lineage, record, held, acked, lookup, now, faults>>

-----------------------------------------------------------------------------
(* Minting. *)

Lifetime(stored, any) == IF any THEN BootstrapTTL
                         ELSE IF stored THEN StoredTTL ELSE EphemeralTTL

Live(account) == {id \in Ids : Valid(id) /\ claims[id].subject = account}

\* Storage.List, first call: the tags of the subject's repository.
ListTags(c) ==
    /\ request[c].step = "list"
    /\ request' = [request EXCEPT ![c].step = "issue",
                       ![c].seen = {id \in Ids : record[id] # "none"
                                                 /\ claims[id].subject = Subject(request[c])}]
    /\ UNCHANGED <<stage, claims, lineage, record, held, acked, lookup, now, faults>>

\* The issuer signs with the active key of the replica the request runs on.
Sign(id, q, any) ==
    /\ claims' = [claims EXCEPT ![id] =
           [subject |-> Subject(q), scopes |-> q.body.scopes, issuable |-> q.body.issuable,
            stored |-> q.body.stored, any |-> any,
            expires |-> now + Lifetime(q.body.stored, any), key |-> Ring[stage[q.replica]][1]]]
    /\ lineage' = [lineage EXCEPT ![id] =
           IF q.via = "provider" THEN {} ELSE {q.via} \cup lineage[q.via]]

\* The records listed are read, and the live ones counted.
LimitReached_Exceeded(q) ==
    q.body.stored /\ Cardinality({id \in q.seen : Valid(id)}) > MaxPerOrg
LimitReached(q) == q.body.stored /\ Cardinality({id \in q.seen : Valid(id)}) >= MaxPerOrg

\* Below the limit the token is signed.  An ephemeral token is the answer, a stored one has to be recorded first.
Issue(c) ==
    LET q == request[c] IN
    /\ q.step = "issue"
    /\ \/ /\ LimitReached(q)
          /\ request' = [request EXCEPT ![c] = Answered(@)]
          /\ UNCHANGED <<claims, lineage, held>>
       \/ /\ ~LimitReached(q)
          /\ \E id \in Ids \ Made :
                /\ Sign(id, q, FALSE)
                /\ IF q.body.stored
                   THEN /\ request' = [request EXCEPT ![c] = [@ EXCEPT !.step = "push", !.seen = {},
                                                                       !.token = id]]
                        /\ UNCHANGED held
                   ELSE /\ request' = [request EXCEPT ![c] = Answered(@)]
                        /\ held' = held \cup {id}
    /\ UNCHANGED <<stage, record, acked, lookup, now, faults>>

\* Storage.Create: the record is pushed, and only then the token is answered.
PushRecord(c) ==
    LET id == request[c].token IN
    /\ request[c].step = "push"
    /\ record' = [record EXCEPT ![id] = "live"]
    /\ held' = held \cup {id}
    /\ request' = [request EXCEPT ![c] = Answered(@)]
    /\ UNCHANGED <<stage, claims, lineage, acked, lookup, now, faults>>

\* A push that fails may have arrived.
PushFails(c) ==
    LET id == request[c].token IN
    /\ request[c].step = "push"
    /\ faults < MaxFaults
    /\ record' \in {record, [record EXCEPT ![id] = "live"]}
    /\ request' = [request EXCEPT ![c] = Answered(@)]
    /\ faults' = faults + 1
    /\ UNCHANGED <<stage, claims, lineage, held, acked, lookup, now>>

\* A read of the registry on the way of a request fails.
ReadFails(c) ==
    /\ request[c].step \in {"list", "issue", "find"}
    /\ request[c].step = "issue" => request[c].body.stored
    /\ faults < MaxFaults
    /\ request' = [request EXCEPT ![c] = Answered(@)]
    /\ faults' = faults + 1
    /\ UNCHANGED <<stage, claims, lineage, record, held, acked, lookup, now>>

\* MintBootstrapToken: the credential minted on the command line with the
\* active key of the current configuration.
Bootstrap(r, account) ==
    /\ \A id \in Ids : ~claims[id].any
    /\ \E id \in Ids \ Made :
          /\ Sign(id, [Idle EXCEPT !.replica = r, !.account = account,
                                   !.body = [op |-> "create", scopes |-> TokenScopes,
                                             issuable |-> ScopeNames, stored |-> FALSE,
                                             subject |-> "own"]], TRUE)
          /\ held' = held \cup {id}
    /\ UNCHANGED <<stage, record, acked, lookup, request, now, faults>>

-----------------------------------------------------------------------------
(* Revocation. *)

\* Storage.Revoke reads the record first.
FindRecord(c) ==
    LET q == request[c] IN
    /\ q.step = "find"
    /\ request' = [request EXCEPT ![c] =
           IF record[q.token] = "live" /\ claims[q.token].subject = q.account
           THEN [@ EXCEPT !.step = "tombstone"] ELSE Answered(@)]
    /\ UNCHANGED <<stage, claims, lineage, record, held, acked, lookup, now, faults>>

PushTombstone(c) ==
    LET id == request[c].token IN
    /\ request[c].step = "tombstone"
    /\ record' = [record EXCEPT ![id] = "revoked"]
    /\ acked' = acked \cup {id}
    /\ request' = [request EXCEPT ![c] = Answered(@)]
    /\ UNCHANGED <<stage, claims, lineage, held, lookup, now, faults>>

TombstoneFails(c) ==
    LET id == request[c].token IN
    /\ request[c].step = "tombstone"
    /\ faults < MaxFaults
    /\ record' \in {record, [record EXCEPT ![id] = "revoked"]}
    /\ request' = [request EXCEPT ![c] = Answered(@)]
    /\ faults' = faults + 1
    /\ UNCHANGED <<stage, claims, lineage, held, acked, lookup, now>>

-----------------------------------------------------------------------------
(* The environment. *)

Tick == /\ now < MaxTime
        /\ now' = now + 1
        /\ UNCHANGED <<stage, claims, lineage, record, held, acked, lookup, request, faults>>

\* A replica is restarted with the next configuration, its requests done.  A
\* stage is rolled out everywhere before the next, and the old key leaves when
\* the tokens it signed have expired.
Deploy(r) ==
    /\ stage[r] < 4
    /\ \A other \in Replicas : stage[other] >= stage[r]
    /\ \A c \in Clients : request[c].replica = r => Free(c)
    /\ stage[r] = 3 => \A id \in Ids : claims[id].key = "old" => now > claims[id].expires + Leeway
    /\ stage' = [stage EXCEPT ![r] = @ + 1]
    /\ lookup' = [lookup EXCEPT ![r] = [id \in Ids |-> "off"]]
    /\ UNCHANGED <<claims, lineage, record, held, acked, request, now, faults>>

Targets(body) == IF body.op = "revoke" THEN Ids ELSE {"none"}

Arrive(c) == \E r \in Replicas, body \in Bodies : \E target \in Targets(body) :
                 \/ \E account \in Accounts : ArriveProvider(c, r, account, body, target)
                 \/ \E id \in Ids : ArriveToken(c, r, id, body, target)

Work(c) == \/ ListTags(c) \/ Issue(c) \/ PushRecord(c) \/ PushFails(c) \/ ReadFails(c)
           \/ FindRecord(c) \/ PushTombstone(c) \/ TombstoneFails(c)

Next == \/ \E c \in Clients : Arrive(c) \/ Work(c) \/ Cancel(c)
        \/ \E r \in Replicas, id \in Ids : ReadRecord(r, id) \/ LookupEnds(r, id)
        \/ \E r \in Replicas : Deploy(r) \/ \E account \in Accounts : Bootstrap(r, account)
        \/ Tick

Spec == Init /\ [][Next]_vars

-----------------------------------------------------------------------------
(* Properties. *)

Steps == {"idle", "lookup", "list", "issue", "push", "find", "tombstone"}

TypeOK ==
    /\ stage \in [Replicas -> Stages]
    /\ claims \in [Ids -> [subject : Accounts \cup {"none"}, scopes : SUBSET ScopeNames,
                           issuable : SUBSET ScopeNames, stored : BOOLEAN, any : BOOLEAN,
                           expires : Nat, key : {"none", "old", "new"}]]
    /\ lineage \in [Ids -> SUBSET Ids]
    /\ record \in [Ids -> {"none", "live", "revoked"}]
    /\ held \subseteq Ids
    /\ acked \subseteq Ids
    /\ lookup \in [Replicas -> [Ids -> {"off", "reading", "valid", "invalid", "failed"}]]
    /\ request \in [Clients -> [step : Steps, replica : Replicas \cup {"none"}, via : Ids \cup {"provider"},
                                account : Accounts \cup {"none"}, body : Bodies \cup {NoBody},
                                seen : SUBSET Ids, token : Ids \cup {"none"},
                                revoked : {"no", "joined", "yes"},
                                result : {"none", "served", "refused", "unavailable"}]]
    /\ now \in Nat
    /\ faults \in 0..MaxFaults

\* However long the chain of tokens minting tokens, none carries or hands on
\* more than every token before it was allowed to hand on, and it acts for
\* another subject only below a bootstrap credential (CanGrant and AnySubject
\* in ListCreateFrontend.create).
AuthorityNarrows ==
    \A id \in Ids : \A parent \in lineage[id] :
        /\ claims[id].scopes \cup claims[id].issuable \subseteq claims[parent].issuable
        /\ \/ claims[id].subject = claims[parent].subject
           \/ \E root \in lineage[id] : claims[root].any

\* A revocation that was answered holds on every replica: a request that
\* arrives later, and joins no look-up that had read the record before, is not
\* authenticated by the token (Manager.valid caches nothing).
RevokedIsRefused ==
    \A c \in Clients :
        request[c].revoked = "yes" => \/ request[c].step = "lookup"
                                      \/ request[c].result \in {"refused", "unavailable"}

\* The limit of an account is checked without a lock: it is overrun by at most
\* one token for each of the other requests in flight (the comment on the check in create).
LimitOverrun ==
    \A account \in Accounts :
        Cardinality(Live(account)) <= MaxPerOrg - 1 + Cardinality(Clients)

\* While the keys rotate, a token somebody was given is refused by no replica
\* unless it has expired or its record was revoked (the two deployments of the
\* rotation; the record is pushed before the token is answered).
IssuedIsAccepted ==
    \A c \in Clients :
        request[c].result = "refused" =>
            LET id == request[c].via IN claims[id].expires <= now \/ record[id] = "revoked"
=============================================================================
