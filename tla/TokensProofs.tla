---------------------------- MODULE TokensProofs ----------------------------
(***************************************************************************)
(* What a chain of tokens may do, what a revocation that was answered      *)
(* means, that the rotation of the keys refuses no token that is good, and *)
(* by how much an account may exceed its limit: for any replicas, clients, *)
(* accounts, tokens, lifetimes and requests.                               *)
(*                                                                         *)
(* The state of the registry and the claims only grow: what is signed      *)
(* stays signed, a tombstone stays, the clock runs.  What a request or a   *)
(* look-up has learnt by such a fact it may rely on later.  The one fact   *)
(* that does not grow, that the tag a mint is about to push is free, holds *)
(* because every mint has an id of its own.                                *)
(***************************************************************************)
EXTENDS Tokens, FiniteSetTheorems, TLAPS

Requests == [step : Steps, replica : Replicas \cup {"none"}, via : Ids \cup {"provider"},
             account : Accounts \cup {"none"}, body : Bodies \cup {NoBody},
             seen : SUBSET Ids, token : Ids \cup {"none"},
             revoked : {"no", "joined", "yes"},
             result : {"none", "served", "refused", "unavailable"}]
Claims == [subject : Accounts \cup {"none"}, scopes : SUBSET ScopeNames,
           issuable : SUBSET ScopeNames, stored : BOOLEAN, any : BOOLEAN,
           expires : Nat, key : {"none", "old", "new"}]

\* Only a token that was signed is stored, given away or handed on.
TokenInv ==
    /\ \A id \in Ids : record[id] # "none" => id \in Made /\ claims[id].stored
    /\ \A id \in held : id \in Made /\ (claims[id].stored => record[id] # "none")
    /\ \A id \in acked : record[id] = "revoked"
    /\ \A id \in Ids : lineage[id] \subseteq Made

\* A reason to refuse a token.
Dead(id) == claims[id].expires <= now \/ record[id] = "revoked"

LookupInv ==
    \A r \in Replicas, id \in Ids :
        /\ lookup[r][id] # "off" => record[id] # "none"
        /\ lookup[r][id] = "invalid" => Dead(id)

\* The rotation: a stage begins when the one before it is everywhere.
KeyInv ==
    /\ \A r, s \in Replicas : stage[r] <= stage[s] + 1
    /\ \A id \in Ids : claims[id].key = "new" => \A r \in Replicas : stage[r] >= 2
    /\ \A r \in Replicas : stage[r] = 4 =>
          \A id \in Ids : claims[id].key = "old" => now > claims[id].expires + Leeway

\* What a request knows that no other step can take back.
Base(q) ==
    /\ q.step # "idle" =>
          /\ q.replica \in Replicas /\ q.body \in Bodies /\ q.result = "none"
          /\ q.via # "provider" => q.via \in Made /\ q.account = claims[q.via].subject
          /\ q.body.op = "revoke" => q.token \in Ids
    /\ q.step \in {"list", "issue"} => MayCreate(q)
    /\ q.step \in {"find", "tombstone"} => q.token \in Ids
    /\ q.step = "tombstone" => record[q.token] # "none"
    /\ q.step = "push" => q.token \in Made /\ claims[q.token].stored
    /\ q.result = "refused" => q.via \in Made /\ Dead(q.via)

\* The tag a mint is about to push is free.
TagFree(q) == q.step = "push" => record[q.token] = "none"

\* A request with a revoked token waits for a look-up that will refuse it.
Refuses(q) ==
    q.revoked = "yes" =>
        \/ q.step = "lookup" /\ q.via \in acked /\ lookup[q.replica][q.via] # "valid"
        \/ q.step = "idle" /\ q.result \in {"refused", "unavailable"}

RequestKnows(q) == Base(q) /\ TagFree(q) /\ Refuses(q)
RequestInv == \A c \in Clients : RequestKnows(request[c])
MintsDiffer == \A c, d \in Clients :
    c # d /\ request[c].step = "push" /\ request[d].step = "push"
        => request[c].token # request[d].token

IInv == /\ TypeOK
        /\ TokenInv
        /\ LookupInv
        /\ KeyInv
        /\ RequestInv
        /\ MintsDiffer
        /\ AuthorityNarrows

LEMMA InitInv == Init => IInv
<1> SUFFICES ASSUME Init PROVE IInv
  OBVIOUS
<1>c. ASSUME NEW id \in Ids
      PROVE  /\ claims[id] = Blank /\ claims[id].key = "none" /\ lineage[id] = {} /\ record[id] = "none"
             /\ \A r \in Replicas : lookup[r][id] = "off"
  BY DEF Init, Blank
<1>q. ASSUME NEW c \in Clients
      PROVE  request[c] = Idle /\ Idle.step = "idle" /\ Idle.result = "none" /\ Idle.revoked = "no"
  BY DEF Init, Idle
<1>1. TypeOK
  <2>1. Blank \in [subject : Accounts \cup {"none"}, scopes : SUBSET ScopeNames,
                   issuable : SUBSET ScopeNames, stored : BOOLEAN, any : BOOLEAN,
                   expires : Nat, key : {"none", "old", "new"}]
    BY DEF Blank
  <2>2. Idle \in Requests
    BY DEF Idle, Requests, Steps
  <2> QED BY <2>1, <2>2, TokensAssumption DEF Init, TypeOK, Requests, Stages
<1>2. TokenInv /\ LookupInv
  BY <1>c DEF TokenInv, LookupInv, Init
<1>3. KeyInv
  BY <1>c DEF KeyInv, Init
<1>4. RequestInv /\ MintsDiffer
  BY <1>q DEF RequestInv, RequestKnows, Base, TagFree, Refuses, MintsDiffer
<1>5. AuthorityNarrows
  BY <1>c DEF AuthorityNarrows
<1> QED BY <1>1, <1>2, <1>3, <1>4, <1>5 DEF IInv

---------------------------------------------------------------------------
(* Signing *)

LEMMA RingFacts ==
    ASSUME NEW s \in Stages
    PROVE  /\ Ring[s][1] = IF s <= 2 THEN "old" ELSE "new"
           /\ "old" \in KeysOf(Ring[s]) <=> s <= 3
           /\ "new" \in KeysOf(Ring[s]) <=> s >= 2
<1>1. CASE s = 1
  BY <1>1 DEF Ring, KeysOf
<1>2. CASE s = 2
  BY <1>2 DEF Ring, KeysOf
<1>3. CASE s = 3
  BY <1>3 DEF Ring, KeysOf
<1>4. CASE s = 4
  BY <1>4 DEF Ring, KeysOf
<1> QED BY <1>1, <1>2, <1>3, <1>4 DEF Stages

LEMMA SignFacts ==
    ASSUME TypeOK, NEW q, NEW id \in Ids \ Made, NEW any \in BOOLEAN, Sign(id, q, any),
           q.replica \in Replicas
    PROVE  /\ \A j \in Ids \ {id} : claims'[j] = claims[j] /\ lineage'[j] = lineage[j]
           /\ claims'[id].subject = Subject(q) /\ claims'[id].any = any
           /\ claims'[id].scopes = q.body.scopes /\ claims'[id].issuable = q.body.issuable
           /\ claims'[id].stored = q.body.stored
           /\ claims'[id].key = IF stage[q.replica] <= 2 THEN "old" ELSE "new"
           /\ lineage'[id] = IF q.via = "provider" THEN {} ELSE {q.via} \cup lineage[q.via]
           /\ Made' = Made \cup {id}
<1>1. claims' = [claims EXCEPT ![id] =
           [subject |-> Subject(q), scopes |-> q.body.scopes, issuable |-> q.body.issuable,
            stored |-> q.body.stored, any |-> any,
            expires |-> now + Lifetime(q.body.stored, any), key |-> Ring[stage[q.replica]][1]]]
  BY DEF Sign
<1>2. Ring[stage[q.replica]][1] = IF stage[q.replica] <= 2 THEN "old" ELSE "new"
  BY RingFacts DEF TypeOK
<1>3. /\ \A j \in Ids \ {id} : claims'[j] = claims[j]
      /\ claims'[id].subject = Subject(q) /\ claims'[id].any = any
      /\ claims'[id].scopes = q.body.scopes /\ claims'[id].issuable = q.body.issuable
      /\ claims'[id].stored = q.body.stored
      /\ claims'[id].key = IF stage[q.replica] <= 2 THEN "old" ELSE "new"
  BY <1>1, <1>2 DEF TypeOK
<1>4. /\ \A j \in Ids \ {id} : lineage'[j] = lineage[j]
      /\ lineage'[id] = IF q.via = "provider" THEN {} ELSE {q.via} \cup lineage[q.via]
  BY DEF Sign, TypeOK
<1>5. Made' = Made \cup {id}
  BY <1>3 DEF Made
<1> QED BY <1>3, <1>4, <1>5

LEMMA SignType ==
    ASSUME TypeOK, NEW q, NEW id \in Ids, NEW any \in BOOLEAN, Sign(id, q, any),
           q.replica \in Replicas, q.body \in BodyType \cup {NoBody},
           q.account \in Accounts \cup {"none"}, q.via \in Ids \cup {"provider"}
    PROVE  claims' \in [Ids -> Claims] /\ lineage' \in [Ids -> SUBSET Ids]
<1>1. q.account \in Accounts \cup {"none"} /\ q.via \in Ids \cup {"provider"}
  OBVIOUS
<1>2. /\ q.body.scopes \in SUBSET ScopeNames /\ q.body.issuable \in SUBSET ScopeNames
      /\ q.body.stored \in BOOLEAN /\ Subject(q) \in Accounts \cup {"none"}
  <2>1. CASE q.body \in BodyType
    BY <1>1, <2>1 DEF BodyType, Subject
  <2>2. CASE q.body = NoBody
    <3>1. /\ NoBody.scopes = {} /\ NoBody.issuable = {} /\ NoBody.stored = FALSE
          /\ NoBody.subject = "own"
      BY DEF NoBody
    <3> QED BY <1>1, <2>2, <3>1 DEF Subject
  <2> QED BY <2>1, <2>2
<1>3. now + Lifetime(q.body.stored, any) \in Nat
  BY TokensAssumption DEF Lifetime, TypeOK
<1>4. Ring[stage[q.replica]][1] \in {"none", "old", "new"}
  BY RingFacts DEF TypeOK
<1>5. [subject |-> Subject(q), scopes |-> q.body.scopes, issuable |-> q.body.issuable,
       stored |-> q.body.stored, any |-> any,
       expires |-> now + Lifetime(q.body.stored, any), key |-> Ring[stage[q.replica]][1]] \in Claims
  BY <1>2, <1>3, <1>4 DEF Claims
<1>6. claims \in [Ids -> Claims] /\ lineage \in [Ids -> SUBSET Ids]
  BY DEF TypeOK, Claims
<1>7. claims' \in [Ids -> Claims]
  BY <1>5, <1>6 DEF Sign
<1>8. (IF q.via = "provider" THEN {} ELSE {q.via} \cup lineage[q.via]) \in SUBSET Ids
  BY <1>1, <1>6
<1> QED BY <1>6, <1>7, <1>8 DEF Sign

---------------------------------------------------------------------------
(* What only grows *)

Grows ==
    /\ \A id \in Made : claims'[id] = claims[id] /\ lineage'[id] = lineage[id]
    /\ \A id \in Ids : /\ record[id] # "none" => record'[id] # "none"
                       /\ record[id] = "revoked" => record'[id] = "revoked"
    /\ held \subseteq held' /\ acked \subseteq acked' /\ now' >= now

\* The bootstrap credential is minted as if by this request.
BootRequest(r, account) ==
    [Idle EXCEPT !.replica = r, !.account = account,
                 !.body = [op |-> "create", scopes |-> TokenScopes,
                           issuable |-> ScopeNames, stored |-> FALSE, subject |-> "own"]]

LEMMA BootFacts ==
    ASSUME NEW r \in Replicas, NEW account \in Accounts
    PROVE  /\ BootRequest(r, account).replica = r /\ BootRequest(r, account).account = account
           /\ BootRequest(r, account).via = "provider"
           /\ BootRequest(r, account).body = [op |-> "create", scopes |-> TokenScopes,
                  issuable |-> ScopeNames, stored |-> FALSE, subject |-> "own"]
BY DEF BootRequest, Idle

LEMMA ArriveCases ==
    ASSUME NEW c \in Clients, Arrive(c)
    PROVE  \E r \in Replicas, body \in Bodies : \E target \in Targets(body) :
               \/ \E account \in Accounts : ArriveProvider(c, r, account, body, target)
               \/ \E id \in Ids : ArriveToken(c, r, id, body, target)
BY DEF Arrive

LEMMA Monotone == IInv /\ [Next]_vars => Grows
<1> SUFFICES ASSUME IInv, [Next]_vars PROVE Grows
  OBVIOUS
<1>i. TypeOK /\ RequestInv
  BY DEF IInv
<1>n. now \in Nat
  BY <1>i DEF TypeOK
<1>a. ASSUME claims' = claims, lineage' = lineage, record' = record, held' = held, acked' = acked,
             now' >= now
      PROVE  Grows
  BY <1>a DEF Grows
<1>s. ASSUME NEW id \in Ids \ Made,
             \A j \in Ids \ {id} : claims'[j] = claims[j] /\ lineage'[j] = lineage[j],
             record' = record, acked' = acked, held \subseteq held', now' = now
      PROVE  Grows
  <2>2. \A j \in Made : j \in Ids \ {id}
    BY DEF Made
  <2> QED BY <1>n, <1>s, <2>2 DEF Grows
<1>1. ASSUME NEW c \in Clients, Arrive(c) \/ Cancel(c) PROVE Grows
  <2>1. CASE Cancel(c)
    BY <1>a, <1>n, <2>1 DEF Cancel
  <2>2. CASE Arrive(c)
    <3>1. ASSUME NEW r, NEW account, NEW body, NEW target, ArriveProvider(c, r, account, body, target)
          PROVE  Grows
      BY <1>a, <1>n, <3>1 DEF ArriveProvider
    <3>2. ASSUME NEW r, NEW id, NEW body, NEW target, ArriveToken(c, r, id, body, target)
          PROVE  Grows
      <4>1. UNCHANGED <<stage, claims, lineage, record, held, acked, now, faults>>
        BY <3>2 DEF ArriveToken
      <4> QED BY <1>a, <1>n, <4>1
    <3> QED BY <2>2, <3>1, <3>2, ArriveCases
  <2> QED BY <1>1, <2>1, <2>2
<1>2. ASSUME NEW c \in Clients, ListTags(c) \/ ReadFails(c) \/ FindRecord(c) PROVE Grows
  BY <1>2, <1>a, <1>n DEF ListTags, ReadFails, FindRecord
<1>3. ASSUME NEW c \in Clients, Issue(c) PROVE Grows
  <2>1. CASE claims' = claims /\ lineage' = lineage /\ held' = held
    <3>1. record' = record /\ acked' = acked /\ now' = now
      BY <1>3 DEF Issue
    <3> QED BY <1>a, <1>n, <2>1, <3>1
  <2>2. CASE ~ (claims' = claims /\ lineage' = lineage /\ held' = held)
    <3>1. PICK id \in Ids \ Made : Sign(id, request[c], FALSE)
      BY <1>3, <2>2 DEF Issue
    <3>2. request[c].replica \in Replicas
      BY <1>3, <1>i DEF Issue, RequestInv, RequestKnows, Base
    <3>3. record' = record /\ acked' = acked /\ held \subseteq held' /\ now' = now
      BY <1>3 DEF Issue
    <3>4. \A j \in Ids \ {id} : claims'[j] = claims[j] /\ lineage'[j] = lineage[j]
      BY <1>i, <3>1, <3>2, SignFacts
    <3> QED BY <1>s, <3>3, <3>4
  <2> QED BY <2>1, <2>2
<1>4. ASSUME NEW r \in Replicas, NEW account \in Accounts, Bootstrap(r, account) PROVE Grows
  <2>1. PICK id \in Ids \ Made : Sign(id, BootRequest(r, account), TRUE) /\ held' = held \cup {id}
    BY <1>4 DEF Bootstrap, BootRequest
  <2>2. BootRequest(r, account).replica \in Replicas
    BY BootFacts
  <2>3. record' = record /\ acked' = acked /\ held \subseteq held' /\ now' = now
    BY <1>4, <2>1 DEF Bootstrap
  <2>4. \A j \in Ids \ {id} : claims'[j] = claims[j] /\ lineage'[j] = lineage[j]
    BY <1>i, <2>1, <2>2, SignFacts
  <2> QED BY <1>s, <2>3, <2>4
<1>5. ASSUME NEW c \in Clients, PushRecord(c) \/ PushFails(c) PROVE Grows
  <2>1. record[request[c].token] = "none"
    BY <1>5, <1>i DEF PushRecord, PushFails, RequestInv, RequestKnows, TagFree
  <2> QED BY <1>5, <1>i, <1>n, <2>1 DEF PushRecord, PushFails, Grows, TypeOK
<1>6. ASSUME NEW c \in Clients, PushTombstone(c) \/ TombstoneFails(c) PROVE Grows
  BY <1>6, <1>i, <1>n DEF PushTombstone, TombstoneFails, Grows, TypeOK
<1>7. ASSUME NEW r \in Replicas, NEW id \in Ids, ReadRecord(r, id) \/ LookupEnds(r, id) PROVE Grows
  BY <1>7, <1>a, <1>n DEF ReadRecord, LookupEnds
<1>8. CASE Tick \/ \E r \in Replicas : Deploy(r)
  BY <1>8, <1>a, <1>n DEF Tick, Deploy
<1>9. CASE UNCHANGED vars
  BY <1>9, <1>a, <1>n DEF vars
<1> QED BY <1>1, <1>2, <1>3, <1>4, <1>5, <1>6, <1>7, <1>8, <1>9 DEF Next, Work

---------------------------------------------------------------------------
(* Where a request goes *)

LEMMA EndedFacts ==
    ASSUME NEW q \in Requests, NEW result \in {"none", "served", "refused", "unavailable"}
    PROVE  LET e == Ended(q, result)
           IN  /\ e \in Requests /\ e.step = "idle" /\ e.result = result
               /\ e.revoked = q.revoked /\ (result = "refused" => e.via = q.via)
<1> DEFINE via == IF result = "refused" THEN q.via ELSE "provider"
<1>1. q.revoked \in {"no", "joined", "yes"}
  BY DEF Requests
<1>2. via \in Ids \cup {"provider"} /\ (result = "refused" => via = q.via)
  BY DEF Requests
<1>3. Ended(q, result) = [Idle EXCEPT !.via = via, !.revoked = q.revoked, !.result = result]
  BY DEF Ended
<1> HIDE DEF via
<1>4. /\ Ended(q, result).step = "idle" /\ Ended(q, result).via = via
      /\ Ended(q, result).revoked = q.revoked /\ Ended(q, result).result = result
  BY <1>3 DEF Idle
<1>5. Ended(q, result) =
         [step |-> "idle", replica |-> "none", via |-> via, account |-> "none", body |-> NoBody,
          seen |-> {}, token |-> "none", revoked |-> q.revoked, result |-> result]
  BY <1>3 DEF Idle
<1>6. Ended(q, result) \in Requests
  BY <1>1, <1>2, <1>5 DEF Requests, Steps
<1> QED BY <1>2, <1>4, <1>6

LEMMA AnsweredFacts ==
    ASSUME NEW q \in Requests
    PROVE  LET e == Answered(q)
           IN  /\ e \in Requests /\ e.step = "idle" /\ e.result \in {"none", "served"}
               /\ e.revoked = q.revoked
<1>1. CASE q.via = "provider"
  BY <1>1, EndedFacts DEF Answered
<1>2. CASE q.via # "provider"
  BY <1>2, EndedFacts DEF Answered
<1> QED BY <1>1, <1>2

\* A request that goes on keeps what it was asked for.
Continues(a, q) ==
    /\ a.replica = q.replica /\ a.body = q.body /\ a.via = q.via /\ a.account = q.account
    /\ a.token = q.token /\ a.revoked = q.revoked /\ a.result = q.result

LEMMA AdmittedFacts ==
    ASSUME NEW q \in Requests, q.body \in Bodies
    PROVE  LET a == Admitted(q)
           IN  /\ a \in Requests /\ a.revoked = q.revoked
               /\ \/ a.step = "idle" /\ a.result \in {"none", "served"}
                  \/ a.step = "find" /\ q.body.op = "revoke" /\ Continues(a, q)
                  \/ a.step \in {"list", "issue"} /\ MayCreate(q) /\ Continues(a, q)
<1>b. q.body.op \in {"use", "create", "revoke"}
  BY TokensAssumption DEF BodyType, Operations
<1>g. ASSUME NEW step \in {"find", "list", "issue"}
      PROVE  LET a == [q EXCEPT !.step = step] IN a \in Requests /\ a.step = step /\ Continues(a, q)
  BY DEF Requests, Steps, Continues
<1>1. CASE ~ Covered(q)
  <2>1. Admitted(q) = Ended(q, "none")
    BY <1>1 DEF Admitted
  <2> QED BY <2>1, EndedFacts
<1>2. CASE Covered(q) /\ q.body.op = "use"
  <2>1. Admitted(q) = Answered(q)
    BY <1>2 DEF Admitted
  <2> QED BY <2>1, AnsweredFacts
<1>3. CASE Covered(q) /\ q.body.op = "revoke"
  <2>1. Admitted(q) = [q EXCEPT !.step = "find"]
    BY <1>3 DEF Admitted
  <2> QED BY <1>g, <1>3, <2>1 DEF Continues
<1>4. CASE Covered(q) /\ q.body.op = "create"
  <2>1. CASE ~ (WellFormed(q.body) /\ MayCreate(q))
    <3>1. Admitted(q) = Answered(q)
      BY <1>4, <2>1 DEF Admitted
    <3> QED BY <3>1, AnsweredFacts
  <2>2. CASE WellFormed(q.body) /\ MayCreate(q) /\ q.body.stored
    <3>1. Admitted(q) = [q EXCEPT !.step = "list"]
      BY <1>4, <2>2 DEF Admitted
    <3> QED BY <1>g, <2>2, <3>1 DEF Continues
  <2>3. CASE WellFormed(q.body) /\ MayCreate(q) /\ ~ q.body.stored
    <3>1. Admitted(q) = [q EXCEPT !.step = "issue"]
      BY <1>4, <2>3 DEF Admitted
    <3> QED BY <1>g, <2>3, <3>1 DEF Continues
  <2> QED BY <2>1, <2>2, <2>3
<1> QED BY <1>b, <1>1, <1>2, <1>3, <1>4

\* A request as it arrives.
ArrivedProvider(r, account, body, target) ==
    [Idle EXCEPT !.step = "lookup", !.replica = r, !.account = account,
                 !.body = body, !.token = target]

LEMMA ArrivedProviderFacts ==
    ASSUME NEW r \in Replicas, NEW account \in Accounts, NEW body \in Bodies,
           NEW target \in Ids \cup {"none"}
    PROVE  LET q == ArrivedProvider(r, account, body, target)
           IN  /\ q \in Requests /\ q.step = "lookup" /\ q.replica = r /\ q.via = "provider"
               /\ q.body = body /\ q.token = target /\ q.revoked = "no" /\ q.result = "none"
BY DEF ArrivedProvider, Idle, Requests, Steps

ArrivedToken(r, id, body, target) ==
    [Idle EXCEPT !.step = "lookup", !.replica = r, !.via = id,
                 !.account = claims[id].subject, !.body = body, !.token = target,
                 !.revoked = IF id \notin acked THEN "no"
                             ELSE IF lookup[r][id] \in {"off", "reading"} THEN "yes"
                             ELSE "joined"]

LEMMA ArrivedTokenFacts ==
    ASSUME TypeOK, NEW r \in Replicas, NEW id \in Ids, NEW body \in Bodies,
           NEW target \in Ids \cup {"none"}
    PROVE  LET q == ArrivedToken(r, id, body, target)
           IN  /\ q \in Requests /\ q.step = "lookup" /\ q.replica = r /\ q.via = id
               /\ q.account = claims[id].subject
               /\ q.body = body /\ q.token = target /\ q.result = "none"
               /\ q.revoked = "yes" => id \in acked /\ lookup[r][id] \in {"off", "reading"}
<1> DEFINE revoked == IF id \notin acked THEN "no"
                      ELSE IF lookup[r][id] \in {"off", "reading"} THEN "yes" ELSE "joined"
<1>1. claims[id].subject \in Accounts \cup {"none"}
  BY DEF TypeOK
<1>2. /\ revoked \in {"no", "joined", "yes"}
      /\ revoked = "yes" => id \in acked /\ lookup[r][id] \in {"off", "reading"}
  OBVIOUS
<1>3. ArrivedToken(r, id, body, target) =
        [Idle EXCEPT !.step = "lookup", !.replica = r, !.via = id, !.account = claims[id].subject,
                     !.body = body, !.token = target, !.revoked = revoked]
  BY DEF ArrivedToken
<1> HIDE DEF revoked
<1>4. ArrivedToken(r, id, body, target) =
        [step |-> "lookup", replica |-> r, via |-> id, account |-> claims[id].subject, body |-> body,
         seen |-> {}, token |-> target, revoked |-> revoked, result |-> "none"]
  BY <1>3 DEF Idle
<1>5. ArrivedToken(r, id, body, target) \in Requests
  BY <1>1, <1>2, <1>4 DEF Requests, Steps
<1> QED BY <1>2, <1>4, <1>5

---------------------------------------------------------------------------
(* Type correctness *)

LEMMA ResumedType ==
    ASSUME NEW q \in Requests, q.body \in Bodies, NEW verdict \in {"valid", "invalid", "failed"}
    PROVE  Resumed(q, verdict) \in Requests
<1>1. CASE verdict = "valid"
  BY <1>1, AdmittedFacts DEF Resumed
<1>2. CASE verdict = "invalid"
  BY <1>2, EndedFacts DEF Resumed
<1>3. CASE verdict = "failed"
  BY <1>3, EndedFacts DEF Resumed
<1> QED BY <1>1, <1>2, <1>3

LEMMA TargetType == ASSUME NEW body \in Bodies, NEW target \in Targets(body)
                    PROVE  target \in Ids \cup {"none"} /\ (body.op = "revoke" => target \in Ids)
BY DEF Targets

LEMMA ArriveType ==
    ASSUME TypeOK, NEW c \in Clients, Arrive(c)
    PROVE  TypeOK'
<1>t. request \in [Clients -> Requests]
  BY DEF TypeOK, Requests
<1>k. ASSUME NEW a \in Requests, request' = [request EXCEPT ![c] = a],
             lookup' \in [Replicas -> [Ids -> {"off", "reading", "valid", "invalid", "failed"}]],
             UNCHANGED <<stage, claims, lineage, record, held, acked, now, faults>>
      PROVE  TypeOK'
  <2>1. request' \in [Clients -> Requests]
    BY <1>t, <1>k
  <2> QED BY <1>k, <2>1 DEF TypeOK, Requests
<1>1. ASSUME NEW r \in Replicas, NEW account \in Accounts, NEW body \in Bodies, NEW target \in Targets(body),
             ArriveProvider(c, r, account, body, target)
      PROVE  TypeOK'
  <2> DEFINE q == ArrivedProvider(r, account, body, target)
  <2>1. request' = [request EXCEPT ![c] = Admitted(q)]
    BY <1>1 DEF ArriveProvider, ArrivedProvider
  <2>t. target \in Ids \cup {"none"}
    BY <1>1, TargetType
  <2>2. q \in Requests /\ q.body \in Bodies
    BY <1>1, <2>t, ArrivedProviderFacts
  <2> HIDE DEF q
  <2>3. Admitted(q) \in Requests
    BY <2>2, AdmittedFacts
  <2>4. /\ lookup' = lookup
        /\ UNCHANGED <<stage, claims, lineage, record, held, acked, now, faults>>
    BY <1>1 DEF ArriveProvider
  <2>5. lookup \in [Replicas -> [Ids -> {"off", "reading", "valid", "invalid", "failed"}]]
    BY DEF TypeOK
  <2> QED BY <1>k, <2>1, <2>3, <2>4, <2>5
<1>2. ASSUME NEW r \in Replicas, NEW id \in Ids, NEW body \in Bodies, NEW target \in Targets(body),
             ArriveToken(c, r, id, body, target)
      PROVE  TypeOK'
  <2> DEFINE q == ArrivedToken(r, id, body, target)
  <2>1. q \in Requests /\ q.body \in Bodies
    BY TargetType, ArrivedTokenFacts
  <2>2. Admitted(q) \in Requests /\ Ended(q, "refused") \in Requests
    BY <2>1, AdmittedFacts, EndedFacts
  <2>3. PICK a \in Requests : request' = [request EXCEPT ![c] = a]
    BY <1>2, <2>1, <2>2 DEF ArriveToken, ArrivedToken
  <2>4. lookup' = lookup \/ lookup' = [lookup EXCEPT ![r] = [lookup[r] EXCEPT ![id] = "reading"]]
    BY <1>2 DEF ArriveToken
  <2>l. lookup \in [Replicas -> [Ids -> {"off", "reading", "valid", "invalid", "failed"}]]
    BY DEF TypeOK
  <2>r. [lookup[r] EXCEPT ![id] = "reading"] \in [Ids -> {"off", "reading", "valid", "invalid", "failed"}]
    BY <2>l
  <2>5. lookup' \in [Replicas -> [Ids -> {"off", "reading", "valid", "invalid", "failed"}]]
    BY <2>4, <2>l, <2>r
  <2>6. UNCHANGED <<stage, claims, lineage, record, held, acked, now, faults>>
    BY <1>2 DEF ArriveToken
  <2> QED BY <1>k, <2>3, <2>5, <2>6
<1> QED BY <1>1, <1>2, ArriveCases

LEMMA WorkType ==
    ASSUME TypeOK, TokenInv, RequestInv, NEW c \in Clients, Work(c) \/ Cancel(c)
    PROVE  TypeOK'
<1>t. request \in [Clients -> Requests] /\ request[c] \in Requests /\ request[c].seen \subseteq Ids
  BY DEF TypeOK, Requests
<1>q. /\ Answered(request[c]) \in Requests /\ Ended(request[c], "unavailable") \in Requests
  BY <1>t, AnsweredFacts, EndedFacts
<1>b. Base(request[c])
  BY DEF RequestInv, RequestKnows
<1>f. ASSUME faults' = faults \/ (faults < MaxFaults /\ faults' = faults + 1) PROVE faults' \in 0..MaxFaults
  BY <1>f, TokensAssumption DEF TypeOK
<1>k. ASSUME NEW a \in Requests, request' = [request EXCEPT ![c] = a],
             claims' = claims, lineage' = lineage,
             record' \in [Ids -> {"none", "live", "revoked"}],
             held' \subseteq Ids, acked' \subseteq Ids, faults' \in 0..MaxFaults,
             UNCHANGED <<stage, lookup, now>>
      PROVE  TypeOK'
  <2>1. request' \in [Clients -> Requests]
    BY <1>t, <1>k
  <2> QED BY <1>k, <2>1 DEF TypeOK, Requests
<1>s. /\ record \in [Ids -> {"none", "live", "revoked"}] /\ held \subseteq Ids /\ acked \subseteq Ids
  BY DEF TypeOK
<1>1. CASE Cancel(c)
  BY <1>1, <1>f, <1>k, <1>q, <1>s DEF Cancel
<1>2. CASE ListTags(c)
  <2> DEFINE seen == {id \in Ids : record[id] # "none" /\ claims[id].subject = Subject(request[c])}
  <2>1. request' = [request EXCEPT ![c] = [request[c] EXCEPT !.step = "issue", !.seen = seen]]
    BY <1>2 DEF ListTags
  <2>2. seen \subseteq Ids
    OBVIOUS
  <2> HIDE DEF seen
  <2>3. [request[c] EXCEPT !.step = "issue", !.seen = seen] \in Requests
    BY <1>t, <2>2 DEF Requests, Steps
  <2> QED BY <1>2, <1>f, <1>k, <1>s, <2>1, <2>3 DEF ListTags
<1>3. CASE Issue(c)
  <2>1. CASE LimitReached(request[c])
    <3>1. /\ request' = [request EXCEPT ![c] = Answered(request[c])]
          /\ claims' = claims /\ lineage' = lineage /\ held' = held
          /\ UNCHANGED <<stage, record, acked, lookup, now, faults>>
      BY <1>3, <2>1 DEF Issue
    <3> QED BY <1>f, <1>k, <1>q, <1>s, <3>1
  <2>2. CASE ~ LimitReached(request[c])
    <3>1. PICK id \in Ids \ Made :
             /\ Sign(id, request[c], FALSE)
             /\ \/ /\ request' = [request EXCEPT ![c] = [request[c] EXCEPT !.step = "push", !.seen = {},
                                                                             !.token = id]]
                   /\ held' = held
                \/ /\ request' = [request EXCEPT ![c] = Answered(request[c])]
                   /\ held' = held \cup {id}
      BY <1>3, <2>2 DEF Issue
    <3>2. request[c].replica \in Replicas
      BY <1>3, <1>b DEF Issue, Base
    <3>3. claims' \in [Ids -> Claims] /\ lineage' \in [Ids -> SUBSET Ids]
      <4>1. /\ request[c].body \in BodyType \cup {NoBody} /\ request[c].account \in Accounts \cup {"none"}
            /\ request[c].via \in Ids \cup {"provider"}
        BY <1>t, TokensAssumption DEF Requests
      <4> QED BY <3>1, <3>2, <4>1, SignType
    <3>4. [request[c] EXCEPT !.step = "push", !.seen = {}, !.token = id] \in Requests
      BY <1>t DEF Requests, Steps
    <3>5. request' \in [Clients -> Requests] /\ held' \subseteq Ids
      BY <1>q, <1>s, <1>t, <3>1, <3>4
    <3>6. UNCHANGED <<stage, record, acked, lookup, now, faults>>
      BY <1>3 DEF Issue
    <3> QED BY <3>3, <3>5, <3>6 DEF TypeOK, Requests, Claims
  <2> QED BY <2>1, <2>2
<1>4. CASE PushRecord(c)
  <2>1. request[c].token \in Ids
    BY <1>4, <1>b DEF PushRecord, Base, Made
  <2>2. record' \in [Ids -> {"none", "live", "revoked"}] /\ held' \subseteq Ids
    BY <1>4, <1>s, <2>1 DEF PushRecord
  <2> QED BY <1>4, <1>f, <1>k, <1>q, <1>s, <2>2 DEF PushRecord
<1>5. CASE PushFails(c)
  <2>1. record' \in [Ids -> {"none", "live", "revoked"}]
    BY <1>5, <1>s DEF PushFails
  <2> QED BY <1>5, <1>f, <1>k, <1>q, <1>s, <2>1 DEF PushFails
<1>6. CASE ReadFails(c)
  BY <1>6, <1>f, <1>k, <1>q, <1>s DEF ReadFails
<1>7. CASE FindRecord(c)
  <2>1. [request[c] EXCEPT !.step = "tombstone"] \in Requests
    BY <1>t DEF Requests, Steps
  <2>2. PICK a \in Requests : request' = [request EXCEPT ![c] = a]
    BY <1>7, <1>q, <2>1 DEF FindRecord
  <2> QED BY <1>7, <1>f, <1>k, <1>s, <2>2 DEF FindRecord
<1>8. CASE PushTombstone(c)
  <2>1. request[c].token \in Ids
    BY <1>8, <1>b DEF PushTombstone, Base
  <2>2. record' \in [Ids -> {"none", "live", "revoked"}] /\ acked' \subseteq Ids
    BY <1>8, <1>s, <2>1 DEF PushTombstone
  <2> QED BY <1>8, <1>f, <1>k, <1>q, <1>s, <2>2 DEF PushTombstone
<1>9. CASE TombstoneFails(c)
  <2>1. record' \in [Ids -> {"none", "live", "revoked"}]
    BY <1>9, <1>s DEF TombstoneFails
  <2> QED BY <1>9, <1>f, <1>k, <1>q, <1>s, <2>1 DEF TombstoneFails
<1> QED BY <1>1, <1>2, <1>3, <1>4, <1>5, <1>6, <1>7, <1>8, <1>9 DEF Work

LEMMA NextType == TypeOK /\ TokenInv /\ RequestInv /\ [Next]_vars => TypeOK'
<1> SUFFICES ASSUME TypeOK, TokenInv, RequestInv, [Next]_vars PROVE TypeOK'
  OBVIOUS
<1>t. request \in [Clients -> Requests]
  BY DEF TypeOK, Requests
<1>1. ASSUME NEW r \in Replicas, NEW id \in Ids, ReadRecord(r, id) PROVE TypeOK'
  <2>1. lookup' \in [Replicas -> [Ids -> {"off", "reading", "valid", "invalid", "failed"}]]
    <3>1. PICK v \in {"valid", "invalid", "failed"} : lookup' = [lookup EXCEPT ![r][id] = v]
      BY <1>1 DEF ReadRecord
    <3> QED BY <3>1 DEF TypeOK
  <2>2. faults' \in 0..MaxFaults
    BY <1>1, TokensAssumption DEF ReadRecord, TypeOK
  <2>3. UNCHANGED <<stage, claims, lineage, record, held, acked, request, now>>
    BY <1>1 DEF ReadRecord
  <2> QED BY <2>1, <2>2, <2>3 DEF TypeOK
<1>2. ASSUME NEW r \in Replicas, NEW id \in Ids, LookupEnds(r, id) PROVE TypeOK'
  <2>1. ASSUME NEW c \in Clients, Waits(request[c], r, id)
        PROVE  Resumed(request[c], lookup[r][id]) \in Requests
    <3>1. request[c] \in Requests /\ request[c].body \in Bodies
      BY <1>t, <2>1 DEF Waits, RequestInv, RequestKnows, Base
    <3> QED BY <1>2, <3>1, ResumedType DEF LookupEnds
  <2>2. request' \in [Clients -> Requests]
    BY <1>2, <1>t, <2>1 DEF LookupEnds
  <2>3. lookup' \in [Replicas -> [Ids -> {"off", "reading", "valid", "invalid", "failed"}]]
    BY <1>2 DEF LookupEnds, TypeOK
  <2>4. UNCHANGED <<stage, claims, lineage, record, held, acked, now, faults>>
    BY <1>2 DEF LookupEnds
  <2> QED BY <2>2, <2>3, <2>4 DEF TypeOK, Requests
<1>3. ASSUME NEW r \in Replicas, Deploy(r) PROVE TypeOK'
  <2>1. stage' \in [Replicas -> Stages]
    BY <1>3 DEF Deploy, TypeOK, Stages
  <2>2. lookup' \in [Replicas -> [Ids -> {"off", "reading", "valid", "invalid", "failed"}]]
    BY <1>3 DEF Deploy, TypeOK
  <2>3. UNCHANGED <<claims, lineage, record, held, acked, request, now, faults>>
    BY <1>3 DEF Deploy
  <2> QED BY <2>1, <2>2, <2>3 DEF TypeOK
<1>4. ASSUME NEW r \in Replicas, NEW account \in Accounts, Bootstrap(r, account) PROVE TypeOK'
  <2>1. PICK id \in Ids \ Made : Sign(id, BootRequest(r, account), TRUE) /\ held' = held \cup {id}
    BY <1>4 DEF Bootstrap, BootRequest
  <2>f. /\ BootRequest(r, account).replica = r /\ BootRequest(r, account).account = account
        /\ BootRequest(r, account).via = "provider"
        /\ BootRequest(r, account).body = [op |-> "create", scopes |-> TokenScopes,
               issuable |-> ScopeNames, stored |-> FALSE, subject |-> "own"]
    BY BootFacts
  <2>b. [op |-> "create", scopes |-> TokenScopes, issuable |-> ScopeNames,
         stored |-> FALSE, subject |-> "own"] \in BodyType
    BY DEF BodyType, Operations, ScopeNames
  <2>2. LET q == BootRequest(r, account)
        IN  /\ q.replica \in Replicas /\ q.account \in Accounts \cup {"none"}
            /\ q.via \in Ids \cup {"provider"} /\ q.body \in BodyType
    BY <2>f, <2>b
  <2>3. claims' \in [Ids -> Claims] /\ lineage' \in [Ids -> SUBSET Ids]
    BY <2>1, <2>2, SignType
  <2>4. UNCHANGED <<stage, record, acked, lookup, request, now, faults>>
    BY <1>4 DEF Bootstrap
  <2> QED BY <2>1, <2>3, <2>4 DEF TypeOK, Claims
<1>5. CASE Tick
  BY <1>5 DEF Tick, TypeOK
<1>6. CASE UNCHANGED vars
  BY <1>6 DEF vars, TypeOK
<1> QED BY <1>1, <1>2, <1>3, <1>4, <1>5, <1>6, ArriveType, WorkType DEF Next

---------------------------------------------------------------------------
(* What requests know *)

LEMMA DeadStays ==
    ASSUME TypeOK, TypeOK', Grows, NEW id \in Made, Dead(id)
    PROVE  Dead(id)'
<1>1. id \in Ids /\ claims'[id] = claims[id] /\ now' >= now
  BY DEF Grows, Made
<1>2. claims[id].expires \in Nat /\ now \in Nat /\ now' \in Nat
  BY <1>1 DEF TypeOK
<1> QED BY <1>1, <1>2 DEF Dead, Grows

LEMMA BaseKept ==
    ASSUME TypeOK, TypeOK', Grows, NEW q, Base(q)
    PROVE  Base(q)'
<1>m. \A id \in Made : id \in Ids /\ id \in Made' /\ claims'[id] = claims[id]
  BY DEF Grows, Made
<1>1. (q.step # "idle" =>
          /\ q.replica \in Replicas /\ q.body \in Bodies /\ q.result = "none"
          /\ q.via # "provider" => q.via \in Made /\ q.account = claims[q.via].subject
          /\ q.body.op = "revoke" => q.token \in Ids)'
  BY <1>m DEF Base
<1>2. (q.step \in {"list", "issue"} => MayCreate(q))'
  <2> SUFFICES ASSUME q.step \in {"list", "issue"} PROVE MayCreate(q)'
    OBVIOUS
  <2>1. MayCreate(q) /\ (q.via # "provider" => q.via \in Made)
    BY DEF Base
  <2>2. CASE q.via = "provider"
    BY <2>1, <2>2 DEF MayCreate, Subject
  <2>3. CASE q.via # "provider"
    <3>1. claims'[q.via] = claims[q.via]
      BY <1>m, <2>1, <2>3
    <3> QED BY <2>1, <3>1 DEF MayCreate, Subject
  <2> QED BY <2>2, <2>3
<1>3. (/\ q.step \in {"find", "tombstone"} => q.token \in Ids
       /\ q.step = "tombstone" => record[q.token] # "none"
       /\ q.step = "push" => q.token \in Made /\ claims[q.token].stored)'
  BY <1>m DEF Base, Grows
<1>4. (q.result = "refused" => q.via \in Made /\ Dead(q.via))'
  BY <1>m, DeadStays DEF Base
<1> QED BY <1>1, <1>2, <1>3, <1>4 DEF Base

\* A free tag stays free: no other mint pushes it, and a tombstone replaces
\* a record.
LEMMA TagStaysFree ==
    ASSUME IInv, [Next]_vars, NEW p \in Clients, request[p].step = "push", request'[p] = request[p]
    PROVE  record'[request[p].token] = "none"
<1> DEFINE t == request[p].token
<1>i. TypeOK /\ request \in [Clients -> Requests]
  BY DEF IInv, TypeOK, Requests
<1>t. t \in Ids /\ record[t] = "none"
  BY DEF IInv, RequestInv, RequestKnows, Base, TagFree, Made
<1>0. CASE record' = record
  BY <1>0, <1>t
<1>a. ASSUME NEW c \in Clients, NEW a, request' = [request EXCEPT ![c] = a], a.step = "idle"
      PROVE  p # c
  BY <1>a, <1>i
<1>1. ASSUME NEW c \in Clients, PushRecord(c) \/ PushFails(c) PROVE record'[t] = "none"
  <2>1. Answered(request[c]).step = "idle"
    BY <1>i, AnsweredFacts
  <2>2. p # c
    BY <1>1, <1>a, <2>1 DEF PushRecord, PushFails
  <2>3. request[c].token # t
    BY <1>1, <2>2 DEF IInv, MintsDiffer, PushRecord, PushFails
  <2> QED BY <1>1, <1>i, <1>t, <2>3 DEF PushRecord, PushFails, TypeOK
<1>2. ASSUME NEW c \in Clients, PushTombstone(c) \/ TombstoneFails(c) PROVE record'[t] = "none"
  <2>1. record[request[c].token] # "none"
    BY <1>2 DEF PushTombstone, TombstoneFails, IInv, RequestInv, RequestKnows, Base
  <2> QED BY <1>2, <1>i, <1>t, <2>1 DEF PushTombstone, TombstoneFails, TypeOK
<1>3. ASSUME NEW c \in Clients, Arrive(c) PROVE record' = record
  <2>1. ASSUME NEW r, NEW account, NEW body, NEW target, ArriveProvider(c, r, account, body, target)
        PROVE  record' = record
    BY <2>1 DEF ArriveProvider
  <2>2. ASSUME NEW r, NEW id, NEW body, NEW target, ArriveToken(c, r, id, body, target)
        PROVE  record' = record
    <3>1. UNCHANGED <<stage, claims, lineage, record, held, acked, now, faults>>
      BY <2>2 DEF ArriveToken
    <3> QED BY <3>1
  <2> QED BY <1>3, <2>1, <2>2, ArriveCases
<1>4. ASSUME NEW c \in Clients, ListTags(c) \/ Issue(c) \/ ReadFails(c) \/ FindRecord(c) \/ Cancel(c)
      PROVE  record' = record
  BY <1>4 DEF ListTags, Issue, ReadFails, FindRecord, Cancel
<1>5. ASSUME NEW r \in Replicas, NEW id \in Ids, ReadRecord(r, id) \/ LookupEnds(r, id)
      PROVE  record' = record
  BY <1>5 DEF ReadRecord, LookupEnds
<1>6. ASSUME NEW r \in Replicas, Deploy(r) \/ \E account \in Accounts : Bootstrap(r, account)
      PROVE  record' = record
  BY <1>6 DEF Deploy, Bootstrap
<1>7. CASE Tick
  BY <1>0, <1>7 DEF Tick
<1>8. CASE UNCHANGED vars
  BY <1>0, <1>8 DEF vars
<1> QED BY <1>0, <1>1, <1>2, <1>3, <1>4, <1>5, <1>6, <1>7, <1>8 DEF Next, Work

\* A look-up of a revoked token is not answered "valid".
LEMMA RevokedNotValid ==
    ASSUME IInv, [Next]_vars, NEW r \in Replicas, NEW id \in acked, lookup[r][id] # "valid"
    PROVE  lookup'[r][id] # "valid"
<1>i. /\ id \in Ids /\ record[id] = "revoked"
      /\ lookup \in [Replicas -> [Ids -> {"off", "reading", "valid", "invalid", "failed"}]]
  BY DEF IInv, TypeOK, TokenInv
<1>0. CASE lookup' = lookup
  BY <1>0
<1>1. ASSUME NEW s \in Replicas, NEW j \in Ids, ReadRecord(s, j) PROVE lookup'[r][id] # "valid"
  <2>1. PICK v \in {"valid", "invalid", "failed"} :
           lookup' = [lookup EXCEPT ![s] = [lookup[s] EXCEPT ![j] = v]] /\ (v = "valid" => Valid(j))
    BY <1>1 DEF ReadRecord
  <2>2. v = "valid" => j # id
    BY <1>i, <2>1 DEF Valid
  <2> QED BY <1>i, <2>1, <2>2
<1>2. ASSUME NEW s \in Replicas, NEW j \in Ids, LookupEnds(s, j) PROVE lookup'[r][id] # "valid"
  BY <1>2, <1>i DEF LookupEnds
<1>3. ASSUME NEW s \in Replicas, Deploy(s) PROVE lookup'[r][id] # "valid"
  BY <1>3, <1>i DEF Deploy
<1>4. ASSUME NEW c \in Clients, Arrive(c) PROVE lookup'[r][id] # "valid"
  <2>1. ASSUME NEW s, NEW account, NEW body, NEW target, ArriveProvider(c, s, account, body, target)
        PROVE  lookup' = lookup
    BY <2>1 DEF ArriveProvider
  <2>2. ASSUME NEW s \in Replicas, NEW j \in Ids, NEW body, NEW target, ArriveToken(c, s, j, body, target)
        PROVE  lookup'[r][id] # "valid"
    <3>1. lookup' = lookup \/ lookup' = [lookup EXCEPT ![s] = [lookup[s] EXCEPT ![j] = "reading"]]
      BY <2>2 DEF ArriveToken
    <3> QED BY <1>i, <3>1
  <2> QED BY <1>0, <1>4, <2>1, <2>2, ArriveCases
<1>5. ASSUME NEW c \in Clients, Work(c) \/ Cancel(c) PROVE lookup' = lookup
  BY <1>5 DEF Work, ListTags, Issue, PushRecord, PushFails, ReadFails, FindRecord, PushTombstone,
              TombstoneFails, Cancel
<1>6. ASSUME NEW s \in Replicas, NEW account \in Accounts, Bootstrap(s, account) PROVE lookup' = lookup
  BY <1>6 DEF Bootstrap
<1>7. CASE Tick
  BY <1>0, <1>7 DEF Tick
<1>8. CASE UNCHANGED vars
  BY <1>0, <1>8 DEF vars
<1> QED BY <1>0, <1>1, <1>2, <1>3, <1>4, <1>5, <1>6, <1>7, <1>8 DEF Next

\* A request that a step does not touch knows what it knew.
LEMMA RequestKept ==
    ASSUME IInv, TypeOK', [Next]_vars, Grows, NEW p \in Clients, request'[p] = request[p]
    PROVE  RequestKnows(request[p])'
<1>1. PICK q : q = request[p]
  OBVIOUS
<1>k. RequestKnows(q) /\ TypeOK
  BY <1>1 DEF IInv, RequestInv
<1>2. Base(q)'
  BY <1>k, BaseKept DEF RequestKnows
<1>3. q.step = "push" => record'[q.token] = "none"
  BY <1>1, TagStaysFree
<1>4. ASSUME q.step = "lookup", q.via \in acked, lookup[q.replica][q.via] # "valid"
      PROVE  q.via \in acked' /\ lookup'[q.replica][q.via] # "valid"
  <2>1. q.replica \in Replicas
    BY <1>k, <1>4 DEF RequestKnows, Base
  <2> QED BY <1>4, <2>1, RevokedNotValid DEF Grows
<1>5. TagFree(q)' /\ Refuses(q)'
  BY <1>k, <1>3, <1>4 DEF RequestKnows, TagFree, Refuses
<1>6. RequestKnows(q)'
  BY <1>2, <1>5 DEF RequestKnows
<1> QED BY <1>1, <1>6 DEF RequestKnows, Base, TagFree, Refuses, MayCreate, Subject, Dead, Made

\* What a request must know to go on knowing it after the step.
LEMMA KnowsNext ==
    ASSUME TypeOK, TypeOK', Grows, NEW p \in Clients, NEW a, request'[p] = a, Base(a), a.step # "push",
           a.revoked = "yes" => a.step = "idle" /\ a.result \in {"refused", "unavailable"}
    PROVE  RequestKnows(request[p])'
<1>1. Base(a)'
  BY BaseKept
<1>2. RequestKnows(a)'
  BY <1>1 DEF RequestKnows, TagFree, Refuses
<1> QED BY <1>2 DEF RequestKnows, Base, TagFree, Refuses, MayCreate, Subject, Dead, Made

\* An idle request that was not refused knows nothing.
LEMMA IdleBase ==
    ASSUME NEW a, a.step = "idle", a.result # "refused"
    PROVE  Base(a)
BY DEF Base

LEMMA AdmittedBase ==
    ASSUME NEW q \in Requests, q.body \in Bodies, q.replica \in Replicas, q.result = "none",
           q.via # "provider" => q.via \in Made /\ q.account = claims[q.via].subject,
           q.body.op = "revoke" => q.token \in Ids
    PROVE  /\ Base(Admitted(q)) /\ Admitted(q).step # "push" /\ Admitted(q).revoked = q.revoked
           /\ Admitted(q).step # "lookup"
<1> DEFINE a == Admitted(q)
<1>1. /\ a.revoked = q.revoked
      /\ \/ a.step = "idle" /\ a.result \in {"none", "served"}
         \/ a.step = "find" /\ q.body.op = "revoke" /\ Continues(a, q)
         \/ a.step \in {"list", "issue"} /\ MayCreate(q) /\ Continues(a, q)
  BY AdmittedFacts
<1> HIDE DEF a
<1>2. Base(a) /\ a.step # "push" /\ a.revoked = q.revoked /\ a.step # "lookup"
  <2>1. CASE a.step = "idle" /\ a.result \in {"none", "served"}
    BY <1>1, <2>1, IdleBase
  <2>2. CASE a.step = "find" /\ q.body.op = "revoke" /\ Continues(a, q)
    BY <1>1, <2>2 DEF Base, Continues
  <2>3. CASE a.step \in {"list", "issue"} /\ MayCreate(q) /\ Continues(a, q)
    <3>1. MayCreate(a)
      BY <2>3 DEF MayCreate, Subject, Continues
    <3> QED BY <1>1, <2>3, <3>1 DEF Base, Continues
  <2> QED BY <1>1, <2>1, <2>2, <2>3
<1> QED BY <1>2 DEF a

\* A token somebody holds was signed, and what can be revoked is stored.
LEMMA HeldFacts ==
    ASSUME IInv, NEW id \in held
    PROVE  /\ id \in Made /\ id \in Ids
           /\ claims[id].key \in {"old", "new"} /\ claims[id].expires \in Nat
           /\ (id \in acked => claims[id].stored)
<1>1. id \in Made /\ id \in Ids
  BY DEF IInv, TokenInv, Made
<1> QED BY <1>1 DEF IInv, TokenInv, TypeOK, Made

\* A token somebody holds has a signature every replica accepts while it lives.
LEMMA UnsignedIsDead ==
    ASSUME IInv, NEW r \in Replicas, NEW id \in held, ~ Signed(r, id)
    PROVE  Dead(id)
<1>1. /\ id \in Made /\ id \in Ids /\ claims[id].key \in {"old", "new"} /\ claims[id].expires \in Nat
  BY HeldFacts
<1>2. stage[r] \in Stages /\ now \in Nat /\ Leeway \in Nat
  BY TokensAssumption DEF IInv, TypeOK
<1>3. CASE now > claims[id].expires + Leeway
  BY <1>1, <1>2, <1>3 DEF Dead
<1>4. CASE ~ (now > claims[id].expires + Leeway)
  <2>1. claims[id].key \notin KeysOf(Ring[stage[r]])
    BY <1>1, <1>2, <1>4 DEF Signed
  <2>2. claims[id].key = "old" /\ stage[r] = 4
    <3>1. claims[id].key = "new" => stage[r] >= 2
      BY <1>1 DEF IInv, KeyInv
    <3> QED BY <1>1, <1>2, <2>1, <3>1, RingFacts DEF Stages
  <2>3. now > claims[id].expires + Leeway
    BY <1>1, <2>2 DEF IInv, KeyInv
  <2> QED BY <1>4, <2>3
<1> QED BY <1>3, <1>4

LEMMA ArriveRequest ==
    ASSUME IInv, TypeOK', [Next]_vars, Grows, NEW p \in Clients, Arrive(p)
    PROVE  RequestKnows(request[p])'
<1>t. TypeOK /\ request \in [Clients -> Requests]
  BY DEF IInv, TypeOK, Requests
<1>1. ASSUME NEW r \in Replicas, NEW account \in Accounts, NEW body \in Bodies, NEW target \in Targets(body),
             ArriveProvider(p, r, account, body, target)
      PROVE  RequestKnows(request[p])'
  <2> DEFINE q == ArrivedProvider(r, account, body, target)
  <2>1. request' = [request EXCEPT ![p] = Admitted(q)]
    BY <1>1 DEF ArriveProvider, ArrivedProvider
  <2>t. target \in Ids \cup {"none"} /\ (body.op = "revoke" => target \in Ids)
    BY <1>1, TargetType
  <2>2. /\ q \in Requests /\ q.body \in Bodies /\ q.replica \in Replicas /\ q.result = "none"
        /\ q.via = "provider" /\ q.body = body /\ q.token = target /\ q.revoked = "no"
    BY <1>1, <2>t, ArrivedProviderFacts
  <2> HIDE DEF q
  <2>3. Base(Admitted(q)) /\ Admitted(q).step # "push" /\ Admitted(q).revoked = "no"
    BY <2>2, <2>t, AdmittedBase
  <2>4. request'[p] = Admitted(q)
    BY <1>t, <2>1
  <2> QED BY <1>t, <2>3, <2>4, KnowsNext
<1>2. ASSUME NEW r \in Replicas, NEW id \in Ids, NEW body \in Bodies, NEW target \in Targets(body),
             ArriveToken(p, r, id, body, target)
      PROVE  RequestKnows(request[p])'
  <2>0. PICK q : q = ArrivedToken(r, id, body, target)
    OBVIOUS
  <2>t. target \in Ids \cup {"none"} /\ (body.op = "revoke" => target \in Ids)
    BY <1>2, TargetType
  <2>1. /\ q \in Requests /\ q.step = "lookup" /\ q.body = body /\ q.replica = r /\ q.result = "none"
        /\ q.via = id /\ q.account = claims[id].subject /\ q.token = target
        /\ q.revoked = "yes" => id \in acked /\ lookup[r][id] \in {"off", "reading"}
    BY <1>2, <1>t, <2>0, <2>t, ArrivedTokenFacts
  <2>2. /\ id \in held
        /\ \/ ~ Signed(r, id) /\ request' = [request EXCEPT ![p] = Ended(q, "refused")]
           \/ ~ claims[id].stored /\ request' = [request EXCEPT ![p] = Admitted(q)]
           \/ /\ request' = [request EXCEPT ![p] = q]
              /\ lookup[r][id] = "off" => lookup' = [lookup EXCEPT ![r] = [lookup[r] EXCEPT ![id] = "reading"]]
              /\ lookup[r][id] # "off" => lookup' = lookup
    BY <1>2, <2>0 DEF ArriveToken, ArrivedToken
  <2>3. id \in Made /\ (id \in acked => claims[id].stored)
    BY <2>2, HeldFacts
  <2>4. CASE ~ Signed(r, id) /\ request' = [request EXCEPT ![p] = Ended(q, "refused")]
    <3>1. Dead(id)
      BY <2>2, <2>4, UnsignedIsDead
    <3> DEFINE a == Ended(q, "refused")
    <3>2. a.step = "idle" /\ a.result = "refused" /\ a.via = id
      BY <2>1, EndedFacts
    <3>3. request'[p] = a
      BY <1>t, <2>4
    <3> HIDE DEF a
    <3>4. Base(a)
      BY <2>3, <3>1, <3>2 DEF Base
    <3> QED BY <1>t, <3>2, <3>3, <3>4, KnowsNext
  <2>5. CASE ~ claims[id].stored /\ request' = [request EXCEPT ![p] = Admitted(q)]
    <3>1. q.revoked # "yes"
      BY <2>1, <2>3, <2>5
    <3>2. Base(Admitted(q)) /\ Admitted(q).step # "push" /\ Admitted(q).revoked # "yes"
      BY <2>1, <2>3, <2>t, <3>1, AdmittedBase
    <3>3. request'[p] = Admitted(q)
      BY <1>t, <2>5
    <3> QED BY <1>t, <3>2, <3>3, KnowsNext
  <2>6. CASE /\ request' = [request EXCEPT ![p] = q]
             /\ lookup[r][id] = "off" => lookup' = [lookup EXCEPT ![r] = [lookup[r] EXCEPT ![id] = "reading"]]
             /\ lookup[r][id] # "off" => lookup' = lookup
    <3>1. request'[p] = q
      BY <1>t, <2>6
    <3>2. Base(q)
      BY <2>1, <2>3, <2>t DEF Base
    <3>3. Base(q)'
      BY <1>t, <3>2, BaseKept
    <3>4. lookup \in [Replicas -> [Ids -> {"off", "reading", "valid", "invalid", "failed"}]]
      BY <1>t DEF TypeOK
    <3>5. lookup[r][id] \in {"off", "reading"} => lookup'[r][id] # "valid"
      BY <1>2, <2>6, <3>4
    <3>6. TagFree(q)' /\ Refuses(q)'
      BY <2>1, <3>5 DEF TagFree, Refuses, Grows
    <3> QED BY <3>1, <3>3, <3>6
            DEF RequestKnows, Base, TagFree, Refuses, MayCreate, Subject, Dead, Made
  <2> QED BY <2>2, <2>4, <2>5, <2>6
<1> QED BY <1>1, <1>2, ArriveCases

LEMMA LookupEndsRequest ==
    ASSUME IInv, TypeOK', [Next]_vars, Grows, NEW r \in Replicas, NEW id \in Ids, LookupEnds(r, id),
           NEW p \in Clients
    PROVE  RequestKnows(request[p])'
<1>t. TypeOK /\ request[p] \in Requests
  BY DEF IInv, TypeOK, Requests
<1>1. CASE ~ Waits(request[p], r, id)
  BY <1>1, RequestKept DEF LookupEnds
<1>2. CASE Waits(request[p], r, id)
  <2>1. PICK q \in Requests : q = request[p]
    BY <1>t
  <2>2. /\ request'[p] = Resumed(q, lookup[r][id]) /\ lookup[r][id] \in {"valid", "invalid", "failed"}
        /\ q.step = "lookup" /\ q.replica = r /\ q.via = id
    BY <1>2, <2>1 DEF LookupEnds, Waits
  <2>3. Base(q) /\ Refuses(q)
    BY <2>1 DEF IInv, RequestInv, RequestKnows
  <2>4. /\ q.body \in Bodies /\ q.result = "none"
        /\ q.body.op = "revoke" => q.token \in Ids
        /\ q.via # "provider" => q.via \in Made /\ q.account = claims[q.via].subject
    BY <2>2, <2>3 DEF Base
  <2>5. q.via # "provider"
    BY <2>2, TokensAssumption
  <2>6. CASE lookup[r][id] = "valid"
    <3>1. q.revoked # "yes"
      BY <2>2, <2>3, <2>6 DEF Refuses
    <3>2. request'[p] = Admitted(q)
      BY <2>2, <2>6 DEF Resumed
    <3>3. Base(Admitted(q)) /\ Admitted(q).step # "push" /\ Admitted(q).revoked # "yes"
      BY <2>2, <2>4, <3>1, AdmittedBase
    <3> QED BY <1>t, <3>2, <3>3, KnowsNext
  <2>7. CASE lookup[r][id] = "invalid"
    <3> DEFINE a == Ended(q, "refused")
    <3>1. request'[p] = a
      BY <2>2, <2>7 DEF Resumed
    <3>2. a.step = "idle" /\ a.result = "refused" /\ a.via = id
      BY <2>2, EndedFacts
    <3>3. Dead(id)
      BY <2>7 DEF IInv, LookupInv
    <3> HIDE DEF a
    <3>4. Base(a)
      BY <2>2, <2>4, <2>5, <3>2, <3>3 DEF Base
    <3> QED BY <1>t, <3>1, <3>2, <3>4, KnowsNext
  <2>8. CASE lookup[r][id] = "failed"
    <3> DEFINE a == Ended(q, "unavailable")
    <3>1. request'[p] = a
      BY <2>2, <2>8 DEF Resumed
    <3>2. a.step = "idle" /\ a.result = "unavailable"
      BY EndedFacts
    <3> HIDE DEF a
    <3>3. Base(a)
      BY <3>2, IdleBase
    <3> QED BY <1>t, <3>1, <3>2, <3>3, KnowsNext
  <2> QED BY <2>2, <2>6, <2>7, <2>8
<1> QED BY <1>1, <1>2

\* A mint learns the id it has signed, which nobody stored before.
LEMMA IssueFacts ==
    ASSUME IInv, NEW c \in Clients, Issue(c)
    PROVE  /\ request[c].replica \in Replicas
           /\ UNCHANGED <<stage, record, acked, lookup, now, faults>>
           /\ \/ /\ request' = [request EXCEPT ![c] = Answered(request[c])]
                 /\ UNCHANGED <<claims, lineage, held>>
              \/ \E id \in Ids \ Made :
                    /\ Sign(id, request[c], FALSE)
                    /\ \/ /\ request[c].body.stored
                          /\ request' = [request EXCEPT ![c] = [request[c] EXCEPT !.step = "push", !.seen = {},
                                                                                 !.token = id]]
                          /\ UNCHANGED held
                       \/ /\ ~ request[c].body.stored
                          /\ request' = [request EXCEPT ![c] = Answered(request[c])]
                          /\ held' = held \cup {id}
<1>1. request[c].replica \in Replicas
  BY DEF Issue, IInv, RequestInv, RequestKnows, Base
<1>2. UNCHANGED <<stage, record, acked, lookup, now, faults>>
  BY DEF Issue
<1>3. CASE LimitReached(request[c])
  BY <1>1, <1>2, <1>3 DEF Issue
<1>4. CASE ~ LimitReached(request[c])
  <2>1. PICK id \in Ids \ Made :
           /\ Sign(id, request[c], FALSE)
           /\ IF request[c].body.stored
              THEN /\ request' = [request EXCEPT ![c] = [request[c] EXCEPT !.step = "push", !.seen = {},
                                                                           !.token = id]]
                   /\ UNCHANGED held
              ELSE /\ request' = [request EXCEPT ![c] = Answered(request[c])]
                   /\ held' = held \cup {id}
    BY <1>4 DEF Issue
  <2> QED BY <1>1, <1>2, <2>1
<1> QED BY <1>3, <1>4

LEMMA WorkRequest ==
    ASSUME IInv, TypeOK', [Next]_vars, Grows, NEW p \in Clients, Work(p) \/ Cancel(p)
    PROVE  RequestKnows(request[p])'
<1>t. TypeOK /\ request \in [Clients -> Requests]
  BY DEF IInv, TypeOK, Requests
<1>0. PICK q \in Requests : q = request[p]
  BY <1>t
<1>b. Base(q) /\ TagFree(q) /\ Refuses(q)
  BY <1>0 DEF IInv, RequestInv, RequestKnows
<1>a. ASSUME request' = [request EXCEPT ![p] = Answered(q)], q.step # "lookup", q.step # "idle"
      PROVE  RequestKnows(request[p])'
  <2> DEFINE a == Answered(q)
  <2>1. /\ a.step = "idle" /\ a.result \in {"none", "served"} /\ a.revoked = q.revoked
    BY AnsweredFacts
  <2>2. request'[p] = a
    BY <1>a, <1>t
  <2> HIDE DEF a
  <2>3. Base(a) /\ a.revoked # "yes"
    BY <1>a, <1>b, <2>1, IdleBase DEF Refuses
  <2> QED BY <1>t, <2>1, <2>2, <2>3, KnowsNext
<1>1. CASE Cancel(p)
  <2> DEFINE a == Ended(q, "unavailable")
  <2>1. a.step = "idle" /\ a.result = "unavailable"
    BY EndedFacts
  <2>2. request'[p] = a
    BY <1>0, <1>1, <1>t DEF Cancel
  <2> HIDE DEF a
  <2>3. Base(a)
    BY <2>1, IdleBase
  <2> QED BY <1>t, <2>1, <2>2, <2>3, KnowsNext
<1>2. CASE ListTags(p)
  <2> DEFINE seen == {id \in Ids : record[id] # "none" /\ claims[id].subject = Subject(request[p])}
             a    == [q EXCEPT !.step = "issue", !.seen = seen]
  <2>1. request'[p] = a
    BY <1>0, <1>2, <1>t DEF ListTags
  <2>2. a.step = "issue" /\ Continues(a, q) /\ q.step = "list"
    BY <1>0, <1>2 DEF Requests, Continues, ListTags
  <2> HIDE DEF a
  <2>3. MayCreate(a)
    BY <1>b, <2>2 DEF Base, MayCreate, Subject, Continues
  <2>4. Base(a) /\ a.revoked # "yes"
    BY <1>b, <2>2, <2>3 DEF Base, Refuses, Continues
  <2> QED BY <1>t, <2>1, <2>2, <2>4, KnowsNext
<1>3. CASE Issue(p)
  <2>1. q.step = "issue"
    BY <1>0, <1>3 DEF Issue
  <2>2. CASE request' = [request EXCEPT ![p] = Answered(request[p])]
    BY <1>0, <1>a, <2>1, <2>2
  <2>3. ASSUME NEW id \in Ids \ Made, Sign(id, request[p], FALSE), request[p].body.stored,
               request' = [request EXCEPT ![p] = [request[p] EXCEPT !.step = "push", !.seen = {}, !.token = id]]
        PROVE  RequestKnows(request[p])'
    <3>1. PICK a : a = [q EXCEPT !.step = "push", !.seen = {}, !.token = id]
      OBVIOUS
    <3>2. /\ a.step = "push" /\ a.token = id /\ a.replica = q.replica /\ a.body = q.body
          /\ a.via = q.via /\ a.account = q.account /\ a.revoked = q.revoked /\ a.result = q.result
      BY <3>1 DEF Requests
    <3>3. request'[p] = a
      BY <1>0, <1>t, <2>3, <3>1
    <3>4. id \in Made' /\ claims'[id].stored
      <4>1. request[p].replica \in Replicas
        BY <1>3, IssueFacts
      <4>2. claims'[id].stored = request[p].body.stored /\ Made' = Made \cup {id}
        BY <1>t, <2>3, <4>1, SignFacts
      <4> QED BY <2>3, <4>2
    <3>5. record'[id] = "none"
      BY <1>3, <1>t DEF Issue, IInv, TokenInv, TypeOK
    <3>6. Base(q)'
      BY <1>b, <1>t, BaseKept
    <3>7. Base(a)'
      BY <2>1, <3>2, <3>4, <3>6 DEF Base
    <3>8. TagFree(a)' /\ Refuses(a)'
      BY <1>b, <2>1, <3>2, <3>5 DEF TagFree, Refuses
    <3> QED BY <3>3, <3>7, <3>8
            DEF RequestKnows, Base, TagFree, Refuses, MayCreate, Subject, Dead, Made
  <2> QED BY <1>3, <2>2, <2>3, IssueFacts
<1>4. CASE FindRecord(p)
  <2>1. q.step = "find"
    BY <1>0, <1>4 DEF FindRecord
  <2>2. CASE ~ (record[q.token] = "live" /\ claims[q.token].subject = q.account)
    BY <1>0, <1>4, <1>a, <2>1, <2>2 DEF FindRecord
  <2>3. CASE record[q.token] = "live" /\ claims[q.token].subject = q.account
    <3> DEFINE a == [q EXCEPT !.step = "tombstone"]
    <3>1. request'[p] = a
      BY <1>0, <1>4, <1>t, <2>3 DEF FindRecord
    <3>2. a.step = "tombstone" /\ Continues(a, q)
      BY DEF Requests, Continues
    <3> HIDE DEF a
    <3>3. Base(a) /\ a.revoked # "yes"
      BY <1>b, <2>1, <2>3, <3>2 DEF Base, Refuses, Continues
    <3> QED BY <1>t, <3>1, <3>2, <3>3, KnowsNext
  <2> QED BY <2>2, <2>3
<1>5. CASE PushRecord(p) \/ PushFails(p) \/ ReadFails(p) \/ PushTombstone(p) \/ TombstoneFails(p)
  <2>1. q.step \in {"push", "list", "issue", "find", "tombstone"}
    BY <1>0, <1>5 DEF PushRecord, PushFails, ReadFails, PushTombstone, TombstoneFails
  <2>2. request' = [request EXCEPT ![p] = Answered(q)]
    BY <1>0, <1>5 DEF PushRecord, PushFails, ReadFails, PushTombstone, TombstoneFails
  <2> QED BY <1>a, <2>1, <2>2
<1> QED BY <1>1, <1>2, <1>3, <1>4, <1>5 DEF Work

\* A step is of one request, or of the requests of one look-up.
LEMMA OneRequest ==
    ASSUME IInv, [Next]_vars, NEW p \in Clients
    PROVE  \/ request'[p] = request[p]
           \/ Arrive(p) \/ Work(p) \/ Cancel(p)
           \/ \E r \in Replicas, id \in Ids : LookupEnds(r, id)
<1>t. request \in [Clients -> Requests]
  BY DEF IInv, TypeOK, Requests
<1>1. ASSUME NEW c \in Clients, c # p, Arrive(c) PROVE request'[p] = request[p]
  <2>1. ASSUME NEW r, NEW account, NEW body, NEW target, ArriveProvider(c, r, account, body, target)
        PROVE  request'[p] = request[p]
    BY <1>1, <1>t, <2>1 DEF ArriveProvider
  <2>2. ASSUME NEW r, NEW id, NEW body, NEW target, ArriveToken(c, r, id, body, target)
        PROVE  request'[p] = request[p]
    <3>1. \E a : request' = [request EXCEPT ![c] = a]
      BY <2>2 DEF ArriveToken
    <3> QED BY <1>1, <1>t, <3>1
  <2> QED BY <1>1, <2>1, <2>2, ArriveCases
<1>2. ASSUME NEW c \in Clients, c # p, Work(c) \/ Cancel(c) PROVE request'[p] = request[p]
  <2>1. CASE Issue(c)
    BY <1>2, <1>t, <2>1, IssueFacts
  <2>2. CASE ~ Issue(c)
    BY <1>2, <1>t, <2>2 DEF Work, ListTags, PushRecord, PushFails, ReadFails, FindRecord,
       PushTombstone, TombstoneFails, Cancel
  <2> QED BY <2>1, <2>2
<1>3. ASSUME NEW r \in Replicas, NEW id \in Ids, ReadRecord(r, id) PROVE request' = request
  BY <1>3 DEF ReadRecord
<1>4. ASSUME NEW r \in Replicas, Deploy(r) \/ \E account \in Accounts : Bootstrap(r, account)
      PROVE  request' = request
  BY <1>4 DEF Deploy, Bootstrap
<1>5. CASE Tick
  BY <1>5 DEF Tick
<1>6. CASE UNCHANGED vars
  BY <1>6 DEF vars
<1> QED BY <1>1, <1>2, <1>3, <1>4, <1>5, <1>6 DEF Next

LEMMA NextRequest == IInv /\ TypeOK' /\ [Next]_vars => RequestInv'
<1> SUFFICES ASSUME IInv, TypeOK', [Next]_vars, NEW p \in Clients
             PROVE  RequestKnows(request[p])'
  BY DEF RequestInv
<1>1. Grows
  BY Monotone
<1> QED BY <1>1, RequestKept, ArriveRequest, WorkRequest, LookupEndsRequest, OneRequest

---------------------------------------------------------------------------
(* Mints, tokens, look-ups and keys *)

\* Who is at the push of a record after a step was there before, or has just
\* signed a token of its own.
LEMMA PushedBefore ==
    ASSUME IInv, [Next]_vars, NEW p \in Clients, request'[p].step = "push"
    PROVE  request'[p] = request[p] \/ (Issue(p) /\ request'[p].token \in Ids \ Made)
<1>t. request \in [Clients -> Requests] /\ request[p] \in Requests /\ TypeOK
  BY DEF IInv, TypeOK, Requests
<1>b. Base(request[p])
  BY DEF IInv, RequestInv, RequestKnows
<1>1. ~ Arrive(p)
  <2> SUFFICES ASSUME Arrive(p) PROVE FALSE
    OBVIOUS
  <2>1. ASSUME NEW r \in Replicas, NEW account \in Accounts, NEW body \in Bodies, NEW target \in Targets(body),
               ArriveProvider(p, r, account, body, target)
        PROVE  FALSE
    <3> DEFINE q == ArrivedProvider(r, account, body, target)
    <3>1. request' = [request EXCEPT ![p] = Admitted(q)]
      BY <2>1 DEF ArriveProvider, ArrivedProvider
    <3>t. target \in Ids \cup {"none"}
      BY <2>1, TargetType
    <3>2. q \in Requests /\ q.body \in Bodies
      BY <2>1, <3>t, ArrivedProviderFacts
    <3> HIDE DEF q
    <3>3. Admitted(q).step # "push"
      BY <3>2, AdmittedFacts
    <3> QED BY <1>t, <3>1, <3>3
  <2>2. ASSUME NEW r \in Replicas, NEW id \in Ids, NEW body \in Bodies, NEW target \in Targets(body),
               ArriveToken(p, r, id, body, target)
        PROVE  FALSE
    <3> DEFINE q == ArrivedToken(r, id, body, target)
    <3>t. target \in Ids \cup {"none"}
      BY <2>2, TargetType
    <3>1. q \in Requests /\ q.body \in Bodies /\ q.step = "lookup"
      BY <1>t, <2>2, <3>t, ArrivedTokenFacts
    <3>2. Admitted(q).step # "push" /\ Ended(q, "refused").step # "push"
      BY <3>1, AdmittedFacts, EndedFacts
    <3>3. request'[p] \in {Admitted(q), Ended(q, "refused"), q}
      BY <1>t, <2>2 DEF ArriveToken, ArrivedToken
    <3> HIDE DEF q
    <3> QED BY <3>1, <3>2, <3>3
  <2> QED BY <2>1, <2>2, ArriveCases
<1>2. ASSUME Work(p) \/ Cancel(p), ~ Issue(p) PROVE FALSE
  <2>1. Answered(request[p]).step # "push" /\ Ended(request[p], "unavailable").step # "push"
    BY <1>t, AnsweredFacts, EndedFacts
  <2>2. CASE Cancel(p) \/ PushRecord(p) \/ PushFails(p) \/ ReadFails(p) \/ PushTombstone(p) \/ TombstoneFails(p)
    BY <1>t, <2>1, <2>2 DEF Cancel, PushRecord, PushFails, ReadFails, PushTombstone, TombstoneFails
  <2>3. CASE ListTags(p)
    BY <1>t, <2>3 DEF ListTags, Requests
  <2>4. CASE FindRecord(p)
    <3>1. request'[p] \in {[request[p] EXCEPT !.step = "tombstone"], Answered(request[p])}
      BY <1>t, <2>4 DEF FindRecord
    <3>2. [request[p] EXCEPT !.step = "tombstone"].step = "tombstone"
      BY <1>t DEF Requests
    <3> QED BY <2>1, <3>1, <3>2
  <2> QED BY <1>2, <2>2, <2>3, <2>4 DEF Work
<1>3. ASSUME Issue(p) PROVE request'[p].token \in Ids \ Made
  <2>1. Answered(request[p]).step # "push"
    BY <1>t, AnsweredFacts
  <2>2. PICK id \in Ids \ Made :
           request' = [request EXCEPT ![p] = [request[p] EXCEPT !.step = "push", !.seen = {}, !.token = id]]
    BY <1>3, <1>t, <2>1, IssueFacts
  <2> QED BY <1>t, <2>2 DEF Requests
<1>4. ASSUME NEW r \in Replicas, NEW id \in Ids, LookupEnds(r, id) PROVE request'[p] = request[p]
  <2>1. CASE ~ Waits(request[p], r, id)
    BY <1>4, <2>1 DEF LookupEnds
  <2>2. CASE Waits(request[p], r, id)
    <3>1. /\ request'[p] = Resumed(request[p], lookup[r][id])
          /\ lookup[r][id] \in {"valid", "invalid", "failed"}
          /\ request[p].body \in Bodies
      BY <1>4, <1>b, <2>2 DEF LookupEnds, Waits, Base
    <3>2. /\ Admitted(request[p]).step # "push" /\ Ended(request[p], "refused").step # "push"
          /\ Ended(request[p], "unavailable").step # "push"
      BY <1>t, <3>1, AdmittedFacts, EndedFacts
    <3>3. request'[p] \in {Admitted(request[p]), Ended(request[p], "refused"), Ended(request[p], "unavailable")}
      BY <3>1 DEF Resumed
    <3> QED BY <3>2, <3>3
  <2> QED BY <2>1, <2>2
<1> QED BY <1>1, <1>2, <1>3, <1>4, OneRequest

LEMMA NextMints == IInv /\ [Next]_vars => MintsDiffer'
<1> SUFFICES ASSUME IInv, [Next]_vars, NEW c \in Clients, NEW d \in Clients, c # d,
                    request'[c].step = "push", request'[d].step = "push"
             PROVE  request'[c].token # request'[d].token
  BY DEF MintsDiffer
<1>t. request \in [Clients -> Requests]
  BY DEF IInv, TypeOK, Requests
<1>m. ASSUME NEW p \in Clients, request'[p].step = "push", request'[p] = request[p]
      PROVE  request'[p].token \in Made
  BY <1>m DEF IInv, RequestInv, RequestKnows, Base
<1>i. ASSUME NEW p \in Clients, NEW o \in Clients, p # o, Issue(p) PROVE request'[o] = request[o]
  BY <1>i, <1>t, IssueFacts
<1>1. CASE request'[c] = request[c] /\ request'[d] = request[d]
  BY <1>1 DEF IInv, MintsDiffer
<1>2. CASE request'[c] # request[c]
  BY <1>2, <1>i, <1>m, PushedBefore
<1>3. CASE request'[d] # request[d]
  BY <1>3, <1>i, <1>m, PushedBefore
<1> QED BY <1>1, <1>2, <1>3

\* The steps that sign a token.
LEMMA Signs ==
    ASSUME IInv, [Next]_vars
    PROVE  \/ claims' = claims /\ lineage' = lineage
           \/ \E c \in Clients : \E id \in Ids \ Made :
                 Issue(c) /\ Sign(id, request[c], FALSE)
           \/ \E r \in Replicas, account \in Accounts : \E id \in Ids \ Made :
                 Bootstrap(r, account) /\ Sign(id, BootRequest(r, account), TRUE)
<1>1. ASSUME NEW c \in Clients, Arrive(c) PROVE claims' = claims /\ lineage' = lineage
  <2>1. ASSUME NEW r, NEW account, NEW body, NEW target, ArriveProvider(c, r, account, body, target)
        PROVE  claims' = claims /\ lineage' = lineage
    BY <2>1 DEF ArriveProvider
  <2>2. ASSUME NEW r, NEW id, NEW body, NEW target, ArriveToken(c, r, id, body, target)
        PROVE  claims' = claims /\ lineage' = lineage
    <3>1. UNCHANGED <<stage, claims, lineage, record, held, acked, now, faults>>
      BY <2>2 DEF ArriveToken
    <3> QED BY <3>1
  <2> QED BY <1>1, <2>1, <2>2, ArriveCases
<1>2. ASSUME NEW c \in Clients, Issue(c)
      PROVE  \/ claims' = claims /\ lineage' = lineage
             \/ \E id \in Ids \ Made : Sign(id, request[c], FALSE)
  BY <1>2, IssueFacts
<1>3. ASSUME NEW c \in Clients, Work(c) \/ Cancel(c), ~ Issue(c)
      PROVE  claims' = claims /\ lineage' = lineage
  BY <1>3 DEF Work, ListTags, PushRecord, PushFails, ReadFails, FindRecord, PushTombstone, TombstoneFails, Cancel
<1>4. ASSUME NEW r \in Replicas, NEW account \in Accounts, Bootstrap(r, account)
      PROVE  \E id \in Ids \ Made : Sign(id, BootRequest(r, account), TRUE)
  BY <1>4 DEF Bootstrap, BootRequest
<1>5. ASSUME NEW r \in Replicas, NEW id \in Ids, ReadRecord(r, id) \/ LookupEnds(r, id)
      PROVE  claims' = claims /\ lineage' = lineage
  BY <1>5 DEF ReadRecord, LookupEnds
<1>6. CASE Tick \/ \E r \in Replicas : Deploy(r)
  BY <1>6 DEF Tick, Deploy
<1>7. CASE UNCHANGED vars
  BY <1>7 DEF vars
<1> QED BY <1>1, <1>2, <1>3, <1>4, <1>5, <1>6, <1>7 DEF Next

\* A new token does no more than the token it was minted with, and than all
\* before that one.
LEMMA SignNarrows ==
    ASSUME IInv, NEW q, NEW id \in Ids \ Made, NEW any \in BOOLEAN, Sign(id, q, any), q.replica \in Replicas,
           q.via # "provider" =>
               q.via \in Made /\ q.account = claims[q.via].subject /\ MayCreate(q)
    PROVE  AuthorityNarrows'
<1>t. TypeOK /\ TokenInv /\ AuthorityNarrows
  BY DEF IInv
<1>s. /\ \A j \in Ids \ {id} : claims'[j] = claims[j] /\ lineage'[j] = lineage[j]
      /\ claims'[id].subject = Subject(q)
      /\ claims'[id].scopes = q.body.scopes /\ claims'[id].issuable = q.body.issuable
      /\ lineage'[id] = IF q.via = "provider" THEN {} ELSE {q.via} \cup lineage[q.via]
  BY <1>t, SignFacts
<1> SUFFICES ASSUME NEW j \in Ids, NEW parent \in lineage'[j]
             PROVE  /\ claims'[j].scopes \cup claims'[j].issuable \subseteq claims'[parent].issuable
                    /\ \/ claims'[j].subject = claims'[parent].subject
                       \/ \E root \in lineage'[j] : claims'[root].any
  BY DEF AuthorityNarrows
<1>m. \A i \in Made : i \in Ids /\ claims'[i] = claims[i] /\ lineage'[i] = lineage[i] /\ lineage[i] \subseteq Made
  BY <1>s, <1>t DEF TokenInv, Made
<1>1. CASE j # id
  <2>1. lineage'[j] = lineage[j] /\ claims'[j] = claims[j] /\ lineage[j] \subseteq Made
    BY <1>1, <1>s, <1>t DEF TokenInv
  <2>2. parent \in Made /\ parent \in lineage[j]
    BY <2>1
  <2>3. claims'[parent] = claims[parent]
    BY <1>m, <2>2
  <2>4. /\ claims[j].scopes \cup claims[j].issuable \subseteq claims[parent].issuable
        /\ \/ claims[j].subject = claims[parent].subject
           \/ \E root \in lineage[j] : claims[root].any
    BY <1>t, <2>2 DEF AuthorityNarrows
  <2>5. (\E root \in lineage[j] : claims[root].any) => \E root \in lineage'[j] : claims'[root].any
    <3> SUFFICES ASSUME NEW root \in lineage[j], claims[root].any
                 PROVE  \E x \in lineage'[j] : claims'[x].any
      OBVIOUS
    <3>1. claims'[root] = claims[root] /\ root \in lineage'[j]
      BY <1>m, <2>1
    <3> QED BY <3>1
  <2> QED BY <2>1, <2>3, <2>4, <2>5
<1>2. CASE j = id
  <2>1. /\ q.via # "provider" /\ q.via \in Made /\ q.via \in Ids /\ MayCreate(q)
        /\ q.account = claims[q.via].subject /\ lineage'[id] = {q.via} \cup lineage[q.via]
    BY <1>2, <1>m, <1>s
  <2>2. claims'[q.via] = claims[q.via] /\ lineage[q.via] \subseteq Made
    BY <1>m, <2>1
  <2>3. /\ q.body.scopes \cup q.body.issuable \subseteq claims[q.via].issuable
        /\ Subject(q) # claims[q.via].subject => claims[q.via].any
    BY <2>1 DEF MayCreate, CanGrant
  <2>4. CASE parent = q.via
    <3>1. claims[q.via].any => \E root \in lineage'[id] : claims'[root].any
      BY <2>1, <2>2
    <3> QED BY <1>2, <1>s, <2>2, <2>3, <2>4, <3>1
  <2>5. CASE parent \in lineage[q.via]
    <3>1. parent \in Made /\ claims'[parent] = claims[parent]
      BY <1>m, <2>2, <2>5
    <3>2. /\ claims[q.via].scopes \cup claims[q.via].issuable \subseteq claims[parent].issuable
          /\ \/ claims[q.via].subject = claims[parent].subject
             \/ \E root \in lineage[q.via] : claims[root].any
      BY <1>t, <2>1, <2>5 DEF AuthorityNarrows
    <3>3. (\E root \in lineage[q.via] : claims[root].any) => \E root \in lineage'[id] : claims'[root].any
      <4> SUFFICES ASSUME NEW root \in lineage[q.via], claims[root].any
                   PROVE  \E x \in lineage'[id] : claims'[x].any
        OBVIOUS
      <4>1. claims'[root] = claims[root] /\ root \in lineage'[id]
        BY <1>m, <2>1, <2>2
      <4> QED BY <4>1
    <3>4. claims[q.via].any => \E root \in lineage'[id] : claims'[root].any
      BY <2>1, <2>2
    <3>5. q.body.scopes \cup q.body.issuable \subseteq claims[parent].issuable
      BY <2>3, <3>2
    <3> QED BY <1>2, <1>s, <2>3, <3>1, <3>2, <3>3, <3>4, <3>5
  <2> QED BY <1>2, <2>1, <2>4, <2>5
<1> QED BY <1>1, <1>2

LEMMA NextAuthority == IInv /\ [Next]_vars => AuthorityNarrows'
<1> SUFFICES ASSUME IInv, [Next]_vars PROVE AuthorityNarrows'
  OBVIOUS
<1>1. CASE claims' = claims /\ lineage' = lineage
  BY <1>1 DEF IInv, AuthorityNarrows
<1>2. ASSUME NEW c \in Clients, NEW id \in Ids \ Made, Issue(c), Sign(id, request[c], FALSE)
      PROVE  AuthorityNarrows'
  <2>1. /\ request[c].replica \in Replicas
        /\ request[c].via # "provider" =>
               /\ request[c].via \in Made /\ request[c].account = claims[request[c].via].subject
               /\ MayCreate(request[c])
    BY <1>2 DEF Issue, IInv, RequestInv, RequestKnows, Base
  <2> QED BY <1>2, <2>1, SignNarrows
<1>3. ASSUME NEW r \in Replicas, NEW account \in Accounts, NEW id \in Ids \ Made,
             Bootstrap(r, account), Sign(id, BootRequest(r, account), TRUE)
      PROVE  AuthorityNarrows'
  <2>1. BootRequest(r, account).replica \in Replicas /\ BootRequest(r, account).via = "provider"
    BY BootFacts
  <2> QED BY <1>3, <2>1, SignNarrows
<1> QED BY <1>1, <1>2, <1>3, Signs

LEMMA SignLineage ==
    ASSUME TypeOK, TokenInv, NEW q, NEW id \in Ids \ Made, NEW any \in BOOLEAN, Sign(id, q, any),
           q.replica \in Replicas, q.via # "provider" => q.via \in Made
    PROVE  \A i \in Ids : lineage'[i] \subseteq Made'
<1>1. /\ \A j \in Ids \ {id} : lineage'[j] = lineage[j]
      /\ lineage'[id] = IF q.via = "provider" THEN {} ELSE {q.via} \cup lineage[q.via]
      /\ Made' = Made \cup {id}
  BY SignFacts
<1>2. q.via # "provider" => {q.via} \cup lineage[q.via] \subseteq Made
  BY DEF TokenInv, Made
<1> QED BY <1>1, <1>2 DEF TokenInv

LEMMA NextToken == IInv /\ [Next]_vars => TokenInv'
<1> SUFFICES ASSUME IInv, [Next]_vars PROVE TokenInv'
  OBVIOUS
<1>t. TypeOK /\ TokenInv
  BY DEF IInv
<1>g. Grows
  BY Monotone
<1>m. \A i \in Made : i \in Ids /\ i \in Made' /\ claims'[i] = claims[i] /\ lineage'[i] = lineage[i]
  BY <1>g DEF Grows, Made
<1>l. \A i \in Ids : lineage'[i] \subseteq Made'
  <2>1. CASE claims' = claims /\ lineage' = lineage
    BY <1>t, <2>1 DEF TokenInv, Made
  <2>2. ASSUME NEW c \in Clients, NEW id \in Ids \ Made, Issue(c), Sign(id, request[c], FALSE)
        PROVE  \A i \in Ids : lineage'[i] \subseteq Made'
    <3>1. request[c].replica \in Replicas /\ (request[c].via # "provider" => request[c].via \in Made)
      BY <2>2 DEF Issue, IInv, RequestInv, RequestKnows, Base
    <3> QED BY <1>t, <2>2, <3>1, SignLineage
  <2>3. ASSUME NEW r \in Replicas, NEW account \in Accounts, NEW id \in Ids \ Made,
               Bootstrap(r, account), Sign(id, BootRequest(r, account), TRUE)
        PROVE  \A i \in Ids : lineage'[i] \subseteq Made'
    <3>1. BootRequest(r, account).replica \in Replicas /\ BootRequest(r, account).via = "provider"
      BY BootFacts
    <3> QED BY <1>t, <2>3, <3>1, SignLineage
  <2> QED BY <2>1, <2>2, <2>3, Signs
\* It is enough that what is new in the registry is right.
<1>n. ASSUME \A id \in Ids : record'[id] # "none" =>
                 record[id] # "none" \/ (id \in Made /\ claims[id].stored),
             \A id \in held' : id \in held \/ (id \in Made' /\ (claims'[id].stored => record'[id] # "none")),
             \A id \in acked' : id \in acked \/ record'[id] = "revoked"
      PROVE  TokenInv'
  <2>1. \A id \in Ids : record'[id] # "none" => id \in Made' /\ claims'[id].stored
    BY <1>m, <1>n, <1>t DEF TokenInv
  <2>2. \A id \in held' : id \in Made' /\ (claims'[id].stored => record'[id] # "none")
    BY <1>g, <1>m, <1>n, <1>t DEF TokenInv, Grows
  <2>3. \A id \in acked' : record'[id] = "revoked"
    BY <1>g, <1>n, <1>t DEF TokenInv, Grows, TypeOK
  <2> QED BY <1>l, <2>1, <2>2, <2>3 DEF TokenInv
<1>0. CASE record' = record /\ held' = held /\ acked' = acked
  BY <1>0, <1>n
<1>1. ASSUME NEW c \in Clients, Arrive(c) PROVE record' = record /\ held' = held /\ acked' = acked
  <2>1. ASSUME NEW r, NEW account, NEW body, NEW target, ArriveProvider(c, r, account, body, target)
        PROVE  record' = record /\ held' = held /\ acked' = acked
    BY <2>1 DEF ArriveProvider
  <2>2. ASSUME NEW r, NEW id, NEW body, NEW target, ArriveToken(c, r, id, body, target)
        PROVE  record' = record /\ held' = held /\ acked' = acked
    <3>1. UNCHANGED <<stage, claims, lineage, record, held, acked, now, faults>>
      BY <2>2 DEF ArriveToken
    <3> QED BY <3>1
  <2> QED BY <1>1, <2>1, <2>2, ArriveCases
<1>2. ASSUME NEW c \in Clients, ListTags(c) \/ ReadFails(c) \/ FindRecord(c) \/ Cancel(c)
      PROVE  record' = record /\ held' = held /\ acked' = acked
  BY <1>2 DEF ListTags, ReadFails, FindRecord, Cancel
<1>3. ASSUME NEW c \in Clients, Issue(c) PROVE TokenInv'
  <2>1. CASE held' = held
    BY <1>3, <1>n, <2>1, IssueFacts
  <2>2. ASSUME NEW id \in Ids \ Made, Sign(id, request[c], FALSE), ~ request[c].body.stored,
               held' = held \cup {id}
        PROVE  TokenInv'
    <3>1. request[c].replica \in Replicas /\ record' = record /\ acked' = acked
      BY <1>3, IssueFacts
    <3>2. claims'[id].stored = request[c].body.stored /\ Made' = Made \cup {id}
      BY <1>t, <2>2, <3>1, SignFacts
    <3> QED BY <1>n, <2>2, <3>1, <3>2
  <2> QED BY <1>3, <2>1, <2>2, IssueFacts
<1>4. ASSUME NEW r \in Replicas, NEW account \in Accounts, Bootstrap(r, account) PROVE TokenInv'
  <2>1. PICK id \in Ids \ Made : Sign(id, BootRequest(r, account), TRUE) /\ held' = held \cup {id}
    BY <1>4 DEF Bootstrap, BootRequest
  <2>2. /\ BootRequest(r, account).replica \in Replicas
        /\ BootRequest(r, account).body = [op |-> "create", scopes |-> TokenScopes,
                  issuable |-> ScopeNames, stored |-> FALSE, subject |-> "own"]
    BY BootFacts
  <2>3. claims'[id].stored = BootRequest(r, account).body.stored /\ Made' = Made \cup {id}
    BY <1>t, <2>1, <2>2, SignFacts
  <2>4. record' = record /\ acked' = acked
    BY <1>4 DEF Bootstrap
  <2>5. ~ claims'[id].stored
    BY <2>2, <2>3
  <2>6. /\ \A j \in Ids : record'[j] # "none" => record[j] # "none"
        /\ \A j \in held' : j \in held \/ (j \in Made' /\ ~ claims'[j].stored)
        /\ \A j \in acked' : j \in acked
    BY <2>1, <2>3, <2>4, <2>5
  <2> QED BY <1>n, <2>6
<1>5. ASSUME NEW c \in Clients, PushRecord(c) \/ PushFails(c) PROVE TokenInv'
  <2>1. request[c].token \in Made /\ request[c].token \in Ids /\ claims[request[c].token].stored
    BY <1>5 DEF PushRecord, PushFails, IInv, RequestInv, RequestKnows, Base, Made
  <2>2. /\ \A id \in Ids : record'[id] # "none" => record[id] # "none" \/ id = request[c].token
        /\ held' = held \/ (held' = held \cup {request[c].token} /\ record'[request[c].token] = "live")
        /\ acked' = acked
    BY <1>5, <1>t, <2>1 DEF PushRecord, PushFails, TypeOK
  <2> QED BY <1>m, <1>n, <2>1, <2>2
<1>6. ASSUME NEW c \in Clients, PushTombstone(c) \/ TombstoneFails(c) PROVE TokenInv'
  <2>1. request[c].token \in Ids /\ record[request[c].token] # "none"
    BY <1>6 DEF PushTombstone, TombstoneFails, IInv, RequestInv, RequestKnows, Base
  <2>2. /\ \A id \in Ids : record'[id] # "none" => record[id] # "none"
        /\ held' = held
        /\ acked' = acked \/ (acked' = acked \cup {request[c].token} /\ record'[request[c].token] = "revoked")
    BY <1>6, <1>t, <2>1 DEF PushTombstone, TombstoneFails, TypeOK
  <2> QED BY <1>n, <2>2
<1>7. ASSUME NEW r \in Replicas, NEW id \in Ids, ReadRecord(r, id) \/ LookupEnds(r, id)
      PROVE  record' = record /\ held' = held /\ acked' = acked
  BY <1>7 DEF ReadRecord, LookupEnds
<1>8. CASE Tick \/ \E r \in Replicas : Deploy(r)
  BY <1>0, <1>8 DEF Tick, Deploy
<1>9. CASE UNCHANGED vars
  BY <1>0, <1>9 DEF vars
<1> QED BY <1>0, <1>1, <1>2, <1>3, <1>4, <1>5, <1>6, <1>7, <1>8, <1>9 DEF Next, Work

LEMMA NextLookup == IInv /\ TypeOK' /\ [Next]_vars => LookupInv'
<1> SUFFICES ASSUME IInv, TypeOK', [Next]_vars, NEW r \in Replicas, NEW id \in Ids
             PROVE  /\ lookup'[r][id] # "off" => record'[id] # "none"
                    /\ lookup'[r][id] = "invalid" => Dead(id)'
  BY DEF LookupInv
<1>t. TypeOK /\ TokenInv /\ LookupInv
  BY DEF IInv
<1>l. lookup \in [Replicas -> [Ids -> {"off", "reading", "valid", "invalid", "failed"}]]
  BY <1>t DEF TypeOK
<1>g. Grows
  BY Monotone
<1>d. record[id] # "none" /\ Dead(id) => Dead(id)'
  BY <1>g, <1>t, DeadStays DEF TokenInv
\* It is enough that what a look-up has newly found is right.
<1>n. ASSUME lookup'[r][id] # "off" => lookup[r][id] # "off" \/ record[id] # "none",
             lookup'[r][id] = "invalid" => lookup[r][id] = "invalid" \/ Dead(id)
      PROVE  /\ lookup'[r][id] # "off" => record'[id] # "none"
             /\ lookup'[r][id] = "invalid" => Dead(id)'
  <2>1. lookup'[r][id] # "off" => record[id] # "none"
    BY <1>n, <1>t DEF LookupInv
  <2>2. lookup'[r][id] = "invalid" => Dead(id)
    BY <1>n, <1>t DEF LookupInv
  <2> QED BY <1>d, <1>g, <2>1, <2>2 DEF Grows
<1>0. CASE lookup' = lookup
  BY <1>0, <1>n
<1>1. ASSUME NEW s \in Replicas, NEW j \in Ids, ReadRecord(s, j)
      PROVE  /\ lookup'[r][id] # "off" => record'[id] # "none"
             /\ lookup'[r][id] = "invalid" => Dead(id)'
  <2>1. PICK v \in {"valid", "invalid", "failed"} :
           /\ lookup' = [lookup EXCEPT ![s] = [lookup[s] EXCEPT ![j] = v]]
           /\ lookup[s][j] = "reading" /\ (v = "invalid" => ~ Valid(j))
    BY <1>1 DEF ReadRecord
  <2>2. record[j] # "none"
    BY <1>t, <2>1 DEF LookupInv
  <2>3. v = "invalid" => Dead(j)
    BY <1>t, <2>1, <2>2 DEF Valid, Dead, TypeOK
  <2>4. (r = s /\ id = j) \/ lookup'[r][id] = lookup[r][id]
    BY <1>l, <2>1
  <2>5. r = s /\ id = j => lookup'[r][id] = v
    BY <1>l, <2>1
  <2> QED BY <1>n, <2>2, <2>3, <2>4, <2>5
<1>2. ASSUME NEW s \in Replicas, NEW j \in Ids, LookupEnds(s, j)
      PROVE  lookup'[r][id] \in {"off", lookup[r][id]}
  BY <1>2, <1>l DEF LookupEnds
<1>3. ASSUME NEW s \in Replicas, Deploy(s)
      PROVE  lookup'[r][id] \in {"off", lookup[r][id]}
  BY <1>3, <1>l DEF Deploy
<1>4. ASSUME NEW c \in Clients, Arrive(c)
      PROVE  /\ lookup'[r][id] # "off" => record'[id] # "none"
             /\ lookup'[r][id] = "invalid" => Dead(id)'
  <2>1. ASSUME NEW s, NEW account, NEW body, NEW target, ArriveProvider(c, s, account, body, target)
        PROVE  lookup' = lookup
    BY <2>1 DEF ArriveProvider
  <2>2. ASSUME NEW s \in Replicas, NEW j \in Ids, NEW body, NEW target, ArriveToken(c, s, j, body, target)
        PROVE  /\ lookup'[r][id] # "off" => record'[id] # "none"
               /\ lookup'[r][id] = "invalid" => Dead(id)'
    <3>1. \/ lookup' = lookup
          \/ /\ lookup' = [lookup EXCEPT ![s] = [lookup[s] EXCEPT ![j] = "reading"]]
             /\ j \in held /\ claims[j].stored
      BY <2>2 DEF ArriveToken
    <3>2. j \in held /\ claims[j].stored => record[j] # "none"
      BY <1>t DEF TokenInv
    <3> QED BY <1>0, <1>l, <1>n, <3>1, <3>2
  <2> QED BY <1>0, <1>4, <2>1, <2>2, ArriveCases
<1>5. ASSUME NEW c \in Clients, Work(c) \/ Cancel(c) PROVE lookup' = lookup
  BY <1>5 DEF Work, ListTags, Issue, PushRecord, PushFails, ReadFails, FindRecord, PushTombstone,
              TombstoneFails, Cancel
<1>6. ASSUME NEW s \in Replicas, NEW account \in Accounts, Bootstrap(s, account) PROVE lookup' = lookup
  BY <1>6 DEF Bootstrap
<1>7. CASE Tick
  BY <1>0, <1>7 DEF Tick
<1>8. CASE UNCHANGED vars
  BY <1>0, <1>8 DEF vars
<1>9. CASE lookup'[r][id] \in {"off", lookup[r][id]}
  BY <1>9, <1>n
<1> QED BY <1>0, <1>1, <1>2, <1>3, <1>4, <1>5, <1>6, <1>7, <1>8, <1>9 DEF Next

\* No key begins to sign before every replica knows it.
LEMMA SignKeys ==
    ASSUME IInv, TypeOK', NEW q, NEW id \in Ids \ Made, NEW any \in BOOLEAN, Sign(id, q, any),
           q.replica \in Replicas, stage' = stage, now' = now
    PROVE  KeyInv'
<1>t. TypeOK /\ KeyInv
  BY DEF IInv
<1>k. Ring[stage[q.replica]][1] = IF stage[q.replica] <= 2 THEN "old" ELSE "new"
  BY <1>t, RingFacts DEF TypeOK
<1>1. /\ \A j \in Ids \ {id} : claims'[j] = claims[j]
      /\ claims'[id].key = IF stage[q.replica] <= 2 THEN "old" ELSE "new"
  <2>1. claims' = [claims EXCEPT ![id] =
           [subject |-> Subject(q), scopes |-> q.body.scopes, issuable |-> q.body.issuable,
            stored |-> q.body.stored, any |-> any,
            expires |-> now + Lifetime(q.body.stored, any), key |-> Ring[stage[q.replica]][1]]]
    BY DEF Sign
  <2> QED BY <1>k, <1>t, <2>1 DEF TypeOK
<1>2. \A r \in Replicas : stage[r] \in 1..4 /\ stage[r] <= stage[q.replica] + 1
                       /\ stage[q.replica] <= stage[r] + 1
  BY <1>t DEF TypeOK, Stages, KeyInv
<1>3. ASSUME NEW j \in Ids, claims'[j].key = "new", NEW r \in Replicas PROVE stage[r] >= 2
  BY <1>1, <1>2, <1>3, <1>t DEF KeyInv
<1>4. ASSUME NEW r \in Replicas, stage[r] = 4, NEW j \in Ids, claims'[j].key = "old"
      PROVE  now > claims'[j].expires + Leeway
  BY <1>1, <1>2, <1>4, <1>t DEF KeyInv
<1> QED BY <1>3, <1>4, <1>t DEF KeyInv

LEMMA NextKey == IInv /\ TypeOK' /\ [Next]_vars => KeyInv'
<1> SUFFICES ASSUME IInv, TypeOK', [Next]_vars PROVE KeyInv'
  OBVIOUS
<1>t. TypeOK /\ KeyInv
  BY DEF IInv
<1>n. now \in Nat /\ now' \in Nat /\ Leeway \in Nat /\ \A id \in Ids : claims[id].expires \in Nat
  BY <1>t, TokensAssumption DEF TypeOK
<1>g. now' >= now
  BY Monotone DEF Grows
<1>1. CASE claims' = claims /\ lineage' = lineage
  <2>1. CASE stage' = stage
    BY <1>1, <1>g, <1>n, <1>t, <2>1 DEF KeyInv
  <2>2. ASSUME NEW r \in Replicas, Deploy(r) PROVE KeyInv'
    <3>1. \A s \in Replicas : stage[s] \in 1..4 /\ stage'[s] = IF s = r THEN stage[r] + 1 ELSE stage[s]
      BY <1>t, <2>2 DEF Deploy, TypeOK, Stages
    <3>2. /\ \A s \in Replicas : stage[s] >= stage[r]
          /\ stage[r] = 3 => \A id \in Ids : claims[id].key = "old" => now > claims[id].expires + Leeway
          /\ now' = now
      BY <2>2 DEF Deploy
    <3>3. \A s, u \in Replicas : stage'[s] <= stage'[u] + 1
      BY <1>t, <3>1, <3>2 DEF KeyInv
    <3>4. \A id \in Ids : claims[id].key = "new" => \A s \in Replicas : stage'[s] >= 2
      BY <1>t, <3>1 DEF KeyInv
    <3>5. ASSUME NEW s \in Replicas, stage'[s] = 4, NEW id \in Ids, claims[id].key = "old"
          PROVE  now > claims[id].expires + Leeway
      BY <1>t, <3>1, <3>2, <3>5 DEF KeyInv
    <3> QED BY <1>1, <3>2, <3>3, <3>4, <3>5 DEF KeyInv
  <2>3. ASSUME NEW c \in Clients, Arrive(c) PROVE stage' = stage
    <3>1. ASSUME NEW r, NEW account, NEW body, NEW target, ArriveProvider(c, r, account, body, target)
          PROVE  stage' = stage
      BY <3>1 DEF ArriveProvider
    <3>2. ASSUME NEW r, NEW id, NEW body, NEW target, ArriveToken(c, r, id, body, target)
          PROVE  stage' = stage
      <4>1. UNCHANGED <<stage, claims, lineage, record, held, acked, now, faults>>
        BY <3>2 DEF ArriveToken
      <4> QED BY <4>1
    <3> QED BY <2>3, <3>1, <3>2, ArriveCases
  <2>4. ASSUME NEW c \in Clients, Work(c) \/ Cancel(c) PROVE stage' = stage
    BY <2>4 DEF Work, ListTags, Issue, PushRecord, PushFails, ReadFails, FindRecord, PushTombstone,
                TombstoneFails, Cancel
  <2>5. ASSUME NEW r \in Replicas, NEW id \in Ids, ReadRecord(r, id) \/ LookupEnds(r, id)
        PROVE  stage' = stage
    BY <2>5 DEF ReadRecord, LookupEnds
  <2>6. ASSUME NEW r \in Replicas, NEW account \in Accounts, Bootstrap(r, account) PROVE stage' = stage
    BY <2>6 DEF Bootstrap
  <2>7. CASE Tick
    BY <2>1, <2>7 DEF Tick
  <2>8. CASE UNCHANGED vars
    BY <2>1, <2>8 DEF vars
  <2> QED BY <2>1, <2>2, <2>3, <2>4, <2>5, <2>6, <2>7, <2>8 DEF Next
<1>2. ASSUME NEW c \in Clients, NEW id \in Ids \ Made, Issue(c), Sign(id, request[c], FALSE)
      PROVE  KeyInv'
  BY <1>2, IssueFacts, SignKeys
<1>3. ASSUME NEW r \in Replicas, NEW account \in Accounts, NEW id \in Ids \ Made,
             Bootstrap(r, account), Sign(id, BootRequest(r, account), TRUE)
      PROVE  KeyInv'
  <2>1. BootRequest(r, account).replica \in Replicas /\ stage' = stage /\ now' = now
    BY <1>3, BootFacts DEF Bootstrap
  <2> QED BY <1>3, <2>1, SignKeys
<1> QED BY <1>1, <1>2, <1>3, Signs

---------------------------------------------------------------------------
(* The theorems *)

LEMMA NextInv == IInv /\ [Next]_vars => IInv'
<1> SUFFICES ASSUME IInv, [Next]_vars PROVE IInv'
  OBVIOUS
<1>1. TypeOK'
  BY NextType DEF IInv
<1> QED BY <1>1, NextToken, NextLookup, NextKey, NextRequest, NextMints, NextAuthority DEF IInv

LEMMA Invariance == Spec => []IInv
BY InitInv, NextInv, PTL DEF Spec

\* Type correctness of the tokens, their look-ups and requests.
THEOREM TypeCorrect == Spec => []TypeOK
<1>1. IInv => TypeOK
  BY DEF IInv
<1> QED BY <1>1, Invariance, PTL

\* No chain of tokens minting tokens widens what the first was allowed to
\* hand on, nor leaves its subject except below a bootstrap credential.
THEOREM ChainsNarrow == Spec => []AuthorityNarrows
<1>1. IInv => AuthorityNarrows
  BY DEF IInv
<1> QED BY <1>1, Invariance, PTL

\* A revocation that was answered holds on every replica for every request
\* that did not join a look-up from before it.
THEOREM RevocationHolds == Spec => []RevokedIsRefused
<1>1. IInv => RevokedIsRefused
  BY DEF IInv, RequestInv, RequestKnows, Refuses, RevokedIsRefused
<1> QED BY <1>1, Invariance, PTL

\* The rotation of the keys makes no replica refuse a token that is good.
THEOREM RotationAccepts == Spec => []IssuedIsAccepted
<1>1. IInv => IssuedIsAccepted
  BY DEF IInv, RequestInv, RequestKnows, Base, Dead, IssuedIsAccepted
<1> QED BY <1>1, Invariance, PTL
---------------------------------------------------------------------------
(* The limit of an account.                                                *)
(*                                                                         *)
(* The tokens that are live are those the latest create to be accepted had *)
(* counted, fewer than the limit, and one for each request in flight with  *)
(* it.  "base" is what that create had counted, mint the token a client    *)
(* made while it was in flight.  A create that may still be accepted was   *)
(* in flight with it, and has no token yet, or listed the tags later, and  *)
(* has seen all that is not owed to another client.                        *)

Records == {id \in Ids : record[id] # "none"}
Counting(c) == request[c].step = "issue" /\ request[c].body.stored

\* A listing shows tokens of the account, and a later one shows more.
SeenInv ==
    /\ \A c \in Clients : Counting(c) =>
          /\ request[c].seen \subseteq Records
          /\ \A id \in request[c].seen : claims[id].subject = Subject(request[c])
    /\ \A c, d \in Clients :
          Counting(c) /\ Counting(d) /\ Subject(request[c]) = Subject(request[d])
              => \/ request[c].seen \subseteq request[d].seen
                 \/ request[d].seen \subseteq request[c].seen

InFlight(account, base, mint, c) == mint[c] \notin Live(account) \ base
ListedLater(account, base, mint, c) ==
    \A id \in Live(account) \ request[c].seen : id \notin base /\ id # mint[c]

Accounted(account, base, mint) ==
    /\ base \subseteq Records /\ Cardinality(base) < MaxPerOrg
    /\ \A id \in Live(account) \ base : \E c \in Clients : id = mint[c]
    /\ \A c \in Clients : request[c].step = "push" /\ claims[request[c].token].subject = account =>
          /\ mint[c] = request[c].token
          /\ \A d \in Clients \ {c} : mint[d] # request[c].token
    /\ \A c \in Clients : Counting(c) /\ Subject(request[c]) = account =>
          InFlight(account, base, mint, c) \/ ListedLater(account, base, mint, c)

LimitInv ==
    /\ IsFiniteSet(Records)
    /\ SeenInv
    /\ \A account \in Accounts :
          \E base \in SUBSET Ids, mint \in [Clients -> Made \cup {"none"}] :
              Accounted(account, base, mint)

LEMMA InitLimit == Init => LimitInv
<1> SUFFICES ASSUME Init PROVE LimitInv
  OBVIOUS
<1>1. Records = {} /\ \A account : Live(account) = {}
  BY DEF Init, Records, Live, Valid
<1>2. \A c \in Clients : request[c].step = "idle"
  BY DEF Init, Idle
<1>3. SeenInv
  BY <1>2 DEF SeenInv, Counting
<1>4. ASSUME NEW account \in Accounts
      PROVE  Accounted(account, {}, [c \in Clients |-> "none"])
  BY <1>1, <1>2, FS_EmptySet, TokensAssumption DEF Accounted, Counting
<1> QED BY <1>1, <1>3, <1>4, FS_EmptySet DEF LimitInv

\* A token that is live was signed and stored, and only a push makes one live.
LEMMA LiveStored == IInv => \A account : Live(account) \subseteq Records /\ Records \subseteq Made
BY DEF IInv, TokenInv, Live, Valid, Records

LEMMA LiveShrinks ==
    ASSUME IInv, TypeOK', Grows, NEW S, \A id \in Ids : record'[id] = "live" => record[id] = "live" \/ id \in S
    PROVE  /\ Records \subseteq Records'
           /\ \A account : Live(account)' \subseteq Live(account) \cup S
<1>n. now \in Nat /\ now' \in Nat /\ \A id \in Ids : claims[id].expires \in Nat
  BY DEF IInv, TypeOK
<1>1. ASSUME NEW account, NEW id \in Ids, record[id] = "live", claims'[id].expires > now',
             claims'[id].subject = account
      PROVE  id \in Live(account)
  <2>1. claims'[id] = claims[id] /\ now' >= now
    BY <1>1 DEF Grows, IInv, TokenInv
  <2> QED BY <1>1, <1>n, <2>1 DEF Live, Valid
<1>2. \A account : Live(account)' \subseteq Live(account) \cup S
  BY <1>1 DEF Live, Valid
<1> QED BY <1>2 DEF Grows, Records

\* A create that lists sees all there is.
Listed ==
    \A c \in Clients : Counting(c)' =>
        \/ request'[c] = request[c]
        \/ request'[c].seen = {id \in Records' : claims'[id].subject = Subject(request'[c])}

\* A step that pushes no record and mints none that is stored.
Calm ==
    /\ Records' = Records
    /\ \A id \in Ids : record'[id] = "live" => record[id] = "live"
    /\ \A c \in Clients :
          request'[c].step = "push" => request[c].step = "push" /\ request'[c].token = request[c].token
    /\ Listed

LEMMA ListedSees ==
    ASSUME IInv, LimitInv, Grows, Listed
    PROVE  SeenInv'
<1>m. \A id \in Records : id \in Records' /\ claims'[id] = claims[id]
  BY LiveStored DEF Grows, Records
<1> DEFINE Known(c) == request'[c] = request[c]
           Full(c) == request'[c].seen = {id \in Records' : claims'[id].subject = Subject(request'[c])}
<1>1. ASSUME NEW c \in Clients, Counting(c)'
      PROVE  /\ Known(c) \/ Full(c)
             /\ Known(c) => Counting(c) /\ Subject(request'[c]) = Subject(request[c])
             /\ request'[c].seen \subseteq Records'
             /\ \A id \in request'[c].seen : claims'[id].subject = Subject(request'[c])
  <2>1. Known(c) \/ Full(c)
    BY <1>1 DEF Listed
  <2>2. Known(c) => Counting(c) /\ Subject(request'[c]) = Subject(request[c])
    BY <1>1 DEF Counting, Subject
  <2>3. CASE Known(c)
    BY <1>m, <2>2, <2>3 DEF LimitInv, SeenInv
  <2> QED BY <2>1, <2>2, <2>3
<1>2. ASSUME NEW c \in Clients, NEW d \in Clients, Counting(c)', Counting(d)',
             Subject(request'[c]) = Subject(request'[d])
      PROVE  \/ request'[c].seen \subseteq request'[d].seen
             \/ request'[d].seen \subseteq request'[c].seen
  <2>1. CASE Full(c) \/ Full(d)
    BY <1>1, <1>2, <2>1
  <2>2. CASE Known(c) /\ Known(d)
    BY <1>1, <1>2, <2>2 DEF LimitInv, SeenInv
  <2> QED BY <1>1, <1>2, <2>1, <2>2
<1> HIDE DEF Known, Full
<1> QED BY <1>1, <1>2 DEF SeenInv

LEMMA CalmKeeps ==
    ASSUME IInv, LimitInv, TypeOK', Grows, Calm
    PROVE  LimitInv'
<1>l. \A account : Live(account)' \subseteq Live(account)
  BY LiveShrinks, \A id \in Ids : record'[id] = "live" => record[id] = "live" \/ id \in {} DEF Calm
<1>m. \A id \in Made : claims'[id] = claims[id]
  BY DEF Grows
<1>1. Made \subseteq Made'
  BY <1>m DEF Made
<1>2. ASSUME NEW account \in Accounts, NEW base \in SUBSET Ids,
             NEW mint \in [Clients -> Made \cup {"none"}], Accounted(account, base, mint)
      PROVE  Accounted(account, base, mint)'
  <2>1. base \subseteq Records' /\ Cardinality(base) < MaxPerOrg
    BY <1>2 DEF Accounted, Calm
  <2>2. \A id \in Live(account)' \ base : \E c \in Clients : id = mint[c]
    BY <1>2, <1>l DEF Accounted
  <2>3. ASSUME NEW c \in Clients, request'[c].step = "push", claims'[request'[c].token].subject = account
        PROVE  mint[c] = request'[c].token /\ \A d \in Clients \ {c} : mint[d] # request'[c].token
    <3>1. request[c].step = "push" /\ request'[c].token = request[c].token
      BY <2>3 DEF Calm
    <3>2. request[c].token \in Made
      BY <3>1 DEF IInv, RequestInv, RequestKnows, Base
    <3> QED BY <1>2, <1>m, <2>3, <3>1, <3>2 DEF Accounted
  <2>4. ASSUME NEW c \in Clients, Counting(c)', Subject(request'[c]) = account
        PROVE  InFlight(account, base, mint, c)' \/ ListedLater(account, base, mint, c)'
    <3>1. CASE request'[c] = request[c]
      <4>1. Counting(c) /\ Subject(request[c]) = account
        BY <2>4, <3>1 DEF Counting, Subject
      <4>2. CASE InFlight(account, base, mint, c)
        BY <1>l, <4>2 DEF InFlight
      <4>3. CASE ListedLater(account, base, mint, c)
        BY <1>l, <3>1, <4>3 DEF ListedLater
      <4> QED BY <1>2, <4>1, <4>2, <4>3 DEF Accounted
    <3>2. CASE request'[c].seen = {id \in Records' : claims'[id].subject = Subject(request'[c])}
      <4>1. Live(account)' \subseteq request'[c].seen
        BY <2>4, <3>2 DEF Live, Valid, Records
      <4> QED BY <4>1 DEF ListedLater
    <3> QED BY <2>4, <3>1, <3>2 DEF Calm, Listed
  <2> QED BY <2>1, <2>2, <2>3, <2>4 DEF Accounted
<1>3. ASSUME NEW account \in Accounts
      PROVE  \E base \in SUBSET Ids, mint \in [Clients -> Made' \cup {"none"}] : Accounted(account, base, mint)'
  <2>1. PICK base \in SUBSET Ids, mint \in [Clients -> Made \cup {"none"}] : Accounted(account, base, mint)
    BY <1>3 DEF LimitInv
  <2>2. mint \in [Clients -> Made' \cup {"none"}]
    BY <1>1, <2>1
  <2> QED BY <1>2, <2>1, <2>2
<1>4. IsFiniteSet(Records')
  BY DEF LimitInv, Calm
<1> QED BY <1>3, <1>4, ListedSees DEF Calm, LimitInv

\* A push: what was owed to the client is now stored.
LEMMA PushKeeps ==
    ASSUME IInv, LimitInv, TypeOK', Grows, NEW c \in Clients, PushRecord(c) \/ PushFails(c)
    PROVE  LimitInv'
<1> DEFINE t == request[c].token
<1>t. request \in [Clients -> Requests] /\ record \in [Ids -> {"none", "live", "revoked"}]
  BY DEF IInv, TypeOK, Requests
<1>1. t \in Made /\ t \in Ids /\ record[t] = "none" /\ claims' = claims /\ t \notin Records
  BY DEF IInv, RequestInv, RequestKnows, Base, TagFree, PushRecord, PushFails, Made, Records
<1>2. /\ \A id \in Ids : record'[id] = "live" => record[id] = "live" \/ id \in {t}
      /\ Records' \subseteq Records \cup {t}
  BY <1>t, <1>1 DEF PushRecord, PushFails, Records
<1>3. \A d \in Clients : IF d = c THEN request'[d].step = "idle" ELSE request'[d] = request[d]
  <2>1. Answered(request[c]).step = "idle"
    BY <1>t, AnsweredFacts
  <2> QED BY <1>t, <2>1 DEF PushRecord, PushFails
<1>4. Records \subseteq Records' /\ \A account : Live(account)' \subseteq Live(account) \cup {t}
  BY <1>2, LiveShrinks
<1>5. Listed
  BY <1>3 DEF Listed, Counting
<1> HIDE DEF t
<1>6. ASSUME NEW account \in Accounts, NEW base \in SUBSET Ids,
             NEW mint \in [Clients -> Made \cup {"none"}], Accounted(account, base, mint)
      PROVE  Accounted(account, base, mint)'
  <2>1. base \subseteq Records' /\ Cardinality(base) < MaxPerOrg /\ t \notin base
    BY <1>1, <1>4, <1>6 DEF Accounted
  <2>t. t \in Live(account)' => mint[c] = t /\ \A d \in Clients \ {c} : mint[d] # t
    <3>1. t \in Live(account)' => claims[t].subject = account
      BY <1>1 DEF Live
    <3>2. request[c].step = "push"
      BY DEF PushRecord, PushFails
    <3> QED BY <1>6, <3>1, <3>2 DEF Accounted, t
  <2>2. \A id \in Live(account)' \ base : \E d \in Clients : id = mint[d]
    BY <1>4, <1>6, <2>t DEF Accounted
  <2>3. ASSUME NEW d \in Clients, request'[d].step = "push", claims'[request'[d].token].subject = account
        PROVE  mint[d] = request'[d].token /\ \A e \in Clients \ {d} : mint[e] # request'[d].token
    BY <1>1, <1>3, <1>6, <2>3 DEF Accounted
  <2>4. ASSUME NEW d \in Clients, Counting(d)', Subject(request'[d]) = account
        PROVE  InFlight(account, base, mint, d)' \/ ListedLater(account, base, mint, d)'
    <3>1. d # c /\ request'[d] = request[d]
      BY <1>3, <2>4 DEF Counting
    <3>2. Counting(d) /\ Subject(request[d]) = account
      BY <2>4, <3>1 DEF Counting, Subject
    <3>3. CASE InFlight(account, base, mint, d)
      BY <1>4, <2>t, <3>1, <3>3 DEF InFlight
    <3>4. CASE ListedLater(account, base, mint, d)
      BY <1>4, <2>1, <2>t, <3>1, <3>4 DEF ListedLater
    <3> QED BY <1>6, <3>2, <3>3, <3>4 DEF Accounted
  <2> QED BY <2>1, <2>2, <2>3, <2>4 DEF Accounted
<1>7. ASSUME NEW account \in Accounts
      PROVE  \E base \in SUBSET Ids, mint \in [Clients -> Made' \cup {"none"}] : Accounted(account, base, mint)'
  <2>1. PICK base \in SUBSET Ids, mint \in [Clients -> Made \cup {"none"}] : Accounted(account, base, mint)
    BY <1>7 DEF LimitInv
  <2>2. Made' = Made
    BY <1>1 DEF Made
  <2> QED BY <1>6, <2>1, <2>2
<1>8. IsFiniteSet(Records')
  <2>1. IsFiniteSet(Records \cup {t})
    BY FS_AddElement DEF LimitInv
  <2> QED BY <1>2, <2>1, FS_Subset
<1> QED BY <1>5, <1>7, <1>8, ListedSees DEF LimitInv

\* A create below the limit: what it counted becomes the base.
LEMMA MintAccounts ==
    ASSUME IInv, LimitInv, NEW c \in Clients, Counting(c), ~LimitReached(request[c]),
           NEW account \in Accounts, Subject(request[c]) = account,
           NEW base \in SUBSET Ids, NEW mint \in [Clients -> Made \cup {"none"}],
           Accounted(account, base, mint)
    PROVE  \E counted \in SUBSET Ids :
              /\ counted \subseteq Records /\ Cardinality(counted) < MaxPerOrg
              /\ \A id \in Live(account) \ counted : \E d \in Clients \ {c} : id = mint[d]
              /\ \A d \in Clients : Counting(d) /\ Subject(request[d]) = account =>
                    InFlight(account, counted, mint, d) \/ ListedLater(account, counted, mint, d)
<1>1. CASE InFlight(account, base, mint, c)
  <2>1. \A id \in Live(account) \ base : \E d \in Clients \ {c} : id = mint[d]
    BY <1>1 DEF Accounted, InFlight
  <2> QED BY <2>1 DEF Accounted
<1>2. CASE ListedLater(account, base, mint, c)
  <2> DEFINE counted == {id \in request[c].seen : Valid(id)}
  <2>1. request[c].seen \subseteq Records /\ \A id \in request[c].seen : claims[id].subject = account
    BY DEF LimitInv, SeenInv
  <2>2. counted \in SUBSET Ids /\ counted \subseteq Records
    BY <2>1 DEF Records
  <2>3. Cardinality(counted) \in Nat
    BY <2>2, FS_Subset, FS_CardinalityType DEF LimitInv
  <2>4. Cardinality(counted) < MaxPerOrg
    BY <2>3, TokensAssumption DEF LimitReached, Counting
  <2>5. \A id \in Live(account) : id \notin counted <=> id \notin request[c].seen
    BY DEF Live
  <2> HIDE DEF counted
  <2>6. \A id \in Live(account) \ counted : id \in Live(account) \ base /\ id # mint[c]
    BY <1>2, <2>5 DEF ListedLater
  <2>7. \A id \in Live(account) \ counted : \E d \in Clients \ {c} : id = mint[d]
    BY <2>6 DEF Accounted
  <2>8. ASSUME NEW d \in Clients, Counting(d), Subject(request[d]) = account
        PROVE  InFlight(account, counted, mint, d) \/ ListedLater(account, counted, mint, d)
    <3>1. CASE InFlight(account, base, mint, d)
      BY <2>6, <3>1 DEF InFlight
    <3>2. CASE ListedLater(account, base, mint, d) /\ request[c].seen \subseteq request[d].seen
      BY <2>5, <3>2 DEF ListedLater
    <3>3. CASE ListedLater(account, base, mint, d) /\ request[d].seen \subseteq request[c].seen
      BY <2>5, <3>3 DEF ListedLater, InFlight
    <3> QED BY <2>8, <3>1, <3>2, <3>3 DEF Accounted, LimitInv, SeenInv
  <2> QED BY <2>2, <2>4, <2>7, <2>8
<1> QED BY <1>1, <1>2 DEF Accounted

LEMMA MintKeeps ==
    ASSUME IInv, LimitInv, TypeOK', Grows, NEW c \in Clients, Issue(c), Counting(c),
           ~LimitReached(request[c]), NEW t \in Ids \ Made, Sign(t, request[c], FALSE),
           request' = [request EXCEPT ![c] = [@ EXCEPT !.step = "push", !.seen = {}, !.token = t]]
    PROVE  LimitInv'
<1>t. request \in [Clients -> Requests] /\ request[c].replica \in Replicas
  BY DEF IInv, TypeOK, Requests, RequestInv, RequestKnows, Base, Counting
<1>1. /\ record' = record /\ Records' = Records /\ t \notin Records
      /\ \A account : Live(account) \subseteq Records
  <2>1. record' = record
    BY IssueFacts
  <2> QED BY <2>1, LiveStored DEF Records
<1>2. /\ Made' = Made \cup {t} /\ claims'[t].subject = Subject(request[c])
      /\ \A id \in Made : claims'[id] = claims[id]
  BY <1>t, SignFacts DEF IInv, Grows
<1>3. /\ request'[c].step = "push" /\ request'[c].token = t
      /\ \A d \in Clients \ {c} : request'[d] = request[d]
  BY <1>t DEF Requests
<1>4. \A account : Live(account)' \subseteq Live(account)
  BY <1>1, LiveShrinks, \A id \in Ids : record'[id] = "live" => record[id] = "live" \/ id \in {}
<1>5. Listed
  BY <1>3 DEF Listed, Counting
<1>6. ASSUME NEW d \in Clients, request[d].step = "push" PROVE request[d].token \in Made
  BY <1>6 DEF IInv, RequestInv, RequestKnows, Base
<1>7. ASSUME NEW d \in Clients, Counting(d)'
      PROVE  d # c /\ Counting(d) /\ request'[d] = request[d] /\ Subject(request'[d]) = Subject(request[d])
  BY <1>3, <1>7 DEF Counting
\* An account that is not concerned.
<1>8. ASSUME NEW account \in Accounts, Subject(request[c]) # account, NEW base \in SUBSET Ids,
             NEW mint \in [Clients -> Made \cup {"none"}], Accounted(account, base, mint)
      PROVE  Accounted(account, base, mint)'
  <2>1. base \subseteq Records' /\ Cardinality(base) < MaxPerOrg
    BY <1>1, <1>8 DEF Accounted
  <2>2. \A id \in Live(account)' \ base : \E d \in Clients : id = mint[d]
    BY <1>4, <1>8 DEF Accounted
  <2>3. ASSUME NEW d \in Clients, request'[d].step = "push", claims'[request'[d].token].subject = account
        PROVE  mint[d] = request'[d].token /\ \A e \in Clients \ {d} : mint[e] # request'[d].token
    <3>1. d # c
      BY <1>2, <1>3, <1>8, <2>3
    <3> QED BY <1>2, <1>3, <1>6, <1>8, <2>3, <3>1 DEF Accounted
  <2>4. ASSUME NEW d \in Clients, Counting(d)', Subject(request'[d]) = account
        PROVE  InFlight(account, base, mint, d)' \/ ListedLater(account, base, mint, d)'
    <3>1. InFlight(account, base, mint, d) \/ ListedLater(account, base, mint, d)
      BY <1>7, <1>8, <2>4 DEF Accounted
    <3> QED BY <1>4, <1>7, <2>4, <3>1 DEF InFlight, ListedLater
  <2> QED BY <2>1, <2>2, <2>3, <2>4 DEF Accounted
\* The account of the token: the client is now owed this one.
<1>9. ASSUME NEW account \in Accounts, Subject(request[c]) = account, NEW base \in SUBSET Ids,
             NEW mint \in [Clients -> Made \cup {"none"}], Accounted(account, base, mint)
      PROVE  \E counted \in SUBSET Ids, owed \in [Clients -> Made' \cup {"none"}] :
                 Accounted(account, counted, owed)'
  <2>1. PICK counted \in SUBSET Ids :
              /\ counted \subseteq Records /\ Cardinality(counted) < MaxPerOrg
              /\ \A id \in Live(account) \ counted : \E d \in Clients \ {c} : id = mint[d]
              /\ \A d \in Clients : Counting(d) /\ Subject(request[d]) = account =>
                    InFlight(account, counted, mint, d) \/ ListedLater(account, counted, mint, d)
    BY <1>9, MintAccounts
  <2> DEFINE owed == [mint EXCEPT ![c] = t]
  <2>2. /\ owed \in [Clients -> Made' \cup {"none"}] /\ owed[c] = t
        /\ \A d \in Clients \ {c} : owed[d] = mint[d] /\ owed[d] # t
    BY <1>2, TokensAssumption
  <2> HIDE DEF owed
  <2>3. \A id \in Live(account)' \ counted : \E d \in Clients : id = owed[d]
    BY <1>4, <2>1, <2>2
  <2>4. ASSUME NEW d \in Clients, request'[d].step = "push", claims'[request'[d].token].subject = account
        PROVE  owed[d] = request'[d].token /\ \A e \in Clients \ {d} : owed[e] # request'[d].token
    <3>1. CASE d = c
      BY <1>3, <2>2, <3>1
    <3>2. CASE d # c
      <4>1. /\ request'[d] = request[d] /\ request[d].token \in Made
            /\ claims[request[d].token].subject = account
        BY <1>2, <1>3, <1>6, <2>4, <3>2
      <4>2. mint[d] = request[d].token /\ \A e \in Clients \ {d} : mint[e] # request[d].token
        BY <1>9, <2>4, <4>1 DEF Accounted
      <4> QED BY <2>2, <3>2, <4>1, <4>2
    <3> QED BY <3>1, <3>2
  <2>5. ASSUME NEW d \in Clients, Counting(d)', Subject(request'[d]) = account
        PROVE  InFlight(account, counted, owed, d)' \/ ListedLater(account, counted, owed, d)'
    <3>1. InFlight(account, counted, mint, d) \/ ListedLater(account, counted, mint, d)
      BY <1>7, <2>1, <2>5
    <3> QED BY <1>4, <1>7, <2>2, <2>5, <3>1 DEF InFlight, ListedLater
  <2> QED BY <1>1, <2>1, <2>2, <2>3, <2>4, <2>5 DEF Accounted
<1>10. ASSUME NEW account \in Accounts
       PROVE  \E base \in SUBSET Ids, mint \in [Clients -> Made' \cup {"none"}] : Accounted(account, base, mint)'
  <2>1. PICK base \in SUBSET Ids, mint \in [Clients -> Made \cup {"none"}] : Accounted(account, base, mint)
    BY <1>10 DEF LimitInv
  <2>2. mint \in [Clients -> Made' \cup {"none"}]
    BY <1>2, <2>1
  <2>3. CASE Subject(request[c]) = account
    BY <1>9, <2>1, <2>3
  <2>4. CASE Subject(request[c]) # account
    BY <1>8, <2>1, <2>2, <2>4
  <2> QED BY <2>3, <2>4
<1> QED BY <1>1, <1>5, <1>10, ListedSees DEF LimitInv

\* A request comes to its count only by listing first, or has nothing to count.
LEMMA AdmittedUncounted ==
    ASSUME NEW q \in Requests, q.body \in Bodies
    PROVE  LET a == Admitted(q) IN a.step # "push" /\ ~(a.step = "issue" /\ a.body.stored)
<1>b. q.body.op \in {"use", "create", "revoke"}
  BY TokensAssumption DEF BodyType, Operations
<1>a. Answered(q).step = "idle" /\ Ended(q, "none").step = "idle"
  BY AnsweredFacts, EndedFacts
<1>s. ASSUME NEW step \in {"find", "list", "issue"}
      PROVE  LET a == [q EXCEPT !.step = step] IN a.step = step /\ a.body = q.body
  BY DEF Requests
<1>1. CASE ~ Covered(q)
  BY <1>1, <1>a DEF Admitted
<1>2. CASE Covered(q) /\ q.body.op = "use"
  BY <1>2, <1>a DEF Admitted
<1>3. CASE Covered(q) /\ q.body.op = "revoke"
  BY <1>3, <1>s DEF Admitted
<1>4. CASE Covered(q) /\ q.body.op = "create"
  <2>1. Admitted(q) = IF ~(WellFormed(q.body) /\ MayCreate(q)) THEN Answered(q)
                      ELSE [q EXCEPT !.step = IF q.body.stored THEN "list" ELSE "issue"]
    BY <1>4 DEF Admitted
  <2> QED BY <1>a, <1>s, <2>1
<1> QED BY <1>b, <1>1, <1>2, <1>3, <1>4

LEMMA ResumedUncounted ==
    ASSUME NEW q \in Requests, q.body \in Bodies, NEW verdict \in {"valid", "invalid", "failed"}
    PROVE  LET a == Resumed(q, verdict) IN a.step # "push" /\ ~(a.step = "issue" /\ a.body.stored)
<1>1. CASE verdict = "valid"
  BY <1>1, AdmittedUncounted DEF Resumed
<1>2. CASE verdict = "invalid"
  BY <1>2, EndedFacts DEF Resumed
<1>3. CASE verdict = "failed"
  BY <1>3, EndedFacts DEF Resumed
<1> QED BY <1>1, <1>2, <1>3

LEMMA NextLimit == IInv /\ LimitInv /\ IInv' /\ [Next]_vars => LimitInv'
<1> SUFFICES ASSUME IInv, LimitInv, IInv', [Next]_vars PROVE LimitInv'
  OBVIOUS
<1>i. TypeOK /\ TypeOK' /\ Grows /\ request \in [Clients -> Requests]
  BY Monotone DEF IInv, TypeOK, Requests
<1>c. ASSUME Records' = Records, \A id \in Ids : record'[id] = "live" => record[id] = "live",
             \A d \in Clients : \/ request'[d] = request[d]
                                \/ request'[d].step # "push" /\ ~Counting(d)'
      PROVE  LimitInv'
  BY <1>c, <1>i, CalmKeeps DEF Calm, Listed
\* A step that changes one request, and not the records.
<1>q. ASSUME NEW c \in Clients, NEW a, request' = [request EXCEPT ![c] = a], record' = record,
             a.step # "push", ~(a.step = "issue" /\ a.body.stored)
      PROVE  LimitInv'
  <2>1. \A d \in Clients : request'[d] = IF d = c THEN a ELSE request[d]
    BY <1>i, <1>q
  <2> QED BY <1>c, <1>q, <2>1 DEF Records, Counting
<1>e. ASSUME NEW c \in Clients
      PROVE  \A result \in {"none", "served", "refused", "unavailable"} :
                 Ended(request[c], result).step = "idle" /\ Answered(request[c]).step = "idle"
  BY <1>i, EndedFacts, AnsweredFacts
<1>1. ASSUME NEW c \in Clients, Arrive(c) PROVE LimitInv'
  <2>1. ASSUME NEW r \in Replicas, NEW body \in Bodies, NEW target \in Targets(body),
               NEW account \in Accounts, ArriveProvider(c, r, account, body, target)
        PROVE  LimitInv'
    <3> DEFINE q == ArrivedProvider(r, account, body, target)
    <3>1. q \in Requests /\ q.body \in Bodies
      BY TargetType, ArrivedProviderFacts
    <3>2. request' = [request EXCEPT ![c] = Admitted(q)] /\ record' = record
      BY <2>1 DEF ArriveProvider, ArrivedProvider
    <3> HIDE DEF q
    <3> QED BY <1>q, <3>1, <3>2, AdmittedUncounted
  <2>2. ASSUME NEW r \in Replicas, NEW body \in Bodies, NEW target \in Targets(body),
               NEW id \in Ids, ArriveToken(c, r, id, body, target)
        PROVE  LimitInv'
    <3> DEFINE q == ArrivedToken(r, id, body, target)
    <3>1. q \in Requests /\ q.body \in Bodies /\ q.step = "lookup"
      BY <1>i, TargetType, ArrivedTokenFacts
    <3>2. /\ \/ request' = [request EXCEPT ![c] = Ended(q, "refused")]
             \/ request' = [request EXCEPT ![c] = Admitted(q)]
             \/ request' = [request EXCEPT ![c] = q]
          /\ UNCHANGED <<stage, claims, lineage, record, held, acked, now, faults>>
      BY <2>2 DEF ArriveToken, ArrivedToken
    <3> HIDE DEF q
    <3>3. Ended(q, "refused").step = "idle"
      BY <3>1, EndedFacts
    <3> QED BY <1>q, <3>1, <3>2, <3>3, AdmittedUncounted
  <2> QED BY <1>1, <2>1, <2>2, ArriveCases
<1>2. ASSUME NEW c \in Clients, Cancel(c) \/ ReadFails(c) PROVE LimitInv'
  BY <1>2, <1>e, <1>q DEF Cancel, ReadFails
<1>3. ASSUME NEW c \in Clients, FindRecord(c) PROVE LimitInv'
  <2>1. PICK a : /\ request' = [request EXCEPT ![c] = a] /\ record' = record
                 /\ a.step \in {"tombstone", "idle"}
    <3>1. [request[c] EXCEPT !.step = "tombstone"].step = "tombstone"
      BY <1>i DEF Requests
    <3>2. /\ record' = record
          /\ \/ request' = [request EXCEPT ![c] = [request[c] EXCEPT !.step = "tombstone"]]
             \/ request' = [request EXCEPT ![c] = Answered(request[c])]
      BY <1>3 DEF FindRecord
    <3> QED BY <1>e, <3>1, <3>2
  <2> QED BY <1>q, <2>1
<1>4. ASSUME NEW c \in Clients, ListTags(c) PROVE LimitInv'
  <2> DEFINE seen == {id \in Ids : record[id] # "none" /\ claims[id].subject = Subject(request[c])}
  <2>1. /\ request' = [request EXCEPT ![c] = [request[c] EXCEPT !.step = "issue", !.seen = seen]]
        /\ record' = record /\ claims' = claims
    BY <1>4, <1>i DEF ListTags
  <2>2. /\ request'[c].step = "issue" /\ request'[c].seen = seen
        /\ request'[c].body = request[c].body /\ request'[c].account = request[c].account
        /\ \A d \in Clients \ {c} : request'[d] = request[d]
    <3> HIDE DEF seen
    <3> QED BY <1>i, <2>1 DEF Requests
  <2>3. seen = {id \in Records' : claims'[id].subject = Subject(request'[c])}
    BY <2>1, <2>2 DEF Records, Subject
  <2> HIDE DEF seen
  <2>4. Listed
    BY <2>2, <2>3 DEF Listed
  <2>5. Records' = Records
    BY <2>1 DEF Records
  <2>6. Calm
    BY <2>1, <2>2, <2>4, <2>5 DEF Calm
  <2> QED BY <1>i, <2>6, CalmKeeps
<1>5. ASSUME NEW c \in Clients, Issue(c) PROVE LimitInv'
  <2>1. record' = record
    BY <1>5, IssueFacts
  <2>2. CASE request' = [request EXCEPT ![c] = Answered(request[c])]
    BY <1>e, <1>q, <2>1, <2>2
  <2>3. CASE request' # [request EXCEPT ![c] = Answered(request[c])]
    <3>1. ~LimitReached(request[c]) /\ request[c].step = "issue"
      BY <1>5, <2>3 DEF Issue
    <3>2. PICK t \in Ids \ Made :
             /\ Sign(t, request[c], FALSE) /\ request[c].body.stored
             /\ request' = [request EXCEPT ![c] = [request[c] EXCEPT !.step = "push", !.seen = {}, !.token = t]]
      BY <1>5, <2>3, IssueFacts
    <3> QED BY <1>5, <1>i, <3>1, <3>2, MintKeeps DEF Counting
  <2> QED BY <2>2, <2>3
<1>6. ASSUME NEW c \in Clients, PushRecord(c) \/ PushFails(c) PROVE LimitInv'
  BY <1>6, <1>i, PushKeeps
<1>7. ASSUME NEW c \in Clients, PushTombstone(c) \/ TombstoneFails(c) PROVE LimitInv'
  <2> DEFINE t == request[c].token
  <2>1. t \in Ids /\ record[t] # "none"
    BY <1>7 DEF PushTombstone, TombstoneFails, IInv, RequestInv, RequestKnows, Base
  <2>2. /\ record' \in {record, [record EXCEPT ![t] = "revoked"]}
        /\ request' = [request EXCEPT ![c] = Answered(request[c])]
    BY <1>7 DEF PushTombstone, TombstoneFails
  <2>3. Records' = Records /\ \A id \in Ids : record'[id] = "live" => record[id] = "live"
    BY <1>i, <2>1, <2>2 DEF Records, TypeOK
  <2>4. \A d \in Clients : request'[d] = request[d] \/ request'[d].step = "idle"
    BY <1>e, <1>i, <2>2
  <2> QED BY <1>c, <2>3, <2>4 DEF Counting
<1>8. ASSUME NEW r \in Replicas, NEW id \in Ids, LookupEnds(r, id) PROVE LimitInv'
  <2>1. ASSUME NEW d \in Clients
        PROVE  \/ request'[d] = request[d]
               \/ request'[d].step # "push" /\ ~Counting(d)'
    <3>1. CASE Waits(request[d], r, id)
      <4>1. request[d] \in Requests /\ request[d].body \in Bodies
        BY <1>i, <3>1 DEF Waits, IInv, RequestInv, RequestKnows, Base
      <4>2. request'[d] = Resumed(request[d], lookup[r][id])
        BY <1>8, <3>1 DEF LookupEnds
      <4>3. lookup[r][id] \in {"valid", "invalid", "failed"}
        BY <1>8 DEF LookupEnds
      <4> QED BY <4>1, <4>2, <4>3, ResumedUncounted DEF Counting
    <3>2. CASE ~Waits(request[d], r, id)
      BY <1>8, <3>2 DEF LookupEnds
    <3> QED BY <3>1, <3>2
  <2>2. record' = record
    BY <1>8 DEF LookupEnds
  <2> QED BY <1>c, <2>1, <2>2 DEF Records
<1>9. CASE Tick \/ (\E r \in Replicas : Deploy(r) \/ \E account \in Accounts : Bootstrap(r, account))
           \/ (\E r \in Replicas, id \in Ids : ReadRecord(r, id)) \/ UNCHANGED vars
  <2>1. record' = record /\ request' = request
    BY <1>9 DEF Tick, Deploy, Bootstrap, ReadRecord, vars
  <2> QED BY <1>c, <2>1 DEF Records
<1> QED BY <1>1, <1>2, <1>3, <1>4, <1>5, <1>6, <1>7, <1>8, <1>9 DEF Next, Work

\* The base and the tokens owed to clients are all there is.
LEMMA LimitFollows == LimitInv => LimitOverrun
<1> SUFFICES ASSUME LimitInv, NEW account \in Accounts
             PROVE  Cardinality(Live(account)) <= MaxPerOrg - 1 + Cardinality(Clients)
  BY DEF LimitOverrun
<1>1. PICK base \in SUBSET Ids, mint \in [Clients -> Made \cup {"none"}] : Accounted(account, base, mint)
  BY DEF LimitInv
<1> DEFINE owed == {mint[c] : c \in Clients}
<1>2. IsFiniteSet(base) /\ Cardinality(base) \in Nat /\ Cardinality(base) < MaxPerOrg
  <2>1. IsFiniteSet(base)
    BY <1>1, FS_Subset DEF LimitInv, Accounted
  <2> QED BY <1>1, <2>1, FS_CardinalityType DEF Accounted
<1>3. IsFiniteSet(owed) /\ Cardinality(owed) \in Nat /\ Cardinality(Clients) \in Nat
      /\ Cardinality(owed) <= Cardinality(Clients)
  <2>1. IsFiniteSet(Clients)
    BY TokensAssumption
  <2>2. mint \in Surjection(Clients, owed)
    BY <1>1 DEF Surjection
  <2> HIDE DEF owed
  <2> QED BY <2>1, <2>2, FS_Surjection, FS_CardinalityType
<1> HIDE DEF owed
<1>4. Live(account) \subseteq base \cup owed
  BY <1>1 DEF Accounted, owed
<1>5. IsFiniteSet(base \cup owed) /\ Cardinality(base \cup owed) <= Cardinality(base) + Cardinality(owed)
      /\ Cardinality(base \cup owed) \in Nat
  <2>1. IsFiniteSet(base \cap owed) /\ Cardinality(base \cap owed) \in Nat
    BY <1>2, base \cap owed \subseteq base, FS_Subset, FS_CardinalityType
  <2>2. /\ IsFiniteSet(base \cup owed)
        /\ Cardinality(base \cup owed) = Cardinality(base) + Cardinality(owed) - Cardinality(base \cap owed)
    BY <1>2, <1>3, FS_Union
  <2>3. Cardinality(base \cup owed) \in Nat
    BY <2>2, FS_CardinalityType
  <2> QED BY <1>2, <1>3, <2>1, <2>2, <2>3
<1>6. Cardinality(Live(account)) <= Cardinality(base \cup owed) /\ Cardinality(Live(account)) \in Nat
  BY <1>4, <1>5, FS_Subset, FS_CardinalityType
<1> QED BY <1>2, <1>3, <1>5, <1>6, TokensAssumption

\* An account has at most one token over its limit for each of the other
\* requests in flight when the last of them was accepted.
THEOREM LimitIsOverrunByFlights == Spec => []LimitOverrun
<1>1. Spec => []LimitInv
  BY InitLimit, NextLimit, Invariance, PTL DEF Spec
<1> QED BY <1>1, LimitFollows, PTL

-----------------------------------------------------------------------------
(* Nobody is forgotten.                                                    *)

\* A request that waits with a token has a look-up of it under way where it is.
Served(q) == q.step = "lookup" =>
    q.via \in Ids /\ q.replica \in Replicas /\ lookup[q.replica][q.via] # "off"

WaitersServed == \A c \in Clients : Served(request[c])

LEMMA ResumedGoesOn ==
    ASSUME NEW q \in Requests, q.body \in Bodies, NEW verdict \in {"valid", "invalid", "failed"}
    PROVE  Resumed(q, verdict).step # "lookup"
<1>1. Admitted(q).step # "lookup"
  BY AdmittedFacts
<1>2. Ended(q, "refused").step # "lookup" /\ Ended(q, "unavailable").step # "lookup"
  BY EndedFacts
<1> QED BY <1>1, <1>2 DEF Resumed

\* Arriving with a token, a request is answered or joins a look-up; arriving
\* without, it does not wait.
LEMMA ArriveServed ==
    ASSUME IInv, NEW c \in Clients, Arrive(c)
    PROVE  Served(request[c])'
<1>t. request \in [Clients -> Requests]
  BY DEF IInv, TypeOK, Requests
<1>l. lookup \in [Replicas -> [Ids -> {"off", "reading", "valid", "invalid", "failed"}]]
  BY DEF IInv, TypeOK
<1>1. ASSUME NEW r \in Replicas, NEW body \in Bodies, NEW target \in Ids \cup {"none"},
             NEW account \in Accounts, ArriveProvider(c, r, account, body, target)
      PROVE  request'[c].step # "lookup"
  <2>1. request'[c] = Admitted(ArrivedProvider(r, account, body, target))
    BY <1>1, <1>t DEF ArriveProvider, ArrivedProvider
  <2> QED BY <2>1, ArrivedProviderFacts, AdmittedFacts
<1>2. ASSUME NEW r \in Replicas, NEW body \in Bodies, NEW target \in Ids \cup {"none"},
             NEW id \in Ids, ArriveToken(c, r, id, body, target)
      PROVE  Served(request[c])'
  <2> DEFINE q == ArrivedToken(r, id, body, target)
  <2>1. q \in Requests /\ q.step = "lookup" /\ q.replica = r /\ q.via = id /\ q.body = body
    BY ArrivedTokenFacts DEF IInv
  <2>2. \/ request' = [request EXCEPT ![c] = Ended(q, "refused")]
        \/ request' = [request EXCEPT ![c] = Admitted(q)]
        \/ /\ request' = [request EXCEPT ![c] = q]
           /\ lookup' = IF lookup[r][id] = "off"
                           THEN [lookup EXCEPT ![r] = [lookup[r] EXCEPT ![id] = "reading"]]
                           ELSE lookup
    BY <1>2 DEF ArriveToken, ArrivedToken
  <2> HIDE DEF q
  <2>3. Ended(q, "refused").step # "lookup" /\ Admitted(q).step # "lookup"
    BY <2>1, EndedFacts, AdmittedFacts
  <2>4. CASE \/ request' = [request EXCEPT ![c] = Ended(q, "refused")]
             \/ request' = [request EXCEPT ![c] = Admitted(q)]
    BY <1>t, <2>3, <2>4 DEF Served
  <2>5. CASE /\ request' = [request EXCEPT ![c] = q]
             /\ lookup' = IF lookup[r][id] = "off"
                             THEN [lookup EXCEPT ![r] = [lookup[r] EXCEPT ![id] = "reading"]]
                             ELSE lookup
    <3>1. lookup'[r][id] # "off"
      BY <1>l, <2>5
    <3> QED BY <1>t, <2>1, <2>5, <3>1 DEF Served
  <2> QED BY <2>2, <2>4, <2>5
<1> QED BY <1>1, <1>2, ArriveCases, TargetType DEF Served

LEMMA WorkServed ==
    ASSUME IInv, NEW c \in Clients, Work(c) \/ Cancel(c)
    PROVE  request'[c].step # "lookup"
<1>t. request \in [Clients -> Requests]
  BY DEF IInv, TypeOK, Requests
<1>q. request[c] \in Requests
  BY <1>t
<1>a. Answered(request[c]).step # "lookup" /\ Ended(request[c], "unavailable").step # "lookup"
  BY <1>q, AnsweredFacts, EndedFacts
<1>1. CASE ListTags(c)
  <2>1. PICK seen : request' = [request EXCEPT ![c] = [request[c] EXCEPT !.step = "issue", !.seen = seen]]
    BY <1>1 DEF ListTags
  <2> QED BY <1>q, <1>t, <2>1 DEF Requests
<1>2. CASE Issue(c)
  <2>1. \/ request' = [request EXCEPT ![c] = Answered(request[c])]
        \/ \E id : request' = [request EXCEPT ![c] = [request[c] EXCEPT !.step = "push", !.seen = {},
                                                                        !.token = id]]
    BY <1>2 DEF Issue
  <2>2. CASE request' = [request EXCEPT ![c] = Answered(request[c])]
    BY <1>a, <1>t, <2>2
  <2>3. CASE \E id : request' = [request EXCEPT ![c] = [request[c] EXCEPT !.step = "push", !.seen = {},
                                                                          !.token = id]]
    BY <1>q, <1>t, <2>3 DEF Requests
  <2> QED BY <2>1, <2>2, <2>3
<1>3. CASE PushRecord(c) \/ PushFails(c) \/ ReadFails(c) \/ PushTombstone(c) \/ TombstoneFails(c)
  BY <1>3, <1>a, <1>t DEF PushRecord, PushFails, ReadFails, PushTombstone, TombstoneFails
<1>4. CASE FindRecord(c)
  <2>1. \/ request' = [request EXCEPT ![c] = Answered(request[c])]
        \/ request' = [request EXCEPT ![c] = [request[c] EXCEPT !.step = "tombstone"]]
    BY <1>4 DEF FindRecord
  <2> QED BY <1>a, <1>q, <1>t, <2>1 DEF Requests
<1>5. CASE Cancel(c)
  BY <1>5, <1>a, <1>t DEF Cancel
<1> QED BY <1>1, <1>2, <1>3, <1>4, <1>5 DEF Work

LEMMA NextServed == IInv /\ WaitersServed /\ [Next]_vars => WaitersServed'
<1> SUFFICES ASSUME IInv, WaitersServed, [Next]_vars, NEW p \in Clients
             PROVE  Served(request[p])'
  BY DEF WaitersServed
<1>t. request \in [Clients -> Requests] /\ request[p] \in Requests
  BY DEF IInv, TypeOK, Requests
<1>l. lookup \in [Replicas -> [Ids -> {"off", "reading", "valid", "invalid", "failed"}]]
  BY DEF IInv, TypeOK
<1>s. Served(request[p])
  BY DEF WaitersServed
\* Who waits on goes on to be served: no look-up but a replica's own end or
\* restart stops, and neither leaves anybody waiting for it.
<1>1. ASSUME NEW r \in Replicas, NEW id \in Ids, LookupEnds(r, id) PROVE Served(request[p])'
  <2>1. CASE Waits(request[p], r, id)
    <3>1. request[p].body \in Bodies
      BY <2>1 DEF Waits, IInv, RequestInv, RequestKnows, Base
    <3>2. request'[p] = Resumed(request[p], lookup[r][id])
      BY <1>1, <2>1 DEF LookupEnds
    <3>3. lookup[r][id] \in {"valid", "invalid", "failed"}
      BY <1>1 DEF LookupEnds
    <3> QED BY <1>t, <3>1, <3>2, <3>3, ResumedGoesOn DEF Served
  <2>2. CASE ~Waits(request[p], r, id)
    <3>1. request'[p] = request[p]
      BY <1>1, <2>2 DEF LookupEnds
    <3>2. lookup' = [lookup EXCEPT ![r] = [lookup[r] EXCEPT ![id] = "off"]]
      BY <1>1 DEF LookupEnds
    <3>3. \A s \in Replicas, j \in Ids : s # r \/ j # id => lookup'[s][j] = lookup[s][j]
      BY <1>l, <3>2
    <3> QED BY <1>s, <2>2, <3>1, <3>3 DEF Served, Waits
  <2> QED BY <2>1, <2>2
<1>2. ASSUME NEW r \in Replicas, Deploy(r) PROVE Served(request[p])'
  <2>1. request' = request /\ \A s \in Replicas \ {r} : lookup'[s] = lookup[s]
    BY <1>2, <1>l DEF Deploy
  <2>2. request[p].replica = r => request[p].step = "idle"
    BY <1>2 DEF Deploy, Free
  <2> QED BY <1>s, <2>1, <2>2 DEF Served
<1>3. ASSUME request'[p] = request[p],
             \A s \in Replicas, j \in Ids : lookup'[s][j] = "off" => lookup[s][j] = "off"
      PROVE  Served(request[p])'
  BY <1>s, <1>3 DEF Served
<1>4. ASSUME NEW r \in Replicas, NEW id \in Ids, ReadRecord(r, id) PROVE Served(request[p])'
  <2>1. request' = request
    BY <1>4 DEF ReadRecord
  <2>2. PICK v \in {"valid", "invalid", "failed"} :
           lookup' = [lookup EXCEPT ![r] = [lookup[r] EXCEPT ![id] = v]]
    BY <1>4 DEF ReadRecord
  <2>3. \A s \in Replicas, j \in Ids : lookup'[s][j] = "off" => lookup[s][j] = "off"
    BY <1>l, <2>2
  <2> QED BY <1>3, <2>1, <2>3
<1>5. ASSUME NEW c \in Clients, Arrive(c) PROVE Served(request[p])'
  <2>1. CASE c = p
    BY <1>5, <2>1, ArriveServed
  <2>2. CASE c # p
    <3>1. ASSUME NEW r, NEW account, NEW body, NEW target, ArriveProvider(c, r, account, body, target)
          PROVE  request'[p] = request[p] /\ lookup' = lookup
      BY <1>t, <2>2, <3>1 DEF ArriveProvider
    <3>2. ASSUME NEW r \in Replicas, NEW id \in Ids, NEW body, NEW target,
                 ArriveToken(c, r, id, body, target)
          PROVE  /\ request'[p] = request[p]
                 /\ \A s \in Replicas, j \in Ids : lookup'[s][j] = "off" => lookup[s][j] = "off"
      <4>1. \E a : request' = [request EXCEPT ![c] = a]
        BY <3>2 DEF ArriveToken
      <4>2. \/ lookup' = lookup
            \/ lookup' = [lookup EXCEPT ![r] = [lookup[r] EXCEPT ![id] = "reading"]]
        BY <3>2 DEF ArriveToken
      <4>3. \A s \in Replicas, j \in Ids : lookup'[s][j] = "off" => lookup[s][j] = "off"
        BY <1>l, <4>2
      <4> QED BY <1>t, <2>2, <4>1, <4>3
    <3>3. PICK r \in Replicas, body \in Bodies : \E target \in Targets(body) :
             \/ \E account \in Accounts : ArriveProvider(c, r, account, body, target)
             \/ \E id \in Ids : ArriveToken(c, r, id, body, target)
      BY <1>5, ArriveCases
    <3> QED BY <1>3, <3>1, <3>2, <3>3
  <2> QED BY <2>1, <2>2
<1>6. ASSUME NEW c \in Clients, Work(c) \/ Cancel(c) PROVE Served(request[p])'
  <2>1. CASE c = p
    BY <1>6, <2>1, WorkServed DEF Served
  <2>2. CASE c # p
    <3>1. request'[p] = request[p]
      <4>1. \E a : request' = [request EXCEPT ![c] = a]
        BY <1>6 DEF Work, ListTags, Issue, PushRecord, PushFails, ReadFails, FindRecord,
                    PushTombstone, TombstoneFails, Cancel
      <4> QED BY <1>t, <2>2, <4>1
    <3>2. lookup' = lookup
      BY <1>6 DEF Work, ListTags, Issue, PushRecord, PushFails, ReadFails, FindRecord,
                  PushTombstone, TombstoneFails, Cancel
    <3> QED BY <1>3, <3>1, <3>2
  <2> QED BY <2>1, <2>2
<1>7. ASSUME NEW r \in Replicas, NEW account \in Accounts, Bootstrap(r, account)
      PROVE  Served(request[p])'
  BY <1>3, <1>7 DEF Bootstrap
<1>8. CASE Tick
  BY <1>3, <1>8 DEF Tick
<1>9. CASE UNCHANGED vars
  BY <1>3, <1>9 DEF vars
<1> QED BY <1>1, <1>2, <1>4, <1>5, <1>6, <1>7, <1>8, <1>9 DEF Next

\* Whoever waits for the verdict on a token waits for a read that is under way
\* on their replica: neither the client that started it going away, nor the
\* restart of a replica, leaves anybody without (Manager.valid).
THEOREM NobodyForgotten == Spec => []WaitersServed
<1>1. Init => WaitersServed
  BY DEF Init, Idle, WaitersServed, Served
<1> QED BY <1>1, NextServed, Invariance, PTL DEF Spec
=============================================================================
