# The Image Factory in TLA+

Specifications of the [Image Factory](../src/README.md), the service that turns *schematics*
(customizations of Talos Linux) into boot assets, installer images and the documents about them
(SBOMs, VEX documents, scan reports). They are written from the Go source. TLC checks them on
small instances, and TLAPS proves every safety property of the passing runs for every instance.

Several replicas of the service run side by side. They share no memory and take no locks on
each other: all they have in common is an OCI registry and, if it is configured, an S3 bucket.
Inside a replica, concurrent requests for one thing are merged by singleflight groups, and what
was built is found again through caches in memory, in the registry and in the bucket. The hard
part of the service is in these three: flights shared by requests that come and go, caches that
are looked at before a flight and filled after it, and publications of several objects that
other replicas see half done.

## Inventory

Paths are under `src/`.

| component | state | operations | what makes it correct |
|---|---|---|---|
| **schematic factory** `internal/schematic/schematic.go`, its cache `storage/cache`, its storage `storage/registry` | TTL cache with positive and negative items; one singleflight group for Put and Get; layers and manifests in the registry | Put, Get, Head; expiry and eviction | what was acknowledged is stored and stays found; a Put is never answered with a Get's failure; negative items end |
| **schematic ownership** `internal/schematic/service.go` | none | Create, Get with policy | nobody reads another owner's schematic |
| **installer publication** `internal/registry/service.go`, `publication.go`, `enterprise/installerattestation` | per replica a singleflight group; in the registry the index, attestations, signature, tag | Manifest, buildInstallImage, PublishInstallerIndex | nobody is sent to an image whose evidence is not there |
| **boot asset builder** `internal/asset/asset.go` | singleflight group, semaphore | Build, buildAndCache, build | the limit is kept, no request is orphaned, a cancelled request costs the others nothing |
| **asset caches** `internal/asset/cache/registry`, `.../s3` | signed tag in the registry, object in the bucket | Get, Put, Redirect, Reader | what is served was signed; an inconsistent cache heals |
| **SPDX bundles** `enterprise/spdx` | singleflight group; signed manifests under one tag per key | Build, extraction, Get, Put | the tag names only signed bundles, who built one can read it back, bundles are complete |
| **artifacts manager** `internal/artifacts`, `internal/cache/single_flight.go` | directories on disk, the list of versions and the time it was fetched, lists of extensions and images by version | Get, GetTalosVersions, GetOfficialExtensions, GetInstallerImage, extraction | an artifact that is there is whole and is used; no answer about a version is older than the recheck interval and one listing |
| **token manager** `enterprise/tokens` | one record per token in the registry; a singleflight group for look-ups | Create, List, Revoke, Verify | a token hands on no more than it may; a revoked token is refused, a good one is not; limits per account |
| **scanner** `enterprise/scanner/builder` | the vulnerability database in use, TTL cache of reports, flights | refresh, scan, Ready, Stop | no scan matches against a closed database, a swap turns nobody away, stop ends and leaves nothing open |
| **VEX builder** `enterprise/vex/builder` | TTL cache, flights | Build, fetch | what is served was verified |
| **asset signatures** `enterprise/assetsignature` | signature bundles in a cache | GenerateSignature | the signature belongs to the bytes served |
| **authentication** `enterprise/auth`, `enterprise/auth/auth0`, `internal/authn` | password file in memory, sessions in cookies | reload, login, callback, authenticate | a failed reload keeps the old file; a login that cannot succeed ends |
| **token format and scopes** `internal/apitoken` | none | mint, parse, grant | nobody grants more than he has |
| **signers** `internal/image/signer`, `internal/image/verify` | signatures and referrers in the registry | SignImage, VerifyImage, AttestImage | a signature that verifies was made for the digest |
| **registry clients** `internal/remotewrap`, `internal/regtransport` | a client and the time it was made, under a mutex | Get | credentials are renewed |
| **profiles and paths** `internal/profile`, `internal/talosversion` | none | parse, enhance, hash | an asset has one key on every replica, and no key has two assets |
| **download page and PXE** `internal/downloads`, `internal/frontend/http/api/pxe.go` | none | links, scripts | what a link is offered as is what it leads to |
| **HTTP frontend** `internal/frontend/http`, `internal/audit` | none between requests | the handlers | each request reaches one of the services above under the right identity, and its answer and its audit record say so |
| **wiring** `cmd/image-factory` | options, the error group of background tasks | start, stop | a process that is told to end does |
| **secure boot keys** `internal/secureboot`; **client and wizard** `pkg/client`, `frontend` | none in the service | | |

How they interact: the frontend calls the schematic service, then a builder. The installer
service and the SPDX builder call the asset builder (an installer and an initramfs are assets),
the artifacts manager and the signer. The installer's evidence is an SPDX bundle. Builders call
the artifacts manager for kernel, initramfs and extensions. All caches go through the registry
client wrappers.

The behaviours that are hard to test are listed with their lines under `hazards` in
`PROJECT.json`, with the properties that cover them.

## The modules

Each module models one component at several replicas, or at one where replicas do not matter.
Conventions they share:

* a request is a record with a program counter (`step` or `stage`), one action for each call that
  leaves the process (a registry or bucket request, a singleflight entry) and for each handler's end;
* a flight is a record with its own program counter and the set of requests that wait for it,
  since it runs on a detached context and outlives them;
* failures of the outside, crashes of a replica (its memory is lost, its requests fail) and
  losses in a store are actions that count in `faults`, bounded by `MaxFaults`;
  `MaxRequests`/`MaxCalls` bound the requests of a client, `MaxTime` the clock, `MaxRestarts`,
  `MaxRetags`, `MaxDB` and `MaxFlows` what their names say. No proof uses their values;
* an operator or action named `X_Something` before `X` is a deliberately wrong variant of `X`:
  substituting it must break the property it is listed with in `PROJECT.json`. It is never part of
  the specification.

### Storage and publication

**SchematicStore** (`internal/schematic`, `storage/cache`, `storage/registry`). `entry` is the TTL
cache item of an id at a replica, `flight` the call in the singleflight group that Put and Get
share, `blobs` and `tagged` the layers and manifests of the registry. `Do` joins or starts a
flight; `Lookup`, `Fetch`, `FillFound`/`FillMissing` are the storage's Get (which Head uses);
`PushLayer`, `PushManifest` its Put, with the write-through of the cache; `Outcome` contains the
retry of a Put that joined a failed Get. The cache's own singleflight group is entered only from
inside an outer flight of the same id and is therefore never shared; it has no variable. Content
is abstracted to the id, which is its hash. `Expire` and `Evict` are the TTL of negative items
(reads do not extend it: `WithDisableTouchOnHit`) and the capacity limit.

**SchematicRegister** is what the above promises: open calls, a set of stored ids, and answers
that are "found" only if stored, "missing" only to reads of ids the replica had not confirmed
before. `SchematicStore` is shown to implement it (`ImplementsRegister`).

**InstallerPublication** (`internal/registry`, `enterprise/installerattestation`). `pushed` holds
the objects of each digest (index, SBOM per platform, provenance, signature) that the registry
accepted, `visible` those it also shows: verification after a write is retried for thirty seconds
in the code, because registries lag. `tag` is the version tag. The actions from `HeadTag` to
`Cancel` are `Service.Manifest`, those from `Build` to `Promote` are `buildInstallImage` and
`PublishInstallerIndex`. Builds at different replicas may or may not give the same digest.
`WithEvidence` is the enterprise build.

**AssetBuilder** (`internal/asset/asset.go`). One replica: flights by profile hash, the queue of
flights blocked on the semaphore, `slots` taken. The cache is a set here, its calls atomic, with
errors and losses. `GetAfterPut` is set when the S3 cache is used: cache errors then do not end a
request, and the flight reads the asset back after the Put.

**AssetCache** (`internal/asset/cache`, with the part of `asset.go` around it and the delivery in
`image_service.go` and `frontend/http/api/image.go`). One profile, several replicas, builds that
need not be identical. `tag`/`signatures` is the registry cache, `object` the bucket; with
`WithS3` the tag refers to an object by its ETag, without it holds the asset itself. Every
registry and bucket call of Get and Put is a step of its own, so replicas interleave inside them.
A content stands for the bytes, their ETag and the digest of the signed manifest at once.

**SpdxBundles** (`enterprise/spdx`). One cache key. A bundle is the pair of its time stamp (two
builds differ) and the set of extensions it covers. `Extract`/`ExtractFails` is the loop over
extensions, whose errors are logged only; `PushManifest`, `Sign`, `PushTag` the order of
`Storage.Put`; a request reads the bundle back after its flight.

**TalosVersions** (`internal/artifacts`: `GetTalosVersions`, `validateTalosVersion`,
`fetchTalosVersions`). Time is a counter of ticks, `known` and `stamp` are `talosVersions` and its
time stamp, `flight` the singleflight call that lists the tags. A version is a minor number and
whether it is a pre-release; `Rejected` are those below the minimum, marked broken, or of a form
that is not offered. `Listable` is the filter. When a listing fails its waiters fail: the old list
is not used. `lastIn` and `lastOut` are histories, the last time a version was and was not to be
listed. A flight takes at most `FetchTimeout` ticks.

**ArtifactStore** (`internal/artifacts`: the six operations that end in a directory of the storage).
One directory `dest` and the `tmp` it is renamed from, file by file: absent, cut short, or of some
image. `handler` says how the image is extracted: `oci` empties `tmp` first and returns the whole
layout, `export` writes over what is there and returns one file. The actions from `Head` to `Rename`
are the flight. Each caller also validates the version first, which is `TalosVersions`; the two share
no state, so `MCRequestsEnd` checks them beside each other.

### Names and keys

**ArtifactPaths** has no state: the parsers of names (`ParseFromPath`, `ParseArtifactPath`,
`GetRequestedImage`, ...) as operators. A name is the sequence of its words between dashes and the
sequence of its suffixes, so that a platform with a dash in its name, `secureboot`, an overlay's
board and a sidecar are what can go wrong. Three Talos versions stand for before, between and after
the features the code asks for (the quirks are the Talos libraries').

**Profiles** (`internal/profile`, and from `internal/artifacts` the list of extensions and the
storage's temporary directory). `Resolve` parses a name or an installer request, enhances the
profile by the schematic (`Enhance`, in the order of `EnhanceFromSchematic`) and computes the key
(`Clean`). A path is a name in the directory of a process; every restart has a new directory. `listed`
is the memoized list of extensions: extra ones can be published while a replica keeps the old list.
`built` are the assets resolved, with their profiles and keys, two at a time: what is compared.

**DownloadLinks** (`internal/downloads`, the PXE handler). `Offer` makes the links of a page,
`FollowImage`, `FollowPXE` and `PullInstaller` give a link to the endpoint it leads to; the PXE
script offers links again. `opened` is the last link with the profile it resolved to. `BoardVersions` and
`BoardImagePath` stand for the libraries' table of single-board computers, with the version each needs
(`Boards` filters by it, as `talosversion.Boards` does). Before there were overlays a board had images of
its own name: the endpoint does not parse these, and the page leaves such versions out of the choice of
versions without refusing them. The links occur and are followed; `listed` marks them, and
`LinksResolve` says nothing of them.

### Who may do what

**Scopes** (`internal/apitoken/scope.go`) has no state: which requests a scope covers, which scopes a
token may hand on, which tokens may travel in a URL.

**Tokens** (`enterprise/tokens`, `internal/apitoken`). `claims` are what was signed, `record` what the
registry has under each token's tag, `lookup` the shared look-up of a token at a replica, `stage` the
deployment each replica runs with its ring of keys. `ArriveToken`, `ReadRecord`, `LookupEnds` and
`Cancel` are `Verify` and `valid`; `ListTags`, `Issue`, `PushRecord` the creation of a token;
`FindRecord` and `PushTombstone` the revocation. A push that fails may have arrived. `lineage` (the
tokens that authorized a token) and `acked` (the revocations answered) are histories. `Deploy`
restarts a replica with the next ring, in the order the documentation asks for: a stage is
everywhere before the next one begins, and the old key leaves when what it signed has expired.

**Frontend** (`internal/frontend/http`, `internal/schematic/service.go`, `internal/audit`,
`enterprise/auth`). One request on its way: `Receive` routes it and checks its contract (`Verdicts`: a
breach is 400, and below `/v2/`, which one route serves, also an unknown path, 404, or method, 405),
`Authenticate` is the selector with the token verifier and the provider behind it, `Handle` the
endpoint as what it reads and answers (`course` is how the work behind it goes), `Finish` the
rendering of errors and the audit. `exchange` is the request and its response as the observed
writer commits it. Between and during requests the accounts file is edited and reloaded, tokens are
revoked and the service is restarted with another provider; the stored schematics stay.

**BrowserLogin** (`enterprise/auth/auth0`). Tabs of one browser share a jar with one state cookie and
one session cookie; each goes through `Login`, the tenant, the callback with its `Exchange`, and the
redirect to the page it came for (`Return`), where the middleware looks at the session again (`Shown`): a
page, the landing page at the plain root, or the login once more. `keeps` is whether the browser keeps
cookies at all. Both cookies age, first for the factory and then for the browser, become unreadable when the
factory comes back with another session key, and may be refused as too large. `hops`, `causes` and `refusals`
are histories: how often a tab was sent through `/login` since its user opened a page, how often something
outside it (another tab, time, a new key, the user) disturbed it, and how often the tenant answered it with
an error. `BouncesHaveCauses` allows one round for each cause, and in a browser that keeps no cookies one
for each error of the tenant; with a code such a browser never goes round. That it goes round for an error
is not what the documentation says: `RefusalsEnd`, below.

### Reports

**Reports** (`enterprise/scanner/builder`, `cmd/image-factory/cmd/service.go`). The database as it is
published, installed and opened (`db`, `open`, `scanner`), the loader, the scans by key with the stage
they are in, and the life of the process. `Readers` and `Locked` are the two sides of the read-write
lock; `Serving` is whether a database was loaded and neither a failed reload nor the stop has taken it
away, and a refusal records it. A process that is told to end shuts down the HTTP and the metrics server
(`ShutdownServer`), each when its requests are answered or after five seconds, stops the scanner, and exits
when all three are done. **VexDocuments** (`enterprise/vex/builder`) is the cache and the fetch of the exploitability
data, whose tag may move at any time.

### Composition

The components call each other through interfaces whose effect each module includes; where they run
side by side without shared state, one module checks several of them:

* `MCRequestsEnd`: `TalosVersions`, `InstallerPublication` without evidence, `AssetCache` without S3 and
  `ArtifactStore`;
* `Process`: `AssetBuilder` and `Reports`;
* `Content`: `SpdxBundles`, `VexDocuments`, `Profiles` and `DownloadLinks`;
* `Downloads`: `AssetCache`, `Frontend` and `BrowserLogin`; `MCDownloads` takes the cache with S3.

In these, `part` says which component a behaviour is of, and the others stay as they began: nothing
is claimed of their interleaving, because they have no variable in common. `Process`, `Content` and `Downloads`
have the initial states, the steps and the properties of their parts, so that the runs and the proofs
speak of the same formulas; `MCContent` and `MCDownloads` add constants, symmetry and bounds.
`MCInstallerPublication`, `MCTokens` and `MCArtifactStore` give one module its constants. `SchematicStore` needs none.

## The runs

| run | asks | bounds and why they are enough |
|---|---|---|
| `schematic_store` | are acknowledged schematics stored, never denied by the replica that confirmed them, is no Put answered for a Get, does all this implement the register, does every call end, does every negative item end? | 2 replicas, 1 id, 2 clients, 3 calls each, 1 fault. Ids do not interact (all state is per id), a joined flight needs two clients, and get-then-put-then-get is three calls |
| `schematic_gc` | is every acknowledged schematic referenced by a manifest? **No** | 1 replica, 1 client, 2 calls, 1 fault |
| `installer_publication` | is only a complete image signed, tagged, redirected to? | 2 replicas, 2 clients with 2 requests, 2 digests, 2 platforms, 1 fault: two publications of different images interleave, one of them dies at any step, and a second request meets what it left |
| `requests_end` | does every request for a version, an installer, a cached asset or an artifact end? how old can an answer about versions be? is an artifact that callers find whole? | versions: 2 callers, a pre-release and a release of the next minor version, interval and time limit of one tick, 3 ticks, 1 failed listing. Installers: 1 digest, 1 platform, 2 requests each. Cache: 2 contents, 2 requests each, 1 fault. Artifact: 2 callers with 2 requests each, an image of two files whose tag moves once, to one with one of them or to one that is not signed, both handlers, 1 failure: a fetch is cut short, the tag moves, another fetch succeeds, and a late caller fetches again |
| `process` | builds: who waits where, does every request end, does every build reach the cache? scans: is the database they use open, do results of an old one come only from scans that crossed the swap, is nobody told that there is no database while there is one, does every request for a report end, is everything closed at the end, does the process exit? | 2 profiles for 1 slot, 2 clients with 2 requests, 2 faults: a flight waits for the slot of another, times out there, and its waiters cancel. 1 report at a time, 3 builds of the database: one loaded, one swapped in, one published meanwhile |
| `content` | does the SBOM tag name only signed bundles and can who built one read it? is VEX data what was verified? has an asset one key, and a key one asset? do links lead to what they offer? | bundles: 2 replicas, 2 stamps, 1 extension, 2 faults. VEX: a kernel given and one to look up, a signed and an unsigned image. Keys: 2 resolutions, 2 replicas, 1 restart between them, 8 names, 4 schematics, 3 versions. Links: every page of the three versions |
| `spdx_complete` | does a served bundle cover every extension? **No** | 1 replica, 2 extensions, 1 fault |
| `asset_keys` | is the key of an asset the same in every process, with an overlay too? **No** | 2 resolutions, 2 replicas, 1 restart |
| `artifact_used` | is an artifact on the disk used? **No** | 2 callers with a request each, no fault |
| `tokens` | does authority only narrow along a chain of tokens? does an answered revocation hold, on every replica? how far is the limit overrun? is a good token accepted while keys rotate? | 2 replicas, 2 clients, 2 accounts, 3 tokens, a limit of 1, 1 fault, a lifetime of one tick; see `Bounded` below |
| `downloads` | is what the cache serves signed, does a rebuild repair it, are signatures bounded? is a schematic shown to its owner only, a token used within its scopes, no personal answer cached, the audit true, the PXE script usable? does a login go round only for a cause? | cache: 2 replicas, 2 contents, 3 requests per client, 2 faults: two Puts interleave, one fails half way, and a third request reads or rebuilds. Requests: 17 routes, 3 targets, 14 credentials (one of each kind, and two that carry two), 3 providers. Browser: 2 tabs, 3 logins, with cookies kept or not |
| `login_refused` | does a login that the tenant answers with an error end at the error page? **No** | 1 tab, 2 logins |

`tokens` and `downloads` explore their state space up to a state constraint `Bounded`. In `MCTokens`
it divides the token's hazards instead of multiplying them: with one token everything happens (the
clock, failures, the rotation of both replicas); two tokens meet the revocation and the look-ups of
one replica, which is enough for one to mint or to revoke the other; the third is there for the limit.
The theorems below have no such bound. In `MCDownloads` either a token is revoked or the accounts
change, and one schematic is stored: a request is about one. `Profiles` changes its surroundings only
between the two resolutions it compares (`Between`).

Replicas, clients and contents are symmetry sets in the runs that check invariants only; runs with
liveness have none. Deadlock is not checked: when the bounded clients have made their requests, or the
process has exited, the system rests.

The five runs that fail on purpose show where the code departs from what it says:

* `schematic_gc`: the storage pushes a manifest so that the layer is not garbage collected
  (`storage/registry/registry.go:170`), but a Put that finds the layer there pushes nothing
  (`schematic.go:93`). A layer left by a push that failed half way is acknowledged and never
  referenced.
* `spdx_complete`: the API promises all packages of the configured extensions
  (`docs/api.md:78`). An extension that could not be read once is left out of a bundle that is
  then cached for good (`builder.go:330`, `:524`).
* `artifact_used`: "check if already extracted" (`artifacts/manager.go:226`). A caller that checked
  before the rename of one flight and enters the singleflight group after its end fetches again;
  `os.Rename` does not replace a directory, and the request fails although the artifact is there.
* `asset_keys`: the key leaves out "changes e.g. to the temporary directory" (`profile/hash.go:22`), but
  the paths of the overlay's images stay in it (`profile/profile.go:586`): an image with an overlay
  has another key in every process. `KeySurvivesRestart` shows that overlays are the only exception.
* `login_refused`: a sign-in that Auth0 answered with an error "is sent to `/sign-in-error`"
  (`docs/authentication.md:77`, and the comment at `auth0/browser.go:194`). The callback looks at the state
  cookie before it looks at the error, and `loginTerminal` ends the login only for a callback with a code
  (`:263`): in a browser that dropped the cookie the error leads to `/login` again, and again.

The boot asset builder looks at its cache before the flight and not inside, as the artifacts manager
does (`asset.go:158`, `:179`), and there it only costs a second build.

### Fairness

Weak fairness of each request's next step, of each flight's next step (its failing alternatives
never have to be taken, except where a call's failure is one of its two outcomes), of the loader, the
scans and the shutdown in `Reports`, and, where the module has them, of the registry showing what it
accepted and of a negative item reaching its TTL. The code justifies this: Go schedules every
runnable goroutine, every registry and bucket call runs under a transport time-out or a bounded
retry, and the semaphore's waiters are served in order, so weak fairness of the flight that holds the
slot is enough for those behind it. In `Reports` a request's next step before it waits (the key of its SBOM,
the cache, the flight) is a call that returns. New requests, cancellations, failures, crashes, evictions, losses,
the passing of time and the signal that ends the process are never assumed. Since each client makes
boundedly many requests, "every call is answered" for the retry loop of Put means: a Put is answered
once no new Get keeps failing in front of it.

## The proofs

For every value of the constants (any number of replicas, clients, tokens, users, profiles, kernels,
tabs, any bounds), `TLAPS` checks type correctness and these properties. Each is proved from an
inductive invariant, shown to hold initially and to be preserved by each action in a step of its own.

* `SchematicStoreProofs`: `StoredBehindPromise`, `ConfirmedStaysFound`, `PutNeverMissing`, and the
  refinement `ImplementsRegister`.
  The properties speak of answers already given; what has to be carried along are the flights in
  between. The invariant adds what each step of a flight knows: one that saw the layer, or has
  pushed it, has it in `blobs`; one that found it missing runs at a replica that has not confirmed
  the id; while a flight is past the cache, the item of its id is empty, for nobody else fills it.
  A waiter of a flight is a waiting call of the same replica and id, what is confirmed or cached as
  present is in the registry, and what is cached as absent is not confirmed. With it the initial state
  maps to one of the register, and each step to a step of the register (a call that begins, is stored,
  is answered) or to a stutter; an upload is ascribed to an open Put, which the flight that pushes always
  has among its waiters (`LeaderInv`).
* `InstallerPublicationProofs`: `SignatureIsCompletion`, `PromotedIsComplete`,
  `RedirectIsComplete`. A flight at `sign` or later has seen its evidence, one at `promote` its
  signature as well; `visible` grows and never shrinks, so what was seen stays. The tag is set
  from a flight at `promote` only, and a request is redirected to a digest whose signature it saw,
  which by the first property means the evidence is there.
* `ProcessProofs`, the builds: `BuildsWithinLimit`, `NobodyOrphaned`, `PutNeverFails`. `slots` is the
  number of flights in `build`, which needs cardinality lemmas for one flight entering or leaving
  that set; the queue is without duplicates and lists exactly the flights in `queue`, which needs
  lemmas about `RemoveAt`, `Append` and `Tail` on injective sequences; and each waiter waits in
  exactly one running flight. `PutNeverFails` is an action property: in every step from a state in
  which the asset is built, no waiter's result becomes "failed".
* `ProcessProofs`, the scans: `ScansUseOpenDB`, `StaleResultsCrossed`, `StopReleasesDB` and
  `SwapTurnsNoneAway`. The one open handle is always the scanner's (`HandleInv`), a scan that
  matches holds the read lock and matches against that one, and what is cached, or matched and about to
  be, is of the present database or marked as having crossed (`ScanInv`), since a refresh drops the rest.
  Nothing is loaded while the old handle is closed for a new one, nor after the stop: by then the first
  load has ended and the loader is off. Whoever refuses a request, at its arrival or when its scan is to
  match, has the read lock, and while nobody swaps and a database is kept, the scanner has it; so no refusal
  is given while there is one. `ProcessSafe` puts both halves together for the behaviours of
  `Process`.
* `DownloadsProofs`, the asset cache: `ReadIsSigned`, `RebuildRepairs`, `SignaturesBounded`, with S3 and
  without. Signatures are never taken back, so a look-up past the signature knows of it for good, and
  what it reads by ETag or digest is that content, whoever has moved the tag since. A flight that had the
  cache to itself knows, step by step, what it has written; every step of another request, replica or of
  the environment that could disturb it ends that. For the bound, a signature is accounted for when a
  flight decides to make it: those made and those about to be made are at most one for each replica,
  which found none, and one for each fault, which hid those there were.
* `DownloadsProofs`, the request pipeline: `OwnerOnly`, `ScopesBound`, `NeverCached`, `AuditMatches`,
  `ScriptWorks`. The invariant (`PipelineInv`) says for each stage of a request what the stages before
  have established: nothing before authentication; then one principal for the handler and the record, whom
  the credentials stand for (`Identified`), and the pin of `Cache-Control` (`Pins`); a request with only
  tokens that do not cover it never reaches its handler (`Bound`); what an answer holds is the principal's
  (`Owned`); at the end one record agrees with the answer (`Audited`). `ScriptWorks` relates two requests,
  the one for the script and the one that follows it: the credential of the script is one the selector
  or the provider takes for the owner (`Grants`), until the surroundings change.
* `DownloadsProofs`, the browser login: `BouncesHaveCauses`. Every tab is in one of two positions: each
  time it has been through `/login`, or each but the last, had a cause; and a tab at the tenant in the second
  position has its state cookie intact if the browser keeps cookies (`Intact`), so that what it comes back to
  is an end of the login and not another round. Without cookies it comes back with a code, and ends at
  `loginTerminal`, or with an error, which accounts for the round that follows. Anything that touches the
  cookie, also another tab's login, is a cause.
* `ContentProofs`, the bundles: `TagIsSigned`, `ReadBackFinds`. A flight at `tag` has signed its bundle,
  the tag was set by such a flight, and once a flight at some replica has succeeded the tag names
  something: that is why a request that reads back after its flight, with no fault so far, finds
  a signed bundle, although it may be another replica's.
* `ContentProofs`, the VEX data: `VEXIsVerified`. A fetch that pulls does so by the digest it verified.
* `ContentProofs`, the keys: `KeyNamesAsset`, `KeySurvivesRestart`. The invariant says of each asset built
  that it is what `Enhance` makes of its request, schematic and inputs in some directory; the rest is
  about operators: which field of the cleaned profile comes from which input, and that the directory
  remains in the fields of the overlay only.
* `ContentProofs`, the links: `LinksResolve`. The invariant says that every link on a page, and not only
  the one opened last, resolves to its offer. The words of a name are the platform's (one or two), then
  the architecture, then perhaps `secureboot`, and each cut of the parser takes one of these off; a suffix
  that is a sidecar's is never an image's. An iPXE client may write its own name of the architecture into
  a link, which is parsed as the same one.
* `TalosVersionsProofs`: `AnswersRecent`, `ReleasesStay`. The first needs the clock (stamps and the
  beginnings of requests lie in the past, no flight is older than its limit), what is true of the
  tags a flight has listed (each was, or was not, to be listed at some moment since the flight began),
  and the same of the list with respect to its stamp less the limit; a request that has waited for a
  flight reads a list stamped after it began. The second holds because what is offered has a tag, tags
  are not withdrawn, and a flight that has listed them is the only one there is.
* `ArtifactStoreProofs`: `DestinationWhole`, `ExtractedStays`. A flight that extracts has verified its
  image; the files it is done with are that image's, and those it is not done with belong to it; with
  `oci` there are no others, whatever an earlier flight left.
* `TokensProofs`: `AuthorityNarrows`, `RevokedIsRefused`, `IssuedIsAccepted`, `LimitOverrun`. Claims and
  records only grow (what is signed stays, a tombstone stays, the clock runs; lemma `Monotone`), so what a
  request or a look-up has learnt by such a fact it may rely on later: that a token may hand on what is
  asked for, that a record is there, that a refused token is dead. The exception is that the tag a mint is
  about to push is free, which holds because mints in flight have ids that differ. A request with a revoked
  token waits for a look-up that has not read a live record. For the rotation the invariant says that
  no two replicas are more than one stage apart, that no token has the new key before every replica
  knows it, and that the old key's tokens have expired where it has left the ring.
  For the limit, the creates are ordered by their listings, which show more the later they are. The live
  tokens of an account are always those that the latest create to be accepted had counted (the base, fewer
  than the limit) and at most one for each client that was in flight with it (`Accounted`). A create that
  may still be accepted was in flight with the latest one and is owed no token yet, or it listed later and
  has seen all but other clients' tokens; when it is accepted its own count becomes the base.

Three modules compose components, and `ProcessSafe`, `DownloadsSafe` and `ContentSafe` put their
theorems together: whichever part a behaviour of `Process`, `Downloads` or `Content` is of, all the safety
properties of the composition hold in it.

That requests end is a liveness property and stays with TLC, but the way it usually fails is by a state: a
request waits for a flight that has ended, or was never told of it. That no such state is reachable is
proved: `NobodyForgotten` in the proof modules of the schematic store, the installer publication, the
versions, the artifacts, the bundles, the asset cache and the token manager, `VEXAwaited` in
`ContentProofs`, `NobodyOrphaned` and `ReportsAwaited` in `ProcessProofs`. In each, a request that waits has
a flight that runs (and, where the module keeps the waiters of a flight, is one of them), across the failure
of a flight, the departure of others that waited, also of the one that began it, and crashes. What TLC adds
is that fairness then makes the flight end.

`PipelineTypeCorrect` is the type invariant of `Frontend`; those of the other modules are part of their
inductive invariants.

Assumptions are those the modules name (`BoundsAssumption` and its like): the "none" value of a
constant is not one of its members, bounds are natural numbers, the replicas of the cache and the clients
of the token manager are finitely many, the semaphore has at least one slot, an image has at least one
file, lifetimes are positive. The runs evaluate them on their constants. Those of the artifacts
(`StoreAssumption`) are a hypothesis of each theorem about them, and `MCRequestsEnd` assumes them of its
instance.

Only model-checked: the liveness properties (`CallsAnswered`, `EventuallyVisible`, `AllRequestsEnd`,
`RequestsEnd`, `BuildsLand`, `Exits`, `ReportsEnd`), since liveness under fairness is out of the prover's reach.

What the proofs taught about the models: `ScopesBound` also covers answers whose status the handler left
to the server, and `ScriptWorks` excludes one kind of script. A PXE request that carries a session
cookie and a Basic header is authenticated by the cookie (`enterprise/auth/auth0`), but the script takes
the Basic credentials (`frontend/http/api/pxe.go:89`) whether or not they are anybody's, and the image endpoint
may then refuse them; the API's documentation says that the credential that authenticated the request is
carried into the URLs (`docs/api.md:747`). A cookie cannot travel in a URL, so the property says nothing
of such a script (`promised` in `Frontend`).

## Plan

Written: 1 `SchematicStore` with `SchematicRegister`, 2 `InstallerPublication`, 3 `AssetBuilder`,
4 `AssetCache`, 5 `SpdxBundles`, 6 `TalosVersions` and `ArtifactStore`, 7 `Tokens` with `Scopes`,
8 `Reports` and `VexDocuments`, 9 `Frontend` and `BrowserLogin`, 10 `ArtifactPaths`, `Profiles` and
`DownloadLinks`. To come, in this order:

1. the lists of overlays and talosctl binaries behind `SingleFlightCache`, and the version the tag
   `latest` stands for;
2. `AssetCache` extended with the detached signatures and the checksum sidecars.

## Not modelled

* **Detached asset signatures** (`enterprise/assetsignature`): a second cache by the same key as the
  asset, with no coordination of its own.
* **Signers and verification** (`internal/image`): cryptography and the sigstore protocol. That a
  digest is signed, that a signature verifies and that a call fails are steps of their callers.
* **Registry clients** (`internal/remotewrap`, `internal/regtransport`): a client rebuilt under one
  mutex at an interval, sequential behind its lock.
* **Secure boot keys** (`internal/secureboot`): read when the process starts. Whether there are any is
  a choice in `Profiles`.
* **Client and wizard** (`pkg/client`, `frontend`), **options** and the Helm chart: outside the service,
  or read once.
* What the imager, the signing services, the scanner library, the identity provider and the registry
  do inside; the encoding of manifests, tokens, cookies and documents; metrics, logs and locales; the
  rendering of pages. Of `Frontend`'s routes the pages of the browser are one, and requests are in
  flight one at a time: they share nothing but the services behind them, which have modules of their
  own.

Two effects of the outside are left out on purpose: the registry of `SpdxBundles` shows at once what
it accepted (with a lag, the single read-back of the code would fail by construction), and what
earlier versions of the service left in the registry is not among the initial states. A registry
without any version tag is not either: `fetchTalosVersions` then panics at its `slices.MaxFunc`, one
step from the start.
