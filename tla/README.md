# TLA+ models of the OCSP responder

Specifications of the parts of this repository whose correctness depends on
interleavings, clocks and failures, with TLC runs over small instances and TLAPS
proofs for every instance. Paths below are relative to the repository; `src/` is
its root.

## The system

An OCSP request reaches `ServeOCSP` (`internal/server/handler.go`), which decodes
it and calls `Responder.Handle` (`internal/responder/responder.go`). `Handle`
looks in an in-memory cache of signed responses; on a miss it asks a `Source` for
the status of the serial, has the `Signer` make a response and caches it. The
source is one of three: `FileSource` keeps a CRL in memory and reloads it in the
background from a file or a URL, `HTTPSource` asks a CA's REST API with retries
and its own cache, `StaticSource` answers a constant. `ServeHealth` reports the
source's and the signer's health. `Server` owns the listener and shutdown, and
`main` wires everything from the YAML configuration.

| Part | Source | Module | State |
|---|---|---|---|
| CRL source | `internal/source/file.go` | `FileSource`, `CRLValidity`, `Health` | modelled |
| Source contract | `internal/source/source.go` | `StatusSource` | for CRL-backed sources |
| CA-API source | `internal/source/http.go` | `HTTPSource`, `HTTPService` | modelled |
| Responder, cache | `internal/responder/responder.go` | `Responder`, `ResponsePath` | modelled |
| Signer | `internal/signer/signer.go` | `Signer`, `SignerExpiry`, `ExpiryMonitor` | modelled; key loading succeeds or fails |
| Static source | `internal/source/static.go` | `Config` | construction only: it has no state |
| Handlers | `internal/server/handler.go` | `ServeOCSP`, `Health` | modelled |
| Server, `main` | `internal/server/server.go`, `cmd/ocsp-responder/main.go` | `Program`, `Server`, `ACMEProbe`, `Config` | modelled |
| Configuration | `internal/config/config.go` | `Config` | modelled |
| Metrics | `internal/server/metrics.go` | `Responder`, `ExpiryMonitor`, `ServeOCSP` | two gauges and the request counter |

How the modules depend on each other:

    CRLValidity <- StatusSource <- Responder -> Signer
         ^             ^ (implemented by)
         +------- FileSource <- Health -> SignerExpiry <- ExpiryMonitor
                       ^                      ^                ^
                  CRLService                  +---- Program ---+
                       |                             |
                  ResponsePath            Config, Server, ACMEProbe
                       |
                  HTTPService -> HTTPSource

`Responder` also implements `ResponsePath`. `ServeOCSP` stands alone. `MC` modules hold the values of the constants for TLC,
`Proofs` modules the theorems.

## Modules

Times are naturals counted in clock ticks, and 0 is Go's zero `time.Time`. Every
action is one access to state that another goroutine can see; local computation
belongs to the action before or after it.

**`CRLValidity`**: the window predicates `crlNotYetValidAt`, `crlExpiredAt` and
`crlUsableAt` with the skew allowance `Skew` and the grace period `Grace`, the
status a CRL gives a serial, and the record that stands for one `GetStatus` call
(where it is, its serial, its result). The revocation date and reason are left
out: no property tells them apart.

**`StatusSource`**: what a CRL-backed source promises. A definite answer is what
the one CRL in memory says at the instant of the answer, that CRL is inside its
window at that instant, the answer carries its `nextUpdate`, and the source was up
at an instant of the call. An `unhealthy` error is returned only when the source is
down or its CRL is outside the window.

**`FileSource`**: the reload goroutine, the callers, the clock and the publisher.
`ReadCRL` is a tick of `reloadLoop` up to the read and its checks; `SwapCRL` is the
critical section of `parseCRLBytes`; `StoreLoaded` is what follows the unlock, with
`storeHash`; `CheckExpiry`, `MarkUnhealthy`, `Stop` and `ExitLoop` are the code's
functions. A caller makes `CheckLoaded` (before the lock) and `Snapshot` (under
it). The content of the path or URL is a record whose `kind` says how loading it
fails, if it does; `Publish` replaces it at any moment. The digest is injective.
`loaded` and `lastHash` are written by the reload goroutine alone, which is why
`StoreLoaded` can set both.

**`HTTPSource`**: concurrent lookups over a `sync.Map` and an atomic flag.
`CheckHealthy`, `CacheLoad`, `CacheCheck`, `Fetch`, `Backoff`, `Demote`, `Promote`
and `Store` follow `GetStatus` and `fetchWithRetry` line by line. A reply of the CA
is taken at the instant it is made; delays before the lookup uses it are steps of
others. `link` says what a request meets: an answer, a failure that is retried, or
a body that does not decode. The names in the mapping, telemetry and TLS are left
out. `revokedAt`, `servedAt`, `slowest` and `seen` are history.

**`Signer`**: the deadline `CreateResponse` signs: the validity horizon, capped by
the source's deadline and truncated to whole seconds (`Second` ticks each).

**`Responder`**: `Handle` in one goroutine per request, composed with
`StatusSource` (`Source == INSTANCE StatusSource`) and `Signer`. `CacheGet` is
`getAt` under the read lock, `CacheRecheck` the same under the write lock,
`CacheDeadline` and `CacheInsert` are `setAt` before and under its lock. A clock
reading is taken where the code takes it, so `at` can be old when it is used. A
response carries three history fields: what `GetStatus` returned, the CRL in
memory when it did, and the time. Eviction drops an arbitrary entry, as Go's map
iteration does. The cancellation of a request's context is one of the ways the
source refuses. Requests that do not parse or name another issuer are `Reject`.

`Responder` is composed with the contract rather than with `FileSource`, and
`FileSource` is proved to implement the contract.

**`ResponsePath`**: `Handle` again, without the clock. It serves the questions about
what eventually happens, which a bounded clock would cut short. An entry is fresh
until no request can hit it any more, neither a new one nor one whose clock reading
is older; meanwhile a request may find it expired. Deadlines, signing and insertion
are one step. Its source is left open. `Responder` implements it
(`ImplementsResponsePath`), so the services below rest on what `Handle` does.

**`CRLService`**, **`HTTPService`**: `ResponsePath` joined with `FileSource` and with
`HTTPSource`. A handler is a caller of the source: `Lookup` and the source's `Call`
are one step, and so are the return and its use. `GiveUp` is a client that has gone
when `GetStatus` looks at its context. `CRLService` has no `Stop`, which comes after
the last request (see `Server`).

**`SignerExpiry`**: `Valid`, `DaysUntilExpiry` (floored) and `GetExpiryStatus` as
functions of the clock, the length of a day and the thresholds being constants.

**`ExpiryMonitor`**: the goroutine of `StartExpiryMonitor`: the gauge is set once,
then the ticker is created, then the loop runs. The ticker's channel holds one tick
and drops the rest. Reading the days, setting the gauge, creating the ticker, reading
the status and logging are steps between which any time may pass. `Program` starts
the goroutine and gives it its context.

**`Health`**: `ServeHealth` over `FileSource` and `SignerExpiry`. Each evaluation of
`Valid`, `DaysUntilExpiry`, `GetExpiryStatus` and of the two operands of `Healthy`
is a step, in the order of the code, so reloads and the clock move between them.

**`ServeOCSP`**: one request, from its method to `Handle` and the reply. Characters
are numbers (0..61 alphanumeric, then `+ / - _ =` and the newline, which Go's
decoder skips). `Accepts` and `Decode` say which texts `encoding/base64` takes and
what bytes it gives; `Encode` is the client's side. `MaxRequest` is the limit.

**`Server`**: `main` and `Start` from `config.Load` to the exit code, beside the
listener goroutine, the requests and the signal. `net/http` is modelled by what
`Start` relies on: `ListenAndServe` returns an error, or `ErrServerClosed` once
`Shutdown` was called; after `Shutdown` no connection is made, but one that was open
before can bring a request during the drain; `Shutdown` closes idle connections and
waits for active ones until its context ends. The deferred `fs.Stop` (`StopSource`)
and the end of `main` (`Return`) are two steps, so the source is seen stopped while
the process still runs.
Why a startup step fails, which kind of source there is and whether TLS can be set
up are left open here: `Program` decides them.

**`ACMEProbe`**: `ensureACMECacheDir` in several processes on one directory, which
may be missing, blocked, writable, read-only or full, changes under them and may be
emptied; a process can be killed at every step. `bad` and `abandoned` are history.

**`Config`**: `Load` with `validate` and its defaults, then what `main`, `newSource`
and `Start` construct, each parsing its settings again. A written duration is empty,
does not parse, or parses to a number. `Mishap` is a failure that no configuration
prevents, kept apart by `blame`. `NewHTTPSource` in `Config` includes the defaults
at `internal/source/http.go:108-113`.

**`Program`**: the whole process. It conjoins the steps of `Config` to the startup
steps of `Server` (a step fails exactly if the constructor refuses its settings or a
`Mishap` strikes), runs `ensureACMECacheDir` of `ACMEProbe` inside the listener
goroutine beside other responders on the same directory, and starts
`ExpiryMonitor` after `signal.NotifyContext`, as `main` does. `ImplementsServer`
states that what results is a `Server`.

Definitions whose comment begins with "Mutant:" are not part of any
specification. Each is a wrong version of the definition after it, kept to show
that a property notices the difference.

## Runs

| Run | Configuration | Shows |
|---|---|---|
| `file_source_disk` | `FileSourceDisk.cfg` | `TypeOK`, `PassInstallsWhatItRead`, `ImplementsStatusSource`, `ConvergesToPublished`, `ExpiryLogFollowsWindow` |
| `http_source_cache` | `HTTPSourceCache.cfg` | `TypeOK`, `FailureIsEarned`, `RevocationHiddenAtMostTTL` |
| `responder_reload` | `ResponderReload.cfg` | `TypeOK`, `NeverOutlivesItsCRL`, `ServesOwnFreshResponse`, `UsableCRLGivesUsableResponse` (no grace) |
| `responder_eviction` | `ResponderEviction.cfg` | `CacheBounded`, `OnlyExpiredOrEvicted`, `ImplementsResponsePath` |
| `responder_grace` | `ResponderGrace.cfg` | `UsableCRLGivesUsableResponse` fails with a grace period |
| `responder_down` | `ResponderDown.cfg` | `DownMeansUnknown` fails |
| `responder_cancel` | `ResponderCancel.cfg` | `UnknownOnlyFromSourceFailure` fails |
| `crl_service` | `CRLService.cfg` | `ImplementsStatusSource` and `ConvergesToPublished` for the URL path, which has no digest, and `SettlesOnPublished`: publication to response, end to end |
| `http_service` | `HTTPService.cfg` | `LookupsEnd`, `RecoversAsDeployed`, `RevocationReachesClients` |
| `health` | `Health.cfg` | `PassingProbeHasDaysLeft`, `HealthFollowsPublication` |
| `serve_ocsp` | `ServeOCSP.cfg` | `Unambiguous`, `HandledWhole`, `WithinLimitHandled` |
| `program` | `Program.cfg` | of the process: `ExitZeroIsClean`, `SourceOutlivesRequests`, `ListenerNeverBlocks`, `SignalEndsProcess`, `ListenerFailureEndsProcess`, `ImplementsServer`; of its parts: `SettingsUsable`, `AcceptedConstructs`, `FailsOnlyForCause`, `NoLitter`, `GaugeLagsAtMostADay`, `AlarmLagsAtMostADay` |

The largest are `responder_reload` with 2.2 million distinct states and `program`
with 380 thousand. Deadlock is not checked where the system may stop: the process
ends (`Program`), a request is answered (`ServeOCSP`).

### Bounds

- *FileSource*: one caller (callers share nothing but what they read), two CRL
  generations and one content per way of failing. The first generation expires
  inside the four ticks; the second is not yet valid at the start, and has no
  `nextUpdate`. `Skew` and `Grace` are 1 here and 0 in `crl_service`, so both
  boundaries and both their absence are visited.
- *HTTPSource*: two lookups of one serial, two attempts. Three ticks and a
  `cache_ttl` of 2 let an entry be stored, hit late, and expire.
- *Responder*: two requests. The reload run has one serial and two generations
  over six ticks of half a second, so truncation matters and a CRL's life ends
  within the run; the eviction run has
  two serials and a cache of one entry, so every insert of the other serial
  evicts, and three ticks with a TTL of one, so entries expire between the clock
  reading and the lock. The grace run follows one request at a time over nine ticks, past the end
  of a CRL's grace. `MaxTime` bounds the clock in every module.
- *Health*: a CRL that expires within the run, one that takes effect during it,
  one that does not load; the signer expires at tick 3 of 4. One probe at a time:
  probes share nothing.
- *CRLService*: two requests for one serial and one cache entry; a CRL that revokes
  nothing and expires, one that revokes the serial, one that does not load. The
  source is a URL.
- *HTTPService*: two requests for one serial, two attempts. Entries of the response
  cache expire by `Expire`; the source's own clock is stopped, so its entries never
  expire, the worst case for recovery. `RevocationReachesClients` therefore starts
  when that cache holds no older answer, and `RevocationHiddenAtMostTTL` in
  `http_source_cache` bounds when that is.
- *Program*: two requests, which come where the source is a CRL (`Busy`), the only
  one with a goroutine to stop; one other responder on the cache directory and three
  file names, so that one can be left behind by a kill while both probe
  (`NamesLeft`); the directory changes only while the listener goroutine may look at
  it (`SharedDir`). Every duration is empty, unparsable, negative, zero and positive,
  for the fields the kind of source uses. Time passes for the configuration in
  `Watched`, with a certificate: a day of two ticks, expiry in the third day and
  thresholds of one and two days over eight ticks, so that ticks fall on both sides
  of every threshold, and the ticker can be created a day after the gauge was set.
  `GaugeLagsAtMostADay` is about the time from the first tick on: before it the gauge
  shows what was read at the start, which is older by as much as the start was slow.
- *ServeOCSP*: a limit of 4 bytes, which like 10240 leaves 1 when divided by 3;
  requests up to 6 bytes; every text of up to 4 characters over eight characters,
  and longer ones over three.
- The two requests (or lookups) are interchangeable, and the runs that check
  safety alone use that symmetry.

### Fairness

- `FileSource`: `WF_vars(Reload)`. The ticker fires again and again and the
  goroutine is scheduled until `Stop`. Nothing is assumed of publisher or callers.
- `HTTPSource`: `WF_vars(Step(c))` for a lookup that has begun. The client timeout
  ends every request and the timer every backoff. (`timeout: 0s` would turn the
  client timeout off.) Nothing makes lookups begin.
- `Health`: `Reload`, as above, and the steps of a probe that has begun.
- `CRLService`: `Reload`, the steps of each request, and `Expire`: the deadline of a
  cached response passes, since `cache.ttl` is finite. Clients need not keep asking.
- `HTTPService`: the steps of each request, `Expire`, and that clients keep asking.
  The last is what recovery needs in the code, where only lookups restore health;
  the CA's recovery and patient clients are premises of `RecoversAsDeployed`.
- `Program`: `Main` and `Listener`, as `Server` has `MainStep` and `ListenerStep`. Both
  goroutines are scheduled, and the 10-second timer of the drain fires. Nothing
  makes a request end, another responder act, or the monitor run.
- `Responder`, `ServeOCSP`: none; their properties are safety properties.

`Config` shows which of these a configuration can break: `validate` accepts a
`source.http.timeout` that is zero or negative, and a negative `cache.ttl`, which
turns the response cache off.

### Disagreements between code and documentation

1. **Grace period** (`responder_grace`). In the grace window `GetStatus` still
   answers from the CRL, but `CreateResponse` caps `nextUpdate` at the CRL's own
   `NextUpdate`, already past. The response is expired when it is signed, and is
   never cached. `config/ocsp-responder.yaml:34-38` offers the grace period as an
   alternative to an outage.
2. **Unhealthy source** (`responder_down`). `internal/source/file.go:308-309` says
   the responder answers `unknown` once the source is marked unhealthy. `Handle`
   looks in its cache first, so cached answers are served until they expire.
3. **Canceled request** (`responder_cancel`). A client that goes away makes
   `GetStatus` return its context's error; `Handle` signs `unknown` and caches it
   for everybody. `SECURITY.md:45` says `unknown` is for a failing source.

Smaller things met while modelling, which no run states:

- `ServeHealth` evaluates `Valid` and `Healthy` once for the body and once for the
  code (`internal/server/handler.go:149-162`); a reload or an expiry in between makes
  the two disagree in one reply.
- `internal/source/http.go:179` demotes the source on every error, the client's own
  cancellation included, so `/health` can report 503 while the CA answers.
  `RecoversAsDeployed` shows that this does not last while requests keep coming.
- After a failed lookup only another lookup restores health. A load balancer that
  sends requests only while `/health` passes sends none, and then the fairness that
  `RecoversAsDeployed` assumes does not hold: the instance stays out although the CA
  has recovered. `README.md:348` recommends the endpoint as a load-balancer probe.
- `CHANGELOG.md:47-48` says any request re-probes the CA while the source is
  unhealthy. One that hits the response cache does not; recovery is only delayed.
- The limit on the GET text is the padded length for 10240 bytes; unpadded text of
  that length carries 10242. `README.md:326-327` gives 10 KB for both methods.
- `validate` does not look at `server.tls`, so TLS without a certificate or an ACME
  host is found by the listener goroutine, not by `Load` (`README.md:171-172`).
  `AcceptedConstructs` makes the exception explicit.

## Proofs

Each is for every value of the constants that satisfies the named assumptions
(`WindowAssumption`, `FilesAssumption`, `HTTPAssumption`, `SignerAssumption`,
`ResponderAssumption`, `ExpiryAssumption`, `SizeAssumption`, `ConfigAssumption`,
`SelfAssumption`): any number of goroutines, serials, contents, generations
and entries, any durations. The assumptions say that durations are naturals, a
second is at least one tick, and a CRL's `nextUpdate` is a whole second, as DER has
it. `ResponderAssumption` also makes the set of serials finite. `Responder`'s
initial state puts the clock a second past the zero time.

**`FileSourceProofs`**
- `TypeCorrect`, `ReloadInstallsWhatItRead`: by the invariant `IInv`, which adds
  to the types what the loop knows at each point: the bytes it holds were accepted
  before the swap, and while the source is loaded and no swap is under way the
  last digest is that of the CRL in memory. Without the second part a skipped
  reload could not be shown to be harmless.
- `FileSourceImplementsStatusSource`: every step maps to a step of `StatusSource`
  or to a stutter, with `up <- loaded`.
- `ServiceIsSourceAndPath`: a step of `CRLService` is one of `FileSource`, of
  `ResponsePath`, or of both. `ServiceInstallsWhatItRead` and
  `ServiceImplementsStatusSource` follow from the invariant above.

**`HTTPSourceProofs`**
- `TypeCorrect`, `LookupFailuresAreEarned`: `CallInv` says that while a lookup is
  in its loop every reply so far was a retryable failure and fewer than the
  maximum have been made.
- `RevocationIsHiddenAtMostTTL`: `TimeInv` adds that no entry lasts beyond
  `cache_ttl` from now, and that a `good` on its way to the cache was given before
  the revocation.
- Both use that a step of one lookup leaves the others alone (`CallersApart`); the
  second also that only storing adds to the cache (`OnlyStoreAdds`) and only a fetch
  takes an answer from the CA (`OnlyFetchAnswers`).
- `ServiceIsSourceAndPath`, `ServiceFailuresAreEarned`: the same for `HTTPService`.

**`ResponderProofs`**
- `TypeCorrect`, `ResponsesNeverOutliveTheirCRL`, `RequestsAreServedFresh`: by
  `IInv`, in which `HandlerInv` says what a request knows at each point of
  `Handle` (above all, that what it will sign is what the recorded CRL says) and
  `EntryInv` that a cached entry is signed and expires no later than its response.
- `CacheStaysBounded`: inductive with the types, by cardinality facts.
- `OnlyExpiredOrEvictedEntriesLeave`: from `at[h] <= now` in `HandlerInv`.
- `UsableWithoutGrace`: if `Grace = 0`, by `FreshInv`: a request about to sign
  read its status no later than the CRL's `nextUpdate`.
- Lemmas about `Truncate`, `signedNextUpdate`, `Deadline` and the cache's
  operators are stated once and cited.

**`ResponsePathProofs`**
- `ResponderImplementsResponsePath`: every step maps to a step of `ResponsePath` or
  to a stutter. The mapping (`pathEntries`, `paths`, `answers` in `Responder`) calls
  an entry fresh as long as the clock is before its deadline or a request at the
  cache has a reading that is (`MayHit`). A tick may end the freshness of several
  entries, a hit that of its own; `FindersStay` is why no other step changes it.
  Besides `IInv` it needs that a disabled cache is empty (`OffInv`). The fairness
  of the services is not part of it.

**`HealthProofs`**
- `PassingProbe`: `IInv` says that the days in the body were read at or before now.
  A certificate valid when the code is decided therefore had a non-negative floor of
  days when the body was filled (`DaysLeft`).

**`ProgramProofs`**
- `ServerTypes`, `ExitZeroClean`, `SourceOutlives`, `ListenerReports`: by
  `ServerInv`, which ties the places of the goroutines together: `ErrServerClosed`
  is reported only after `Shutdown` was called, `Shutdown` is called only on a
  signal, the listener reports once, and past the drain no request is active and no
  connection is left that could bring one, also after the source was stopped.
- `ProgramIsServer`, `ProgramIsConfig`, `ProgramIsProbe`: every step of `Program` is a
  step of each of the three or leaves its variables alone, action by action. What is
  proved of a component therefore holds of the program: `ProgramExitZeroClean`,
  `ProgramSourceOutlives`, `ProgramListenerReports`, `ProgramSettingsUsable`,
  `ProgramNeverRefuses`, `ProgramProbeFailsForCause`, `ProgramLeavesNothing`.
- `ProgramGaugeLags`, `ProgramAlarmLags`: for every certificate, length of a day and
  pair of thresholds. `MonitorInv` says when the readings behind the gauge and the
  log were taken: once the ticker has fired, and with no tick waiting, not before it
  fired last, less than a day ago. Two instants less than a day apart differ by at most one in their floored
  days (`DaysWithinADay`), and a stage of expiry once reached is not left.

**`StartupProofs`**
- `ProbeFailsForCause`, `ProbeLeavesNothing`: `ProbeInv` adds that a process that has
  not created its file holds no name, and that `bad` is set for every process while
  the directory is unfit.
- `RunsUsable`, `AcceptedNeverRefused`: by `ConfigInv`. Past `Load` the configuration
  is valid (`DefaultsKeep`: the defaults do not disturb that), and each constructor
  has left settings it can take.

**`ServeOCSPProofs`**
- `DecodingUnambiguous`, `HandleUnambiguous`: a character in two of the alphabets
  has one value in both (`ValueAgrees`), and bytes depend on values alone.
- `GetMeans`: decoding undoes encoding, for requests of every length and in all four
  encodings. `ByteBack` shows it for the digits of three bytes, the last group with
  one or two bytes included; `RoundTrip` puts the bytes together; `EncodeFits`
  compares the length of the text with `maxOCSPGetRequestSize`.
- `AlwaysHandledWhole`, `AlwaysWithinLimitHandled`: by `DeliveryInv`, which follows the
  request from `ReadBody` or `DecodeGet` to the reply, for every limit.

Only model-checked: the liveness properties (`ConvergesToPublished`,
`ExpiryLogFollowsWindow`, `LookupsEnd`, `HealthFollowsPublication`,
`SettlesOnPublished`, `RecoversAsDeployed`, `RevocationReachesClients`,
`SignalEndsProcess`, `ListenerFailureEndsProcess`) and the fairness in
`ImplementsServer`. They need `ENABLED`, which is outside what the proof system
handles. Every invariant and every safety property of the passing runs is proved.

## Not modelled

- Key and certificate loading, ASN.1, signatures (`internal/signer/signer.go` from
  `loadCert` on, the parsing in `Handle`): cryptography and file formats. They
  appear as steps that succeed or fail.
- `StaticSource.GetStatus` and `Healthy`: constants.
- Metric registration and the counters nobody reads back; logging, except the
  latch of `checkExpiry` and the level of the expiry monitor.
- The routes of the mux and the choice of the TLS version: tables.
- How long an HTTP cache in front of the responder keeps a response: `max-age` is
  the configured TTL whatever validity is left, and is set before `Handle` is
  called, on replies with an error too. No document states a bound to check.
- `Responder` with its clock over `HTTPSource`: the source gives no deadline, so
  the deadline there is the TTL alone, and what is left is in `HTTPService`.
