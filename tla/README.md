# restgdf in TLA+

restgdf reads ArcGIS REST services from asyncio: it finds the layers of a
server, plans and streams the pages of a layer, keeps a token alive, and
retries what may be retried. This directory holds TLA+ modules of the parts of
it in which several things happen at once, TLC configurations that check them
on small instances, and TLAPS proofs for every size of instance.

Paths below are those of the repository; `restgdf/` is the package.

## Running the checks

    tlc -workers 2 -config MCCrawl.cfg MCCrawl      # one run; PROJECT.json lists them
    tlapm Crawl_proofs.tla                          # the proofs of one module

The runs `stream_split`, `layer_head` and `request_envelope` end with a
counterexample: each shows one disagreement between the code and what the
repository says of it (see Findings). All others pass.

## The system

### Components

| Component | Code | State it keeps | Operations | Module |
|---|---|---|---|---|
| Token session | `utils/token.py` | token, expiry, refresh lock | `get`, `post`, `async with`, proactive and reactive refresh, bounded refresh retries | `TokenSession`, `TokenLifecycle` |
| Page streams and bisection | `utils/getgdf.py` 422-464, 640-1048 | page tasks, window, pages awaited, bisection stack | pull, close, page completion, split | `PageStream`, `Paging`, `RowDelivery` |
| Batch planning | `utils/getgdf.py` 189-419, `utils/_pagination.py`, `utils/_query.py` | count, metadata, ids, batches | plan, read, give up | `Pagination`, `Paging` |
| Resilient session | `resilience/_retry.py`, `resilience/_limiter.py` | attempts, cooldown deadlines, token buckets | attempt, cooldown wait, 429, backoff | `Resilience` |
| Directory crawl | `utils/crawl.py`, `utils/getinfo.py`, `utils/_concurrency.py` | one semaphore, three levels of tasks, the report | ask a place, a service, a layer; contain or hand on an error | `Crawl` |
| FeatureLayer client | `featurelayer/featurelayer.py` | metadata, caches of frames and statistics | `where`, `get_gdf`, `head_gdf`, `sample_gdf`, unique values and counts; `prep`, streams | `FeatureLayer` (partly) |
| Directory client | `directory/directory.py` | cached services, counts and report | `from_url`, `prep`, `crawl`, filters | `Directory` |
| Configuration | `_config.py`, `_models/_settings.py` | two process-wide caches over the environment | read, reset, make a token session | `Configuration` |
| HTTP helpers | `utils/_http.py`, `_client/request.py`, `utils/_query.py` | none | payload merging, verb, credential, look into wrapped sessions | `Requests` (partly) |
| Statistics | `utils/_stats.py`, `utils/_geometry.py` | none | unique values, value counts, nested counts | `Requests` (the requests only) |
| Bounded timeout retry | `resilience/_bounded_retry.py`, `utils/getinfo.py` 121-181 | attempts left | feature count with timeout | `Requests`; its outcome in `Crawl` |
| Response models, drift | `_models/responses.py`, `_models/_drift.py` | set of drifts already logged | strict and permissive parse, log once, reset | `Responses`, `Requests` (partly) |
| GeoDataFrame assembly | `utils/getgdf.py` 467-640 | none | concatenation, spatial reference | not modelled |
| Adapters, telemetry, errors, scripts | `adapters/`, `telemetry/`, `errors.py`, `compat.py`, `scripts` | none | conversions and observation | not modelled |

### How they interact

A user's coroutine holds a `FeatureLayer` or a `Directory`. These call the
helpers of `utils/`, which make one request at a time through whatever session
they were given: an `aiohttp.ClientSession`, an `ArcGISTokenSession` around it
(which awaits the refresh lock and may send twice), or a `ResilientSession`
around it (which may send several times and sleeps in between). Helpers that
make many requests start asyncio tasks: a page stream a window of them, a crawl
one per service and one per layer, all under one semaphore. Everything shared -
the refresh lock and the token, the deadlines and buckets per key, the
semaphore, the generator's list of tasks, the cache of drift already logged - is
shared between tasks of one event loop, so two tasks interleave at awaits and
nowhere else. That is the grain of the models: **an action runs from one await of
a task to its next one.** Configuration has no await; there the grain is a call,
and the other actor is whoever edits the environment.

`TokenSession` refines `TokenLifecycle` and `PageStream` refines `RowDelivery`;
`PageStream` and `Pagination` share `Paging`; `Requests` is built on `Responses`. Where one part uses another the
models meet at an outcome: a crawl is one request in `Directory` and a page read
is one in `FeatureLayer`.

### What is hard, and what makes each part right

* *Token session.* Many tasks find the token stale together, or are told 498 for
  a token another task has already replaced; a refresh backs off, fails, or is
  cancelled while it holds the lock. Right means: one refresh at a time, never
  of a good token, the retry carries a newer token, the lock always comes back,
  and the error raised says what happened.
* *Page streams.* Pages finish in any order, are truncated, fail; a consumer
  stops pulling. Right means: a stream that ends normally has delivered every
  row, none twice, within its window, and leaves no task behind; in request order
  the rows come in the order of the query, also out of split pages.
* *Batch planning.* The plan is made from a count and from metadata that are old
  when the pages are read. Right means: rows that stay are read, and truncation
  is reported and is not the plan's own doing.
* *Resilient session.* Waiters of one deadline wake together and clear it while a
  new 429 sets another; the budget is looked at between attempts only. Right
  means: no attempt leaves before the deadline it found, bursts fit the bucket,
  and every request ends.
* *Crawl.* Three levels of fan-out share one semaphore that is not re-entrant, and
  a failing layer ends its service's gather while its siblings run on. Right
  means: the cap holds globally, no slot is lost, every service is accounted for
  exactly once, and the crawl returns.
* *FeatureLayer.* Caches are filled across an await, so two calls both miss; callers
  change the frames they get; `where` joins filters as text; a sample takes three
  requests. Right means: a kept answer is the service's own and belongs to the
  layer's filter, and a sample has no more rows than asked for.
* *Directory.* Three attributes are filled by crawls of two kinds that may overlap,
  fail or find nothing. Right means: counts come from a crawl that counted, crawls
  made in turn leave attributes that agree, and filled caches settle.
* *Configuration.* Two caches are filled at different moments from an environment
  that changes, by resolutions that may fail halfway; deprecated and inert
  variables count for less than they seem to. Right means: the caches agree and
  are emptied together, and whoever uses a `Config` has been told which of the
  variables it was made of are deprecated, overruled or listed as inert.
* *Requests and responses.* The verb is chosen before a wrapped token session adds its
  token; a caller's data meets the operation's own; answers are broken, partial or
  errors in disguise. Right means: no token in a URL, the question asked is the
  helper's, no error or truncated answer passes for data, and what was dropped is on
  record.

`PROJECT.json` lists each hazard at its line, with the properties that cover it.

## The modules

### TokenSession, TokenLifecycle

`TokenSession` is `ArcGISTokenSession`: any number of `Tasks`, each making one
call - a plain request, a request whose payload has a token of its own, or
`async with session`. `Start` is the proactive test of `update_token_if_needed`
and what follows it; `Acquire` and `Resume` are the two ways into `async with
self._refresh_lock`; `UnderLock` is the test repeated inside; `MintSucceeds`,
`MintRejected`, `MintUnreachable` and `BackoffEnds` are the attempts of
`update_token`; `Answer` and `AnswerRetry` the two answers of
`_call_with_auth_retry`. `Cancel` may hit a task at any await. `Age` is the clock,
`Revoke` the server: a token can stop being good at any time.

Tokens are numbers in the order received. What the code compares is whether two
tokens are the same, which numbers keep; payloads, headers and expiry arithmetic
are left out. Waiters take the lock in any order, which includes asyncio's.
`credentials` is chosen once and never changes.

`TokenLifecycle` is the promise to callers, without tasks: a token is spent, a
renewal begins only for a missing or spent token and only when none is going
on, and ends with the next token or with none. `ImplementsLifecycle` says that
`TokenSession` refines it, with `spent` read as the tokens aged, revoked or
blamed, and `renewing` as "some task is in `update_token`".

### Paging, PageStream, RowDelivery

`Paging` has the arithmetic: the windows of a plan, the halves of a bisection, the
id lists of bounded length. `PageStream` is one async generator with its page
tasks. The generator acts only between a pull and its next yield (`Plan`,
`TakeInOrder`, `TakeNextCompleted`, `TakeRound`, `ObjectIds`, `SubFetch`, `Pull`),
the tasks end on their own (`FetchEnds`), and the consumer may `Close` at any
point. `opts` ranges over every combination of engine, order, window, truncation
policy and kind of predicate, so one run covers both engines and all modes. Rows
are numbered and a page is the interval it asks for; a truncated page misses its
last row. A page may also fail in the generator, when `Resolve` parses it and it is an
error.

`RowDelivery` is what the consumer is promised, without tasks, windows and
sub-requests: pages of consecutive rows come until the stream ends or stops. `promise`
says what more holds of them: no row is left out before the end (`whole`), none comes
twice (`once`), and each page goes on where the rows before it stopped (`inOrder`).
`ImplementsDelivery` says that `PageStream` refines it: a stream is `ended` when the
generator returned, `stopped` by an error or a close; `whole` holds unless it ignores
truncation, `once` where the predicate of a page names its rows or nothing is split,
and `inOrder` if besides `order` is "request". That the halves of a truncated page come
before what was left of it, at any depth, is part of it.

### Pagination

`get_query_data_batches` and the requests it plans, against a layer that others
edit meanwhile: `CountRows`, `ReadMetadata`, `ReadObjectIds`, then `Fetch` of any
batch left, with `Add` and `Delete` in between. What the service does with offset
and count, sorted or unsorted, is `Matches`; its limits are `Exceeds`. The caller's
`resultRecordCount` (`opts.size`) becomes the stride of slices, within maxRecordCount;
one request for the whole layer and pages of ids carry it as it is, and the service
honours it there (`AtMost`). Rows beyond it are no truncation: `exceededTransferLimit`
is modelled for the service's own limits.

### Resilience

Requests of one `ResilientSession`. `Begin` and `WakeUp` are
`CooldownRegistry.wait_if_cooling` before and after its sleep, `Send` the bucket
and the dispatch, `TooManyRequests`, `OtherFailure` and `Settle` the answers,
`Retry` the end of stamina's backoff, `Tick` the clock. A deadline is kept as the
ticks left to it. `told`, `owed` and `burst` are history: what the last 429 asked
for, how much of it an attempt found when it began, and what was sent in the
present tick. They appear in no guard.

### Crawl

`safe_crawl` and `fetch_all_data` (`engine`), with the fan-outs of
`service_metadata` and `bounded_gather`. Places are the base and the folders, asked
one after the other; services and then layers are tasks. `Acquire` and `Release`
are the shared semaphore. `LayerContained` is an error that stays with its layer;
`LayerEscapes` is one that leaves the gather, after which the service's other
layers run on, with their slots, and nobody receives what they raise. `PlaceBreaks` is
a listing entry without name or type, whose `KeyError` leaves the crawl.

### FeatureLayer

Any number of `FeatureLayer` objects, shared by tasks. `Get` is the cache test of
`get_gdf`, `get_unique_values`, `get_value_counts` and `get_nested_count`, which is
the same in each; `ReadEnds` is what follows the request's await: the answer is
stored whether or not another has been stored meanwhile. `HandOut` is the copy.
`Refine` and `RefineEnds` are `where` of a prepared layer before and after it counts
its rows; `Sample` and `ListEnds` are what `head_gdf` and `sample_gdf` do before
they call `where` and `get_gdf`. `Change` is a caller that writes to its frame.

A where clause is the sequence of the terms its text joins with OR, and a term
the set of rows that satisfy it. `Refined` does to such sequences what writing
" AND " between two texts does: it joins the last term of one with the first of
the other. `meant` is history: the rows that all filters on the way select.
One read sees one state of the service; reads of several pages are `Pagination`'s.
An object is modelled with one slot; every other slot (one per field or tuple
of fields) works alike and none looks at another.

### Directory

One `Directory`, made by its caller or by `from_url`, and the tasks that use it.
`Prep`, `PrepAnswers` and `PrepFails` are `prep`; `CrawlCached` is the early return of
`crawl`, `CrawlAsks` its await of `safe_crawl`, `CrawlAnswers` the assignments after it
(`Store`), `CrawlRaises` an error or a cancellation. A report is a number, whether it
counted, and which services it found, with their metadata or without. `Filtered` and
`FilterRaises` are the filters, which read `services` without an await. `overlapped`
and `finished` are history. What happens inside a crawl is `Crawl`'s.

### Configuration

The environment, the `Config` it resolves to and the deprecated `Settings` made of that.
`Value`, `BadNew`, `BadOld` and `Resolves` are `Config.from_env`, `WarnedOf` the
warnings of one resolution, which stops at the first text it cannot cast. `ShimOf` and
`ShimAccepts` are the mapping and the validation of `get_settings`, `LegacySettings` is
`Settings.from_env`. `ReadConfig` fills the cache of `get_config` when the resolution
succeeds; `SettingsRefused` is a `get_settings` that fails after it. `MakeSession` is
`ArcGISTokenSession.from_config` without a config. `ChangeEnv` is anybody's edit of
`os.environ`.

Fields are kinds: what the code tells apart is whether a field has an alias, is in the
table `_INERT_ENV_KEYS` (`Listed`), is read by `int()`, is a word, must be positive, and is
cut by `int()` in `Settings`. What no code reads (`Unread`) is a set of its own, which
no step looks at. An address may be one that `Config` takes and a token session refuses
(`Unfit`: its scheme is in capitals).
Texts are numbers, `inf`, and one text that does not read; a number is kept as its
double, so that fractions are odd. `configFrom`, `settingsFrom`, `since`, `older` and
`heard` are history.

### Responses, Requests

`Responses` has the parse: which answers `_parse_response` refuses for strict and for
permissive models, what a permissive parse drops, and `LogDrift` with its cache, one
for the process. An answer is kept as what the models tell apart: a payload with or
without a bad field, a bad item, missing or undeclared members, and
`exceededTransferLimit`; an error envelope; a list; and an "odd" answer, whose error
member does not validate as `ErrorInfo`.

`Requests` is a call from its payload to its result. `Payload`, `Verb`, `TokensOf` and
`HeaderOf` are pure; `Wire` puts them together into what the server gets. A clause is
kept as its length, for the limit of the URL. `Ask`, `Responds`, `Parses`, `Fails` and
`TimesOut` go from one await to the next, `BacksOff` and `TriesAgain` are the bounded
retry of a patient count. `outcome` is history: how the call that has just ended
ended, and which answer it had.

## What the runs check

| Run | Question | Instance | Distinct states |
|---|---|---|---|
| `token` | Are refreshes needed and never of a good token; is a retry's token newer; does every call end; is it `TokenLifecycle`? | 2 tasks, tokens up to 3, 3 attempts, with and without credentials | 159 thousand |
| `stream` | Do streams lose or repeat rows, outrun their window, or leave tasks; do rows come as `RowDelivery` promises; do streams end? | 10 rows in pages of 4, windows 0 to 2, depth 2, id cap 3, all modes | 67 thousand |
| `stream_split` | Does a split fetch only what is missing? (no) | 4 rows in pages of 2 | |
| `pagination` | Are stable rows read, once; is truncation ever the plan's fault? | 5 object ids, maxRecordCount 2, page sizes 0, 1, 3, factors 3/2 and 1/4 | 1.9 million |
| `resilience` | Are deadlines waited out, bursts bounded; does every request end? | 2 requests for one service, 3 attempts, budget 4, Retry-After 0, 1, 3 | 34 thousand |
| `crawl` | Is the cap global, is everything accounted for once, does it return, do slots come back? | base, 2 folders, 3 services of 2 layers, 2 slots | 250 thousand |
| `layer` | Do kept answers stay clean, settle and fit their filter; are samples small? | 2 tasks, 2 layers, 2 rows, three filters, one with an OR, n = 1 | 559 thousand |
| `layer_head` | Does a sample have at most n rows, whatever the filter? (no) | the same | |
| `directory` | Do the attributes belong together; do the caches settle? | 3 tasks, 3 crawls, 1 service with layers of two types | 194 thousand |
| `config` | Do the caches agree, do the readers, are the warnings given, is a `Config` kept? | 4 fields, one of each kind; every environment of at most two variables, edited once | 1.0 million |
| `request` | Are requests sound, is data data, is drift on record, does every call end? | 2 tasks, 5 kinds of call, 5 answers, 2 sessions, URL limit 10, 2 attempts | 153 thousand |
| `request_envelope` | Is every error envelope raised? (no) | the same | |

Some properties are conjunctions of named parts that answer one question together:
`EveryRowOnce` is `EndedMeansComplete` and `NoRowTwice`; `TasksAreKept` is
`InFlightBounded` and `NothingLeftRunning`; `RowsAreReadOnce` is `StableRowsAreRead` and
`NoRowTwice`; `CachesAgree`, `ReadersAgree`, `AttributesAgree`, `RequestsAreSound`,
`NothingPassesForData` and `DriftIsOnRecord` have two to five parts each, with a comment at
every part. `TypeOK` of the newer modules is proved and not in their runs.

### The bounds, and why they are enough

* *Tasks.* Every interaction in these parts is between the task that acts and one
  other: the holder of the lock and a waiter, a sleeper and the one that sets a
  new deadline. Two tasks have them all, except two waiters behind a holder; for
  that the theorems hold for any number of tasks.
* *Tokens.* With three, a task can be rejected, find a second token, be rejected
  again and a third be minted meanwhile. `MaxToken` bounds how many tokens the
  server hands out; at the bound a refresh can still fail, and does end.
* *Attempts.* Three is `_MAX_TOKEN_RETRIES` itself; for `Resilience` three has a
  first, a middle and a last attempt.
* *Streams.* Three batches with windows up to two make the window slide, and the last
  page is partial. A page of four rows can be split twice, so halves of a half meet what
  was left of the page. Ten rows and a cap of three split an id list unevenly and past
  the cap; the depth bound of two is reached. Window 0 is `max_concurrent_pages=None`.
* *Pagination.* Five ids with pages of two: full pages, a partial one, layers that
  fit one page. The two factors are one that would enlarge a page and one that
  rounds it to nothing.
* *Layers.* The first layer has any of the filters or none, so a second one is a
  refinement of a refinement. Two tasks overlap in a miss, in a refinement, and in a
  sample of a layer the other reads. Two rows and n = 1 make a sample a proper part.
* *Directory.* A property relates at most two crawls, and the third task can take the
  place of a caller who comes late, or of one who prepares. Three crawls (`MaxCrawls`)
  are one that fills a cache, one of the other kind, and one that overlaps either.
* *Configuration.* Every rule is about one variable or about a pair: a new name and its
  alias, or a variable that fails and one that does not. `MaxEdits` = 1 changes the
  environment between two reads, before or after a reset; `MaxSessions` = 1 is a session
  that may be older than the cached `Config`. The proofs have any number of each.
* *Requests.* Clauses make a URL of exactly the limit and of one beyond it, the sessions
  are bare with a header token and wrapped with a token in the query, and the answers
  are one of each shape, the payload once whole and once with every defect. Two
  attempts (`MaxTries`) are a first and a last one.
* *Crawl.* Two slots for three services and six layers: every level waits for
  slots the others hold.

### Fairness

Safety and refinement runs need none; the specifications named `FairSpec` add, and
liveness properties use, only:

* a task that can run is run: the event loop serves its ready queue in turn;
* a request that was sent is answered or fails: all requests carry a timeout
  (`default_timeout()` in `utils/_http.py`, the session's own in `Resilience`);
* lock and semaphore waiters are woken: `asyncio.Lock` and `asyncio.Semaphore`
  are first come, first served. Weak fairness is enough where a task acquires a
  bounded number of times, so that it cannot be passed over for ever;
* time passes (`Tick`);
* a stream's consumer keeps pulling (`Pull`) - only for `StreamEnds`.

`Spec` of `Requests` includes its fairness: a call that was begun goes on, since every
request is sent with a timeout that covers its body. `Directory` and `Configuration`
have no liveness property and assume nothing. `MCDirectory.cfg` does not look for
deadlocks: when the `prep` of `from_url` fails, nobody holds the Directory and nothing
more happens to it.

Nothing is assumed of `Cancel`, `Close`, `Age`, `Revoke`, `Add`, `Delete`, `Reset`,
`Ask` or `Start`, nor of which answer comes.

## Findings

Shown by a run:

* **A split repeats other pages' rows.** For offset/count pages the ids to bisect
  are asked for under the caller's `where`, so they are the whole query's
  (`utils/getgdf.py:801`). Run `stream_split`; `NoRowTwice` in `EveryRowOnce` states
  what does hold, for pages that name their rows.
* **A sample of a filter with OR is too large.** `where` writes " AND " between the
  two texts without parentheses (`featurelayer/featurelayer.py:871`), so "A OR B"
  refined by object ids is "A OR (B AND ids)", and `head_gdf(n)`, "Get the n first
  features", returns every row of A as well. Run `layer_head`; `RefinementsHold`
  and `SampleIsSmall` state what does hold, for filters without OR.
* **Some error objects pass for empty answers.** An error whose `details` is a string, or
  whose `code` is no number, is no `ErrorInfo` and so no envelope
  (`_models/_drift.py:161`); a permissive model takes it for an answer without
  fields or rows, although `_models/_drift.py:8` says that envelopes are raised. Run
  `request_envelope`; `NothingPassesForData` states what does hold.

Stated as a property in a module, and known to fail, but in no run:

* `No499Returned` (`TokenSession`): after a 498, refresh and retry, only 498 is looked at
  (`utils/token.py:566`); a 499 comes back as an ordinary response although
  `utils/token.py:480` promises `AuthNotAttachedError`.
* `PeakMemoryBounded` (`PageStream`): `tasks` keeps every finished page task until the
  stream ends (`utils/getgdf.py:982`); `featurelayer/featurelayer.py:408` says that a
  window bounds "peak memory".
* `CountFailureKeepsService` (`Crawl`): only `KeyError` and `RestgdfTimeoutError` of a
  layer's count are contained (`utils/getinfo.py:299`), any other loses the service,
  against `CHANGELOG.md:128`.
* `SmallerPagesReadAll` (`Pagination`): `CHANGELOG.md:197` advises to page a layer by a
  smaller `resultRecordCount`, to read it completely. That is so for sliced reads. A
  layer that fits one page is asked for with the caller's count
  (`utils/getgdf.py:292`), and pages of ids, which are maxRecordCount long, carry
  it too (`utils/getgdf.py:335`): each brings that many of its rows and the others are
  lost without an error. With 2 rows a page and a count of 1, TLC finds it at once.
  `StableRowsAreRead` states what does hold: its `Uncut` says when nothing is cut off.
* `UnreadIsHeardOf` (`Configuration`): `_config.py:603` calls a knob that validates and does
  nothing "a silent lie" and warns of those in `_INERT_ENV_KEYS`
  (`_config.py:88`). `RESTGDF_TIMEOUT_CONNECT_S`, `RESTGDF_TIMEOUT_READ_S`
  (`default_timeout` reads `total_s` only) and `RESTGDF_TELEMETRY_SERVICE_NAME` (no span
  reads it, though `docs/configuration.rst:135` says that it names them) do nothing and
  are not in it. `WarningsAreGiven` states what holds, of the variables in the table.
* `DeadlineNeverBroughtForward` (`Resilience`): `set_cooldown` overwrites, so a later
  429 can shorten a cooldown (`resilience/_limiter.py:96`), against
  `docs/recipes/tracing.md:147`.

Met while reading and modelling; none contradicts a document:

* `from_config` of a token session refuses, as a bare `ValidationError`, an address whose
  scheme is in capitals, which `Config` takes (`_models/credentials.py:92`).
* A `Retry-After` of 0 is falsy and means the fallback; `close()` of a token session closes
  the session that the caller passed in, as its docstring says.
* After a refresh fails, every waiter behind it makes its own full round of attempts.
* `get_settings` shows the refresh threshold through `int()`: for `inf`, which `Config`
  accepts, it raises `OverflowError` outside every `try`. The same conversion of object
  ids in `_models/responses.py` can overflow.
* A `get_settings` that fails leaves the `Config` it read in the cache of `get_config`;
  edits between the two reads make a `Settings` of two environments.
* The alias of the refresh threshold sets an inert knob and does not bring the warning
  that the new name brings.
* A permissive parse drops a whole item of a list for one badly typed member of it.
* Unique values, statistics and object ids do not look at `exceededTransferLimit`.
* After overlapping crawls `services` and `report` of a `Directory` may be of different
  crawls, and a base that failed is cached as an empty list.

## What is proved

All proofs are for every value of the constants allowed by the named assumptions
of the modules (`SessionAssumption`, `StreamAssumption`, `PaginationAssumption`, `ResilienceAssumption`,
`CrawlAssumption`, `LayerAssumption`, `DirectoryAssumption`, `ConfigAssumption`,
`RequestsAssumption`: counts are natural numbers and positive where the code needs it,
sets of services, layers and tasks are finite where they are counted, a service is
listed once, values that stand for "none" are not values of the other kind, and the
defaults of the configuration are valid). The behaviour of the asyncio primitives is
part of the model. Every safety invariant and action
property of a passing run has its theorem; so have both refinements. Two modules prove
two components each: `Crawl_proofs` also `Directory`, `Requests_proofs` also
`Resilience`.

**TokenSession_proofs** - any number of tasks and tokens. `ReplacedTokenWasSpent`
is not inductive: that a token is spent when its successor arrives follows only
from what the refreshing task knew when it took the lock. `TaskInv` says what a
task knows at each await: how its snapshot and the token it sent compare with the
session's, and, while it refreshes, that the token is missing or aged, or is still
the one rejected. That knowledge survives the other tasks' steps only because no
other task can replace the token meanwhile, which is `SingleFlight`. From the
conjunction follow `TypeOK`, `SingleFlight`, `ReplacedTokenWasSpent`,
`RefreshIsNeeded`, `RetryBearsNewToken`, `ExpiredMeansTwoRejections`,
`AnonymousFailsOnlyWhenRejected`, and `ImplementsLifecycle`: every step of the
session is a step of `TokenLifecycle` or changes nothing it sees.

**Paging_proofs** - any total, page size, cap and depth. `WindowsShareRows`: every row is
in exactly one window of a plan, and a window is for at most a page. `BisectCovers`: the
sub-requests that replace a truncated page are consecutive, for at most `Cap` ids each, and
together for the page's ids; `BisectionIsExact` is what follows for one id.
`CapChunks` is a recursive function, so both that there is such a function (`ChunksExist`)
and what it yields (`ChunksCover`) need an induction on the length of an interval. The
library's induction theorems take an operator, which the provers cannot instantiate; its
minimal-element theorem (`WFMin`) takes sets, so the arguments go by least
counterexample: the intervals for which a chunking is wrong are a set, and a shortest one
of them has right halves. The function itself is put together from approximations
that are right on all intervals up to a length.

**PageStream_proofs** - any number of rows, page size, window and depth.
`TasksAreKept` and `RequestOrder`. A bound on what is in flight is not inductive: it
follows from how many tasks were ever made. `PrefixInv` says that the tasks made are
always those of the first batches, so that submitting n more adds at most n;
`WindowInv` that at most a window of them has not been awaited. `OrderInv` says that
a stream in request order has awaited exactly the batches up to the one it resolved
last, so that the next one it takes up is the next of the plan. All steps that
stop the generator share one lemma (`StopStep`), and so do the three ways to await
(`TakeStep`).

`EveryRowOnce`, which is about the rows, has an invariant of its own, `RowsInv`, on top of
that one. It keeps books: at any moment each row is delivered or `Owed`, and what is owed
are the rows of batches nobody has resolved and what is left of the batch being split.
Delivered at least once is said of the rows not owed, delivered never of those owed.
`EveryRowOnce` alone is not inductive: that the end owes nothing takes `FullInv` (a stream
that has awaited everything it submitted has submitted all) and `WindowsShareRows` (rows are
in a batch, and in one only). `HandInv` says that what waits to be resolved is no batch
twice, which for completion order rests on `ArrivalInv`: tasks end once. `SplitInv` says
that the sub-requests left cover the rest of the batch; a sub-request that is
truncated again is replaced by its halves, and `BisectCovers` keeps the cover. `TypesHold`
needs `SplitInv` too, since that `todo` holds sub-requests is what a bisection computes.

`StreamImplementsDelivery` is the refinement: every step of a stream is a step of
`RowDelivery` or one its consumer does not see. The books of `RowsInv` give most of it. A page
that is in order must begin right behind what has come: `TailInv` says that in request order the
rows owed are the last ones of the query, and follows from `OrderInv` (the batches resolved
are the first ones), `SplitInv` (a split batch owes its end) and `WindowsInOrder` (later
batches have later rows). What a page leaves out between itself and the rows before it
would be owed afterwards, so the same invariant, of the state after the step, excludes it.
`PagesComeInOrder` (`RequestOrder`) says of the pages what this says of the rows; it is
proved and in no run.

**Pagination_proofs** - any layer, limits, page sizes and factors, and any edits.
`RowsAreReadOnce` and `PlannedPagesFit` speak of the end of a read; the invariant ties what
has been read so far to the plan. `Planned` says what the plan is: one page, the windows of
the count, or named pages that share no row and have every row there has been since the
count. `WholeGot`, `SlicedGot` and `NamedGot` say, for each of these, which rows the batches
answered so far have brought: a row of a batch that is still out has not been read. For
slices that needs what the service's offset means when rows come: `RanksOfThePrefix` shows that,
while nothing is deleted, the rank of an old row is its id, because new rows sort
behind the old ones, so that a slice is the window it was planned as. For named pages deletions do no harm, as
a page names rows and not ranks; but a page brings all its rows only when it is `Uncut`,
because it is for at most maxRecordCount of them. `CountInv` (nobody edits before the count) ties
`counted` to `snapshot`. `PlannedPagesFit` needs `PageSizeFits`, a fact about the rounding
of the page factor, and that a window has at most a page of rows.

**Requests_proofs**, on `Resilience` - any number of requests, services, limits and times.
The invariant (`SessionInv`) says, beside the types, that the registry holds exactly what the
last 429 asked for (`RegistryInv`: no waiter clears a deadline that has not
passed), that a request in its cooldown sleep sleeps at least as long as the
deadline it found, and no less than the registry's as long as nobody has set a new
one (`WaiterInv`), and that each request sent in this tick has left its token in
the bucket (`BucketInv`). `DeadlineIsWaitedOut` alone is about one step and knows
nothing of the sleep before it; `RegistryInv` fails to be inductive without
`WaiterInv`, since a waiter that wakes clears what it finds.

**Crawl_proofs**, on `Crawl` - any directory, any number of slots. `CapIsGlobal` is a sum of
cardinalities; its proof needs `StageInv`: a layer has no task before its service
answered, so that the fan-out takes no request away, and no service asks while
places are asked. `EveryServiceAccounted` speaks of the end; what leads there is
`ErrorsInv` (errors are distinct, name only places already passed and services
that failed) and `ListingInv` (a service is unknown only while its place is still
to come, or because its folder is in the errors). That places and services are
told apart in the errors is where `CrawlAssumption` is used.

**Crawl_proofs**, on `Directory` - any number of tasks, services and crawls. That crawls made in
turn agree is not inductive: an answer could overwrite what another crawl has just
stored. `TurnsInv` says why it does not: without overlap one crawl is out at most, and
it was started because its cache was empty, which it still is. `ShownInv` says that
every attribute shows a report that was returned, and that a cache is empty only as
long as no crawl that fills it has returned, on which the filters rely; `BoundInv` that
reports are numbered by how many there have been; `PrepInv` is about `from_url`.

**FeatureLayer_proofs** - any number of tasks, rows, filters, layers and n.
`CacheIsClean` is inductive only with `OwnFrames`: no task holds a frame that lives
in a slot, for which `LayerAssumption` keeps tasks and slots apart. `RefinementsHold`
needs `HonestLayers`, also for layers still being made, and `AnswersSelected`; both
rest on the lemma `RefinedClause`, which says what joining two texts selects and that
an OR in either stays in the result. `SampleIsSmall` follows a sample from the ids to
the frame (`SamplesAreSmall`). `MissesSettle` proves the action property
`CacheSettles`.

**Configuration_proofs** - any fields, aliases, texts and environments. `ConfigInv`
says what a cached `Config` is: the resolution of an environment since the last
reset, whose warnings have been heard. `SettingsInv` says that a cached `Settings` was
made of that `Config`, which is therefore cached too. `WarningsAreGiven` rests
on lemmas about one resolution (`WarnedOfResolved`: one that succeeds has come to the end of
its warnings), `ReadersAgree` is proved case by case of the kind of
field; both need that a shadowed variable counts for nothing.

**Requests_proofs**, on `Requests` - any tasks, calls, answers, sessions, URL limit and attempts.
`RequestsAreSound` follows from what `Wire` is for every call and session, so the
lemmas about it do not mention states. `TriesInv` counts the attempts. `GivenInv` ties an
outcome to the parse it came from, and says that all of its drift has been seen; with
`DriftLoggedOnce`, what has been seen is in the log once, and so `DriftIsOnRecord` holds
also when another task was the first to meet the drift.
`PatienceIsBounded`, which is in no run, is proved too.

### Only model-checked

The six liveness properties, `EveryCallEnds` (of `TokenSession` and of `Requests`),
`StreamEnds`, `EveryRequestEnds`, `CrawlReturns` and `SlotsComeBack`: temporal reasoning with
fairness and ENABLED is beyond the provers used. The properties of the three runs that
end with a counterexample are false, and so are those listed under Findings as in no run.

## Not modelled, and why

* Telemetry, logging, errors, compatibility shims, adapters, repository scripts:
  observation and conversion, no decision that the rest depends on.
* GeoDataFrame assembly, geometry, the shape of statistics tables, normalised features:
  data handling of pandas objects without a state of its own.
* `FeatureLayer.prep`, field validation, the `count` attribute and `get_df`: single
  requests whose answers nothing else in the object waits for.
* `QueryOptions` and `FieldSetDriftObserver`: nothing in the library uses them.
* Ownership of `aiohttp` sessions, `enabled=False` of the resilience layer, expiry
  arithmetic and the length of a back-off: abstracted, as the modules say.

## Plan

Done: all of the above. What could come next, most useful first:

1. A request through a token session over a resilient one, which would compose
   `TokenSession` and `Resilience`: how often one call can be sent when a 498, a 429 and
   a timeout meet, since a timeout of the library is also Python's `TimeoutError` and
   is tried again at both levels.
2. Ownership and closing of sessions, by `get_gdf` and by `ArcGISTokenSession.close`.
3. `FeatureLayer.prep` and the unprepared `where`.
