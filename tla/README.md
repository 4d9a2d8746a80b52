# LogiSense in TLA+

LogiSense is a multi-tenant logistics platform: a NestJS API (`src/apps/api`,
MySQL through Prisma, Redis, BullMQ, Socket.IO, S3-compatible storage) and a
Next.js application (`src/apps/web`). This directory specifies the parts whose
correctness depends on the order of events: what TLC checks on small instances,
what TLAPS proves for every value of the constants, and what is left.

## 1. Inventory

| component | state | operations | talks to | what makes it correct |
|---|---|---|---|---|
| Freight quotes (`freight-quotes/`) | `FreightQuote` and `FreightQuoteOption` rows; a BullMQ job per quote | create, findOne, findAll, update, remove; `process`, `generateOptions`, `onFailed`, `emitCurrentState` | Prisma, BullMQ, carriers, gateway, audit | options complete before DONE; a job concludes once; failures become visible; removals are audited |
| Realtime gateway (`realtime/`) | one room per tenant | handleConnection, emitFreightQuoteUpdated | worker, browser | joined sockets hear of every announcement |
| New quote page (`web …/freight-quotes/new`) | shown quote, error, `settled`, `cancelled`; the form's numbers | submit, GET, socket events, timeout, the effect and its clean-up | API, gateway | shows only results that were reached, of the newest quote; a wait ends; numbers arrive as they were typed |
| Freight pricing (`freight-pricing.util.ts`) | none | `computeFreightOption` | worker | agrees with the tariff, monotone, rounded once |
| Resilient HTTP client (`integrations/common`) | circuit breaker and rate limiter per integration, in memory | `fetchJson` | ViaCEP, BrasilAPI | the circuit opens for the right reasons; calls are spaced; every call ends and reports |
| Accounts (`auth/`) | users, backup codes, OAuth accounts; Redis: counters of failed logins, exchange codes | register, login, social login and its exchange, second factor set-up, enabling, verification, disabling | Prisma, Redis, pages | a limit on guesses that ends; one tenant per slug and account; a code works once; an enabled factor can be passed |
| Tokens, web session (`auth/`, `web/lib`) | refresh-token rows; access and refresh token, user | `apiFetchWithRefresh`, single-flight refresh, refresh, logout, functions of `auth-context.tsx` | API | no spurious logout; one valid refresh token per login; a stuck refresh blocks nobody |
| Tenant scope (`prisma/`, `tenant/`) | AsyncLocalStorage context | every query of a tenant model | all services | a tenant sees and writes only its own rows |
| Carriers, clients, attachments, webhooks, audit | rows with `deletedAt`, objects in the bucket, audit rows | create, findAll, findOne, update, remove, upload, download, events; the interceptor of mutations | Prisma, storage | no row without object, no change without trace |
| Insights (`insights/`) | a snapshot per tenant and day, a queue | daily job, `triggerAggregation`, trend | quotes | the trend shows the day's figures |
| Dashboard (`dashboard/`, `web …/dashboard`) | a Redis key per tenant; the page's metrics, interval, hover | getMetrics, loads, charts | quotes, Redis | the page catches up; the charts tell the truth |
| List pages (`web …/carriers`, `…/clients`) | list, error, the tab's copy of the session | load, effect, redirect | API, localStorage | the newest load is shown; nobody is sent to /login without a reason |
| CEP search (`components/cep-search.tsx`, `integrations/viacep`) | fields, results, error | search, select | `fetchJson` | results are of the last search; a failure is not "not found" |
| Forms (contact, login, register, code), leads | fields, `isSubmitting`, error; a row each, or an mfaToken | submit | API, router | a row is stored as often as it is meant; nobody is led inside without one; the form can be used again |
| CNPJ lookup, health, metrics, logging, tracing, configuration, marketing pages | none of interest | | | see section 7 |

Hard behaviours: the POST handler, the worker, the `failed` listener and the
PATCH/DELETE handlers work on one row at the same time; nearly every handler
reads, awaits and writes back without a transaction; any MySQL, Redis or S3 call
may fail; the process may stop, while rows, keys and jobs survive; BullMQ hands a
stalled job out again; events are sent once, to the sockets that are in the
room; a page's requests, socket, timers and effects run in any order, and tabs
share localStorage; calls of an external API share a breaker and a limiter in
memory. `PROJECT.json` lists each hazard at its line.

## 2. Modules

| module | models | remark |
|---|---|---|
| `FreightQuotes` | the quote's whole life in the backend of one tenant | the core; one action per stretch of code between two awaits |
| `QuoteOutcome` | what the calculation promises, without workers, queues or failures | abstract specification |
| `QuoteRefinement` | the mapping from `FreightQuotes` to `QuoteOutcome` | `KeepsPromise` |
| `QuoteScreen` | page and gateway, composed with `FreightQuotes` | every backend action also says what the page's side of the network sees |
| `Pricing` | `freight-pricing.util.ts` as integer operators | checked by ASSUMEs over samples, proved for every input |
| `Integrations` | `fetchJson`, breaker, limiter | time in ticks |
| `WebSession` | one tab's calls and session, with the handlers of refresh and logout in the API | pairs of tokens are numbers |
| `TokenRotation` | what the rotation of refresh tokens promises, without calls, requests or handlers | abstract specification; `WebSession` has the mapping, `KeepsRotation` |
| `LoginLockout`, `SignUp`, `Dashboard` | counters of failed logins; registration, social login, exchange codes; metrics and their page | each with its keys in Redis |
| `RedisKeys` | the three of them | composition |
| `SecondFactor`, `Records`, `Reports` | a user's second factor in several tabs; the rows of several tenants; the daily figures | read, await, write |
| `TenantView` | what one tenant can tell of `Records`: `Records` again, with that tenant alone | the mapping; `TenantsAreApart` |
| `TableRows` | the three of them | composition |
| `QuotePage`, `QuoteNumbers` | the new quote page over several quotes and tokens; its numbers from form to option | |
| `CepSearch`, `ListPages`, `MetricsChart`, `Forms` | the widget, the list pages, the dashboard's trend and charts, the forms | |
| `TenantSlug` | the slug of the form "register" | operators, checked by ASSUMEs |
| `Pages` | the six pages | composition |
| `…Proofs` (eight modules) | theorems | section 5 |
| `MC…` | instances for TLC | |

`RedisKeys`, `TableRows` and `Pages` put side by side parts that share no key, no
table, no request and no component state. Steps of different parts then commute,
and no property speaks of two of them, so a behaviour shows one part at work,
chosen at the start; the others keep their initial state. The parts that do
interact are composed step by step: `QuoteScreen` with `FreightQuotes`, and the
handlers of refresh and logout inside `WebSession`.

### FreightQuotes

State and code: `status`, `deleted`, `options`, `audit` and `carriers` are the
rows (`schema.prisma`); `job` and `stalls` are what BullMQ keeps in Redis;
`creating`, `run`, `failing`, `patch`, `removing` and `auditing` are the program
counters and locals of code in progress, named after what it does next;
`announced` is the last status sent to the room. `found` is the local
`carriers` of the last run. `attempts` and `patched` are history variables.

* POST: `CreateRow`, `Enqueue`, `Reply` (the final `findOne`), or `CreateThrows`.
* Worker: `TakeJob`, then `ReadQuote`, `MarkProcessing`, `ReadCarriers`,
  `CreateOptions` (skipped without carriers), `MarkDone`, `Emit`, and `Complete`;
  or `RunThrows` at any await and `Fail`, which starts the listener.
* Listener: `OnFailedMark`, `OnFailedEmit`, or `OnFailedThrows`. BullMQ does not
  await it, so it runs beside the next job.
* BullMQ (external): one run slot (concurrency 1, one API process), `LoseAck` (Redis does not
  record the end of a run), `StalledCheck` (a job that is active but whose run
  vanished waits again), `FailStalledJob` (one that stalled more often than
  `maxStalledCount`, 1 by default, fails without another call of `process`).
  The code sets nothing but `attempts: 1`.
* PATCH and DELETE: `findOne`, then the writes, in separate actions.
* `ToggleCarrier`: the active carriers change.
* `Crash`: handlers, run and listener are lost, rows and jobs stay. All requests
  of the process end without an answer.

Failed calls: `RunThrows` and its kin are calls that had no effect; a call that
took effect before its answer was lost is the step followed by a failure at the
next one. Addresses, weights and prices are abstracted away (`QuoteNumbers` and
`Pricing` have them), and so is the case of a PATCH without a status.

### QuoteScreen

One submission on one page. The page starts a GET, a socket and a timeout when
the POST is answered; each of the three may answer first. `wire` holds events
emitted to the joined socket and not yet handled. A crash cuts the socket (it
reconnects), fails the GET and may lose events. `AuthMayFail` lets the API refuse
the token, on the GET, on the socket, or on both.

### Integrations

`state`, `failures`, `open` are the breaker, `idle` is the limiter's
`lastRequestAt`, both as ages in ticks, which stop growing where the comparison
with `Date.now()` no longer changes. `pc`, `attempt`, `sleep` are a call's place
in `fetchJson`. `apart` is history. A request's 5xx, network error and abort are
one action, as the code treats them alike; a body that cannot be read is another,
because the breaker was told of a success by then.

### WebSession

A *pair* is an access token and the refresh token issued with it. `token` and
`login` are the `RefreshToken` rows (`login` is history: the pair a chain of
rotations began with), `session` is `session-store.ts`, `pc`, `kind`, `sent`,
`current` are a call in `apiFetchWithRefresh` and the function of
`auth-context.tsx` that made it, `refreshPromise` is the shared promise, `request`
and `carried` are the requests to `/auth/refresh`.

* Calls: `Request` or `SignIn`; `Served`, `Unauthorized` (an expired token, or a
  wrong MFA code, which the API also answers with 401) or `CallFails`; `Return`,
  which stores what the function stores.
* `refreshAccessToken`: `StartRefresh`, `JoinRefresh`, `NoRefresh`;
  `RefreshAnswered` and `RefreshRead` are the two awaits, `RefreshRefused`,
  `RefreshAborted`, `RefreshBodyLost` the other ends. The calls that share the
  promise go on in the step that settles it, as microtasks do.
* `AuthService.refresh`: `Lookup`, `Revoke`, `IssueFresh`, or `HandlerFails`; it
  goes on after the tab gave up. A lapsed refresh token is a refusal that may
  happen at any time.
* `Reload`: the calls and the promise are gone, localStorage is not.

A sign-in whose answer is lost leaves a pair nobody holds, which is left out, as
are `setupMfa` (a page's call like any other) and a second tab (`ListPages` has
it).

### LoginLockout, SignUp, Dashboard

`LoginLockout`: `fails` and `timed` are the keys and their expiry; `login`,
`keys`, `pending`, `fresh` are a login between its awaits. `Check` is
`isLoginLocked` for the IP and then for the e-mail; a rejected login counts under
both keys (`Count`, the INCR) and then sets the expiry of those it created
(`StartWindow`); an accepted one deletes both. `RedisFails` and `ApiStops` cut any
of it short.

`SignUp`: `FindsSlug` or `FindsAccount`, then `Creates`, the transaction, in which
a unique key decides between two that found it free. A social login ends with a
code in Redis (`IsAnswered`), which the page `/oauth/callback` exchanges:
`GetsCode` and `DeletesCode` are two calls.

`Dashboard`: `truth` numbers the contents of the tables. A load is sent by the
effect or the interval (`Opens`, `IntervalFires`, `TokenRotates`), looks at the
cache, reads one table after the other if there is none, writes the cache and
answers; `mine` is `~cancelled`.

### SecondFactor, Records, Reports

`SecondFactor`: each handler reads the user (`Reads`) and then works on `copy`:
`VerifiedByApp`, `VerifiedByBackupCode`, `SetUp`, `Enable`, `Disable`. The tabs are
the pages that call them, with the two clicks the security page allows.
`BackupCodeOnce` and `EnabledFactorIsConfirmed` name what they exclude with
`stale` and `crossed`.

`Records`: a request has an operation and the step it is at. `Scoped` is
`applyTenantScope`, `Existing` adds the soft deletion. Rows of carriers and
clients, objects and attachment rows, and the three ways audit rows are written:
by removals, by the interceptor after the answer, and by webhook events. `objects`
says in whose folder of the bucket the object of a file lies (`storageKey`,
`attachments.service.ts:92`); failures are counted tenant by tenant, so the
properties of files and traces excuse nothing by what failed for somebody else.

`TenantView` is what isolation comes to. Any tenant is the `Observer`; rows, objects,
audit rows, requests and failures of the others are taken out of the state, and what
is left has to be a behaviour of `Records` with the observer as its only tenant
(`TenantsAreApart`). A query that returns, changes or marks a row of another tenant,
and a handler that goes another way because of one, would show as a step that the
system alone has not. What only data decides (a document that is taken) is a refusal
that may come at any time, in the system alone too.

`Reports`: a quote's day changes at any time; a job is processed tenant by tenant,
each with one read per figure and then the upsert; `TrendPoint` is what `getTrend`
shows: the snapshot, or today's live figures.

### The pages

`QuotePage` has React's rules: an effect runs some time after the render that
changed what it depends on, its clean-up just before, and a handler that sets
state first lets an effect that is due run (`Flush`). `quoteEffect` is the current
run with its GET, socket and timer, `lateGets` the GETs of runs that are cleaned up.

`QuoteNumbers` follows a weight (which stands for the dimensions) and a value, in
tenths of what a column holds: `Converted` in the page, `Valid` in the DTO,
`ToColumn` in MySQL, `WorkerReads`, `RowPatched`, `OptionPriced`.

`CepSearch`: a search per call of `handleSearch`; Enter does not wait for the one
before. `SearchByAddress` is the service's mapping of what ViaCEP says.

`ListPages`: `stored` is localStorage, `snapshot` a tab's copy of it, `load` the
load of the mounted effect, `lateLists` the answers to earlier ones.

`MetricsChart`: `StartsMetrics`, `ReadsRecent` and `Draws` are the two looks at the
clock and the query between them; `Nearest`, `Across`, `Down`, `BarEnd` and their
kin are the charts' arithmetic, multiplied by what the code divides by.

`Forms`: `request` is where a submission is, `formAt` whether the form thanked or
is being left and `leads` where the last `router.push` leads. The API stores a row
(`Stores`), refuses, or, for a login of an account with a second factor, stores
nothing and answers with an mfaToken (`Challenges`), with which the form leads to
the code page instead of inside; whether an account has one is open.

## 3. Runs

| run | checks | bounds | result |
|---|---|---|---|
| `quotes` | what row, options, job and room may show; that the service keeps `QuoteOutcome`'s promise | 1 quote, 2 carriers, 2 DELETEs, PATCH to DONE, 1 toggle, 2 failed calls, 1 crash | hold, about 560 000 states |
| `quotes_live` | `EnqueuedJobConcludes`, `QuoteSettles` | 2 quotes, 1 carrier, 1 failed call, 1 crash | hold |
| `quotes_duplicate` | `NoDuplicateOptions` | 1 crash | violated, finding 1 |
| `quote_screen` | what the page shows; when it settles | 1 quote, 1 failed call, 1 crash, refused tokens | hold |
| `screen_stuck` | `ScreenNeverStuck` | no failure at all | violated, finding 2 |
| `integrations` | spacing, what opens the circuit, that every call ends and reports | 3 calls of one integration, 2 attempts, threshold 2, cooldown 2, interval 2, backoff 1 | hold, about 85 000 states |
| `web_session` | `NoStaleRefresh`, `OneValidPerLogin`; that the session keeps `TokenRotation`'s promise | 2 calls, 3 pairs, 2 refreshes | hold, about 1 800 000 states |
| `web_session_live` | `EveryCallReturns` | 2 calls, 2 pairs, 1 refresh, wrong MFA codes | holds |
| `web_session_spurious` | `NoSpuriousLogout` | 1 call, 2 pairs, 2 refreshes | violated, finding 3 |
| `redis_keys` | guesses and their lock, one tenant per key, spent codes, a dashboard that catches up | 2 logins, 1 IP, 2 e-mails, limit 2, 1 failure; 3 sign-ups for 1 slug and 1 account, 2 exchanges; 2 loads, 2 tables, 1 change each, 1 rotation, 1 failure | hold, about 200 000 states |
| `table_rows` | backup codes, enabled factors, tenants, files, traces, that a tenant cannot tell the other, the trend | 2 tabs, 2 codes, 2 secrets, 2 sets; 2 requests, 2 tenants, 1 signer, 1 carrier, 1 client, 1 file, any two of the three at once, 1 failure of one of the tenants; 2 companies, 2 days, 1 quote a day, 1 failure | hold, about 480 000 states |
| `pages` | which quote, list, results, tooltip and error the pages show; numbers passed on; rows stored; that nothing spins for ever | 2 quotes, 2 tokens, 1 loss; 6 weights, 4 values, 2 PATCHes; 2 searches; 2 tabs, 2 pairs, 1 change; 3 days, 2 shown; 4 forms, 4 submissions, 2 lost answers | hold, about 320 000 states |

Two runs also evaluate checks over sampled inputs, as ASSUMEs of the modules they
extend: `quotes` those of `Pricing` (`DistanceIsRight`,
`OptionIsRight`), and `pages` those of `TenantSlug`
(`NameGivesSlug`, `KeystrokesCount`, over every text of up to four characters of
five kinds) and of `MetricsChart` (`SampledChartsFit`).

Why the bounds are enough. Quotes interact only through the run slot, so safety
takes one and the competition for the slot two; the proofs cover any number.
Two carriers are the least for a set that is neither empty nor everything; one
toggle moves a carrier in or out between the read and the insertion. One crash
and one failed call together reach the second stall, hence `FailStalledJob`; a
run that fails and whose listener fails takes two failed calls. Two DELETEs race
each other. A PATCH to DONE is the one that could be mistaken for a calculated
quote.

Three calls and a threshold of two let a call report to a circuit that two others
opened, closed or half-opened meanwhile. Integrations share nothing, so one
stands for each.

Two calls share a refresh, or start one after the other; two refreshes are the
least that can present one token twice, and three pairs allow both and a
sign-in, or a refresh of a refreshed session. Calls are alike, so `web_session`
uses their symmetry (it checks no liveness), and it stops at states in which an
answer was lost or an older session restored, of which its properties say
nothing. `Uses` says which functions a run calls: MFA changes with a wrong code
are in the live run, page calls and logouts in both; the proofs take all.

Two logins under one IP and different e-mails share one counter and not the
other, and with a limit of two one of them reaches it while the other is past its
check. Of three sign-ups two race for one key and the third finds it taken. Two
exchanges present one code. Two loads overtake each other, and one rotation
leaves a load of an effect that is gone.

Two tabs change one user's factor against each other; two secrets and two sets of
codes are the least for an older one. `table_rows` stops at states in which both kinds
of crossing happened, where neither property of the factor says anything, all three
rows exist, or both tenants had a failure (`Watched`), and uses the symmetry of tabs,
codes, requests, and of a carrier and a client, which have the same handlers. Two
requests, of the same or of two tenants, meet on one row or one file; the observer is
one of them, and what holds of either is proved. Two companies have quotes on
different days, so that figures of the wrong tenant or day are wrong figures.

Two submissions leave an earlier quote with late answers, two tokens a run of the
effect that is cleaned up; what a quote comes to makes no difference there. The
numbers sit on either side of each rounding and limit. Two searches overlap; two
tabs use the same pair of tokens; one midnight falls between any two steps; the
pointers are the ends of the trend and either side of its middle; four submissions
repeat a form after a lost answer and while it is being left, with either outcome of a
login.

The history variable `patched` of `FreightQuotes` marks quotes whose status a PATCH
wrote: what the background code guarantees of the status is stated for the others.

### Findings

1. `attempts: 1` does not keep a job from being run twice: BullMQ's stalled
   check is not governed by it. After a crash between `createMany` and the end of
   the run every carrier appears twice (ADR-006 chose `attempts: 1` to avoid just
   that). What does hold is `OptionsBoundedByAttempts`.
2. The new quote page can spin for ever with nothing failing: its GET
   marks the page settled even when it answers PENDING, which disarms the timeout.
   `PageSettles` says when it does settle.
3. `enableMfa` and `disableMfa` store `...current`, the session as it was before
   their call. When that call, or another one meanwhile, refreshed the session,
   they put the used refresh token back and the next refresh ends the session.
   `NoStaleRefresh` is what holds apart from that and from lost answers.

Smaller divergences and consequences met on the way, which no run is about:

* Quotes. A failed job's quote stays in PROCESSING when the listener's update
  fails or is lost (`docs/DECISIONS.md:299-301` says it reflects ERROR); with one
  failed call it does show ERROR (`SingleFaultIsReported`). PROCESSING is never
  announced, though the processor's comment says every transition is. A PATCH
  after the worker read the row leaves options of the old numbers.
* New quote page. The timeout, a refused GET or a socket error of the quote before
  may set the message after a new submission reset it (`page.tsx:137`), so that it
  stands beside the new quote. A resubmission whose POST fails leaves the earlier
  quote on the page. A stale GET may put a concluded quote back to PENDING.
* Numbers. The form accepts a 0 that the API refuses; a value below half a cent is
  accepted and stored as 0.00; numbers beyond a column's limit give a 500, or a
  quote in ERROR that "Tente novamente" cannot repair.
* Integrations. The limiter spaces sequential requests only, as concurrent callers
  wake together (`docs/DECISIONS.md:525-526`, `rate-limiter.ts:14`); HALF_OPEN
  admits any number of calls; a late success closes an OPEN circuit early.
* Session. A logout that had to refresh sends the old refresh token again, so the
  new one stays valid; a refresh in flight stores a session again after a logout;
  two tabs that share a session sign each other out; the timeout of a refresh is
  cleared before its body is read.
* Accounts. Two overlapping requests may use the same backup code or exchange code
  (`docs/DECISIONS.md:1217-1220`, `1251-1253`); `setupMfa` on an enabled factor, or
  a second click on "Habilitar MFA", may leave a secret no authenticator knows.
* Records and reports. An object left by a failed removal cannot be removed again
  (404); a webhook that is delivered twice is recorded twice; a day that lost all
  its quotes keeps its old snapshot, and a daily job that runs late skips its day
  (`insights-aggregation.processor.ts:16`); a snapshot's figures may contradict
  each other, as each is a query of its own.
* Other pages. Enter starts a search beside another one, whose older results may be
  shown and end "Buscando..."; a registration whose answer was lost meets its own
  slug (409) for ever; a form can be used again before the page it leads to is
  there.

## 4. Fairness

Weak fairness only, and only for what something keeps trying.

* `FreightQuotes`, `QuoteScreen`: a handler or listener that started goes on
  (Node.js resumes an await once it is answered, and every call is answered or
  fails), BullMQ polls for waiting and for stalled jobs, the gateway answers a
  handshake, the browser handles answers, events and timers. A failure may
  pre-empt any step, bounded by `MaxFaults` and `MaxCrashes`.
* `Integrations`: time passes, and a fetch ends because it is aborted.
* `WebSession`: nothing is assumed of the handler of `/auth/refresh`, which may
  never answer: the tab's timer ends the wait. A body that began to arrive is
  assumed to arrive or to break off, as no timer is left for it.
* `LockoutFairness`, `DashboardFairness`: handlers go on, keys of Redis expire, the
  page's interval fires while it is open.
* `QuotePageFairness`: React runs an effect that is due, and the browser a timer.
  Nothing is asked of the API or the gateway: that a new token ends the wait rests
  on the timer of the run it starts.
* `ListFairness`, `CepFairness`, `FormsFairness`: an open tab goes on, a call is
  answered or fails, the router ends a navigation.

Nothing is assumed of users, other clients, failures or crashes.

## 5. Proofs

Each proof goes the same way: the property is not inductive, a strengthening of it
is, and the theorem is read off. The strengthenings are conjunctions of *books*,
each with a lemma that goes through the actions.

`FreightQuotesProofs`: `TypeOK` is inductive by itself. That an option count stays
below the attempts needs to know where the job is and how far its run came. The
strengthening is `Bookkeeping`, four books per quote:

* `JobBook`: where the job is, given its handlers, and attempts = stalls (+ 1 while
  active);
* `OptionBook`: a run before `createMany` has not used up its attempt;
* `StatusBook`: what the row and the room show at each step of the run;
* `FaultBook`: nothing fails without a cause, and one cause does not silence the
  listener.

`TypeCorrect`, `OptionsAreBounded`, `DoneIsQuoted`, `CompletedIsAnnounced`,
`ErrorIsFinal`, `SingleFaultReported`, `RemovalsAreAudited` and `ConclusionStands`
are read off them. Then `ServiceKeepsPromise`: initial states map to initial states,
every action to a step of `QuoteOutcome` or a stutter. The last part is about
`Pricing`, for every CEP, parcel and carrier: `DistancesAreRight` (the way back is as
long as the way there, and the kilometre nearest to the adjusted table's, as the
adjustment never leaves a whole kilometre) and `OptionsAreExact` (the first day on
which the carrier can be there, the cent nearest to the sum of the parts, and never
less for a parcel that is larger, more valuable or goes farther, which goes part by
part).

`QuoteScreenProofs`: the composition of page and backend. An answer or an event may
reach the page any time after the row was read, so what DONE and ERROR stand for must
outlive the row: `StandsStep` shows that no later step of the backend takes it back
(unless the status is PATCHed), `RowStep` that a row shows nothing else, and
`ScreenBook` that whatever is on its way to the page once was the row's status.
Theorems: `ScreenTypeCorrect`, `ShownResultStands`.

`IntegrationsProofs`: the invariant is `TypeOK`, `ClosedBelowThreshold`, `Paced`
(a sleeping call wakes up late enough) and `Counted` (a call in progress is at an
attempt, one that backs off has another). Theorems: `TypeCorrect`,
`ClosedIsBelowThreshold`, `SequentialRequestsAreSpaced`, `OpenedByExhaustion`.

`WebSessionProofs`: that no refresh presents a used token is not inductive, as it
takes to know that the session's pair is in nobody else's hands. The invariant is
`TypeOK` and `Custody`, three books: only issued pairs are held (`IssueBook`);
session, requests and sign-ins are in different chains of rotations, but for the
session and the refresh the shared promise awaits (`ChainBook`, which is where
dropping the session with an aborted refresh matters); what is valid between the
two writes of a refresh, and what was not used (`UseBook`). Theorems: `TypeCorrect`,
`PairsAreInCustody`, `RefreshesAreFresh`, `OneTokenIsValid`. That `TokenRotation` is
implemented takes another book, `LineBook`: pairs are issued in their order, a refresh
issues one after it revoked one (`IssueOrder`), and whoever holds a pair holds the
newest of its login, but for the tab while its own refresh is at work (`NewestBook`).
With it every action is a step of `TokenRotation` or a stutter (`RotationIsKept`).
`ValidPairsAreNewest` is proved of `TokenRotation` and carried over: a pair that can
be used is the newest of its login.

`RedisKeysProofs`: a step of the composition is a step of one part and changes
nothing of the others (`KeysStep`). `LockoutInv` adds `Counting` (who still counts
a failure, and under which keys) to `LockIsTemporary` and `GuessesBounded`;
`JoinInv` adds `SignUpBook` (a sign-up past its creation has its tenant) and
`CodeBook` (a code is made once and never returns after an answer). Theorems:
`LocksAreTemporary`, `GuessesAreBounded`, `KeysHaveOneTenant`, `CodesAreSpent`,
`KeysTypeCorrect`.

`TableRowsProofs`, of the second factor: `SetBook` (nobody holds a set that was not
generated) for `BackupCodesOpenOnce`; `SettingsBook` for
`EnabledFactorsAreConfirmed`: as long as no change of the settings crossed another,
one tab at a time is engaged in one, on a row that is as its page shows it. Of the
reports: `ReportsBook` (what the worker read is true while the day stays as it is)
for `TrendStaysExact`. Then `TablesTypeCorrect` and `TablesAreSafe`, that the
composition has all six properties at once, and `TablesKeepTenantsApart`, that the
refinement of `Records` survives it.

`RecordsProofs`: `RecordsBook` (what a request at each step has found, that two
uploads have different ids, that what is attached or removed exists, and that its
object, if there is one, is in its tenant's folder), `FilesBook` and `TraceBook` (an
object, or a row of the audit trail, is there, or a request of its tenant is about to
write it, or something failed for that tenant), for `RecordsStayInTenant`,
`FilesHaveObjects` and `ChangesAreAudited`. The last part is `TenantsWorkAlone`, for
every tenant as the observer. A step of the observer's request is the same step of
the system alone (`OwnHandler`, from one lemma per handler): it finds the same rows
(`OwnRows`), an id that is unused is unused there (`UnusedSeen`), and what it writes
is seen (`RowSeen`, `TraceSeen`). A step of another tenant's request is none
(`OtherHandler`): a request stays with its tenant, and by `RecordsBook` the row it
creates did not exist, the row it marks is its tenant's, and so is the object it puts
or drops. `RecordsBook` is an invariant of all tenants together: without it a removal
at its last write might drop the observer's object.

`PagesProofs`: a step of the pages is a step of one page (`PagesStep`), and each page
has a book of its own. `EffectBook`: before a quote is shown no effect runs, and none
takes another user's quote for its own (`OnlyNewerReplace`). `NumbersBook`: the row is
the POST's until a PATCH, the worker's copy the row's unless a PATCH came later
(`NumbersStayTrue`). `CepBook`: only the last of searches that do not overlap is not
taken, and until it is the widget shows nothing (`LastSearchIsShown`). `PairsBook` and
`LoadsBook`: the used pairs are those before the last one issued, no tab holds a pair
it used itself, and what is under way was sent with the tab's own pair
(`LoginHasAReason`, `NewestLoadShown`). `FormBook`: only the last submission is under
way (`LastUnderWay`), and until the form is answered there is no mfaToken but its own
and every row but its own is of a lost answer (`Counted`), so that it leads inside
for a row and to the code page for an mfaToken (`RowsStayMeant`). `ChartBook`: the clock only goes on, so the days the trend shows
are among those that were read; and the column under the pointer exists, as one of
finitely many is nearest (`LeastNatural`), so the tooltip tells of its day
(`TooltipIsOfItsDay`). What the types of the pages take beyond these books
(`NumbersRest`, `CepRest`, `ListRest`) is in `PagesTypeCorrect`. `EveryChartFits`, for
every set of statuses and whatever counts are found: bars, labels and points stay
inside the charts.

Assumptions: the named ones of the modules: bounds are naturals; a PATCH carries a
status; calls are of the kinds the code makes, and there is at least one pair;
thresholds are positive and the backoff `BaseDelay * 2 ^ n` is natural (arithmetic
that the provers have no facts for); the limits of the columns are positive; IPs and
e-mails, slugs and accounts, the ids of carriers, clients, files and tenants are kept
apart, as the code's keys and tables do. TLC evaluates them on each instance.

Proved, and not also a property of a run: `Bookkeeping`, `Custody`, `DoneMeansQuoted`,
`ErrorOnlyAfterFailure`, `ConclusionIsFinal`, `ClosedBelowThreshold`,
`LockIsTemporary`, `KeysTypeOK`, `TablesTypeOK`, `WebSession`'s `TypeOK` and
`ValidIsNewest`; of the operators, `DistancesAreRight`, `OptionsAreExact` and
`EveryChartFits`, which the runs evaluate on samples.

Only model-checked: all liveness (fairness and ENABLED are out of the prover's
reach), and the samples of `TenantSlug`: folds over texts take an induction the
installed provers cannot do.

## 6. Plan

The modules of section 2 are what was planned: first the quotes with their
promise and the page that waits for them, then the HTTP client and the session,
then what Redis and the database keep, then the other pages. What is left:

`WebSession` and `ListPages` in one module: several calls of several tabs on one
localStorage.

## 7. Not modelled

* Reads that return what a query finds and nothing else: the listing of quotes, of
  the audit trail and of attachments of a quote, the insights' carrier performance
  and exported report, the tiles of the dashboard.
* The CNPJ lookup beyond its call of `fetchJson`: the mapping of fields and of
  errors to statuses is formatting, and no page uses it.
* Audit rows of the authentication handlers, which nothing reads.
* Health, metrics, logging, tracing, configuration, Docker and CI files: wiring and
  I/O. The clients of Redis and Prisma: connections; their calls are atomic steps
  that may fail. Marketing pages: static, but for the contact form.
* MySQL, Redis, BullMQ, Socket.IO, S3 and the external APIs appear as what the code
  observes of them. Several API processes at once are not modelled: the deployment
  starts one.
* Floating-point error in prices and charts; cryptography, one-time passwords and
  signatures, which are verdicts.
