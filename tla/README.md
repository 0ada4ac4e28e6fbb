# Akash AI gateway: specification, model checking and proofs

TLA+ modules for the stateful parts of the gateway, TLC configurations that
check them on small instances, and TLAPS proofs of the most important results
for every value of the constants. Paths below are relative to the repository's
root (`src/services/...` is `src/src/services/...` in `PROJECT.json`).

## 1. The system

A FastAPI gateway (`src/main.py`, `src/api/routes.py`) in front of a simulated
AI provider. `Dockerfile` starts it with two uvicorn worker processes;
`docker-compose.yml` gives them one Redis, one volume for the RSA keys and one
for the logs and the cost ledger. Each worker is one asyncio event loop: code
between two `await`s is atomic within its worker, and nothing is atomic between
workers except one Redis command.

A chat request passes, in order: `enforce_ddos_guard` (Redis), the bearer
token (`get_current_user`, key files), `enforce_rate_limit` (Redis),
`mock_ai_circuit_breaker.call` (upstream or fallback), `cost_tracker.record_usage`
(memory and ledger file).

| Component | State | Operations | Interacts with | What is hard | What makes it correct |
|---|---|---|---|---|---|
| Circuit breaker, `services/circuit_breaker.py` | state, two counters, time of last failure, four metrics; per worker | `call`, `state` (a read that writes), `get_metrics`, `reset`, the two verdicts | routes, upstream, `/health`, `/metrics/dashboard` | calls overlap; verdicts arrive after the state changed; the OPEN to HALF_OPEN step happens only when somebody reads | the count explains the state; verdicts from before a trip decide nothing about the recovery; it always gets out of OPEN; it implements the three-state contract |
| Rate limiter, `middleware/rate_limiter.py` | a Redis hash per user and tier, shared; `_local_buckets` and `_redis_healthy` per worker | `check`, the Lua token bucket, the local bucket | Redis, routes, `/health` | commands overtake each other after their clock was read; lost replies; commands that outlive their check; expiry; restarts | a bound on what is admitted, shared and local; Redis refuses nobody for nothing |
| DDoS guard, same file | a counter and a block key per IP, shared; `_blocked_locally` (never written) | `inspect`: GET, EVAL, SETEX | Redis, routes | three awaits; late commands; fixed-window boundary | bounded burst; blocks and windows end; a block leaves no count behind |
| Cost tracker, `services/cost_tracker.py` | records and summary per worker; the ledger file, shared | `record_usage`, `_load_existing_ledger`, `get_summary` | routes, dashboard | memory before file; cut-off writes; two appenders; replay | summary = records; nothing billed twice; what an accident can lose is bounded |
| RSA key store, `core/security.py` | two files, shared | `ensure_keys_exist`, `_generate_rsa_keypair`, the two loaders | `lifespan`, tokens | check and write are not atomic; two workers; a kill between two writes | nobody serves without keys; keys are not replaced; undisturbed bootstraps leave keys that sign and verify |
| Access tokens, passwords, same file | none (the token is with the client) | issue, verify | key store | expiry at whole seconds | only tokens of this gateway are accepted |
| Request pipeline, `api/routes.py`, `main.py` | none of its own | login, chat, health, metrics, exception handlers | all of the above | a failure of one stage after another has taken effect | every request is answered; failures degrade to fallbacks, not errors; metrics and records tell of the same calls; `/health` follows an outage |
| Redis connection manager | one client per worker | `get_client`, `close` | limiter, guard | only event-loop replacement in tests | |
| Mock AI service, `services/mock_ai_service.py` | none | call, fallback | breaker | its time-out | |
| Event log, `core/logger.py` | one file and its backups, shared; a stream per worker | `log_...`, rotation | all | two processes rotate the same files; kills between two renames | the disk usage stays capped; a worker that logs alone keeps the latest events, less one file for each rotation that was cut short |
| Config, schemas | constants | declarations | all | | |
| Dashboard, `dashboard/app.py` | one cached reply | fetch, render | `/metrics/dashboard` | any worker answers; a reply is used for seconds; generated data when the fetch fails | the parts of a page agree; a live one never shows money that was not spent |

`PROJECT.json` lists the same parts with what is modelled of each, and under
`hazards` every place of the code where something hard to test can go wrong,
with the properties that watch it.

## 2. The modules

| Module | Models |
|---|---|
| `CircuitBreaker` | one breaker with overlapping calls; its properties |
| `BreakerContract` | the abstract state machine the breaker implements |
| `BreakerHistory` | `CircuitBreaker` with a record of the verdicts |
| `CircuitBreakerProofs` | theorems about `CircuitBreaker` and `BreakerHistory` |
| `RateLimiter` | the token bucket of one user, with the network and the pods |
| `RateMeter` | `RateLimiter` with a meter (auxiliary variables); its properties |
| `RateMeterProofs` | theorems about `RateMeter`: what it admits, what it refuses |
| `DdosGuard`, `DdosGuardProofs` | the volumetric guard of one client IP; theorems about it |
| `Pricing`, `CostLedger` | the price of a request; the ledger and its workers |
| `Dashboard` | the operators' page, on top of `CostLedger` |
| `CostLedgerProofs` | theorems about `CostLedger` and `Dashboard` |
| `EventLog`, `EventLogProofs` | the log file that the workers rotate; theorems about it |
| `KeyStore`, `KeyStoreProofs` | the keypair bootstrap; theorems about it |
| `Gateway`, `GatewayProofs` | the request pipeline around `CircuitBreaker`; theorems about it |
| `Totals`, `TotalProofs` | sums; theorems about induction, folds and sums that the others cite |
| `MCBreaker`, `MCRateMeter`, `MCCostLedger`, `MCEventLog` | values and symmetries for TLC |

Definitions whose name ends in `Slip` are deliberately wrong variants of the
definition that follows them. No specification uses them; each shows that some
property notices that bug.

### CircuitBreaker

An action is what the event loop runs between two suspensions. `call()`
suspends once, at `await func`; the lock is held only over code that does not
suspend and the fallback does not suspend either, so nothing else splits it.

| Code | Action |
|---|---|
| `call()` up to `await func`, not OPEN | `CallAdmitted(c)` |
| `call()` when OPEN, with or without a fallback | `ShortCircuit(fallback)` |
| `func` returned, `_record_success` | `Succeed(c)` = `CountTrial`, `Decay` or `IgnoreSuccess` |
| `func` raised, `_record_failure`, fallback | `Fail(c, fallback)` = `Reopens` or `CountFailure` |
| the `state` property, with its side effect | `ReadState`, inside the two above and `PollState` |
| `get_metrics()`, `GET /health` | `PollState` |
| `reset()` | `Reset` |
| the clock, and `wait_for` in the upstream | `Tick` |

`_last_failure_time` is kept as its age, which stops at `RecoveryTimeout`,
because the code only ever asks whether it is at least that. `failure_count`
stops at the threshold: above it the code only compares. Both are exact. The
metrics stop at `CountCap`, a bound; `MetricsAddUp` is stated below it.

`TrialIsolation` and `TrialsStartAlone` assume that a call is over before the
recovery timeout is (2.5 s and 30 s in `config.py`); the constants do not, and
the assumption is a conjunct of the properties.

### RateLimiter, RateMeter

A check reads its pod's clock and suspends in `await client.eval` (`Send`). The
EVAL then has a life of its own: Redis executes it atomically (`Execute`, the
Lua script), or never gets it (`Lose`). The check ends with the reply
(`Receive`) or, at any time before, with an error or a time-out (`Degrade`, the
local bucket). `Restart` is a pod that comes up with an empty memory. redis-py
5.0.6 does not retry a command by itself, so a check sends one.

Time is in ticks in which one unit is refilled; a token costs `Cost` units. An
absent local bucket is a full one in both the code and the model, since both
refill to the capacity.

`RateMeter` adds what the properties need and no guard reads: the stamp of the
first command, the sum of the backward steps of the stored timestamp
(`regress`), the log of executed commands and the tokens each local bucket gave
out. `FleetBound` states what the script really guarantees: capacity, plus what
the clocks refilled, plus `regress`.

### DdosGuard

`inspect()` is split at its three awaits: `ReadBlock`, `Count`, `SetBlock`, each
the command as Redis executes it together with what the code does with the
reply. `FailOpen` is an error or a time-out at any of them; the command may then
still be executed (`LateCommand`). Keys carry a countdown of their time to
live. `GuardAssumption` says that a block outlasts a window and the last command
of a request that raced with it (300 s against 10 s and 2 s per command); it is
what `FreshStart` rests on. INCR goes on above the threshold without limit; the model
counts up to `CountCap`, any bound above the threshold, where the code can no longer tell one
count from another. `recent` is auxiliary: how many requests passed in the last n
ticks, for every n below a window, which `BurstBounded` reads.

### CostLedger

The ledger file is a sequence of pieces. A complete write is a piece with its
newline; a write that is cut short leaves a fragment, or a whole record without
the newline, and the next append continues that line whoever makes it. `Parsed`
says which pieces the replay recognises, and `Replay` is what it finds. `RecordUsage`, `RecordFails`,
`CrashWriting` and `Crash` are the ways in which `record_usage` can end; a write that fails
leaves anything from nothing to the whole line (the close may raise). `Boot`
is `__init__` with the replay. Costs are whole micro-dollars; the rounding of a
half falls either way, because the binary value that Python rounds lies on
either side of it.

### Dashboard

Extends `CostLedger` with the one thing the page keeps, the cached reply.

| Code | Definition |
|---|---|
| `get_summary`, `get_recent_records` | `GetSummary(w)`, `GetRecentRecords(w)` |
| `GET /metrics/dashboard` | `DashboardMetrics(w)`, of whichever worker accepts the connection |
| `fetch_dashboard_data` with its `st.cache_data` | `Fetch`: a worker's reply, or `MockDataset` |
| the script that draws the page | `Page(data)`, made of `Sidebar`, `Spent`, `SpendByModel`, `BreakerCards`, `SpendByUser` and `LedgerTable`, functions of the cached data |

When a cached entry expires is left open, so that a page may be as old as one
likes. The total is rounded to four decimals, and a tie falls either way. What
is generated on every page, live or not (traffic, alert, threat log, requests
per minute), is left out.

### EventLog

`_build_logger` gives each worker a `RotatingFileHandler` for the same file. Its
lock is one process's, so that an action is one access to the directory
(`exists`, `remove`, `rename`, `open`) or one write, in the order of
`logging/handlers.py` of Python 3.11, the version of the image. That code is not
the repository's; it is marked external in the map. Files have an identity
apart from their names, because a worker goes on writing to the file it has
open after another has renamed or removed it.

| Code | Action |
|---|---|
| `_build_logger`, at import | `BuildLogger(w)` |
| a `log_...` function; the handler opens its stream if an earlier rotation failed | `Emit(w)` |
| `shouldRollover` with `maxBytes`, and the close of a full stream | `ShouldRollover(w)` |
| `doRollover` with `backupCount` | `FindSource(w)`, `FindTarget(w)`, `RemoveTarget(w)`, `RenameSource(w)`, `Open(w)`; the event is dropped when a remove or a rename raises |
| the line of `JsonFormatter` | `Write(w)` |
| a worker is killed | `Crash(w)` |

Lines have one length, so that `maxBytes` is a number of lines; like the code,
the model rotates when a line would reach the limit. A write is one line, never
a part of one. `writers` and `cuts` are auxiliary: who has logged, and how many rotations a
kill cut short, up to `BackupCount`.

### KeyStore

The code is synchronous, so one worker never interleaves with itself; two
workers do. An action is one access to one file, and `write_bytes` is two:
create or truncate, then fill. `Boot` (`lifespan`), `Sign` and `Verify` all run
`ensure_keys_exist` first (`CheckPrivate`, `CheckPublic`, and if a file is
missing `SetOut` and `OpenPrivate` to `WritePublic`), then read their file. `Crash` kills a
worker at any point; uvicorn's supervisor replaces it.

Two variables are auxiliary. `errors` says how requests with a good password or token have
failed because of the keys: 500 when the private or the public file is empty
(`no_private_key`, `no_public_key`), 401 when the public file is of another keypair
(`bad_signature`). `disturbed` says that a worker has set out to generate a keypair while
another was at it, or was killed between the creation of the first file and the end of the
second. `BootstrapSound` says that without such a disturbance the bootstrap is as harmless as
it looks: the one error that can occur is the 500 of a token that is verified while the only
generator still fills the public file.

### Gateway

Extends `CircuitBreaker`: the calls of the breaker are the chat requests of one
worker. A request waits in the guard, in the limiter and for the upstream, and
what the handler does between two waits is one action.

| Code | Action |
|---|---|
| a request enters `login` or `create_chat_completion` | `Arrive(r)` |
| a body that is no JSON, `validation_exception_handler` | `Malformed(r)` |
| `enforce_ddos_guard` raises or returns | `GuardBlocks(r)`, `GuardPasses(r)`; the latter runs on to the end of `login`, or through the token to the limiter |
| `RateLimiter.check` with Redis' reply, or with its error or time-out | `LimiterReplies(r)`, `LimiterDegrades(r)`; both run on through `enforce_rate_limit` (`Decide`) into the breaker (`CallBreaker`), and when the circuit is OPEN to the answer |
| the upstream returns, or raises and the fallback answers | `UpstreamReturns(r)`, `UpstreamFails(r)`, both with `record_usage` (`RecordUsage`) and the answer |
| `GET /health`, `GET /metrics/dashboard` | `ServeMetrics` |
| Redis and the disk fail and come back | `EnvironmentChanges` |

The guard and the limiter have their own modules; here they are a verdict that
depends on whether Redis can be reached. `RecordUsage` updates the memory
first, so that a request that is answered 500 because the ledger cannot be
written is recorded all the same; the code has this order, and `BooksBalance`
depends on it. The module follows a worker from its start: the ledger replay
leaves `Replayed` records in memory, `ReplayedFallbacks` of them fallbacks, while
the breaker's counters start at zero. The two halves of `/metrics/dashboard`
therefore disagree after a restart on a ledger with records; `BooksBalance` says that they differ by
exactly the replay and the calls in flight. `reset()` is called by no route, so that the pipeline has no step
for it. `disk_ok` is the ledger's; the same step that needs it reads it, since
nothing is awaited between the two.

## 3. The runs

| Run | Bounds | Shows |
|---|---|---|
| `breaker` | 3 overlapping calls, threshold 3, 2 trials, recovery 3 ticks, upstream 2 ticks, metrics to 4, 5 verdicts per CLOSED period | safety of the breaker, that it trips on exactly the surplus of failures its leaky counter defines, and the refinement of `BreakerContract` |
| `breaker_trials` | 3 calls, 2 trials | *violated*: the number of concurrent trials has no limit |
| `limiter` | 2 pods, clocks a tick apart, 3 checks, capacity 2, key expiring after 4 of 5 ticks | what the shared and the local buckets admit; no refusal by Redis without grants behind it |
| `limiter_rate` | 1 pod, 5 checks, agreeing clocks | *violated*: commands that overtake each other refill the same period twice |
| `guard` | 3 requests at once, threshold 2, window 2, block 4, delay 1 | burst, fresh start after a block, end of blocks and windows |
| `ledger` | 2 workers, 3 requests of 2 users for 3 models, any number of faults, a table of 2 records | summary, single billing, bounded loss; what a dashboard page shows |
| `ledger_crash` | the same | *violated*: an acknowledged record is lost to a replay |
| `keys` | 2 workers, 1 kill, 3 keypairs | the bootstrap, with a kill at any file access |
| `keys_race` | 2 workers, no kill | *violated*: the files hold halves of two keypairs |
| `gateway` | 2 requests at once, threshold 2, 2 trials, recovery 2 ticks, counts to 3, a replayed ledger of 2 records, 1 of them a fallback | the pipeline as a whole, safety and liveness, with Redis and disk coming and going; liveness of the breaker in it |
| `event_log` | 2 workers, a limit of 2 lines (so that one event fills a file), 3 backups, 6 events, any number of kills | the cap on the disk usage, and that a lone writer keeps the latest events |
| `gateway_health` | 1 request | *violated*: without chat requests `/health` never reports an outage |

Why the bounds are enough. Breaker: three calls are a call from before the
trip, a trial and a late failure at the same time, and 5 verdicts exceed the
threshold by enough for the counter to rise, fall and trip. Limiter: two
commands that swap and a third that profits from the swap, on two pods. Guard:
one request blocks, one races with it and one arrives after; the counter is followed to 4, twice the threshold. Ledger: a damaged
line needs one record to break it and one to be appended to it; the third is
what comes after. Pipeline: one request overtakes the other at every wait, and two failures
trip the breaker under the second; the counts end at 3, so that `BooksBalance` is checked with
two calls counted, overlapping or not. Event log: three
backups are the fewest with which a name without a file can have full files on both sides;
six events fill the four files and rotate twice more, and the bounds of both properties are
tight: with one line or one file less TLC finds them violated. Dashboard: a table of 2
records is full before the third request.
Keys: 3 keypairs are as many as two first boots and one
restart can generate.

The clock of the limiter stops at `MaxTime`, and each check is made once, so
its runs end and do not check deadlock. Every other run does.

### What the five violated runs say

Each states what a comment or the README promises, in a module that otherwise
passes; the counterexample is a behaviour of the code.

* `FewTrials`: `circuit_breaker.py:30-31` announces "a small number of trial
  calls"; `half_open_max_calls` counts successes, not calls, and all calls pass.
* `StrictRate`: `rate_limiter.py:13-15` promises a strict long-run rate; line 83
  stores an older stamp over a newer one.
* `AckedIsFound`: `cost_tracker.py:78-80` promises crash-safety by replay; a
  record appended to an unfinished line is skipped with it. `LossBounded` says
  that no more acknowledged records can be lost than writes were cut short, and `StaysFound`
  that a record that a replay finds stays found.
* `PairMatches`: `security.py:105` calls the bootstrap idempotent; two workers
  that start together run it twice at once.
* `HealthDetects`: `routes.py:201-203` says that `/health` reports `degraded`
  when Redis is unreachable; the flag it reads is written by rate-limit checks
  only, so that logins, whose guard fails open, and the probe itself leave it
  alone. `HealthFollows` is what holds: while chat requests keep reaching the
  limiter, an outage that lasts is reported and stays reported.

Some more disagreements are not runs. `circuit_breaker.py:184-186` says that a
success keeps "sporadic, non-consecutive failures" from accumulating to a trip;
`LeakyCounter` and `TripEarned` say exactly what the counter does: failure,
failure, success, failure, failure has a surplus of three and trips a breaker
with threshold three.

* The reply of `/metrics/dashboard` names the breaker `circuit_breaker`
  (`routes.py:248`), and the page looks for `circuit_breakers`, with an empty
  default (`app.py:754`): a live page never shows a breaker, a simulated one
  shows three.
* The traffic, the alert and the threat log of a page are generated under "Live
  telemetry connected", too.
* `app.py` asks `localhost`, which in `docker-compose.yml` is the dashboard's own
  container: there it always shows generated data.
* The card of the amount spent is labelled "Today" (`app.py:611`), but the reply's
  `total_cost_usd`, which it shows, is the total of every record the worker has replayed or
  made since the ledger was begun (`Spent`).
* The amount on the page can fall from one refresh to the next, when another
  worker answers. `NeverOverstates` says that it never exceeds what was spent, if the page is
  built from a reply.
* Two workers that rotate the log at the same time can remove each other's
  latest files; `DiskCapped` holds all the same, and `LoneWriterKeepsTail` says what
  a worker that logs alone keeps.
* `doRollover` removes the oldest backup before it looks whether anything moves up
  to it. A kill in the middle leaves a name without a file, and the next rotation
  gives up the oldest backup although there was room: with the five backups of
  `logger.py`, kills in the middle of rotations can use up all but one backup and the
  base (`Spared`). It takes three backups to see it.
* `rate_limiter.py:28-32` says that a degradation is logged loudly; no line is.

### Fairness

* Pipeline, and the breaker inside it: time passes; `/health` is polled (the
  container's healthcheck, every 15 s or 30 s), which evaluates the state
  property; every wait ends, those for Redis at the socket time-out and that
  for the upstream at `wait_for`'s. None is assumed of clients, of Redis or of
  the disk; `RecoversWithUpstream` has "calls keep coming" and "none fails any
  more" as its premises. A probe reaches one of the two workers at a time; the
  assumption is that it keeps reaching each.
* Guard: time passes; every await ends, with a reply or at its socket time-out.
  None is assumed of the client, who may send for ever.
* Keys: a worker that is down is started, and one inside `ensure_keys_exist`
  goes on.

## 4. The proofs

All are checked by TLAPS, from the assumptions on the constants that the
modules name (`BreakerAssumption`, `LimiterAssumption`, `GuardAssumption`,
`KeyAssumption`, `LedgerAssumption`, `DashboardAssumption`, `LogAssumption`, `ReplayAssumption`),
which TLC evaluates in the runs.

**Breaker** (`CircuitBreakerProofs`). `TypeOK`, `StateExplained`,
`NoneAdmittedWhileOpen` and `TrialIsolation` are inductive only together: that
the trial count stays in its range needs `StateExplained`; that trials are alone
needs to know that, while OPEN, every call in flight is at least as old as the
latest failure, so that when the recovery timeout has passed no call can be left
(`QuietWhenLapsed`). From this follow `NoneAdmitted`, `TrialsAlone`, and the refinement
`BreakerImplementsContract`: every step is a step of `BreakerContract` or a
stutter. The contract remembers whether a failure is known, so that closing the
circuit early is not mistaken for the administrative override. `MetricsAlwaysAddUp` has an argument of its own, over the
cardinality of the set of calls in flight.

**Breaker's history** (`CircuitBreakerProofs`, second part). A verdict lengthens every suffix
of the history by one and adds the empty one (`SuffixesAppend`), so that the
largest surplus of failures rises by one with a failure and falls by one, to
zero at the least, with a success (`SurplusAppend`): the steps of the counter. No
induction over the history is needed, since it only ever grows at its end. The
invariant (`HistoryInv`) carries the suffix that attains the surplus along,
because a maximum must be known to exist. `LeakyCounterExact`, `TripsEarned` and
`RecoveriesEarned` follow from it and from the breaker's own invariant, by
`HistoryRefines`.

**Limiter** (`RateMeterProofs`). `FleetBound` counts admissions, but a command
that outlives its check spends a token without admitting anyone, so the
invariant counts grants (`Accounted`). That the expiry of the key creates no
tokens needs two more: a stored timestamp is never far ahead of the clock that
wrote it (`Aged`), and a command under way is never far behind (`Stamped`); with
`TTL >= Capacity + MaxLag + MaxSkew` an expired bucket would be full anyway.
`LocallyBounded` follows from the same invariant for each pod.

**Refusals** (`RateMeterProofs`, second part). `NoFalseRefusal` speaks of each entry of the log; the
invariant (`Explained`) speaks of the present and of every time x at once: the
tokens missing from the bucket were spent since Redis last saw a stamp of x or
earlier, or are not refilled yet since x. Stated for every x, it is preserved by
a command whatever its stamp, also one older than the stored timestamp, and
nothing has to be known of the order of the log. A refusal reads it at its own
stamp less the time of a whole refill. It is about refusals by the script: what a pod refuses
by its local bucket, when Redis is away, is bounded by nothing but that bucket.

**Guard** (`DdosGuardProofs`). `FreshStart` needs to know who can still count when
the block is set: requests that read the block key before, and commands that
were given up, none of them younger than the block (`Stragglers`). Each opens
a window at most, so that what is left of the window and the age of the block
together are at most a window and a delay (`Outlasted`), and the block is longer.
`OneCommand` keeps a request that is under way apart from its own leftovers.
`BurstBounded` is about every span of a window's length, and such a span meets two counting
windows at most. The invariant says so of the current one: in the ticks since it was opened
(`WindowAge`) no more passed than were counted, and in the rest of the span no more than
the limit (`TwoWindows`); while no window is open, nothing is counted (`Windowed`).

**Keys** (`KeyStoreProofs`). `Reached` says what each worker's place in the code
tells of the files, `Known` that every key in a file, a token or a memory was
generated. From these: no worker serves before both files exist, and files that
are complete and that nobody writes are never replaced. For `BootstrapSound` the invariant
describes undisturbed bootstraps exactly (`Orderly`): there is one generator at the most
(`Alone`), before it nothing is written (`Blank`), and from then on its place tells the
contents of both files (`Single`, `StageOf`). A worker that finds a file missing finds nobody
writing, or its setting out is a disturbance; and one that serves has seen the public
file, which is created when the private one is whole already.

**Pipeline** (`GatewayProofs`). `PipelineStep` shows that what the breaker sees
of any step of the pipeline is a step of its own, whence `BreakerIsInside` and,
with the theorems above, `BreakerKeepsItsPromises`. `GatewayTypeCorrect` ties the
requests that wait for the upstream to the calls in flight;
`BooksAlwaysBalance` rests on that and on the breaker's type, for any number of records
that the replay may have found, and
`FailuresAlwaysDegrade` is an action property over every way in which a request
can end.

**Induction and sums** (`TotalProofs`). Sums, replays and flattened sequences are folds, and
what a fold computes is known by induction over its data. The induction theorems of the library take an
operator and cannot be used here, so the module states induction over a *set* of naturals
(`Induction`, from the least counterexample that a well-founded order has). By it a
recursion over the subsets of a finite set defines a function (`FoldExists`), which is
what the `CHOOSE` in a fold picks; a fold over a sequence goes by prefixes; a sum does
not depend on the order of its summands, so that it grows by what is added and a sum over
fewer or smaller summands is smaller (`TotalInto`).

**Ledger and dashboard** (`CostLedgerProofs`). The file is right (`FileInv`) when no
request is written twice, an acknowledged request has its whole piece, and a
piece without its newline belongs to a request that failed or was dropped; a memory is right
(`MemoryInv`) when its records are of different requests, its summary is their sum, and
the totals by user and by model add up to the total. One more record keeps
a memory right; a replay of a right file makes a right memory, whatever accidents the file
has seen. Both together (`LedgerInv`) are inductive, and `SummaryMatches`, `BilledOnce`
and `StaysFound` follow. For `LossBounded`, each acknowledged request that a replay
misses stands behind a piece without a newline, a different one for each, and those pieces are of
different requests that failed or were dropped. A page shows part of one right memory
(`RecentFacts`, `LiveReply`); it never overstates because a request is charged in one
record at most, and completed requests stay completed while the page grows old
(`Budget`). The totals of tokens go the way of those of costs (`TokensOfAppend`).

**Event log** (`EventLogProofs`). For `DiskCapped`, the lines of a file and the workers that
may still add one without looking at its length are bounded together (`Capped`). Each
file without a name is open in some worker, and one worker has the base or nothing open
(`BaseOpened`), which leaves one file less than there are names and workers.
For `LoneWriterKeepsTail`, the files of a lone writer are one sequence of
events, cut where a file ends (`Ends`); backups are full (`Shelves`); below a name with a file
no more names are empty than rotations were cut short, and one more in the middle of a
rotation (`Gaps`, `Rotated`). The last clause of the bound, two full files whatever the
kills, is kept by the newest and the oldest (`Newest`). What is kept is then a flattened
sequence of full files (`KeptIs`), counted by `FilledKeeps` and `SparedKept`.

Only model-checked: liveness (`EventuallyTried`, `RecoversWithUpstream`, `BlockEnds`,
`WindowEnds`, `HalfPairRepaired`, `EveryRequestAnswered`, `HealthFollows`), which the prover
does not reach. Every other property of a passing run is a theorem.

## 5. Not modelled

* Steps of the wall clock, and the rounding of floating point in the buckets.
* A Redis that loses data when it restarts (it runs with an append-only file).
* The cancellation of a request in mid-call, which uvicorn does not do while it
  serves; at shutdown the process and its breaker end with it.
* A replay that reads the ledger while another worker is in the middle of an
  append, and the loss of data that the operating system had not written yet.
* Two workers writing keys of different length over each other: a write is
  taken to leave the keypair of the last writer.
* Expiry, issuer and claims of tokens: each is one comparison of a value in the
  token with a constant or the clock. A token that one pod issues may be expired
  for another whose clock is ahead; nothing in the code says by how much.
* Passwords (a library), schemas (limits of single values), CORS, the log on stdout.
* The Redis connection manager: its one write depends on the identity of the
  running event loop, which is constant in a worker.
* The parts of the dashboard that are generated on every page, and its layout.
* Log lines that are cut off in a kill, and lines of different length.
* The agreement of what two workers keep to themselves (breakers, summaries,
  `redis_healthy`): the code does not provide it.

## 6. Plan

Done: the stateful components, the pipeline that composes the request path, the
dashboard on top of the ledger, the event log, the refinement of the breaker's
contract, and proofs of every safety property that the runs check.

1. `Gateway` around the real limiter and ledger instead of their verdicts: a
   token spent for a request that is answered 500, and a record in the file for
   each 200.
2. An abstract ledger (a set of billed requests) that `CostLedger` implements when no
   write is cut short.
