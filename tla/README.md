# A TLA+ verification of mma-mcp

`mma-mcp` is an MCP server: AI clients send it Wolfram Language expressions, it
checks them against a security policy and evaluates them on local Wolfram
kernels. This directory holds TLA+ modules translated from `src/mma_mcp/`, the
TLC configurations that check them on small instances, and proofs that TLAPS
checks for every instance. Line numbers such as `pool.py:159` are those of
`src/src/mma_mcp/`; `PROJECT.json` maps every definition to its lines.

    tlc -workers 2 -config MCKernelPool_faults.cfg MCKernelPool.tla    # a run
    tlapm KernelPool_proofs.tla                                         # a proof

## 1. The system

| part | source | state | operations | what is hard |
|---|---|---|---|---|
| Kernel pool | `pool.py` | `_all_workers`, `_idle`, the semaphore, `request_count` and `last_used` of each worker | `worker()`, `stop()`, the reaper thread | executor threads, a reaper and `stop()` share two lists; kernels are started and stopped outside the lock; starts fail |
| Kernel session | `kernel.py` | `_session`, `_last_activity`, `_health_thread`, `_health_stop`, the lock | `start`, `stop`, `restart`, `evaluate`, `evaluate_to_image`, the health loop | unlocked reads, a thread that restarts what runs it, a kernel that crashes or never answers |
| Tool layer | `tools/__init__.py`, `tools/evaluate.py` | the contextvars of each call, jobs in the executor | role policy, filter, heartbeats, truncation | contextvars across threads, polling a future, cancellation |
| OAuth server | `oauth.py` | codes and failure counts (memory), tokens and clients (SQLite) | register, authorize, token, look-up | one-time codes, expiry, capacity, restarts |
| Bearer auth | `auth.py` | failure counts, `current_client` | `dispatch` | which identity a request gets, a second lockout |
| Security filter | `security/filter.py`, `security/registry.py` | the loaded groups | load, build a filter, check | precedence of the lists, missing groups |
| Group setup | `setup_groups.py`, `server.py:355-370` | group files, `manifest.json` | query, classify, rewrite | a kill between two files, a server that starts meanwhile |
| Application | `server.py` | `_pool`, `_ctx`, `_mcp`, the lock | the properties `pool`, `ctx`, `mcp`; `run`, `setup_http_auth`, `serve` | double-checked locking, properties that read each other under one lock, constructors that raise |
| stdio transport | `stdio_transport.py` | two streams that hold nothing, the task group | `stdin_reader`, `stdout_writer` | end of input, blank lines, a client that stops reading or goes away, a session that ends first |
| Configuration | `config.py` | none | find, load, validate, generate | rules across sections, empty lists, zero as "automatic" |
| Passwords, Caddyfile, logging | `passwords.py`, `caddyfile.py`, `logging_config.py` | none | hash, render, set up | nothing |

How they interact. An HTTP request passes the Bearer middleware, which asks the
OAuth server for the client behind the token and sets `current_client`. The tool
wrapper reads it, applies the policy of the role and submits a job to the
event loop's executor. The job takes a worker from the pool, which starts its
session if need be, and evaluates; the coroutine meanwhile sends a heartbeat
every five seconds. Filters are built once, from the files that `mma-mcp setup`
wrote, in another process, at some other time.

What makes each part correct:

- pool: a worker is never shared; no more workers than `pool_size`; permits add
  up; no kernel is forgotten; excess idle kernels go away; calls wait only when
  all workers are busy;
- session: one kernel process at a time; crashes are masked once; calls end and
  leave neither lock nor temporary file behind;
- tools: only what the role allows is evaluated, under the role's limits; every
  call gets its own outcome; abandoned jobs give their workers back;
- OAuth and Bearer: a code gives one token; a token stands for its login, for
  as long as it should, over restarts; identities are never mixed up; guessing
  slows down;
- groups: dangerous symbols do not become allowed, whatever a killed setup
  leaves behind; the manifest means that the files are there;
- application: one pool, one context, one server, and no thread waits for good;
  a server that runs is what its file says, and has what the other parts rest on;
- transport: nothing is lost or reordered, the end comes last, and the server
  does not outlive its client.

`PROJECT.json` lists the hazards behind these properties, each at its line.

## 2. The modules

| module | what it is | main correspondence |
|---|---|---|
| `KernelPool` | `pool.py` | one action per `with self._lock` block and one per call outside it. `pc[t]` is where thread `t` is in `worker()`: `AcquirePermit`, `TakeIdle`/`TakeNew`, `Start`/`StartFails` (`_acquire`), `Use`, `Cleanup`, `Bump`, `ReleaseBack`/`ReleaseRecycle`, `StopOld`, `Signal` (`_release`). `ReaperNow` reads the clock before the lock is taken, `ReapIdle` or `ReaperDies` is the lock block, `ReaperStopOne` stops a kernel. `StopBegins` … `StopReturns` is `stop()`. A session is reduced to whether it is open: every operation on one is a step that leaves it open (`Opens`) or closed (`Closed`), or, where a start raised in it, either (`Raised`) |
| `WorkerLease` | the promise of the pool | workers are leased to one caller, at most `Size` at a time, never beyond `MaxRequests` |
| `PermitPool` | the pool as seen by those who wait for it | `Size` permits, taken, given back, or lost with a failed start |
| `KernelSession` | `kernel.py` | `start`, `stop` and `restart` are called from evaluations, from the health thread and by the owner; they are modelled once, and `why[p]` says what process `p` came for. `_session` is assigned in `StartLocked`, or not at all if `_make_session()` raises (`ConstructorFails`), and the kernel runs only after `StartSucceeds`, as in the code. `Raises` is an exception of `start` or `restart`: after a hard timeout it passes through the executor's `with` block, which waits for the old evaluation, and may be retried; after a ping with an odd answer (`PingOdd`) it is caught by the handler of the ping, which restarts again |
| `OpenSession` | the promise of a session without a health thread | it is open or not; one that opens it takes effect between its beginning and its return, and a stop leaves it closed as it returns; where starting a kernel may fail, one that raises may leave it either way |
| `PooledSessions` | `KernelPool` with an `OpenSession` under every worker | the steps of the pool in which an operation ends, joined with `Returns` or `Raises` of that session; `Works` are the effects in between; `OpOn(w)` says who is doing what with the session of `w`, and `Elsewhere` is every other step of the pool |
| `ToolCalls` (with `SecurityPolicy`) | `tools/` | the coroutine up to its first await is one step (`Denied`, `Rejected`, `Submitted`); the job is `ThreadTakes`, `Evaluates`/`StartFails`, `EvaluationEnds`, and `JobEnds` when the cleanup of its worker has ended and the worker is given back; the polling loop is `Returns`, `Heartbeat`, `Reported`, `ReportFails`; `Cancelled` is the client's. `HardTimeout(None)` in `Evaluates` is what a thread reads that does not have the context of the call |
| `OAuthServer` | `oauth.py` | a handler awaits only the body of its request, so each of its outcomes is one action: `Register`, `LoginFails`, `AuthorizeInvalid`, `Authorize`, `AuthorizeFull`, `TokenRefused`, `TokenFull`, `TokenIssued`, `LookupExpired`; `Restart` keeps the two tables. `Accepts` is `get_token_client`, which lets nobody in with a token that names no client (those of legacy mode, user `Legacy`); `Valid` is `validate_token` |
| `Lockout` | the failure counters of `oauth.py` and `auth.py` | `Locked`, `AfterFailure`; `SlowedDown` is the promise both make |
| `OneTimeCode` | the promise about codes | a code goes from new to pending to spent, and is exchanged for one token |
| `BearerAuth` | `auth.py`, over `OAuthServer` | `ServeToken`, `BasicFails`, `BasicServes`, `BearerRestart` |
| `SecurityPolicy` | `filter.py`, `registry.py` | filters as sets of names, `BuildFilter`, `Passes`. An expression is the set of the names in it, as they are written; `Symbols` shortens them (`Short` takes the context off), and `Passes` compares the short names with a policy whose names nobody shortens |
| `GroupSetup` | `setup_groups.py`, the loading in `registry.py` | `Classified` takes the symbols of the areas by their short names and the seeds as they are listed, with a context or without, as the code does; one action per file operation: unlink, open (truncates), close (completes); `SetupKilled` between any two; `LoadOne` per file read |
| `Configuration` | `config.py`, and what `server.py`, `pool.py` and `kernel.py` make of it | a file is a function from sections to functions from keys to values. `Source` finds it, `Loaded` fills in the defaults, `Valid` is `_validate`; `Runtimes`, `Bound`, `PoolSize`, `MinIdle`, `KernelPath` are what the program computes from a valid one. `Generated` is what `mma-mcp init` writes |
| `Application` | `server.py`, over `Configuration` and `StdioTransport` | `stack[t]` holds the properties thread `t` is reading, innermost last: `Look` is the first test, `Lock` and `Check` enter the lock and test again, `Make` assigns, `MakeRaises` unwinds. `Load`, `RunStdio`, `RunHttp` and `Stopped` are the main thread, which is the only one that reads the properties in this repository: the other thread of the model is an embedder's. `busy` is a job of a call in the default executor, which `anyio.run` joins before it returns: `Stopped` waits for `JobsEnd` |
| `StdioTransport` | `stdio_transport.py` | `Readline` is the thread, `Handle` the rest of `stdin_reader`; `Write` and `WriterEnds` are `stdout_writer`, and `Write` may raise, because the client is gone or because a message cannot be rendered; `Leave` is the end of the task group. `Loop` says that the event loop is not inside a blocking `write` |
| `LineChannel` | the promise of either direction | messages arrive once and in order; the end is told only when everything is there |
| `MC*` | instances for TLC | |
| `*_proofs` | theorems | |
| `NaturalsRecursion` | induction over the naturals, and that recursive definitions over them have a solution | helper lemmas of the proofs about `Power`, `Waited` and `Texts` |

`ToolCalls`, `GroupSetup` and `Configuration` share `SecurityPolicy`;
`BearerAuth` extends `OAuthServer`, which extends `Lockout`; `Application`
extends `Configuration` and `StdioTransport`. `KernelPool` abstracts `KernelSession`
to "open or not", and `ToolCalls` abstracts `KernelPool` to its permits. What each
abstraction rests on is proved (section 4): a session implements `OpenSession`
(`OpenOrClosed`), and the pool over sessions of that kind implements the pool
that knows only "open or not" (`PooledImplementsPool`), also while `stop()`
overlaps with calls; `KernelPool` implements `PermitPool`, and the jobs of
`ToolCalls` use it as one. `PooledSessions` has no run of its own: its steps of
the pool are those of `KernelPool`, which the runs fire, and what it is for is
proved. Operators marked "A
mutant" are wrong variants of the definition that follows them: what is left of
the code when a guard, a reset or an order is lost. No specification uses them.
Replacing the definition by its mutant must break the property that
`PROJECT.json` names, which shows that the property depends on that code.

## 3. The runs

| run | states | what it shows |
|---|---|---|
| `pool_stop` | 1 570 000 | `stop()` at any moment of calls, recycling and reaping: `ExclusiveUse`, `NoForgottenKernel`, `RecycledInTime`, `WithinPoolSize`, `LiveKernelBound`, and `ReaperSurvives`: `_all_workers.remove(w)` (`pool.py:217`) cannot raise before `stop()` has cleared the lists |
| `pool_faults` | 234 000 | Three calls, two permits, any start may fail: `TypeOK`, `PermitsAccounted`; the pool implements `WorkerLease` (`LeaseSpec`); `PermitsRecirculate` unless every permit is lost or with a call that hangs; once calls cease, `ExcessReclaimed` |
| `pool_leak` | violation | "blocks if at capacity" (`pool.py:149`), `BlocksOnlyAtCapacity`, is violated (section 7) |
| `session_single` | 1 036 000 | A caller, an owner and a health thread with crashes, hangs, failing starts, idle stops, pings: `SingleKernel`, `CallsCleanUp` |
| `session_calls` | 617 | The only caller of a session, as in the pool, up to three faults: `FaultsMasked`, and `CallsEnd` |
| `calls` | 165 000 | Two calls, of a role with limits, one that inherits them, one that no longer exists, or none, that queue for one thread of the executor: `EvaluatedAsAllowed`, `WithinResultSize`, `WorkersAccounted`, `OwnOutcome`, `Answered` |
| `calls_limits` | violation | The hard timeout of a role is not the one its calls are evaluated under (section 7) |
| `auth_tokens` | 573 000 | Three codes and tokens where two are the limit, a user whose role changes or who is removed: `OneTimeSpec`, `TokenMatchesLogin`, `LifetimeBound`, `NoTokenLost`, `WithinCapacity`, `ServedWasConfigured` |
| `auth_lockout` | 66 000 | Both lockouts against failures, successes and restarts at any time: `GuessesSlowDown` |
| `auth_removed` | violation | A client that was deleted from the config file is still let in (section 7) |
| `groups` | 10 000 | Two runs of setup, killed anywhere, forced or not, and servers that start meanwhile: `SeedsNotWhitelisted`, `ManifestMeansComplete`, `FiltersFollowClassification` |
| `serve` | 287 000 | 118 configuration files, two threads, and the stdio transport up to its end, whatever raises: `TypeOK`, `OneOfEach`, `AccessReturns`; `AsConfigured`: what gets past `_validate` is what pool, sessions, roles and the HTTP guard rest on, and no filter lets pass what the policies of the file forbid; both directions implement `LineChannel` (`Delivery`); `TransportEnds` |

The type invariant of every module with runs is among the properties of one of them.

Bounds, and why they are enough:

- `Thread`, `Request`: one more call than permits in `pool_faults`, so that
  calls block; two in `pool_stop` and `calls`, where the third party is `stop()`
  or an abandoned job. `Threads = 1` in `calls`: two calls are enough for one to
  queue, also behind the job of a call that was cancelled.
- `PoolSize = 2`, `PoolMinIdle = 1`: the smallest pool with an excess worker.
  `MaxRequests` is 1 in `pool_stop`, so that every worker is recycled, and 0
  (never) in `pool_faults`; the proofs are for any number.
- `Worker`, `Session`, `Code`, `Token`, `Health` are identities. Workers,
  sessions and threads are reused when nothing refers to them any more, so
  their number only has to exceed what can be referred to at once; codes and
  tokens are never reused, so there is one more of each than fits. In the `MC`
  modules a new object takes the first free identity (`FirstFit`), which leaves
  out only renamings.
- `CountCap`: `request_count` saturates at `max_requests_per_worker`, where it
  is last compared. `IdleTimeout` is one tick; ages saturate there.
- `MaxFaults`: two or three crashes, hangs, odd answers and failed starts: one that is
  masked, one that is not, and one before the call.
- `MaxTime`, `MaxGuesses`: the clock goes past the expiry of a code and a token
  (`CodeTTL = 1`, `TokenTTL = 2`, `MaxTime = 3`) and past the cap of the lockout
  (three ticks, six ticks in all).
- `User`: one in `auth_tokens`, whose role and presence in the file change; that
  clients are not mixed up is left to `Matches` and `ServedIdentity`, which are for
  any number. `auth_removed` has a second one, of legacy mode.
- `MaxSetups = 2`: one setup that leaves files, one that meets them. `ctxY` is a
  dangerous seed with a context whose short name is a safe seed, as the code has
  in ``Internal`InheritedBlock``; `serve` and `calls` have names with a context
  in their expressions, and `serve` in its groups too.
- `MaxLeaks = PoolSize - 1`: with all permits lost nothing is answered, which
  is `pool_leak`'s subject.
- `serve`: the files vary one section at a time around one that has two roles
  and is served over HTTP, with every value on either side of a check, because
  the rules relate at most two sections (clients to roles, roles to `[security]`
  and `[tools]`, `[auth]` to `[server]`); pool sizes from -1 to 3 and idle
  minima from -1 to 4 with two processors. `MaxLines = 3` has a line before and
  after a blank one, `PipeSize = 1` and `MaxReplies = 2` fill the pipe,
  `MaxFails = 1` is one constructor that raises. In `MCSpec` `--transport` is
  given only where no file names one, and the transport starts when the other
  thread has returned, which leaves out only interleavings of steps that share
  no variable.
- `session_single` has one health thread; a second one, which a start after an
  idle stop creates, makes `ThreadLimit` happen there and is left to the proof,
  which is for any number of threads.

Deadlock is checked except where the system really stops: `pool_faults` and
`pool_leak`, where all permits may be lost, `calls`, where all requests have
been made, and `serve`, where the process ends or was refused.

Fairness. Threads and coroutines that can take a step eventually do; the reaper
is a loop with a timed wait; time passes. In `KernelSession` a kernel that is up
answers, and a hard timeout fires when the kernel does not
(`future.result(timeout=...)`). Nothing is assumed where nothing bounds an
evaluation: in `KernelPool` an evaluation and a cleanup may hang for good, in
`ToolCalls` an evaluation without a hard timeout and every cleanup (`pool.py:195`
has no timeout), in `Application` the jobs of the executor. What hangs is in the
properties instead: `PermitsRecirculate` says that a set of calls that hang
costs the others as many permits and no more; `Answered`, that a call is answered
if again and again its own cleanup is not the one that hangs and there is a
thread and a worker that no hanging cleanup has; `TransportEnds`, that the
process ends if the executor is idle again and again. `PermitsRecirculate` and
`ExcessReclaimed` are about a pool that serves (`FairServingSpec`): `stop()` is
called once, when the program ends. No fairness is assumed for callers, cancellations, faults, `stop()` or setups, and
none among the threads that wait on the semaphore: Python's semaphore promises
no order, so no property says that a particular call gets a permit. `Answered`
holds for calls under a hard timeout only, and requests in `ToolCalls` are made
once each, so it says nothing about starvation by an endless stream of calls. In
`serve` threads and the event loop run, and the operating system returns from
`readline` when there is a line or the end; of the SDK's session it is assumed
that it ends after its input has and no call is under way, of the client that it reads what it is sent as
long as it is there: without the latter the blocking `write` of
`stdout_writer` really waits for good (`stdio_transport.py:80`).

## 4. The proofs

They hold for every value of the constants that the named assumptions allow
(`PoolAssumption`, `SessionAssumption`, `OAuthAssumption`, `LockoutAssumption`,
`NoneIsNoCode`, `ToolAssumption`, `ConfigAssumption`, `StdioAssumption`,
`ApplicationAssumption`, `NumbersAssumption`, `GroupAssumption`, `ShortAssumption`): sets are finite where they are
counted, distinguished values are not members of the sets they are distinguished
from, sizes are positive, and what a file has where a number is due is a number
(section 5).

| theorem | module | states |
|---|---|---|
| `TypeCorrect` | `KernelPool_proofs` | `TypeOK` |
| `Exclusive` | | `ExclusiveUse`: no worker is shared by calls, `_idle`, the reaper, a recycling call |
| `Permits` | | `PermitsAccounted` |
| `Capacity` | | `WithinPoolSize` |
| `PoolImplementsPermits` | | for its calls the pool implements `PermitPool` |
| `PoolImplementsLease` | `WorkerLife_proofs` | the pool implements `WorkerLease` (`LeaseSpec`) |
| `Recycling` | | `RecycledInTime` |
| `ReaperLives` | | `ReaperSurvives` |
| `NoneForgotten` | | `NoForgottenKernel` |
| `KernelsBounded` | | `LiveKernelBound`, with `stop()` at any moment |
| `InTurn` | | until `stop()` goes through its list, one call at most, or the reaper, uses a session |
| `PooledImplementsPool` | | `PooledSpec => Spec`: with sessions whose operations take time, the pool implements `KernelPool`; so all of the above hold of it |
| `SessionsImplemented` | | the pool uses the session of every worker as `OpenSession` provides for |
| `NoSessionLeaks` | | `NoSessionForgotten`: `NoForgottenKernel` at any moment inside operations |
| `SessionsBounded` | | `SessionBound`: `LiveKernelBound` at any moment inside operations |
| `TypeCorrect` | `KernelSession_proofs` | `TypeOK` |
| `OneKernel` | | `SingleKernel`, for any number of callers, owners and health threads |
| `CleansUp` | | `CallsCleanUp`, for any number of callers, owners and health threads |
| `Masked` | | `FaultsMasked`, for a session with one caller and no health thread (`Alone`), as each session of the pool is; any number of faults |
| `TimeoutsEnd` | | who has restarted a kernel that hangs does not wait for it in the executor, unless joining a health thread has raised |
| `OpenOrClosed` | | a session without a health thread implements `OpenSession`, for any number of callers and owners at once: what returns has found or made it open; what raises has, too, or the start of a kernel failed in it |
| `InTurn` | | if they take turns, a start or an evaluation that returns leaves the session open and a stop leaves it closed; one that raises leaves it open unless starting a kernel may fail (`EndsAsMeant`) |
| `Matches` | `OAuthServer_proofs` | `TokenMatchesLogin` |
| `Lifetime` | | `LifetimeBound` |
| `NotLost` | | `NoTokenLost`, an action property |
| `Limits` | | `WithinCapacity` |
| `OneTimeUse` | | the server implements `OneTimeCode` |
| `MiddlewareRefinesServer` | | `BearerSpec => Spec`: behind the middleware the server goes only through steps of its own, so the five theorems above hold of both (`BehindMiddleware`) |
| `ServedIdentity` | | `ServedWasConfigured` |
| `SlowGuesses` | | `GuessesSlowDown`, of both lockouts, for any limit, cap and number of guesses |
| `BearerTypes` | | `BearerTypeOK` |
| `TypeCorrect` | `ToolCalls_proofs` | `TypeOK` |
| `Policy` | | `EvaluatedAsAllowed`, whatever filters there are |
| `Workers` | | `WorkersAccounted` |
| `Outcome` | | `OwnOutcome` |
| `ResultSize` | | `WithinResultSize` |
| `JobsUsePermits` | | the jobs use the pool as a `PermitPool`, whatever becomes of their calls |
| `TypeCorrect` | `GroupSetup_proofs` | `TypeOK` |
| `SeedsStayOut` | | `SeedsNotWhitelisted`, for any groups, seeds and sections, of names by their short name |
| `ManifestIsSign` | | `ManifestMeansComplete` |
| `FiltersFollow` | | `FiltersFollowClassification`: the default blacklist stops the names whose short name is classified dangerous and no others; no whitelist, of any section, lets one of them or an `extra_blocked` one pass |
| `MadeOnce` | `Application_proofs` | `OneOfEach`, for any number of threads |
| `NeverAllWait` | | of the threads that read properties of `App`, one can always take a step: the lock is not waited for in a circle |
| `TypeCorrect` | | `TypeOK`: also that a thread is never inside more than three properties |
| `RepliesDelivered` | | the stdout half of the transport implements `LineChannel`, for any pipe and any number of replies |
| `Delivered` | | both halves do (`Delivery`), for any lines, blank or not |
| `Configured` | | `AsConfigured`, for any files, groups, names, kernels and number of processors |

The arguments:

- Pool. `ExclusiveUse` is not inductive: a worker about to be appended to
  `_idle` must also not be in the reaper's hands or lost. `OwnInv` says that a
  worker has one owner at most — a position of `_idle`, a call up to `StopOld`,
  `reapList`, `lost` — and `CurInv` that a call which needs a worker has one.
  `WithinPoolSize` needs counting. `CountInv` adds to the permits that idle,
  held and lost workers together are at most `PoolSize`: a call takes a permit
  before a worker and returns the worker before the permit, so a new worker is
  created only while a permit without a worker is held. `AllInv` says that
  `_all_workers` has only idle, held and lost workers, which `stop()` keeps
  although calls in flight no longer are in it.
- Leases. `ReqInv` adds that the count of a worker that nobody has is 0, so that
  a new worker starts from 0. The refinement calls a worker leased from the end
  of its start to the update of its counter: `Start` is a grant, allowed by
  `OwnInv` (the worker is free), `CountInv` (fewer than `PoolSize` are leased)
  and `ReqInv` (it is not due); `Bump` is a return; recycling, failed starts, the
  reaper and `stop()` renew workers that nobody leases; the rest stutters.
- Lists. Until `stop()` clears them, idle and held workers are in `_all_workers`
  (`Listed`). It needs `OwnInv`, for what recycling and the reaper remove from
  one list must not be in use elsewhere. `ToStopInv` (`to_stop` is empty when a
  round begins) then makes `NoForgottenKernel` inductive, and `StopInv` carries
  it past `stop()`: the reaper has been told to end before the lists are
  emptied, so what it still holds is closed or in the list that `stop()` works
  off. `LiveKernelBound` follows by counting: what is open and not about to be
  stopped is idle, held or lost, and `CountInv` bounds these.
- Pool over sessions. `WorksMeans`, `CallReturnsMeans` and `ThreadReturnsMeans`
  say what the steps of `OpenSession` are for `live` and `done`. `PooledInv`
  relates what there is to what the pool knows: they agree on a session that no
  call is operating on (`AsSeen`), and an operation that has taken effect still
  has its session, or `stop()` has closed it since, in which case the worker is
  off every list and known to be closed (`Effective`). A call's session is closed
  by nobody but `stop()`, by `ExclusiveUse`; and `stop()` has taken a worker off
  `_all_workers` before it closes its session (`Apart`). That is why an operation
  may end with the session closed only if the worker is `ThroughStop`, which is
  what `Opens` of `KernelPool` says.
- Session. `SwapInv`: a thread between the two statements that replace the
  session or its kernel holds the lock, and nothing is alive behind `_session`
  meanwhile. Together with `SingleKernel` it is inductive, because the only
  step that makes a kernel run is in such a section. For `CallsCleanUp`,
  `HoldInv` says that only a thread in such a section holds the lock, and
  `UnderWay` that a caller outside a call has no temporary file and joins
  nobody; the two ways out of a call, `Leave` and the continuation of `start()`,
  are a lemma each. For `FaultsMasked`, `MaskInv` tells what a fault before the
  call has cost from what happened since: a dead kernel has cost a fault, a
  session whose kernel is off has failed to start, and on the second attempt a
  kernel that does not answer has cost a fault since the call began and, unless
  starting fails, two in all (`Excused`).
- Timeouts. After a hard timeout, `snap` is the session that hangs, and the
  restart has another one in `_session` before anything after it can raise
  (`GoneInv`); by `SingleKernel` the old kernel is not alive then, so that the
  evaluation on it has ended. The exception is `Thread.join`, which raises before
  the session is replaced, hence only with a health thread.
- Open or closed. The mapping calls an operation done when it has found or put
  a session there, and not yet when it has begun or is about to look again; a
  retry and a hard timeout start over. Whoever returns has just taken effect, or
  was overtaken by another. Only a failed start raises before that: the
  constructor raises with `_session` still `None`. `~HasHealth` is needed: a
  join that raises ends an operation before it has taken effect. When one
  operation is under way at a time nobody is overtaken (`InTurnInv`).
- Permits. Both sides map to `PermitPool`: of the pool, the threads between
  `AcquirePermit` and `Signal` and the workers in `lost`, with `PermitsAccounted`
  for the room; of `ToolCalls`, the calls whose job is in a kernel, and `leaks`.
- OAuth. `TokenInv`: every token ever issued was issued for a code that is
  spent, and its row is what the code says; `CodeInv`: pending codes were
  issued, for a client and URI that were registered. Eviction, restarts and
  lookups only shrink `pending` and `stored` (`Shrinks`). For `OneTimeUse` the
  refinement maps a code to new, pending or spent: `DropRefines`,
  `IssueRefines` and `ExchangeRefines` match the steps, all others stutter. The
  limits follow from `RoomForOne`: the room is measured after the evictions and
  one entry is added.
- Bearer. The middleware leaves every table alone, hence `BearerSpec => Spec`.
  `IdentityInv` adds that the config file and every code issued under it have
  identities that some file gave; with `TokenInv` this carries over to tokens,
  although the file may have changed between login, exchange and request.
- Tool calls. `QueueInv`: what is in the executor's queue is queued, once.
  `JobInv`: a job stands for a call that was checked under its own role, and an
  answer was taken from a job that had ended. Cancellations and heartbeats touch
  neither, which is what `WorkersAccounted` rests on.
- Groups. `SeedInv`: no dangerous seed is in a safe group of the classification,
  in a file that parses, whichever run wrote it, or in what the server has read;
  only `Classify` adds symbols, after the seeds. `SetupInv` says how far a run
  has come — nothing but `old` is left while it removes, and exactly the groups
  up to `next` are there while it writes — and that with a manifest and nothing
  cut short all of them are there. `ServerInv` adds that a server that began
  then has read the classification up to `reading`; a setup that begins ends
  the claim (`steady`).
- Application. `AppInv`: the frames of a stack are nested as `Needs` says, what
  is being made is not there yet, what it needs is there or being read, one
  thread at most is inside the lock, and the main thread's first frame is that
  of `mcp` until it has been made. `Rank` shows that a stack is never in a
  circle. `NeverAllWait` follows: the thread inside the lock gets it again, and if
  nobody is inside, whoever waits may enter. One lemma per kind of step; `ThreadStep` and `OthersIdle` carry what
  the other threads are entitled to over to the next state.
- Transport. `RepliesInv`: client, pipe and writer hold consecutive parts of
  what was sent, the writer at most one message, also if it has crashed with it; the group is
  left, and the end told, only after the writer has ended. So when the
  client meets the end of an empty pipe, nothing is missing.

- Lockout. `Slowing` relates one entry to the clock: a count above the limit
  means that the lockouts before it have passed, and the last one ends no
  earlier than its length after them. It is inductive only with the time of
  the end in it: a failure is counted only after that time, and `Waited` grows
  by exactly the length that ended (`WaitedEquation`, `FailureSlowing`).
  `LockoutInv` says so of every name in both tables; success, restart and the
  clock are covered by the cases that drop an entry or leave it.
- Recursive functions. `Power`, `Waited` and the reference `Texts` (the lines
  that are not blank) are defined by recursion over the naturals. The library's
  induction theorems have operator parameters; `NaturalsRecursion` proves, with
  the set form of induction and from the well-foundedness of `<`, that such a
  definition has a solution, and the proofs unfold it step by step. None of
  them computes a value.
- Inbound. `LinesInv`: what the session has been given is `Texts` of the lines
  read so far, but for the one that `stdin_reader` has in hand if it is not
  blank; `Texts` of a longer list agrees with that of its beginning. Only
  `Handle` moves the inbox, and by at most the line in hand; the end is told
  when an empty line was read, which the operating system gives only after the
  last one.
- Configuration. `ConfInv`: the numbers of the configuration are numbers, it is
  `Valid` from the moment `mcp` is asked for, and what serves over HTTP has the
  guard that `setup_http_auth` chose. The rest is about operators: `PoolSizes`
  (never 0, `min_idle` between 1 and the size), `HintFirst` (a path that passed
  validation is the one that `find_kernel` returns), `NoRoles`, `Parameters`,
  `Roles`, `GuardedBy`, `BuiltKeeps` and `Filtered` (a filter that was built lets no
  name pass that its policy forbids by its short name, and every role has the
  filter of its own policy or that of `[security]`),
  `GeneratedAsDefault`.

Only model-checked is liveness, which is out of the reach of the prover:
`PermitsRecirculate`, `ExcessReclaimed`, `CallsEnd`, `Answered`, `AccessReturns`,
`TransportEnds`. `FaultsMasked` is proved of a session with one caller; of
sessions that are shared or pinged it is not claimed. That the mutants break the
properties, and the findings, are TLC's.

## 5. What is taken for granted

- wolframclient: evaluating on a session that is not started, stopped or whose
  kernel died raises `WolframKernelException`; stopping a session ends its
  kernel process and the evaluation pending on it. Kernels crash, hang and fail
  to start at any time.
- CPython: `Thread.join` raises for the current thread and for a thread that
  was never started; threads of an executor do not inherit contextvars;
  attribute reads and writes are atomic.
- Where `KernelConfig` and `RoleConfig` declare an `int`, a file has one.
  `load_config` does not look (`config.py:196-204`), so that a string there raises
  in the comparison of `_validate` (`config.py:289`), and a fraction passes.
- SQLite: a statement that was committed survives a restart. `time.time()` does
  not go backwards.
- The MCP SDK runs the tool in a task whose context has the `current_client` of
  the request (`auth.py:115`): the role in a call of `ToolCalls` is what that
  task reads.
- The SDK's session ends some time after its read stream has, or earlier, or
  raises; `anyio` cancels the tasks of a group when something was raised in it.
  Writing to a pipe nobody reads raises, writing to a full one blocks.
- `secrets.token_urlsafe` does not repeat; S256 challenges are one-to-one.
- One `mma-mcp setup` at a time.

## 6. Parts of the behaviour worth knowing

These are in the models and no property forbids them, since nothing in the
repository promises otherwise or the promise is only a docstring:

- `stop()` while calls are in flight stops their sessions, and the next
  evaluation or cleanup opens them again; the worker goes back to `_idle` of the
  stopped pool (`pool.py:118-126`, `kernel.py:327-329`). These kernels stay
  open until the process ends: `NoForgottenKernel` and `LiveKernelBound` say
  that they are in `_idle` and within `pool_size`, not that they are stopped.
- `_idle` is not ordered by `last_used`: it is written before the lock is taken
  (`pool.py:110`). The reaper, which looks at the head only, may keep an older
  worker behind a younger one for a while; `ExcessReclaimed` holds all the same.
- `restart()` in the health thread joins the thread itself, which raises and
  ends the thread (`kernel.py:171`, `kernel.py:201`): a failed ping does not
  restart the kernel.
- When a health thread could not be started (`Unstarted`), a restart after a hard
  timeout raises in `join`, and the call then waits at the end of the executor's
  `with` block for the kernel that hangs (`kernel.py:171`, `kernel.py:250-264`).
  `TimeoutsEnd` says that nothing else makes it wait.
- A `WolframKernelException` of the restart after a hard timeout is caught by
  `evaluate()` like one of the evaluation, and retried on the first attempt
  (`kernel.py:236-241`): the evaluation that timed out is made again.
- The idle check stops a kernel that is in the middle of a long evaluation
  (`kernel.py:184-189`), and every start after an idle stop adds a health thread
  (`kernel.py:158`).
- While a client does not read a full stdout pipe the event loop stands still,
  the reading of stdin included (`stdio_transport.py:80`).
- When the SDK's session has ended early, the next line that is not blank makes
  `send` raise, in the handler of that very exception too
  (`stdio_transport.py:69-72`): the task group is left with an exception.
- An empty list in the file means "the default" for the groups of a policy and
  for the tools of a role (`server.py:104-125`, `registry.py:107-150`), but "no
  tools" for `[tools] enabled`, and `security = "none"` is valid for a role
  but not for `[security]`.
- The names in an expression are shortened (`filter.py:42-44`, 75, 88), the
  seeds of the groups are not (`setup_groups.py:597-602`).
  ``Internal`InheritedBlock`` (`setup_groups.py:412`) is therefore classified
  dangerous with its context, and equals no short name: the default blacklist
  does not stop it, however it is written. `FiltersFollowClassification` speaks of
  short names for this reason; nothing in the repository promises more of this
  name than that it is in the list.
- `anyio.run` joins the default executor (`server.py:257`): a job that hangs keeps
  the process alive after its client has gone. The same goes for HTTP, whose end
  is not modelled; and a `readline` that was abandoned, because the session ended
  first, may hold the process while the client keeps stdin open, which
  `TransportEnds` is not about.
- An odd answer to a ping restarts the kernel inside the `try` of the ping, so that
  a restart that raises is followed by a second one (`kernel.py:194-201`).
- After a forced setup was killed, `manifest.json` of the run before is still
  there (`server.py:363`): `clean` is FALSE in these states.

## 7. Findings

- `pool_leak`: `_acquire` takes the permit, then starts the kernel outside any
  `try` (`pool.py:159`). A start that raises keeps the permit for good; after
  `pool_size` of them all calls wait although no worker is in use.
- `calls_limits`: `timeout` and `hard_timeout` are read in the executor's thread
  (`tools/evaluate.py:80`), where `current_client` is `ANONYMOUS`. The limits of
  roles (`README.md:156`) are never applied, those of `[kernel]` always.
  Filter, tools and `max_result_size` are read in the coroutine and are right.
- `auth_removed`: `DEPLOY.md:486` says that deleting a client's section and
  restarting removes it, but tokens survive restarts and carry their own name
  and role (`oauth.py:244`).

## 8. Not modelled

- The text level of the filter: `extract_symbols` finds the names of an
  expression with regular expressions; an expression is the set of these names
  here, and only their shortening is modelled. Likewise the text in which `_eval_in_context` wraps an expression.
- Legacy single-token mode of `auth.py` keeps no state; the legacy mode of
  `oauth.py` is one user in `OAuthServer`.
- The commands of `server.py` that print or write one file and end
  (`hash-password`, `add-client`, `caddyfile`); of `init`, what the file it writes means
  is `Generated`.
- The values of a configuration that nothing depends on but the outside: host,
  the environment of a DNS provider. TOML syntax: a file parses or is `Broken`.
- Parsing a line of stdin: a line that does not parse is sent on as the
  exception, exactly like one that does.
- `passwords.py`, `caddyfile.py`, `logging_config.py`, `scripts/`: no state; see
  the notes in `PROJECT.json`.

## 9. Plan

In order of what the system depends on most:

1. Done: pool, session, OAuth and Bearer, tool calls, groups, configuration,
   application and stdio transport, with the theorems above.
2. Done: the interfaces between pool and session (`OpenSession`) and between
   calls and pool (`PermitPool`), proved of both sides.
3. Done: the pool over sessions as one specification (`PooledSessions`), in
   which the operations of a session are not atomic while `stop()` overlaps them.
4. Left: calls over the pool as one specification, as `PooledSessions` is for
   the pool and its sessions.
