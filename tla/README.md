# gmx-strategies in TLA+

A verification project kept beside `gmx_strategies`, an asyncio program that
looks for funding-rate differences between GMX V2 perps on Arbitrum and Binance
USDⓈ-M perps, publishes them as signals, and (when every gate is open)
dispatches each signal as a pair of orders, one per venue. All paths below are
relative to `src/src/gmx_strategies/`.

## 1. The system

One process, one event loop, two long-running tasks that share Redis:

    emitter task ── PUBLISH signals ──► consumer task (FundingArbExecutor.run)
    (funding_arb_runtime)                 │ per signal: handle_signal
                                          ├─ PilotGuard.check ──► Redis, both venues
                                          ├─ reconcile_intent ──► GMX positions
                                          ├─ gather( GMX leg , Binance leg )
                                          ├─ XADD ExecutionRecord ─► executions stream
                                          └─ record_loss ─► Redis timestamp
    operator (CLI) ── trip / reset killswitch ─► Redis
    a command of its own process ── watchdog, smoke tests ─► Redis, chain, venues

The interleaving that matters is at every `await`: the operator, the venues,
midnight and process death move in between, and the two legs of a signal run as
two tasks.

| Component | State | Operations | What makes it correct |
|---|---|---|---|
| Pilot guard (`pilot_guard.py`) | Redis: killswitch, last-loss timestamp, the executions stream it sums | `check`, `trip_killswitch`, `reset_killswitch`, `record_loss`, `state` | a reason to deny that stands all along is found, unless its own read failed; a tripped killswitch is always found |
| Execution consumer (`funding_arb_executor.py`) | the signal in hand, its record; Redis outlives it | `run`, `_handle_message`, `handle_signal`, `_run_gmx_leg`, `_run_binance_leg`, `_xadd_execution` | at most one dispatch per signal; orders only by the ladder of gates; one truthful record per signal; a loss starts a cooldown |
| GMX signer (`gmx_signer.py`) | cached key; the chain's view of the transaction | `sign_order`, `submit_signed`, receipt poll | nothing broadcast unless live, not dry and keyed; the result claims nothing untrue |
| Binance orders (`binance_order.py`, `binance_auth.py`, `binance_startup_check.py`) | none of its own; the venue's orders and positions | `place_market_order`, `get_order_status`, `cancel_order`; signed GET/POST/DELETE | the gate stack; a size the venue can accept; a result, and a later lookup, that is true |
| Exchange info (`binance_exchange_info.py`) | module-level TTL cache | fetch, cached get, quantity from notional, rounding, minimum notional | rounding never raises an order above its notional; a failed refresh never empties the cache; filters of a known age |
| Reconciliation (`gmx_position_reader.py`) | none | `fetch_account_positions`, `reconcile_intent` | the decision matrix of its docstring; never a second side in one market |
| GMX order encoder (`gmx_order_encoder.py`, `gmx_errors.py`) | none | validate, acceptable price, encode, simulate, decode errors | slippage on the right side; a failed simulation is not acceptable |
| Signal emitter (`funding_arb_runtime.py`, `funding_arb.py`) | CEX rates of one sweep | sweep, threshold, publish, log | one market's failure spares the others; a signal's side follows the sign of the GMX rate, and its CEX rate is of this sweep or marked as missing |
| Funding readers (`gmx_reader.py`, `binance_funding.py`) | none; what the market was during the call | fetch, scale, sign | an answer the market explains, with its sign, though no two reads are of one block; partial batches |
| Process (`main.py`, `redis_client.py`) | the task list, a shared Redis client | start, gather, cancel | one task's death does not leave the other half alive |
| Watchdog (`watchdog.py`) | the results of one tick | checks, alerts, exit code | a drift that stood is told, by exit code and alert, whatever else fails |
| Smoke tests (`cli.py`) | one command's requests and counts | four commands that ask the venues | an exit code that fits what was asked of and answered by the account; silence is not success |
| Settings, markets (`settings.py`, `markets.py`) | constants of a process | – | – |

Hard behaviours: reads that fail open in one gate and closed in another, the
guard's sequence of reads racing the world, a verdict used minutes later, two
legs of which one breaks, lost answers of calls that did happen, a GMX order
that executes after its transaction, death between order and record and between
record and loss timestamp, an exception outside the `try`, the rounding of a
size, a cache served past its age, reads of a market that moves between them,
checks whose subject changes while they run. PROJECT.json lists them one by one with the properties that speak of each.

## 2. The modules

| Module | Models | Form |
|---|---|---|
| `PilotGuard` | `PilotGuard.check` read by read, `trip/reset_killswitch`, `record_loss` | state machine, also instantiated |
| `GmxLeg` | `sign_order`, `submit_signed`, receipt, and the chain | state machine, also instantiated |
| `BinanceLeg` | `_run_binance_leg`, `place_market_order`, the signed POST, and the venue | state machine, also instantiated |
| `ExchangeInfoCache` | the cached and the forced read of exchangeInfo, the refresh, the wall clock | state machine without a `Next` of its own |
| `BinanceOrders` | `BinanceLeg` over the cache, `get_order_status` and `cancel_order` beside it | composes the two above |
| `FundingRead` | what a read of a GMX market promises its caller | abstract specification |
| `GmxReader` | `fetch_gmx_funding_live` await by await | state machine, refines `FundingRead` |
| `Reconcile` | `reconcile_intent` and the matching it rests on | operators |
| `GatedDispatch` | what the consumer promises | abstract specification |
| `FundingArbExecutor` | `handle_signal`, both legs, record, loss, cancellation, crash, restart | composes guard, legs, reconciliation; refines `GatedDispatch` |
| `SignalPipeline` | the emitter's sweeps, pub/sub, the subscribe loop, `main.py`'s gather and cancellation | state machine |
| `Watchdog` | one tick of the watchdog: checks, alerts, exit code | state machine |
| `OperatorSmokes` | the four smoke tests request by request; the list of positions they read | state machine |
| `OperatorCli` | `cli.main`: one process, one command | composes the two above |
| `PilotGuardProofs`, `GmxLegProofs`, `BinanceLegProofs`, `BinanceOrdersProofs`, `GmxReaderProofs`, `SignalPipelineProofs`, `OperatorCliProofs`, `FundingArbExecutorProofs` | the theorems of section 4 | proofs |
| `MC*` | constants for TLC | – |

**PilotGuard.** `stage` is the `await` the check stands at. Each `Read…` action
is one gate: `Answer(r)` says whether the read answers, and the gate's own
`except` or `None` branch decides what a failure does: the killswitch
fails closed, PnL, both counts and the cooldown fail open. The allowlist and the cap, which await
nothing, are part of `ReadKillswitch`, in the code's order. `gate` is the denial. `LogDenial` is the
stream write, best-effort. Two history variables carry the properties: `standing`, the reasons to
deny that have held without interruption since the check began (`Observe`
intersects it with `Holding` at every step), and `blind`, the reads that failed
open. The killswitch is tested for its presence only, as in the code. PnL has
two clocks: the window the stream's entries fall into is that of the moment of
the read, `now`, so midnight may pass during a check. PnL is settled by others
(`PnlSteps`); Binance's count is read as one number.

**GmxLeg.** `gstage` is the await: nonce, gas price, then either the simulation
(dry run, or a refusal, whose reason `grefusal` is put in the result) or the
broadcast. The broadcast is two steps, `Send` and `HearSend`, because its
answer may be lost. `PollReceipt` is the single poll. `gtx` is the chain's view:
dropped, reverted or mined; a mined `createOrder` is executed or cancelled by a
keeper later. A leg that raises has no result, as `gather(return_exceptions)`
leaves `None`. RPC failures are one outcome since `_eth_call` answers `{}` for
each. Fees, nonces and the ABI payload are abstracted.

**BinanceLeg.** Mark price, exchange info, sizing, gates, position mode, POST,
answer. Money is in dollars and quantity in whole lots, so rounding is a
division. `Post` and `ReadAnswer` are two steps for the same reason as above.
`Verdict` shows what a caller learns: any status but 200 and any lost call are
the same `None`. The order's `status` in the answer is not looked at, hence an
expired order counts as submitted.

**ExchangeInfoCache.** The module global `_cache` is replaced whole or not at
all, so it is the set of symbols of one body (`held`), the moment the venue wrote
that body (`heldRead`, history) and the wall-clock stamp (`stamped`). A call to
the venue is an await: `VenueAnswers` writes the body, `StoreReply` stores it
later, with time and the clock moving in between. `Parsed` drops entries that do
not parse; an empty result leaves map and stamp alone and serves the old map.
`WallClock` can be set back (`SetClockBack`), since the age is taken by
`time.time()`.

**BinanceOrders.** BinanceLeg's `FetchExchangeInfo(served)` is here the end of a
call through the cache. A command may ask for the filters, forced or not, before
any order. `AskVenue`, `VenueLooks` and `HearLookup` are a lookup
by client order id; nothing in the repository calls the two functions, so they
are enabled at any time after the order's dispatch has begun, while its POST or
its answer may still be on the way. `Looked` is what the caller learns: every
status but 200 is no body.

**GmxReader.** `rstage` is the await: getMarket, three prices, getMarketInfo and
up to four reads of open interest, every one at `latest`, each able to fail.
`MarketMoves` changes the market between any two of them (`seen` collects what
it was); a Reader contract that was moved may say anything (`Told`), while the
DataStore stays. Rates are in units of the funding factor and open interest is
kept doubled, since a market with one collateral token is halved. A side whose
first amount is unknown skips its second, as the code does; the shorts are read
even then. A price payload of NaN, or JSON that is no object, raises out of the
call (`Escaped`, against its docstring: `ReadNeverRaises`); the sweep catches it and leaves the
market out, which is what it makes of None as well (`Delivered`).

**FundingRead.** The promise, that of the docstring: None, or a state whose rate and whose
two sides the market had at some moments of the call; never an exception. It is deliberately no
snapshot. Its operators are written on their own, so that the reader's sign
and sums are compared with something.

**Watchdog.** A check is named by its place in the results: the Reader's code, the
WHYPE source, then one per market. `drifted` is what differs from the settings,
`WorldDrifts` changes it in the middle of a tick. `Results` says what a check can come
to: unanswered is `ERROR`, and a market is looked up through the Reader, so that
an orphaned Reader may answer anything. `stood`, `felt` and `answered` are history.

**OperatorSmokes.** One command per behaviour; `sstage` is the request it stands
at. `heard` is the history of requests with a well-formed answer, `nones` and `failed`
are g6_smoke's counts. The Binance account's mode may be flipped and the signed
API go down or come back between two requests (`AccountChanges`). `KeepPosition` is
the loop of `fetch_account_positions`; the list it builds is what the matrix of
`reconcile_intent` is stated over.

**Reconcile.** `Decoded` is the reader's address-to-alias lookup (`None` for an
unknown market), `Matches` the comparison by alias or address and by collateral,
`ReconcileAction` the decision.

**FundingArbExecutor.** `pc` is the `await` of the consumer task; the places in `Looping` are those of the
subscribe loop around `handle_signal`, in which an attempt may be refused, a connection lost and a cycle ended
by a signal that raised, any number of times (`Resubscribe`). A notional is what `float()` makes of it: a
number, a NaN, or nothing at all ("unreadable"). The modules
above are INSTANCEs: the guard counts the positions the venue variables hold,
its gates' allowlist is the setting of the running process, and `Guard!Observe`
is conjoined to every step. `Objection` is the order in which `handle_signal`
turns a signal down. The verdict is taken once, and what follows it (position
read, both legs) interleaves with the world. `Crash` is death or cancellation at
any `await`: it drops everything local and keeps Redis and the venues; the
next process may have other settings. `executions` is the stream. The history
variables `lost` (records that could not be written) and `owed` (when the
last loss was seen) are read by properties only.

**SignalPipeline.** The other half of the process, in which `handle_signal` is
the interval between `GetMessage` and `FinishSignal`. `epc` is the `await` of the emitter: the
batch of CEX rates, the GMX rate, the CEX rate, PUBLISH, XADD, the sleep.
`Detect` is the code between the last read and the publication, where nothing is
awaited. Every read may fail, as may PUBLISH (before or after Redis has passed
the message on) and XADD; `NextMarket` is where all of them end. A CEX rate is
represented by the sweep it was read in, because what can go wrong with a cache
is its age. `buffer` holds what Redis has passed to a subscription and the
consumer has not read. `Drop` is the loss of the connection with any part of the
buffer; the consumer notices at its next read and backs off. `GatherRaises`,
`CancelEmitter` and `Drained` are the `finally` of `_main_async`; `Kill` is death
at any point. `lastHeard`, `polled` and `emitted` are history. `FinishSignal` also ends in
an exception out of `handle_signal`, which costs the subscription and what was in the buffer. A subscription
may be refused any number of times, and `BackOff` leads to the next attempt.

**GatedDispatch.** A signal is new, cleared or settled, only ever moving
forward; an order is placed on a venue at most once, only while the signal is
cleared and the venue is live. `Promise` in FundingArbExecutor is the
refinement mapping.

## 3. The runs

Passing:

| Run | Asks | Bounds |
|---|---|---|
| `pilot_guard` | Does a check deny for any reason that stands throughout, whatever fails and moves? Does it always end? | one market in two spellings, armed or not; notionals at and above the cap and NaN; clock 0..3 with days and cooldowns of 2; PnL −2..2 around a floor of −1; up to one position per venue and a limit of one; every read may fail |
| `binance_leg` | Is an order gated, its size acceptable, its result true, also to a later lookup? How old are the filters it was sized by? | two orders, a market with a symbol and one without, a true mark price or none, notionals on both sides of each minimum, all settings and answers; TTL and latency of 1, time 0..3, one step back of the clock |
| `executor_one` | One signal of any kind, every setting, every failing read, every move of the world, crash and restart: gates, records, guard use, no loss booked by a dry run, no await that nothing ends, termination | one signal, clock fixed |
| `executor_two` | Two signals: at most one dispatch each, one record each, the cooldown of the first loss | two signals, one live setting, clock 0..1, cooldown 1; the cooldown, Binance count and position reads may fail |
| `components`, part `leg` | Is a broadcast always gated, and a SendResult never false? | two orders, all settings, all fates |
| part `reader` | Is a funding state that is returned one the market explains, and does the sweep get a state or nothing? | a market that changes twice, through six worlds: a sign and a size that turn, one token, disabled and unmapped, delisted, Reader moved |
| part `pipeline` | Both tasks and the channel between them: what a signal tells, what a sweep covers, what is heard, how the consumer gets its subscription back, and how the process ends | two markets, two sweeps, one dropped subscription, any number of refused ones, of signals that raise, of kills and restarts; all three CEX modes |
| part `cli` | Do the exit codes and alerts of the watchdog and of the smoke tests tell the truth? Does reconciliation decide as its docstring's matrix does? | two markets, every drift at the start and two more within the tick; two flips of the account; every list of up to three positions over two markets, an unknown address and two collaterals, in every order, with every intent |

The four parts of `components` share no state. `MCComponents` checks each by
itself: `part` says which, and the other three stay where they start, so that
nothing is claimed of their interleaving, which the code does not have either.

The properties, by the question they answer:

- `TripStands`, `StandingReasonDenies` (guard): a killswitch that is set all
  through a check is never missed; any other reason only by its own read's
  failure. They need several actors to violate: a read must pass before or after
  the fact, and every later gate pass too.
- `CheckDecides`: a check ends.
- `BroadcastGated`, `PostedOnlyWhenLive`: seen from the venue, not from the gate.
- `ResultTruthful`, `VerdictTruthful`: what a result claims against what the
  venue did; nothing is claimed after a lost answer.
- `SizeAcceptable`: rounding, minimum quantity and minimum notional together.
- `ServedAgeBounded`: the filters an order is sized by were written within the TTL,
  one call and whatever the clock went back, unless this very call's refresh failed.
- `FilledStaysFilled`: no refresh empties the cache, takes it back in time or renews
  its stamp without news.
- `LookupTruthful`: however a lookup, the order and their answers overtake one
  another, "submitted" is right, and a cancel never claims to have undone a fill.
- `AnswerTrue`, `ReadKeepsPromise`: a funding state put together from reads of
  different blocks is still made of what the market had, signed as it was, with nothing missing or counted
  twice; and what the sweep gets of a read (`Delivered`) refines `FundingRead`, a
  state or nothing. The read by itself does not keep that: `reader_raises`.
- `WatchdogTells`, `AlertsTell`: exit code and alerts against the drifts that stood
  all through the tick, and against those that never were, when checks go
  unanswered, Redis refuses alerts or the Reader itself is the one that drifted.
- `ShakedownTells`: g6_smoke's code when the account is flipped and the API goes
  down between its requests.
- `SmokesTell`: exit 0 of `g5_sign_smoke`, `g6_smoke` and `g6_dry_run_order` rests on an
  answer to every request their verdicts need. Of `g5_position_smoke` it asks the probe only,
  since of its two reads the claim is false: `smoke_silence`.
- `MatrixDecides`, `NoSecondSide`: the decision, over a list read one position at a
  time, against a reference matrix.
  `NoSecondSide` needs the account to be one-sided already (one position per
  side, as GMX itself keeps them).
- `LadderHolds`: at the step that places an order, the settings, allowlist, cap
  and guard reasons, across modules and across the minutes since the check.
- `RecordsTell`: a record stays true for ever: a refused signal has no order, a
  success has both or neither. An order counts once it is sent, so a reverted GMX
  transaction beside a fill is both: that half is `RevertIsNotSuccess`, and violated.
- `AuditComplete`: one record per finished signal, or a known cause for none.
- `LossCoolsDown`: no order within the cooldown of a loss, across restarts.
- `DryRunsBookNoLoss`: only a live process writes the loss timestamp. A dry run that wrote it
  would put the live process after it into a cooldown, and the text that tells
  a loss from a refusal is the one `executor_refusal` shows to be the wrong one.
- `UsesGuard`: every step of the executor is a step of the guard's own
  specification, so the theorems of `PilotGuardProofs` hold in it.
- `KeepsPromise`: refinement of `GatedDispatch`.
- `PayloadTrue`: at the moment of publication a signal's side fits the rate just
  polled and its CEX rate was read in this sweep or is marked as a fallback; a
  rate left over from an earlier sweep would break it.
- `EveryMarketPolled`, `SweepEnds`: no pattern of failures cuts a sweep short or
  holds it up.
- `HeardOnceInOrder`: across lost connections, backoffs and restarts no signal is
  handled twice or after a later one. That signals are lost is allowed.
- `FailureStopsAll`: a consumer that breaks takes the emitter down with it,
  wherever the emitter stands.
- `TaskNeverStuck`: from every reachable await of the task it can go on; a leg that
  raised has ended too, so that `gather` waits for nothing that is gone.
- `SignalSettles`: a signal taken is settled and the task listens again, unless its
  process ends.
- `Reconnects`: "the whole loop survives Redis disconnects too". A consumer without a
  subscription, with others' messages still in its buffer or a signal in hand,
  comes to have one, however many attempts are refused and however many messages
  raise. Its conditions are part of it: the consumer's awaits end (`ConsumerRuns`), and
  Redis does not refuse every subscription of a loop that keeps asking
  (`RedisAccepts`). A loop that went back to listening without a subscription breaks it.

Runs that end in a violation, each a statement of a comment or docstring that
the code does not keep (quoted in PROJECT.json under "findings"). A property or a theorem
bounds, for each, the ways in which it can fail:

| Run | What it shows | Its counterpart |
|---|---|---|
| `executor_raises` | a notional `float()` cannot read (`null`, a list, an object, text that is no number) raises out of `handle_signal`, costs the subscription and the record | `RaisedSignalsAreInert`: nothing else raises, and such a signal never has an order or a record |
| `executor_revert` | a transaction reverted on chain is recorded as a success and counted as a loss at once | `SuccessInLossIsRevert`: nothing else is both |
| `executor_refusal` | a refusal by the live flag counts as a loss: the text looked for is not the text written | `DryRunsNeverLose`: never in a dry run |
| `executor_sides` | both sides of one market open, each read having succeeded, as the first order had not executed when the second was reconciled | `OnlyLateOrdersOppose`: never if every earlier order is final by then and the read succeeds |
| `executor_fallback` | a live hedge sized at the $1.00 fallback price | `OnlyLowMarksOverhedge`: never with a mark price that is there and not below the true one |
| `reader_raises` | a price key that holds a NaN, or JSON that is no object, raises out of `fetch_gmx_funding_live` | `ReadKeepsPromise`: the sweep still gets a true state or nothing |
| `smoke_silence` | `g5_position_smoke` exits 0 with its read of the empty address unanswered | `SmokesTell`: its probe was answered |

Observed while modelling, with no run of their own: a failed position count
allows (`pilot_guard.py:191-192` says so); an `EXPIRED` order counts as submitted
(`binance_order.py:240`); a POST whose answer is lost leaves a record without an
error (`funding_arb_executor.py:806`); a rejection with a status other than 200 carries no
`error_code`, though `binance_order.py:250-252` says it does, since `_signed_request`
answers `None` (`binance_auth.py`), so a caller cannot tell it from an order of unknown
fate and no cooldown starts; a signal is detected on the GMX rate alone
(`funding_arb.py:66`), so its net rate may be against it; the backoff is only reset when
a cycle ends cleanly (`funding_arb_executor.py:871`), so it keeps growing to its maximum
over failures that are days apart; `lot_max` is parsed and never compared
(`binance_exchange_info.py`). `get_order_status` says that its result carries `error_code` on a
Binance error and that -2013 means a retry is safe (`binance_order.py:693-714`), but
-2013 comes with a status other than 200, hence without a body: "no such order" and
"no answer" are one result. In `g5_sign_smoke` the branch for a missing simulation (`cli.py:255`) cannot be taken: an
outage there exits 2, one at the nonce or gas price exits 3, which the README
reserves for a missing key, and a garbled number raises past the handler. Exit 4 of `g6_smoke`
counts an answered balance list without a USDT entry as unread.
The price band of a GMX order is taken around a placeholder of
$1.00 (`funding_arb_executor.py:658`) also when the order is live.
`--force-refresh-exchange-info` does nothing (`cli.py:628-631`), since the call behind
it never reads the cache.

### Why the bounds are enough

The guard's gates compare with thresholds, and each constant takes values on both
sides of its threshold and on it. A clock of 3 with a window of 2 lets a
cooldown start, run and end, and a day turn, within a check and between two.
Two sweeps are what a stale cached rate needs, two markets what a failure in
mid-sweep needs, and one dropped subscription, with restarts besides, gives
signals before, during and after a gap. The legs hold no state from one order to the next, so two orders show any leak.
Reconciliation scans a list for a match and decides by the first or any: three
positions give a match before, after and between others. A cache needs a
fill, an expiry, a failed refresh and a served stale map: time 0..3 with a TTL and
latency of 1 has all four, and one step of the clock more than the TTL allows. Two changes
of a market, of a drift or of an account make it leave and come back within a call, which
is what a history of "all through" must tell from "still". One
signal in the executor meets every setting, failure and world move; two meet
what only a pair can show (the cooldown, the record of the first, a position
opened late), there with the settings and failures irrelevant to the
question fixed. `Next` in the executor is a conjunction with `Guard!Observe`.

`CHECK_DEADLOCK FALSE` is given where a model stops because a bound is reached or
the process ends: no order or signal number is left, or a command has exited.

### Fairness

`FairSpec` in PilotGuard asks that an enabled step of the check is taken, and in
FundingArbExecutor the same of the consumer's task while a signal is in its hand; the loop
around it, `Resubscribe`, may back off and be refused for ever. In SignalPipeline
`PipelineFairSpec` (in the run, `PartSpec`) asks this of the
emitter and of main's `finally`, and nothing of the consumer: what `Reconnects` needs of
it and of Redis is its own hypothesis, and a behaviour in which Redis refuses for ever is one
of the run's. The code's ground for it:
asyncio runs every ready task; each HTTP client is built with a timeout; the
backoff has a maximum. The Redis client is built without `socket_timeout`
(`redis_client.py`), so that Redis answers or hangs up is an assumption, not a
fact about the code. Nothing is assumed fair of the operator, the keepers, the
clock, or restarts: `SignalSettles` therefore lets a crashed process stay down. The runs claim no
liveness of the legs by themselves, the cache, the reader or the commands; that a read
takes at most nine awaits and that a command ends is proved (section 4).

The prover cannot reason about `ENABLED`, which `WF_` is defined by. Each module with
a `FairSpec` therefore states the same promise once more in terms of the awaits
alone: `AwaitsEnd` (PilotGuard), `EmitterRuns`, `ShutdownRuns` and `ConsumerRuns` (SignalPipeline),
`TaskRuns` (FundingArbExecutor), and `CommandRuns` (OperatorCliProofs) for the requests of
a command. Each says that it is not so that from some moment on the
task stands at an await for ever and takes no step. That is what weak fairness
unfolds to when the step is enabled, and changes something, at every await of the
task. For the guard and the pipeline this is seen from the guards of the
actions: every disjunct of `CheckStep`, of the emitter's and of main's step is guarded
by its stage alone and has an outcome for each failure. For the executor, where a step
of the task goes through three other modules, TLC looks at it in every state:
`TaskNeverStuck` says that the step is enabled. It is what joins the two forms:
`FairSignalsSettle` proves `SignalSettles` from `FairSpec` and
`TaskNeverStuck` alone, and `TaskAlwaysReady` proves what of `TaskNeverStuck` can be said without
`ENABLED`, that what each await waits for is there. The other theorems on
liveness assume the second form, the runs the first.

## 4. The proofs

Every invariant, every action property, every refinement and every liveness property
that a passing run checks is proved here for all values of the constants, with three
exceptions: `TaskNeverStuck`, which is about `ENABLED`, `SweepEnds` for lists
that name more than a million markets, and `Reconnects` for a buffer that holds more than
a million messages. Each safety proof is an inductive
invariant whose preservation is shown action by action. What is assumed is only
the named `ASSUME`s of the modules: numbers are numbers, the floor of the PnL is
not positive, a lot is worth something, a mark read comes back with something, there
is a market to poll, what the leg knows as its symbols is what exchangeInfo lists, and
so on. TLC evaluates them in the runs. The liveness theorems assume, besides, the promise
about awaits named with them.

| Module | Theorems | From |
|---|---|---|
| `PilotGuardProofs` | `TypeOK`, `TripStands`, `StandingReasonDenies`; `CheckDecides` under `AwaitsEnd` | `GuardAssumption`, `FloorAssumption` |
| `GmxLegProofs` | `TypeOK`, `BroadcastGated`, `ResultTruthful` | `IdsAssumption` |
| `BinanceLegProofs` | `TypeOK`, `PostedOnlyWhenLive`, `SizeAcceptable`, `VerdictTruthful` | `BinanceAssumption` |
| `BinanceOrdersProofs` | the composition implements the leg and keeps its three promises; types; `ServedAgeBounded`, `FilledStaysFilled`, `LookupTruthful` | and `ListedAssumption`, `CacheAssumption` |
| `GmxReaderProofs` | `AnswerTrue`, `ReadKeepsPromise`; what a read of a market that keeps still answers; a bound on the awaits of a read | `WorldsAssumption` |
| `OperatorCliProofs` | `CliTypeOK`, `WatchdogTells`, `AlertsTell`, `MatrixDecides`, `NoSecondSide`, `ShakedownTells`, `SmokesTell`; a bound on the steps of a command, which never sticks, and ends under `CommandRuns` | `WatchdogAssumption`, `SmokesAssumption`, `ReconcileAssumption` |
| `SignalPipelineProofs` | `PipelineTypeOK`, `PayloadTrue`, `EveryMarketPolled`, `HeardOnceInOrder`; `FailureStopsAll` under `ShutdownRuns`; that a market is left behind, and `SweepEnds` for up to a million, under `EmitterRuns`; `Reconnects`, with its own hypotheses, for a buffer of up to a million | `PipelineAssumption` |
| `FundingArbExecutorProofs` | `AuditComplete` and the order of the stream, `RecordsTell`, `KeepsPromise`, `UsesGuard`, `TypeOK`, `LadderHolds`, `LossCoolsDown`; the guard's and the legs' promises within the executor; what reconciliation lets through, the fate of an order, where positions come from; `DryRunsBookNoLoss` and the other counterparts of the violated claims; a bound on the steps of a signal; `SignalSettles` under `TaskRuns`, or under `FairSpec` and `TaskNeverStuck` | `ExecutorAssumption`, `ConfigAssumption`, and those of the parts |

**Guard.** `StandingReasonDenies` is about the verdict only and is not inductive: nothing at
the verdict tells what was read. `GuardInv` says, gate by gate, what having
passed means for the reasons that still stand (`PastKillswitch`, `PastPnl`,
`PastCounts`, the partial sum after GMX's count), and that until G4 reads the
stream a day below its floor has not rolled over (`WindowIsToday`). Without
the last, the check could read a new day's window while the old day's reason still
stood. `ChecksDecide` needs no more than that each
await leads only to later ones, in the code's order, and that a step of anyone else leaves
the stage alone or cancels the check.

**Legs.** `GmxInv` says what having passed the gates means for the
stages behind them, and that the transaction of an order does not exist before
the leg sends it, nor of any later order; without that a result of a simulation
could meet a transaction that is already there. `BinInv` has the same form;
its `AnswerAgrees` ties the answer on its way to what the venue did.
`SizeIsAcceptable` is the arithmetic: a quantity that is rounded down and
passes both checks is one the exchange takes, for every price, lot and minimum.

**Orders over the cache.** `OrdersImplementLeg`: every step of `BinanceOrders` is a step
of `BinanceLeg` or leaves it alone, so that the leg's theorems hold over the real cache.
`CacheInv` says that a stamp is at most one call younger than the body it is on,
and that a call in progress began no longer ago than one latency: with it the TTL becomes
a bound on the age of the body, up to what the clock went back. `LookupInv` says that an order found by a
status lookup is on the venue's book; the leg never takes one off again.
`OrdersKeepTheirGates` draws the consequence of the refinement for gates, size and result.

**Reader.** `ReaderInv`: each register filled so far stands for an answer from some
world of this call, unless the Reader contract moved. The refinement of `FundingRead` follows
from it at the two steps that return, every other step being a stutter.
`QuietReadsAreSnapshots` draws what the promise means where the market did not change during the
call: the rate is its rate with its sign, the totals are its totals. `ReadsCostBounded` counts
the awaits: every step of a read leaves fewer, from nine down, and none are left only when it has answered.

**Operator.** `WatchInv`: each result so far blames only what drifted or went unanswered, and an answered
check whose drift stands is not `OK` (`ResultsSound`), what is published comes after what is checked (`Progress`), and
what was to be published has been tried (`Published`). `AliasesRight` says of the list
read so far that each position carries the alias of its address or none; from it, a lemma
compares the first-match scan of the code with the matrix, for lists of any length. `SmokeInv`
counts the requests: `g6_smoke`'s counters agree with what was heard, and a command
that has passed a request has its answer. `WatchInvariance`, `AliasesStayRight` and `SmokeInvariance` carry the
three invariants through every step; each property is a theorem of its own on one of them.
That a command ends needs three facts more (`CommandsNeverStick`): one process runs one
command, a command stands at a request of its own, and of the alerts that remain one is the
first. `Cost` then counts what is left: two steps for each check, one for each position, and the requests;
each step of the command lowers it and the world never raises it (`CommandsCostBounded`).
Under `CommandRuns` it comes down to 0, where the command has exited (`CommandsEnd`), for
a cost of up to a million, as for the pipeline below.

**Pipeline.** `PipelineInv` has two halves. `SweepInv` says that the cache is of this sweep whenever a market is
polled from it, and that the markets before the one at hand are the ones
polled. `ChannelInv` says that what waits on the channel is in order, newer than
what was heard and older than what is about to be published: the order is lost
only if a message could wait through a restart, and `Kill` and `Drained` empty
the channel. Four theorems say that the pipeline moves on. `FailuresStopAll` follows main from a failed
consumer through the cancellation to the end of the drain. `MarketsEnd` is about one market, with any
number of markets before and after it: the emitter, which stands at its reads, its
publication or its log, gets to the next or the process ends. `SweepsEnd` chains it
from market to market. An induction over the list would need an
induction theorem the prover cannot apply; instead, what gets past d markets in a row gets past
2d (`CoversTwice`), and twenty doublings reach 1048576. `ARBITRUM_MARKETS` names seven, and the
setting that lists them by name may repeat one. `ConsumersReconnect` follows a consumer
without a subscription: as nothing is added to its buffer, each message it takes leaves fewer, whatever
becomes of it, and an empty buffer is noticed; from there it alternates between backing off and
asking, until Redis accepts. The messages are counted down by the same doubling.

**Executor.** Five invariants, each resting on those before it:

1. `TrailInv` (`PlaceInv`, `OneEntryEach`): the place of the consumer, the record in its hand and the
   stream fit together; a signal that is done with has one entry or is lost for a
   known cause. Gives `AuditComplete`.
2. `SentInv`: where each signal's orders may stand, with the gates that lie behind
   them. Gives `RecordsTell` (an entry was true when written and the venues move only
   in ways that leave it true) and, step by step, `KeepsPromise`.
3. `ClientInv`: types, and the guard's check running exactly while a signal is at it. Gives `TypeOK`
   and `UsesGuard`: what the legs do to the two venues moves a count
   of positions by at most one, which is what the guard's `Environment` allows
   (`PositionMoves`, on cardinalities of finite sets).
4. `LadderInv` adds `GateInv`, the guard's invariant restated for the composed
   state, and `VerdictInv`, which carries the verdict over the awaits after it. Gives `LadderHolds`.
5. `LossInv`: unless the loss is still pending, in the record in hand or at the write that
   follows it, its timestamp is in Redis (`owed` is set back where a failed write or a death loses it); and
   behind a verdict in favour no cooldown runs that was read. Gives `LossCoolsDown`.
6. `LegTruth`: what the legs' own modules promise of a result and of a size, restated for the order of
   the signal in hand, with what the venue has made of an order whose answer is on its way
   (`AnswerAgrees`). The legs' theorems cannot be cited for it: a restart
   changes settings that `GmxLeg` and `BinanceLeg`, alone, keep. Gives `GmxResultsStayTrue`,
   `BinanceVerdictsStayTrue` and `BinanceSizesStayAcceptable`; from `LadderInv` follows
   `GuardStandsInExecutor` in the same way.

Liveness of the executor rests on a number, `Work`: the awaits the check, the position
read, both legs together, the record and the loss have at most before them. `TaskWorks`:
every step of the task makes it smaller. `WorkNeverGrows`: no keeper, operator, block, tick or
crash makes it larger before it is 0. It is at most 23, so that `SignalsCostBounded` needs no
fairness, and `TaskRuns` then takes it down to 0 in 23 steps of one rule (`WorkRule`), where only "listen"
and "down" are left.

Three theorems are about the positions, across any number of signals and restarts.
`ReconcileFollowsPositions`: a signal is refused only if the account holds the other side of
its market and not its own, and unless the read fails every such signal is.
`OrdersAreFinal`: an order at a venue is moved by the chain, the keepers and the exchange only,
so nothing is sent twice. `PositionsComeFromSignals`: a position the account did not start
with was put there by an executed order of a signal of that market and direction.

The counterparts of the five violated claims about the executor rest on invariants of their own.
`InertInv` says that the consumer raises over nothing but an unreadable notional, and that a signal
with one is lost without ever having had an order, since only the signal in hand gets orders
(`OnlyInHandPlaced`).
`LossOnlyInv` carries what a record in hand, and later its entry, may say of a leg that succeeded
and lost; `DryInv` and `DryBinInv`, what a dry run's legs and record can be; `MarkInv`, that the mark a hedge is
sized with is the one read, which with the leg's `SizeAcceptable` bounds what it costs; `SidesInv`, that at
most one order is under way and the other side of its market is not open, where an earlier order still in
flight at reconciliation is excluded by the hypothesis `[]NothingInFlight`.
`executor_sides` shows that the hypothesis is needed.

Only model-checked: that `WF_` implies the promises about awaits (the argument is in section 3, the part that is not
seen from the guards is `TaskNeverStuck`); `SweepEnds`, `Reconnects` and `CommandsEnd` beyond a
million markets, messages and steps,
which nothing checks either; and the seven runs that end in a counterexample.

## 5. What is left out

- `g7_guard_status`, which prints `PilotGuard.state` and always exits 0; `g7_consumer_smoke`,
  which calls `handle_signal` once with dry run forced; `fetch_position` and
  `round_price`, which nothing calls. None has state of its own.
- Arithmetic on values no property tells apart: the acceptable price, fees, yields and
  dollar amounts of a payload, decimal steps (`binance_exchange_info.py:117-138`
  keeps them exact, so lots are integers here), prices in the reader's valuation and
  their age (`gmx_reader.py:261` reads no timestamp).
- The signer's key cache: a process that found no key never looks again, so
  the key is a setting of the process.
- ABI layout, HMAC and transaction signing, HTTP transport, logging, printing, the
  watchdog's JSON export.
- PnL is not settled anywhere in this repository (each record carries 0.0), so in the
  composed model the PnL gate never denies; it is checked in `PilotGuard` alone,
  where PnL moves. The approximate trimming of the streams is left out for the
  same reason.
- The consumer is built before its first `await` but in a step of its own, and the
  length of its backoff is not modelled. The client library's own attempts to
  reconnect a subscription are not modelled: a lost one is noticed by an
  exception, as the loop's own handler expects.
- The pipeline and the executor are not composed with each other: `handle_signal` is an
  interval in the one and the whole of the other, and they share nothing but that interval.

## 6. Plan

Done: the guard, the legs, reconciliation, the executor that
composes them with its abstract specification, the pipeline around it, the
exchange-info cache and the order lookups on it, the GMX reader with its abstract
specification, the watchdog and the smoke tests; the proofs of all of them, safety and
liveness.

Left, in the order of use: the arithmetic of `round_to_step` on decimals and of the acceptable
price, each against a reference definition over bounded inputs; the signer's key
cache as state of the process.
