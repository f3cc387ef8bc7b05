--------------------------- MODULE SignalPipeline ---------------------------
(***************************************************************************)
(* One process of gmx-strategies from funding rates to the hands of the    *)
(* consumer: the emitter's sweeps (funding_arb_runtime.py), Redis pub/sub, *)
(* the consumer's subscribe loop (FundingArbExecutor.run) and the gather   *)
(* of both tasks in main.py.  handle_signal is one step here that takes    *)
(* as long as it likes; FundingArbExecutor opens it up.                    *)
(*                                                                         *)
(* A CEX rate is represented by the sweep it was read in, a GMX rate by    *)
(* its sign once it is beyond the threshold, and 0 below it.               *)
(***************************************************************************)
EXTENDS Integers, Sequences

CONSTANTS
    MarketList,    \* the resolved markets, in sweep order
    Rates,         \* GMX rates, a subset of {-1, 0, 1}
    MaxSweeps,     \* bound: sweeps begun, over all processes
    MaxDrops       \* bound: times Redis drops the subscription

ASSUME PipelineAssumption ==
    /\ Len(MarketList) \in Nat \ {0}
    /\ DOMAIN MarketList = 1..Len(MarketList)
    /\ Rates \subseteq {-1, 0, 1}
    /\ MaxSweeps \in Nat /\ MaxDrops \in Nat

CexModes == {"mock", "single", "batch"}   \* binance_funding_source and _batch
NoRate   == 0                             \* None, or no key in the cache

VARIABLES
    cexMode, consumerOn,       \* settings of the process
    main,                      \* where _main_async stands
    epc, sweep, idx, cexCache, payload, rate,   \* the emitter
    polled,                    \* history: positions of this sweep polled so far
    emitted,                   \* history: signals published or tried
    subscribed, buffer, drops, \* the channel, seen from the consumer
    cpc,                       \* the consumer
    lastHeard                  \* history: number of the last signal handled

settings    == <<cexMode, consumerOn>>
emitterVars == <<epc, sweep, idx, cexCache, payload, rate, polled, emitted>>
channelVars == <<subscribed, buffer, drops>>
consumerVars == <<cpc, lastHeard>>
pipelineVars == <<settings, main, emitterVars, channelVars, consumerVars>>

Positions == DOMAIN MarketList

NoPayload == [id |-> 0]
Payload == [id : Nat, pos : Positions, direction : {"long_gmx", "short_gmx"},
            source : {"mock", "binance", "mock_fallback"}, asof : Nat]

PipelineTypeOK ==
    /\ cexMode \in CexModes /\ consumerOn \in BOOLEAN
    /\ main \in {"gather", "drain", "down"}
    /\ epc \in {"sweep", "batch", "gmx", "cex", "publish", "xadd", "sleep",
                "cancelled"}
    /\ sweep \in 0..MaxSweeps
    /\ idx \in Positions
    /\ cexCache \in [Positions -> 0..MaxSweeps]
    /\ payload \in Payload \cup {NoPayload}
    /\ rate \in {-1, 0, 1}
    /\ polled \subseteq Positions
    /\ emitted \in Nat /\ lastHeard \in Nat /\ drops \in Nat
    /\ subscribed \in BOOLEAN
    /\ buffer \in Seq(Nat)
    /\ cpc \in {"off", "start", "subscribe", "listen", "handle", "backoff",
                "failed"}

\* A process starts with nothing in hand.
Fresh(mode, on) ==
    /\ cexMode' = mode /\ consumerOn' = on
    /\ main' = "gather"
    /\ epc' = "sweep" /\ idx' = 1
    /\ cexCache' = [p \in Positions |-> NoRate]
    /\ payload' = NoPayload /\ rate' = 0 /\ polled' = {}
    /\ cpc' = IF on THEN "start" ELSE "off"

PipelineInit ==
    /\ cexMode \in CexModes /\ consumerOn \in BOOLEAN
    /\ main = "gather"
    /\ epc = "sweep" /\ sweep = 0 /\ idx = 1
    /\ cexCache = [p \in Positions |-> NoRate]
    /\ payload = NoPayload /\ rate = 0 /\ polled = {}
    /\ emitted = 0 /\ lastHeard = 0
    /\ subscribed = FALSE /\ buffer = <<>> /\ drops = 0
    /\ cpc = IF consumerOn THEN "start" ELSE "off"

-----------------------------------------------------------------------------
(* The emitter, await by await.                                            *)

EmitterOnly == UNCHANGED <<settings, main, consumerVars>>

FAULTY_StartSweep ==                   \* counts from zero
    /\ epc = "sweep" /\ sweep < MaxSweeps
    /\ sweep' = sweep + 1
    /\ idx' = 0 /\ polled' = {}
    /\ epc' = IF cexMode = "batch" THEN "batch" ELSE "gmx"
    /\ UNCHANGED <<cexCache, payload, rate, emitted, channelVars>> /\ EmitterOnly

\* cex_cache is rebound by the batch, and looked at in no other mode.
StartSweep ==
    /\ epc = "sweep" /\ sweep < MaxSweeps
    /\ sweep' = sweep + 1
    /\ idx' = 1 /\ polled' = {}
    /\ epc' = IF cexMode = "batch" THEN "batch" ELSE "gmx"
    /\ UNCHANGED <<cexCache, payload, rate, emitted, channelVars>> /\ EmitterOnly

FAULTY_BatchCache(got) ==              \* updated in place
    [p \in Positions |-> IF p \in got THEN sweep ELSE cexCache[p]]

\* What fetch_all_cex_fundings returns: the rates it could parse, none at all
\* when the call fails.
BatchCache(got) == [p \in Positions |-> IF p \in got THEN sweep ELSE NoRate]

FetchBatch ==
    /\ epc = "batch"
    /\ \E got \in SUBSET Positions : cexCache' = BatchCache(got)
    /\ epc' = "gmx"
    /\ UNCHANGED <<sweep, idx, payload, rate, polled, emitted, channelVars>>
    /\ EmitterOnly

\* The market is done with: the next one, or the end of the sweep.
NextMarket ==
    /\ polled' = polled \cup {idx}
    /\ rate' = 0
    /\ payload' = NoPayload
    /\ IF idx < Len(MarketList) THEN epc' = "gmx" /\ idx' = idx + 1
                                ELSE epc' = "sleep" /\ UNCHANGED idx

\* The side of GMX that receives funding at this rate.
Receiving(r) == IF r > 0 THEN "short_gmx" ELSE "long_gmx"

\* detect_signal looks at the GMX rate alone.  The signal carries the CEX rate,
\* 0.0 where there is none.
Detect(r, stamp) ==
    IF r = 0
      THEN NextMarket /\ UNCHANGED emitted
      ELSE /\ emitted' = emitted + 1
           /\ payload' = [id |-> emitted + 1, pos |-> idx,
                          direction |-> Receiving(r), asof |-> stamp,
                          source |-> IF cexMode = "mock" THEN "mock"
                                     ELSE IF stamp = NoRate THEN "mock_fallback"
                                     ELSE "binance"]
           /\ rate' = r
           /\ epc' = "publish"
           /\ UNCHANGED <<idx, polled>>

FAULTY_FetchGmx ==                     \* a failed read ends the sweep
    /\ epc = "gmx"
    /\ \/ epc' = "sleep"
          /\ UNCHANGED <<idx, polled, payload, rate, emitted>>
       \/ \E r \in Rates :
            IF cexMode = "batch" THEN Detect(r, cexCache[idx])
            ELSE /\ rate' = r /\ epc' = "cex"
                 /\ UNCHANGED <<idx, payload, polled, emitted>>
    /\ UNCHANGED <<sweep, cexCache, channelVars>> /\ EmitterOnly

\* A failed GMX read skips the market.  In batch mode nothing is awaited from
\* here to the publication.
FetchGmx ==
    /\ epc = "gmx"
    /\ \/ NextMarket /\ UNCHANGED emitted
       \/ \E r \in Rates :
            IF cexMode = "batch" THEN Detect(r, cexCache[idx])
            ELSE /\ rate' = r /\ epc' = "cex"
                 /\ UNCHANGED <<idx, payload, polled, emitted>>
    /\ UNCHANGED <<sweep, cexCache, channelVars>> /\ EmitterOnly

\* What fetch_cex_funding_live comes back with: a rate of now, or None for every
\* failure.  The mock has no rate to tell.
CexReads == IF cexMode = "mock" THEN {NoRate} ELSE {NoRate, sweep}

\* The per-market path.  A failed read does not hold the signal back.
FetchCex ==
    /\ epc = "cex"
    /\ \E stamp \in CexReads : Detect(rate, stamp)
    /\ UNCHANGED <<sweep, cexCache, channelVars>> /\ EmitterOnly

\* PUBLISH reaches whoever is subscribed, and nobody else ever.  Its failure
\* is only logged, and it may fail after Redis has passed the message on.
Publish ==
    /\ epc = "publish"
    /\ \/ subscribed /\ buffer' = Append(buffer, payload.id)
       \/ UNCHANGED buffer
    /\ epc' = "xadd"
    /\ UNCHANGED <<sweep, idx, cexCache, payload, rate, polled, emitted,
                   subscribed, drops>>
    /\ EmitterOnly

FAULTY_LogSignal ==                    \* a failed write publishes again
    /\ epc = "xadd"
    /\ \/ NextMarket
       \/ epc' = "publish" /\ UNCHANGED <<idx, payload, rate, polled>>
    /\ UNCHANGED <<sweep, cexCache, emitted, channelVars>> /\ EmitterOnly

\* The eval log: written or not, the sweep goes on.
LogSignal ==
    /\ epc = "xadd"
    /\ NextMarket
    /\ UNCHANGED <<sweep, cexCache, emitted, channelVars>> /\ EmitterOnly

WakeUp ==
    /\ epc = "sleep"
    /\ epc' = "sweep"
    /\ UNCHANGED <<sweep, idx, cexCache, payload, rate, polled, emitted,
                   channelVars>>
    /\ EmitterOnly

EmitterStep == \/ StartSweep \/ FetchBatch \/ FetchGmx \/ FetchCex \/ Publish
               \/ LogSignal \/ WakeUp

-----------------------------------------------------------------------------
(* The channel and the consumer's loop.                                    *)

ConsumerOnly == UNCHANGED <<settings, main, emitterVars>>

\* FundingArbExecutor is imported and built in its task: that may fail.
BuildConsumer ==
    /\ cpc = "start"
    /\ cpc' \in {"subscribe", "failed"}
    /\ UNCHANGED <<channelVars, lastHeard>> /\ ConsumerOnly

Subscribe ==
    /\ cpc = "subscribe"
    /\ \/ cpc' = "listen" /\ subscribed' = TRUE
       \/ cpc' = "backoff" /\ UNCHANGED subscribed
    /\ UNCHANGED <<buffer, drops, lastHeard>> /\ ConsumerOnly

FAULTY_GetMessage ==                   \* put back until handled
    /\ cpc = "listen" /\ buffer # <<>>
    /\ lastHeard' = Head(buffer)
    /\ cpc' = "handle"
    /\ UNCHANGED channelVars /\ ConsumerOnly

GetMessage ==
    /\ cpc = "listen" /\ buffer # <<>>
    /\ lastHeard' = Head(buffer)
    /\ buffer' = Tail(buffer)
    /\ cpc' = "handle"
    /\ UNCHANGED <<subscribed, drops>> /\ ConsumerOnly

\* handle_signal has returned; or it raised, and the cycle unsubscribes on the
\* way out, with whatever it had not read.
FinishSignal ==
    /\ cpc = "handle"
    /\ \/ cpc' = "listen" /\ UNCHANGED <<subscribed, buffer>>
       \/ cpc' = "backoff" /\ subscribed' = FALSE /\ buffer' = <<>>
    /\ UNCHANGED <<drops, lastHeard>> /\ ConsumerOnly

\* With the connection gone and nothing left to read, get_message raises: the
\* cycle unsubscribes, and the loop backs off.
LoseSubscription ==
    /\ cpc = "listen" /\ ~subscribed /\ buffer = <<>>
    /\ cpc' = "backoff"
    /\ UNCHANGED <<channelVars, lastHeard>> /\ ConsumerOnly

FAULTY_BackOff ==                      \* on to listening, with no channel
    /\ cpc = "backoff"
    /\ cpc' = "listen"
    /\ UNCHANGED <<channelVars, lastHeard>> /\ ConsumerOnly

BackOff ==
    /\ cpc = "backoff"
    /\ cpc' = "subscribe"
    /\ UNCHANGED <<channelVars, lastHeard>> /\ ConsumerOnly

ConsumerStep == \/ BuildConsumer \/ Subscribe \/ GetMessage \/ FinishSignal
                \/ LoseSubscription \/ BackOff

\* Redis drops the connection; what is already on its way may still arrive.
Drop ==
    /\ subscribed /\ drops < MaxDrops
    /\ drops' = drops + 1
    /\ subscribed' = FALSE
    /\ \E k \in 0..Len(buffer) : buffer' = SubSeq(buffer, 1, k)
    /\ UNCHANGED <<settings, main, emitterVars, consumerVars>>

-----------------------------------------------------------------------------
(* _main_async.                                                            *)

\* gather raises what a task raised: the stop event is set and the tasks that
\* still run are cancelled.
GatherRaises ==
    /\ main = "gather" /\ cpc = "failed"
    /\ main' = "drain"
    /\ UNCHANGED <<settings, emitterVars, channelVars, consumerVars>>

FAULTY_CancelEmitter ==                \* the loop's handler catches it too
    /\ main = "drain" /\ epc # "cancelled"
    /\ epc' = "sweep"
    /\ UNCHANGED <<settings, main, sweep, idx, cexCache, payload, rate, polled,
                   emitted, channelVars, consumerVars>>

\* CancelledError surfaces at the await the task stands at; no handler on its
\* way there catches it.
CancelEmitter ==
    /\ main = "drain" /\ epc # "cancelled"
    /\ epc' = "cancelled"
    /\ UNCHANGED <<settings, main, sweep, idx, cexCache, payload, rate, polled,
                   emitted, channelVars, consumerVars>>

Drained ==
    /\ main = "drain" /\ epc = "cancelled"
    /\ main' = "down"
    /\ subscribed' = FALSE /\ buffer' = <<>>
    /\ UNCHANGED <<settings, emitterVars, drops, consumerVars>>

\* The process dies.  What was on the channel for it is gone.
Kill ==
    /\ main # "down"
    /\ main' = "down"
    /\ subscribed' = FALSE /\ buffer' = <<>>
    /\ UNCHANGED <<settings, emitterVars, drops, consumerVars>>

Restart ==
    /\ main = "down"
    /\ \E mode \in CexModes, on \in BOOLEAN : Fresh(mode, on)
    /\ UNCHANGED <<sweep, emitted, channelVars, lastHeard>>

Emit     == main = "gather" /\ EmitterStep
Consume  == main = "gather" /\ ConsumerStep
Shutdown == GatherRaises \/ CancelEmitter \/ Drained

PipelineNext == Emit \/ Consume \/ Shutdown \/ Drop \/ Kill \/ Restart

PipelineSpec == PipelineInit /\ [][PipelineNext]_pipelineVars

\* The emitter's awaits end: HTTP calls carry a timeout, its sleep is one
\* interval, Redis is assumed to answer or hang up.  The loop runs main's
\* finally and the cancelled task.
PipelineFairSpec == PipelineSpec /\ WF_pipelineVars(Emit) /\ WF_pipelineVars(Shutdown)

\* The same promises in terms of the awaits themselves, as the proofs use them:
\* the emitter does not stand at an await for ever, nor main once a task failed.
EmitterAwaits == main = "gather" /\ epc \notin {"sweep", "cancelled"}
EmitterRuns   == []<>~EmitterAwaits \/ []<><<Emit>>_pipelineVars

MainEnding   == main = "drain" \/ (main = "gather" /\ cpc = "failed")
ShutdownRuns == []<>~MainEnding \/ []<><<Shutdown>>_pipelineVars

\* Of the consumer no fairness is part of the specification.  What its own
\* promise takes: it does not stand for ever at an await that can end, and Redis
\* does not refuse every subscription it keeps asking for.
ConsumerAwaits ==
    /\ main = "gather"
    /\ \/ cpc \in {"subscribe", "handle", "backoff"}
       \/ cpc = "listen" /\ (buffer # <<>> \/ ~subscribed)
ConsumerRuns == []<>~ConsumerAwaits \/ []<><<Consume>>_pipelineVars

Asks         == main = "gather" /\ cpc = "subscribe"
Accepted     == Asks /\ Subscribe /\ subscribed'
RedisAccepts == <>[]~Asks \/ []<><<Accepted>>_pipelineVars

-----------------------------------------------------------------------------
\* A signal tells what this sweep has seen: its side receives funding at the
\* rate polled, a CEX rate called live was read in this very sweep, and a
\* fallback stands only for a rate that was tried for and not had.
PayloadTrue ==
    payload # NoPayload =>
        /\ payload.pos = idx /\ payload.direction = Receiving(rate)
        /\ payload.source = "binance" => payload.asof = sweep
        /\ payload.source = "mock_fallback" =>
             cexMode = "single" \/ (cexMode = "batch" /\ cexCache[idx] # sweep)

\* However reads, publications and log writes fail, no sweep ends before every
\* market has been polled.
EveryMarketPolled == epc = "sleep" => polled = Positions

\* No signal is handled twice, or after a later one, across lost connections,
\* backoffs and restarts.
HeardOnceInOrder ==
    [][cpc # "handle" /\ cpc' = "handle" => lastHeard' > lastHeard]_pipelineVars

\* A sweep that has begun ends, unless its process does.
SweepEnds == (epc = "gmx") ~> (epc = "sleep" \/ main # "gather")

\* No half of the process outlives the other: a consumer that breaks takes the
\* emitter down with it.
FailureStopsAll == (cpc = "failed") ~> (main = "down")

\* "The whole loop survives Redis disconnects too": a consumer that is past its
\* first step and without a subscription, in the middle of whatever it still had
\* to read or handle, and however often an attempt fails or a message raises,
\* comes to have one, unless its process ends.
Reconnects ==
    ConsumerRuns /\ RedisAccepts =>
        ((main = "gather" /\ ~subscribed
            /\ cpc \in {"subscribe", "listen", "handle", "backoff"})
           ~> (subscribed \/ main # "gather"))
=============================================================================
