------------------------ MODULE SignalPipelineProofs ------------------------
(***************************************************************************)
(* What a signal tells, what a sweep covers and what the consumer hears,   *)
(* for any list of markets, any number of sweeps and lost subscriptions.   *)
(*                                                                         *)
(* None of the three is inductive.  PayloadTrue needs that the cache is of *)
(* this sweep whenever a market is polled from it; EveryMarketPolled, that *)
(* the sweep has polled all the markets before the one at hand; and        *)
(* HeardOnceInOrder, that what waits on the channel is in the order of     *)
(* publication, newer than what was heard and older than what is at hand.  *)
(* The liveness theorems at the end follow the emitter from one market to  *)
(* the next, then twice as far, and so on, the consumer from one message   *)
(* left on a lost channel to the next in the same way, and main from a     *)
(* failed task to the end of its finally.                                  *)
(***************************************************************************)
EXTENDS SignalPipeline, SequenceTheorems, TLAPS

InMarket == {"gmx", "cex", "publish", "xadd"}

\* A sweep in progress, its cache and the signal in the emitter's hands.
SweepInv ==
    /\ epc \in InMarket \cup {"batch"} => sweep > 0
    /\ epc = "batch" => idx = 1 /\ polled = {}
    /\ epc \in InMarket => polled = 1..(idx - 1)
    /\ epc = "cex" => cexMode # "batch"
    /\ cexMode = "batch" /\ epc \in InMarket =>
         \A p \in Positions : cexCache[p] \in {NoRate, sweep}
    /\ payload # NoPayload => epc \in {"publish", "xadd", "cancelled"}

\* What waits on the channel, between what was heard and what is published.
ChannelInv ==
    /\ lastHeard <= emitted
    /\ \A i \in 1..Len(buffer) : lastHeard < buffer[i] /\ buffer[i] <= emitted
    /\ \A i, j \in 1..Len(buffer) : i < j => buffer[i] < buffer[j]
    /\ epc = "publish" =>
         /\ payload.id = emitted /\ lastHeard < emitted
         /\ \A i \in 1..Len(buffer) : buffer[i] < emitted

PipelineInv ==
    PipelineTypeOK /\ PayloadTrue /\ EveryMarketPolled /\ SweepInv /\ ChannelInv

-----------------------------------------------------------------------------
LEMMA PositionFacts == Positions = 1..Len(MarketList) /\ Len(MarketList) \in Nat \ {0}
  BY PipelineAssumption DEF Positions

LEMMA InitPipelineInv == PipelineInit => PipelineInv
<1> SUFFICES ASSUME PipelineInit PROVE PipelineInv
  OBVIOUS
<1> USE PipelineAssumption, PositionFacts DEF PipelineInit, CexModes, NoRate
<1>1. PipelineTypeOK
  <2>1. idx \in Positions /\ buffer \in Seq(Nat)
    OBVIOUS
  <2>2. cpc \in {"off", "start"}
    OBVIOUS
  <2>3. cexCache \in [Positions -> 0..MaxSweeps]
    OBVIOUS
  <2>4. QED
    BY <2>1, <2>2, <2>3 DEF PipelineTypeOK
<1>2. PayloadTrue /\ EveryMarketPolled /\ SweepInv
  BY DEF PayloadTrue, EveryMarketPolled, SweepInv, InMarket
<1>3. ChannelInv
  BY DEF ChannelInv
<1>4. QED
  BY <1>1, <1>2, <1>3 DEF PipelineInv

\* A market that is done with was polled, and those before it already were.
LEMMA NextMarketKeeps ==
  ASSUME PipelineInv, epc \in InMarket, NextMarket,
         UNCHANGED <<cexMode, sweep, cexCache>>
  PROVE  /\ PayloadTrue' /\ EveryMarketPolled' /\ SweepInv'
         /\ idx' \in Positions /\ polled' \subseteq Positions /\ rate' = 0
         /\ payload' = NoPayload /\ epc' \in {"gmx", "sleep"}
<1> USE PositionFacts
    DEF NextMarket, PipelineInv, PipelineTypeOK, SweepInv, InMarket
<1>1. idx' \in Positions /\ polled' = 1..idx /\ polled' \subseteq Positions
  OBVIOUS
<1>2. PayloadTrue'
  BY DEF PayloadTrue
<1>3. EveryMarketPolled'
  BY <1>1 DEF EveryMarketPolled
<1>4. SweepInv'
  BY <1>1
<1>5. QED
  BY <1>1, <1>2, <1>3, <1>4

\* A signal is made of what was read for this market, and numbered after all
\* that went before it.
LEMMA DetectKeeps ==
  ASSUME PipelineInv, epc \in {"gmx", "cex"},
         NEW r \in {-1, 0, 1}, NEW stamp \in {NoRate, sweep},
         cexMode = "mock" => stamp = NoRate,
         cexMode = "batch" => stamp = cexCache[idx],
         Detect(r, stamp),
         UNCHANGED <<cexMode, sweep, cexCache, lastHeard, buffer>>
  PROVE  /\ PayloadTrue' /\ EveryMarketPolled' /\ SweepInv' /\ ChannelInv'
         /\ idx' \in Positions /\ polled' \subseteq Positions
         /\ rate' \in {-1, 0, 1} /\ emitted' \in Nat
         /\ payload' \in Payload \cup {NoPayload}
         /\ epc' \in {"gmx", "sleep", "publish"}
<1> USE PositionFacts DEF Detect
<1>1. CASE r = 0
  <2>1. NextMarket /\ emitted' = emitted /\ epc \in InMarket
    BY <1>1 DEF InMarket
  <2>2. ChannelInv'
    BY <2>1, NextMarketKeeps DEF ChannelInv, PipelineInv
  <2>3. QED
    BY <2>1, <2>2, NextMarketKeeps DEF PipelineInv, PipelineTypeOK
<1>2. CASE r # 0
  <2> USE <1>2 DEF PipelineInv, PipelineTypeOK
  <2>1. /\ epc' = "publish" /\ idx' = idx /\ polled' = polled /\ rate' = r
        /\ emitted' = emitted + 1 /\ payload'.id = emitted'
        /\ payload'.pos = idx /\ payload'.direction = Receiving(r)
        /\ payload'.asof = stamp
        /\ payload'.source = IF cexMode = "mock" THEN "mock"
                             ELSE IF stamp = NoRate THEN "mock_fallback"
                             ELSE "binance"
    OBVIOUS
  <2>2. payload' \in Payload
    BY DEF Payload, Receiving, NoRate
  <2>3. PayloadTrue'
    BY <2>1 DEF PayloadTrue, CexModes, SweepInv, InMarket, NoRate
  <2>4. EveryMarketPolled' /\ SweepInv'
    BY <2>1 DEF EveryMarketPolled, SweepInv, InMarket
  <2>5. ChannelInv'
    BY <2>1 DEF ChannelInv
  <2>6. QED
    BY <2>1, <2>2, <2>3, <2>4, <2>5
<1>3. QED
  BY <1>1, <1>2
-----------------------------------------------------------------------------
LEMMA EmitterStepKeeps == PipelineInv /\ EmitterStep => PipelineInv'
<1> SUFFICES ASSUME PipelineInv, EmitterStep PROVE PipelineInv'
  OBVIOUS
<1> USE PipelineAssumption, PositionFacts
    DEF EmitterOnly, settings, consumerVars, channelVars, PipelineInv
<1>1. CASE StartSweep
  <2> USE <1>1 DEF StartSweep
  <2>1. PipelineTypeOK' /\ sweep' = sweep + 1 /\ sweep' > 0
    BY DEF PipelineTypeOK
  <2>2. payload = NoPayload /\ payload' = NoPayload
    BY DEF SweepInv
  <2>3. PayloadTrue' /\ EveryMarketPolled' /\ SweepInv'
    BY <2>1, <2>2 DEF PayloadTrue, EveryMarketPolled, SweepInv, InMarket
  <2>4. ChannelInv'
    BY DEF ChannelInv
  <2>5. QED
    BY <2>1, <2>3, <2>4
<1>2. CASE FetchBatch
  <2> USE <1>2 DEF FetchBatch
  <2>1. cexCache' \in [Positions -> {NoRate, sweep}]
    BY DEF BatchCache
  <2>2. PipelineTypeOK'
    <3>1. sweep \in 0..MaxSweeps /\ NoRate \in 0..MaxSweeps
      BY DEF PipelineTypeOK, NoRate
    <3>2. cexCache' \in [Positions -> 0..MaxSweeps]
      BY <2>1, <3>1
    <3>3. QED
      BY <3>2 DEF PipelineTypeOK
  <2>3. payload' = NoPayload
    BY DEF SweepInv
  <2>4. PayloadTrue' /\ EveryMarketPolled' /\ SweepInv'
    BY <2>1, <2>3 DEF PayloadTrue, EveryMarketPolled, SweepInv, InMarket
  <2>5. ChannelInv'
    BY DEF ChannelInv
  <2>6. QED
    BY <2>2, <2>4, <2>5
<1>3. CASE FetchGmx
  <2> USE <1>3 DEF FetchGmx
  <2>1. CASE NextMarket /\ UNCHANGED emitted
    <3>1. epc \in InMarket
      BY DEF InMarket
    <3>2. ChannelInv'
      BY <2>1, <3>1, NextMarketKeeps DEF ChannelInv
    <3>3. PipelineTypeOK'
      BY <2>1, <3>1, NextMarketKeeps DEF PipelineTypeOK
    <3>4. QED
      BY <2>1, <3>1, <3>2, <3>3, NextMarketKeeps
  <2>2. ASSUME NEW r \in Rates, cexMode = "batch", Detect(r, cexCache[idx])
        PROVE  PipelineInv'
    <3>1. r \in {-1, 0, 1} /\ cexCache[idx] \in {NoRate, sweep}
      BY <2>2 DEF SweepInv, InMarket, PipelineTypeOK
    <3> HIDE DEF FetchGmx, PipelineInv
    <3>2. UNCHANGED <<cexMode, sweep, cexCache, lastHeard, buffer>> /\ epc = "gmx"
      BY DEF FetchGmx
    <3> DEFINE stamp == cexCache[idx]
    <3>3. stamp \in {NoRate, sweep}
      BY <3>1
    <3>4. /\ PayloadTrue' /\ EveryMarketPolled' /\ SweepInv' /\ ChannelInv'
          /\ idx' \in Positions /\ polled' \subseteq Positions
          /\ rate' \in {-1, 0, 1} /\ emitted' \in Nat
          /\ payload' \in Payload \cup {NoPayload}
          /\ epc' \in {"gmx", "sleep", "publish"}
      BY <2>2, <3>1, <3>2, <3>3, DetectKeeps
    <3>5. PipelineTypeOK'
      BY <3>4 DEF PipelineTypeOK, FetchGmx, PipelineInv
    <3>6. QED
      BY <3>4, <3>5 DEF PipelineInv
  <2>3. ASSUME NEW r \in Rates, cexMode # "batch", rate' = r, epc' = "cex",
               UNCHANGED <<idx, payload, polled, emitted>>
        PROVE  PipelineInv'
    <3>1. PipelineTypeOK'
      BY <2>3 DEF PipelineTypeOK
    <3>2. payload' = NoPayload
      BY <2>3 DEF SweepInv
    <3>3. PayloadTrue' /\ EveryMarketPolled' /\ SweepInv'
      BY <2>3, <3>2 DEF PayloadTrue, EveryMarketPolled, SweepInv, InMarket
    <3>4. ChannelInv'
      BY <2>3 DEF ChannelInv
    <3>5. QED
      BY <3>1, <3>3, <3>4
  <2>4. QED
    BY <2>1, <2>2, <2>3
<1>4. CASE FetchCex
  <2>1. PICK stamp \in CexReads : Detect(rate, stamp)
    BY <1>4 DEF FetchCex
  <2>2. /\ stamp \in {NoRate, sweep}
        /\ cexMode = "mock" => stamp = NoRate
        /\ UNCHANGED <<cexMode, sweep, cexCache, lastHeard, buffer>>
        /\ epc = "cex" /\ cexMode # "batch" /\ rate \in {-1, 0, 1}
    BY <1>4 DEF CexReads, FetchCex, SweepInv, PipelineTypeOK
  <2> HIDE DEF PipelineInv
  <2>3. /\ PayloadTrue' /\ EveryMarketPolled' /\ SweepInv' /\ ChannelInv'
        /\ idx' \in Positions /\ polled' \subseteq Positions
        /\ rate' \in {-1, 0, 1} /\ emitted' \in Nat
        /\ payload' \in Payload \cup {NoPayload}
        /\ epc' \in {"gmx", "sleep", "publish"}
    BY <2>1, <2>2, DetectKeeps
  <2>4. PipelineTypeOK'
    BY <1>4, <2>3 DEF PipelineTypeOK, FetchCex, PipelineInv
  <2>5. QED
    BY <2>3, <2>4 DEF PipelineInv
<1>5. CASE Publish
  <2> USE <1>5 DEF Publish
  <2>1. payload.id = emitted /\ emitted \in Nat /\ buffer \in Seq(Nat)
    BY DEF ChannelInv, PipelineTypeOK
  <2>2. buffer' = buffer \/ buffer' = Append(buffer, emitted)
    BY <2>1
  <2>3. PipelineTypeOK'
    <3>1. buffer' \in Seq(Nat)
      <4> HIDE DEF Publish, PipelineInv, channelVars, EmitterOnly
      <4>1. Append(buffer, emitted) \in Seq(Nat)
        BY <2>1, AppendProperties
      <4>2. QED
        BY <2>1, <2>2, <4>1
    <3>2. QED
      BY <3>1 DEF PipelineTypeOK
  <2>4. PayloadTrue' /\ EveryMarketPolled' /\ SweepInv'
    BY DEF PayloadTrue, EveryMarketPolled, SweepInv, InMarket
  <2>5. CASE buffer' = buffer
    BY <2>3, <2>4, <2>5 DEF ChannelInv
  <2>6. CASE buffer' = Append(buffer, emitted)
    <3>1. /\ Len(buffer') = Len(buffer) + 1
          /\ buffer'[Len(buffer) + 1] = emitted
          /\ \A i \in 1..Len(buffer) : buffer'[i] = buffer[i]
      BY <2>1, <2>6, AppendProperties
    <3>2. Len(buffer) \in Nat /\ Len(buffer') \in Nat
      BY <2>1, <3>1
    <3>3. \A i \in 1..Len(buffer') :
            \/ i \in 1..Len(buffer) /\ buffer'[i] = buffer[i]
            \/ i = Len(buffer) + 1 /\ buffer'[i] = emitted
      BY <3>1, <3>2
    <3>4. \A i \in 1..Len(buffer) : buffer[i] \in Nat
      BY <2>1
    <3>5. \A i \in 1..Len(buffer') : lastHeard' < buffer'[i] /\ buffer'[i] <= emitted'
      BY <2>1, <3>3, <3>4 DEF ChannelInv, PipelineTypeOK
    <3>6. \A i, j \in 1..Len(buffer') : i < j => buffer'[i] < buffer'[j]
      BY <2>1, <3>2, <3>3, <3>4 DEF ChannelInv
    <3>7. ChannelInv'
      BY <3>5, <3>6 DEF ChannelInv
    <3>8. QED
      BY <2>3, <2>4, <3>7
  <2>7. QED
    BY <2>2, <2>5, <2>6
<1>6. CASE LogSignal
  <2>1. /\ epc \in InMarket /\ NextMarket
        /\ UNCHANGED <<cexMode, sweep, cexCache, emitted, lastHeard, buffer>>
    BY <1>6 DEF LogSignal, InMarket
  <2>2. ChannelInv'
    BY <2>1, NextMarketKeeps DEF ChannelInv
  <2>3. PipelineTypeOK'
    BY <1>6, <2>1, NextMarketKeeps DEF PipelineTypeOK, LogSignal
  <2>4. QED
    BY <2>1, <2>2, <2>3, NextMarketKeeps
<1>7. CASE WakeUp
  BY <1>7 DEF WakeUp, PipelineTypeOK, PayloadTrue, EveryMarketPolled, SweepInv,
              InMarket, ChannelInv
<1>8. QED
  BY <1>1, <1>2, <1>3, <1>4, <1>5, <1>6, <1>7 DEF EmitterStep
-----------------------------------------------------------------------------
\* What is heard is newer than anything heard before, and older than what is
\* still on the channel.
LEMMA GetMessageKeeps ==
  ASSUME PipelineInv, GetMessage
  PROVE  PipelineInv' /\ lastHeard' > lastHeard
<1> USE DEF PipelineInv, GetMessage, ConsumerOnly, settings, emitterVars
<1>1. buffer \in Seq(Nat) /\ buffer # <<>>
  BY DEF PipelineTypeOK
<1>2. /\ Len(buffer) \in Nat \ {0} /\ Head(buffer) = buffer[1]
      /\ \A i \in 1..Len(buffer) : buffer[i] \in Nat
  BY <1>1
<1>3. /\ buffer' \in Seq(Nat) /\ Len(buffer') = Len(buffer) - 1
      /\ \A i \in 1..Len(buffer') : buffer'[i] = buffer[i + 1]
  BY <1>1, HeadTailProperties
<1>4. lastHeard' = buffer[1] /\ lastHeard' > lastHeard /\ lastHeard' <= emitted
  BY <1>2 DEF ChannelInv, PipelineTypeOK
<1>5. PipelineTypeOK'
  BY <1>2, <1>3, <1>4 DEF PipelineTypeOK
<1>6. PayloadTrue' /\ EveryMarketPolled' /\ SweepInv'
  BY DEF PayloadTrue, EveryMarketPolled, SweepInv, InMarket
<1>7. \A i \in 1..Len(buffer') :
        /\ lastHeard' < buffer'[i] /\ buffer'[i] <= emitted
        /\ epc = "publish" => buffer'[i] < emitted
  BY <1>2, <1>3, <1>4 DEF ChannelInv
<1>8. \A i, j \in 1..Len(buffer') : i < j => buffer'[i] < buffer'[j]
  BY <1>2, <1>3 DEF ChannelInv
<1>9. epc = "publish" => payload.id = emitted /\ lastHeard' < emitted
  BY <1>2, <1>4 DEF ChannelInv
<1>10. ChannelInv'
  BY <1>4, <1>7, <1>8, <1>9 DEF ChannelInv
<1>11. QED
  BY <1>4, <1>5, <1>6, <1>10

LEMMA ConsumerStepKeeps == PipelineInv /\ ConsumerStep => PipelineInv'
<1> SUFFICES ASSUME PipelineInv, ConsumerStep PROVE PipelineInv'
  OBVIOUS
<1>1. CASE GetMessage
  BY <1>1, GetMessageKeeps
<1>2. CASE BuildConsumer \/ Subscribe \/ LoseSubscription \/ BackOff
           \/ (FinishSignal /\ UNCHANGED <<subscribed, buffer>>)
  <2>1. /\ UNCHANGED <<settings, main, emitterVars, buffer, drops, lastHeard>>
        /\ subscribed' = subscribed \/ subscribed' = TRUE
        /\ cpc' \in {"subscribe", "failed", "listen", "backoff"}
    BY <1>2 DEF BuildConsumer, Subscribe, FinishSignal, LoseSubscription,
                BackOff, ConsumerOnly, channelVars
  <2>2. PipelineTypeOK'
    <3>1. subscribed' \in BOOLEAN
      BY <2>1 DEF PipelineInv, PipelineTypeOK
    <3>2. QED
      BY <2>1, <3>1 DEF PipelineInv, PipelineTypeOK, settings, emitterVars
  <2>3. QED
    BY <2>1, <2>2 DEF PipelineInv, PayloadTrue, EveryMarketPolled, SweepInv,
                      InMarket, ChannelInv, settings, emitterVars
<1>3. CASE FinishSignal /\ subscribed' = FALSE /\ buffer' = <<>>
  <2>1. /\ UNCHANGED <<settings, main, emitterVars, drops, lastHeard>>
        /\ subscribed' \in BOOLEAN /\ cpc' \in {"listen", "backoff"}
    BY <1>3 DEF FinishSignal, ConsumerOnly
  <2>2. buffer' \in Seq(Nat) /\ Len(buffer') = 0
    BY <1>3
  <2>3. PipelineTypeOK'
    BY <2>1, <2>2 DEF PipelineInv, PipelineTypeOK, settings, emitterVars
  <2> QED
    BY <2>1, <2>2, <2>3 DEF PipelineInv, PayloadTrue, EveryMarketPolled,
                            SweepInv, InMarket, ChannelInv, settings, emitterVars
<1>4. QED
  BY <1>1, <1>2, <1>3 DEF ConsumerStep, FinishSignal

\* Whatever part of the channel is lost, the rest is in order.
LEMMA DropKeeps == PipelineInv /\ Drop => PipelineInv'
<1> SUFFICES ASSUME PipelineInv, Drop PROVE PipelineInv'
  OBVIOUS
<1> USE DEF PipelineInv, Drop, settings, emitterVars, consumerVars
<1>1. PICK k \in 0..Len(buffer) : buffer' = SubSeq(buffer, 1, k)
  OBVIOUS
<1>2. buffer \in Seq(Nat) /\ Len(buffer) \in Nat /\ k \in Nat /\ 1..k \subseteq 1..Len(buffer)
  BY DEF PipelineTypeOK
<1>3. /\ buffer' \in Seq(Nat) /\ Len(buffer') = k
      /\ \A i \in 1..k : buffer'[i] = buffer[i]
  <2>1. \A i \in 1..k : buffer[i] \in Nat
    BY <1>2
  <2>2. QED
    BY <1>1, <1>2, <2>1, SubSeqProperties
<1>4. PipelineTypeOK'
  <2>1. drops' = drops + 1 /\ drops' \in Nat /\ subscribed' = FALSE
    BY DEF PipelineTypeOK
  <2>2. UNCHANGED <<cexMode, consumerOn, main, epc, sweep, idx, cexCache,
                    payload, rate, polled, emitted, cpc, lastHeard>>
    OBVIOUS
  <2> HIDE DEF Drop
  <2>3. QED
    BY <1>3, <2>1, <2>2 DEF PipelineTypeOK
<1>5. PayloadTrue' /\ EveryMarketPolled' /\ SweepInv'
  BY DEF PayloadTrue, EveryMarketPolled, SweepInv, InMarket
<1>6. ChannelInv'
  BY <1>2, <1>3 DEF ChannelInv
<1>7. QED
  BY <1>4, <1>5, <1>6

\* The end of a process empties the channel or leaves it alone.
LEMMA EndKeeps ==
  PipelineInv /\ (Shutdown \/ Kill \/ Restart) => PipelineInv'
<1> SUFFICES ASSUME PipelineInv, Shutdown \/ Kill \/ Restart
             PROVE  PipelineInv'
  OBVIOUS
<1> USE PipelineAssumption, PositionFacts
    DEF PipelineInv, settings, emitterVars, channelVars, consumerVars
<1>1. CASE GatherRaises
  BY <1>1 DEF GatherRaises, PipelineTypeOK, PayloadTrue, EveryMarketPolled, SweepInv,
              InMarket, ChannelInv
<1>2. CASE CancelEmitter
  BY <1>2 DEF CancelEmitter, PipelineTypeOK, PayloadTrue, EveryMarketPolled, SweepInv,
              InMarket, ChannelInv
<1>3. CASE Drained \/ Kill
  <2>1. /\ main' = "down" /\ subscribed' = FALSE /\ buffer' = <<>>
        /\ UNCHANGED <<settings, emitterVars, drops, consumerVars>>
    BY <1>3 DEF Drained, Kill
  <2>2. buffer' \in Seq(Nat) /\ Len(buffer') = 0
    BY <2>1
  <2>3. PipelineTypeOK'
    BY <2>1, <2>2 DEF PipelineTypeOK
  <2>4. QED
    BY <2>1, <2>2, <2>3 DEF PayloadTrue, EveryMarketPolled, SweepInv, InMarket,
                            ChannelInv
<1>4. CASE Restart
  <2>1. PICK mode \in CexModes, on \in BOOLEAN : Fresh(mode, on)
    BY <1>4 DEF Restart
  <2>2. UNCHANGED <<sweep, emitted, channelVars, lastHeard>>
    BY <1>4 DEF Restart
  <2>3. cexCache' \in [Positions -> 0..MaxSweeps] /\ idx' \in Positions
    BY <2>1 DEF Fresh, NoRate
  <2>4. cpc' \in {"off", "start"}
    BY <2>1 DEF Fresh
  <2>5. PipelineTypeOK'
    BY <2>1, <2>2, <2>3, <2>4 DEF Fresh, PipelineTypeOK
  <2>6. QED
    BY <2>1, <2>2, <2>5 DEF Fresh, PayloadTrue, EveryMarketPolled, SweepInv,
                            InMarket, ChannelInv
<1>5. QED
  BY <1>1, <1>2, <1>3, <1>4 DEF Shutdown

LEMMA PipelineInvStep == PipelineInv /\ [PipelineNext]_pipelineVars => PipelineInv'
<1> SUFFICES ASSUME PipelineInv, [PipelineNext]_pipelineVars PROVE PipelineInv'
  OBVIOUS
<1>1. CASE UNCHANGED pipelineVars
  BY <1>1 DEF pipelineVars, settings, emitterVars, channelVars, consumerVars,
              PipelineInv, PipelineTypeOK, PayloadTrue, EveryMarketPolled, SweepInv,
              InMarket, ChannelInv
<1>2. CASE Emit
  BY <1>2, EmitterStepKeeps DEF Emit
<1>3. CASE Consume
  BY <1>3, ConsumerStepKeeps DEF Consume
<1>4. CASE Drop
  BY <1>4, DropKeeps
<1>5. CASE Shutdown \/ Kill \/ Restart
  BY <1>5, EndKeeps
<1>6. QED
  BY <1>1, <1>2, <1>3, <1>4, <1>5 DEF PipelineNext

\* The invariant holds in every state of every run.
LEMMA PipelineInvariant == PipelineSpec => []PipelineInv
  BY InitPipelineInv, PipelineInvStep, PTL DEF PipelineSpec

\* The variables of both tasks and of the channel keep their types.
THEOREM PipelineTypeCorrect == PipelineSpec => []PipelineTypeOK
<1>1. PipelineInv => PipelineTypeOK
  BY DEF PipelineInv
<1>2. QED
  BY <1>1, PipelineInvariant, PTL

\* A signal tells what this sweep has read: its side fits the rate polled, and a
\* CEX rate that is called live is not left over from an earlier sweep.
THEOREM PayloadsAreTrue == PipelineSpec => []PayloadTrue
<1>1. PipelineInv => PayloadTrue
  BY DEF PipelineInv
<1>2. QED
  BY <1>1, PipelineInvariant, PTL

\* No sweep ends before each market has been polled, whichever reads,
\* publications and log writes fail.
THEOREM EverySweepIsWhole == PipelineSpec => []EveryMarketPolled
<1>1. PipelineInv => EveryMarketPolled
  BY DEF PipelineInv
<1>2. QED
  BY <1>1, PipelineInvariant, PTL

\* No signal is handled twice, or after a later one, across lost connections,
\* backoffs and restarts.
THEOREM SignalsAreHeardOnceInOrder == PipelineSpec => HeardOnceInOrder
<1>1. PipelineInv /\ [PipelineNext]_pipelineVars =>
        [cpc # "handle" /\ cpc' = "handle" => lastHeard' > lastHeard]_pipelineVars
  <2> SUFFICES ASSUME PipelineInv, PipelineNext, cpc # "handle", cpc' = "handle"
               PROVE  lastHeard' > lastHeard
    OBVIOUS
  <2>1. CASE Consume
    <3>1. GetMessage
      BY <2>1 DEF Consume, ConsumerStep, BuildConsumer, Subscribe,
                  FinishSignal, LoseSubscription, BackOff
    <3>2. QED
      BY <3>1, GetMessageKeeps
  <2>2. CASE Restart
    BY <2>2 DEF Restart, Fresh
  <2>3. CASE Emit \/ Shutdown \/ Drop \/ Kill
    <3>1. cpc' = cpc
      BY <2>3 DEF Emit, EmitterStep, StartSweep, FetchBatch, FetchGmx,
                  FetchCex, Publish, LogSignal, WakeUp, EmitterOnly, Shutdown,
                  GatherRaises, CancelEmitter, Drained, Drop, Kill,
                  consumerVars
    <3>2. QED
      BY <3>1
  <2>4. QED
    BY <2>1, <2>2, <2>3 DEF PipelineNext
<1>2. QED
  BY <1>1, PipelineInvariant, PTL DEF PipelineSpec, HeardOnceInOrder

-----------------------------------------------------------------------------
(* Liveness: a failure stops the process, and a sweep polls on to its end. *)

\* Once a task has failed nothing but the end of the process follows.
LEMMA FailureAdvances ==
  ASSUME PipelineTypeOK, [PipelineNext]_pipelineVars
  PROVE  /\ main = "gather" /\ cpc = "failed" =>
              \/ main' = "gather" /\ cpc' = "failed"
              \/ main' \in {"drain", "down"}
         /\ main = "drain" /\ epc # "cancelled" => main' \in {"drain", "down"}
         /\ main = "drain" /\ epc = "cancelled" =>
              (main' = "drain" /\ epc' = "cancelled") \/ main' = "down"
<1> USE DEF settings, emitterVars, consumerVars, channelVars
<1>1. CASE Emit
  <2>1. main = "gather" /\ UNCHANGED <<main, cpc>>
    BY <1>1 DEF Emit, EmitterStep, StartSweep, FetchBatch, FetchGmx, FetchCex,
                Publish, LogSignal, WakeUp, EmitterOnly
  <2> QED
    BY <2>1
<1>2. CASE Consume
  <2>1. main = "gather" /\ cpc # "failed"
    BY <1>2 DEF Consume, ConsumerStep, BuildConsumer, Subscribe, GetMessage,
                FinishSignal, LoseSubscription, BackOff
  <2> QED
    BY <2>1
<1>3. CASE Shutdown
  BY <1>3 DEF Shutdown, GatherRaises, CancelEmitter, Drained
<1>4. CASE Drop \/ Kill \/ Restart \/ UNCHANGED pipelineVars
  BY <1>4 DEF Drop, Kill, Restart, Fresh, pipelineVars
<1> QED
  BY <1>1, <1>2, <1>3, <1>4 DEF PipelineNext

\* No half of the process outlives the other: a consumer that breaks takes the
\* emitter and main down with it (main.py's gather and its finally), wherever
\* the emitter stands, as long as main is scheduled.
THEOREM FailuresStopAll == PipelineSpec /\ ShutdownRuns => FailureStopsAll
<1> DEFINE Failed    == main = "gather" /\ cpc = "failed"
           Draining  == main = "drain" /\ epc # "cancelled"
           Cancelled == main = "drain" /\ epc = "cancelled"
           Down      == main = "down"
<1>1. /\ PipelineTypeOK /\ Failed /\ [PipelineNext]_pipelineVars =>
            Failed' \/ Draining' \/ Cancelled' \/ Down'
      /\ PipelineTypeOK /\ Draining /\ [PipelineNext]_pipelineVars => Draining' \/ Cancelled' \/ Down'
      /\ PipelineTypeOK /\ Cancelled /\ [PipelineNext]_pipelineVars => Cancelled' \/ Down'
  BY FailureAdvances
<1>2. /\ Failed /\ <<Shutdown>>_pipelineVars => Draining' \/ Cancelled'
      /\ Draining /\ <<Shutdown>>_pipelineVars => Cancelled'
      /\ Cancelled /\ <<Shutdown>>_pipelineVars => Down'
  BY DEF Shutdown, GatherRaises, CancelEmitter, Drained
<1>3. Failed \/ Draining \/ Cancelled => MainEnding
  BY DEF MainEnding
<1>4. PipelineTypeOK /\ cpc = "failed" => Failed \/ Draining \/ Cancelled \/ Down
  BY DEF PipelineTypeOK
<1>5. PipelineSpec /\ ShutdownRuns => ((cpc = "failed") ~> Down)
  <2> HIDE DEF Failed, Draining, Cancelled, Down
  <2> QED
    BY <1>1, <1>2, <1>3, <1>4, PipelineTypeCorrect, PTL DEF PipelineSpec, ShutdownRuns
<1> QED
  BY <1>5 DEF FailureStopsAll

\* The emitter at one await of a market, with at most so many still to come.
At(stage, left) == main = "gather" /\ epc = stage /\ Len(MarketList) - idx <= left
SweepOver == epc = "sleep" \/ main # "gather"

\* The market is done with: the next one is, or the sweep is over.
Gone(next) == At("gmx", next) \/ SweepOver

\* What any step may do at an await of a market, and what its end does.
Moves(left, next) ==
    /\ At("gmx", left)     => \/ At("gmx", left)' \/ At("cex", left)'
                              \/ At("publish", left)' \/ Gone(next)'
    /\ At("cex", left)     => At("cex", left)' \/ At("publish", left)' \/ Gone(next)'
    /\ At("publish", left) => At("publish", left)' \/ At("xadd", left)' \/ Gone(next)'
    /\ At("xadd", left)    => At("xadd", left)' \/ Gone(next)'

Leaves(left, next) ==
    /\ At("gmx", left)     => At("cex", left)' \/ At("publish", left)' \/ Gone(next)'
    /\ At("cex", left)     => At("publish", left)' \/ Gone(next)'
    /\ At("publish", left) => At("xadd", left)'
    /\ At("xadd", left)    => Gone(next)'

Polling(left) ==
    At("gmx", left) \/ At("cex", left) \/ At("publish", left) \/ At("xadd", left)

LEMMA NextMarketGone ==
  ASSUME PipelineTypeOK, NEW left \in Int, Len(MarketList) - idx <= left, NextMarket,
         main' = main, main = "gather"
  PROVE  Gone(left - 1)'
BY PositionFacts DEF NextMarket, At, Gone, SweepOver, PipelineTypeOK

\* An await of the emitter that ends is left.
LEMMA MarketLeaves ==
  ASSUME PipelineTypeOK, Emit, NEW left \in Int PROVE Leaves(left, left - 1)
<1>1. main = "gather" /\ main' = "gather"
  BY DEF Emit, EmitterStep, StartSweep, FetchBatch, FetchGmx, FetchCex,
         Publish, LogSignal, WakeUp, EmitterOnly, settings
<1>2. CASE epc = "gmx" /\ FetchGmx
  BY <1>1, <1>2, NextMarketGone DEF FetchGmx, Detect, At, Leaves
<1>3. CASE epc = "cex" /\ FetchCex
  BY <1>1, <1>3, NextMarketGone DEF FetchCex, Detect, At, Leaves
<1>4. CASE epc = "publish" /\ Publish
  BY <1>1, <1>4 DEF Publish, At, Leaves
<1>5. CASE epc = "xadd" /\ LogSignal
  BY <1>1, <1>5, NextMarketGone DEF LogSignal, At, Leaves
<1>6. CASE epc \in {"sweep", "batch", "sleep"}
  BY <1>6 DEF At, Leaves
<1> QED
  BY <1>2, <1>3, <1>4, <1>5, <1>6
  DEF Emit, EmitterStep, StartSweep, FetchBatch, FetchGmx, FetchCex, Publish,
      LogSignal, WakeUp

\* Whatever happens, the emitter stays at its await or moves on from it.
LEMMA MarketMoves ==
  ASSUME PipelineTypeOK, [PipelineNext]_pipelineVars, NEW left \in Int PROVE Moves(left, left - 1)
<1> USE DEF settings, emitterVars, consumerVars, channelVars
<1>1. CASE Emit
  BY <1>1, MarketLeaves DEF Leaves, Moves
<1>2. CASE Consume
  <2>1. UNCHANGED <<main, epc, idx>>
    BY <1>2 DEF Consume, ConsumerStep, BuildConsumer, Subscribe, GetMessage,
                FinishSignal, LoseSubscription, BackOff, ConsumerOnly
  <2> QED
    BY <2>1 DEF At, Moves
<1>3. CASE Shutdown \/ Kill \/ Restart
  BY <1>3 DEF Shutdown, GatherRaises, CancelEmitter, Drained, Kill, Restart,
              Fresh, At, Gone, SweepOver, Moves
<1>4. CASE Drop \/ UNCHANGED pipelineVars
  BY <1>4 DEF Drop, pipelineVars, At, Moves
<1> QED
  BY <1>1, <1>2, <1>3, <1>4 DEF PipelineNext

\* The shape in which the temporal steps use the two.
MarketRules(left, next) ==
    /\ PipelineTypeOK /\ [PipelineNext]_pipelineVars => Moves(left, next)
    /\ PipelineTypeOK /\ <<Emit>>_pipelineVars => Leaves(left, next)
    /\ Polling(left) => EmitterAwaits

LEMMA RulesOfMarket ==
  ASSUME NEW left \in Int, NEW next, next = left - 1
  PROVE  MarketRules(left, next)
BY MarketMoves, MarketLeaves DEF MarketRules, Polling, EmitterAwaits, At

\* A market that is polled is done with: the emitter comes to the next one, ends
\* its sweep, or its process does, whatever reads and writes fail; for any list
\* of markets (funding_arb_runtime.py _process_market).
THEOREM MarketsEnd ==
  ASSUME NEW left \in Int
  PROVE  PipelineSpec /\ EmitterRuns => (At("gmx", left) ~> Gone(left - 1))
<1>1. MarketRules(left, left - 1)
  BY RulesOfMarket
<1> QED
  BY <1>1, PipelineTypeCorrect, PTL
  DEF MarketRules, Moves, Leaves, Polling, EmitterRuns, PipelineSpec

\* A consumer without a subscription: at a read with at most so many messages
\* left on the channel, in the middle of one, or between two attempts.
Without(pc)  == main = "gather" /\ ~subscribed /\ cpc = pc
Reading(left)  == Without("listen") /\ Len(buffer) <= left
Handling(left) == Without("handle") /\ Len(buffer) <= left
Retrying       == Without("backoff") \/ Without("subscribe")
Reconnected    == subscribed \/ main # "gather"

\* One message has been read, or the loop has given up on the connection.
Emptied(next) == Reading(next) \/ Retrying \/ Reconnected

\* Nothing arrives while there is no subscription: only the consumer moves on.
LEMMA OnlyTheConsumerMoves ==
  ASSUME PipelineTypeOK, [PipelineNext]_pipelineVars, ~Consume,
         main = "gather", ~subscribed,
         cpc \in {"subscribe", "listen", "handle", "backoff"}
  PROVE  Reconnected' \/ (main' = "gather" /\ UNCHANGED <<subscribed, buffer, cpc>>)
<1> USE DEF settings, emitterVars, consumerVars, channelVars, Reconnected
<1>1. CASE Emit
  BY <1>1 DEF Emit, EmitterStep, StartSweep, FetchBatch, FetchGmx, FetchCex,
              Publish, LogSignal, WakeUp, EmitterOnly
<1>2. CASE Shutdown \/ Drop \/ Kill \/ Restart
  BY <1>2 DEF Shutdown, GatherRaises, CancelEmitter, Drained, Drop, Kill, Restart
<1>3. CASE UNCHANGED pipelineVars
  BY <1>3 DEF pipelineVars
<1> QED
  BY <1>1, <1>2, <1>3 DEF PipelineNext

\* A step of the consumer takes a message or finishes one, and with none left,
\* or when one raises, goes on to the next attempt.
ConsumerLeaves(left, next) ==
    /\ Reading(left)  => Handling(next)' \/ Emptied(next)'
    /\ Handling(next) => Emptied(next)'
    /\ Without("backoff")   => Without("subscribe")'
    /\ Without("subscribe") => Without("backoff")' \/ Reconnected'

LEMMA ConsumeLeaves ==
  ASSUME PipelineTypeOK, Consume, NEW left \in Int
  PROVE  ConsumerLeaves(left, left - 1)
<1> USE DEF Without, Reading, Handling, Retrying, Reconnected, Emptied
<1>1. main = "gather" /\ main' = "gather"
  BY DEF Consume, ConsumerStep, BuildConsumer, Subscribe, GetMessage,
         FinishSignal, LoseSubscription, BackOff, ConsumerOnly
<1>2. CASE GetMessage
  <2>1. Len(buffer') = Len(buffer) - 1 /\ Len(buffer) \in Nat
    BY <1>2, HeadTailProperties DEF GetMessage, PipelineTypeOK
  <2> QED
    BY <1>1, <1>2, <2>1 DEF GetMessage, ConsumerLeaves
<1>3. CASE FinishSignal
  BY <1>1, <1>3 DEF FinishSignal, ConsumerLeaves
<1>4. CASE BuildConsumer \/ Subscribe \/ LoseSubscription \/ BackOff
  BY <1>1, <1>4 DEF BuildConsumer, Subscribe, LoseSubscription, BackOff,
                    channelVars, ConsumerLeaves
<1> QED
  BY <1>2, <1>3, <1>4 DEF Consume, ConsumerStep

\* Whatever happens, it stays where it is or moves on from there.
ConsumerMoves(left, next) ==
    /\ Reading(left)  => Reading(left)' \/ Handling(next)' \/ Emptied(next)'
    /\ Handling(next) => Handling(next)' \/ Emptied(next)'
    /\ Retrying       => Retrying' \/ Reconnected'

LEMMA ConsumerStaysOrMoves ==
  ASSUME PipelineTypeOK, [PipelineNext]_pipelineVars, NEW left \in Int
  PROVE  ConsumerMoves(left, left - 1)
<1>1. CASE Consume
  BY <1>1, ConsumeLeaves DEF ConsumerLeaves, ConsumerMoves, Retrying
<1>2. CASE ~Consume
  BY <1>2, OnlyTheConsumerMoves
  DEF ConsumerMoves, Without, Reading, Handling, Retrying, Emptied, Reconnected
<1> QED
  BY <1>1, <1>2

\* The shape in which the temporal steps use the two.
ConsumerRules(left, next) ==
    /\ PipelineTypeOK /\ [PipelineNext]_pipelineVars => ConsumerMoves(left, next)
    /\ PipelineTypeOK /\ <<Consume>>_pipelineVars => ConsumerLeaves(left, next)
    /\ Reading(left) \/ Handling(next) \/ Retrying => ConsumerAwaits

LEMMA RulesOfConsumer ==
  ASSUME NEW left \in Int, NEW next, next = left - 1
  PROVE  ConsumerRules(left, next)
BY ConsumerStaysOrMoves, ConsumeLeaves
DEF ConsumerRules, ConsumerAwaits, Without, Reading, Handling, Retrying

\* However many markets are still to come, the sweep gets to where at most b of
\* them are, or is over; and however many messages are left on a channel that is
\* gone, the consumer gets to where at most b of them are, or gives it up.
Descends(a, b) ==
    /\ PipelineSpec /\ EmitterRuns => (At("gmx", a) ~> Gone(b))
    /\ PipelineSpec /\ ConsumerRuns => (Reading(a) ~> Emptied(b))

\* Both get past any d in a row.
Covers(d) == \A a, b \in Int : b = a - d => Descends(a, b)

LEMMA CoversOne == Covers(1)
<1> SUFFICES ASSUME NEW a \in Int, NEW b \in Int, b = a - 1 PROVE Descends(a, b)
  BY DEF Covers
<1>1. PipelineSpec /\ EmitterRuns => (At("gmx", a) ~> Gone(b))
  <2>1. MarketRules(a, b)
    BY RulesOfMarket
  <2> QED
    BY <2>1, PipelineTypeCorrect, PTL
    DEF MarketRules, Moves, Leaves, Polling, EmitterRuns, PipelineSpec
<1>2. PipelineSpec /\ ConsumerRuns => (Reading(a) ~> Emptied(b))
  <2>1. ConsumerRules(a, b)
    BY RulesOfConsumer
  <2> QED
    BY <2>1, PipelineTypeCorrect, PTL
    DEF ConsumerRules, ConsumerMoves, ConsumerLeaves, ConsumerRuns, PipelineSpec
<1> QED
  BY <1>1, <1>2 DEF Descends

LEMMA DescentsChain ==
  ASSUME NEW a, NEW m, NEW b, Descends(a, m), Descends(m, b) PROVE Descends(a, b)
BY PTL DEF Descends, Gone, Emptied

\* What gets past d in a row gets past twice as many.
LEMMA CoversTwice ==
  ASSUME NEW d \in Int, NEW e, e = 2 * d, Covers(d) PROVE Covers(e)
<1> SUFFICES ASSUME NEW a \in Int, NEW b \in Int, b = a - e PROVE Descends(a, b)
  BY DEF Covers
<1> SUFFICES ASSUME NEW m \in Int, m = a - d PROVE Descends(a, b)
  OBVIOUS
<1>1. Descends(a, m)
  BY DEF Covers
<1>2. b = m - d
  OBVIOUS
<1>3. Descends(m, b)
  BY <1>2 DEF Covers
<1> QED
  BY <1>1, <1>3, DescentsChain

\* Ten times twice.
LEMMA CoversThousandfold ==
  ASSUME NEW d \in Int, NEW e, e = 1024 * d, Covers(d) PROVE Covers(e)
<1>1. Covers(2 * d)
  BY CoversTwice
<1>2. Covers(4 * d)
  BY <1>1, CoversTwice, 4 * d = 2 * (2 * d)
<1>3. Covers(8 * d)
  BY <1>2, CoversTwice, 8 * d = 2 * (4 * d)
<1>4. Covers(16 * d)
  BY <1>3, CoversTwice, 16 * d = 2 * (8 * d)
<1>5. Covers(32 * d)
  BY <1>4, CoversTwice, 32 * d = 2 * (16 * d)
<1>6. Covers(64 * d)
  BY <1>5, CoversTwice, 64 * d = 2 * (32 * d)
<1>7. Covers(128 * d)
  BY <1>6, CoversTwice, 128 * d = 2 * (64 * d)
<1>8. Covers(256 * d)
  BY <1>7, CoversTwice, 256 * d = 2 * (128 * d)
<1>9. Covers(512 * d)
  BY <1>8, CoversTwice, 512 * d = 2 * (256 * d)
<1> QED
  BY <1>9, CoversTwice, e = 2 * (512 * d)

\* A sweep that has begun ends unless its process does, whatever reads,
\* publications and log writes fail (funding_arb_runtime.py _process_market), for
\* every list of up to a million markets: one after the other, and what gets past
\* so many in a row gets past twice as many.
THEOREM SweepsEnd ==
  ASSUME Len(MarketList) <= 1048576
  PROVE  PipelineSpec /\ EmitterRuns => SweepEnds
<1>1. Covers(1048576)
  <2>1. Covers(1024)
    BY CoversOne, CoversThousandfold
  <2> QED
    BY <2>1, CoversThousandfold
<1>2. PICK a \in Int, b \in Int : a = 1048575 /\ b = -1
  OBVIOUS
<1>3. Descends(a, b)
  BY <1>1, <1>2 DEF Covers
<1>4. PipelineTypeOK => ~At("gmx", b)
  BY <1>2, PositionFacts DEF At, PipelineTypeOK
<1>5. PipelineTypeOK /\ epc = "gmx" => At("gmx", a) \/ SweepOver
  BY <1>2, PositionFacts DEF At, SweepOver, PipelineTypeOK
<1> QED
  BY <1>3, <1>4, <1>5, PipelineTypeCorrect, PTL
  DEF Descends, Gone, SweepOver, SweepEnds

\* "The whole loop survives Redis disconnects too": without a subscription the
\* consumer reads and handles what it still has, up to a million messages,
\* unsubscribes, backs off and asks again, as often as that fails, and comes to
\* have one unless its process ends (funding_arb_executor.py run, _run_cycle).
THEOREM ConsumersReconnect ==
  PipelineSpec /\ [](Len(buffer) <= 1048576) => Reconnects
<1>1. PICK m \in Int, n \in Int : m = 1048576 /\ n = -1048576
  OBVIOUS
<1>2. Descends(m, n)
  <2>1. Covers(1024)
    BY CoversOne, CoversThousandfold
  <2>2. Covers(1048576)
    BY <2>1, CoversThousandfold
  <2>3. Covers(2097152)
    BY <2>2, CoversTwice
  <2> QED
    BY <1>1, <2>3 DEF Covers
<1>3. PipelineTypeOK => ~Reading(n)
  BY <1>1 DEF Reading, PipelineTypeOK
<1>4. PICK k \in Int : k - 1 = m
  BY <1>1
<1>5. ConsumerRules(k, m)
  BY <1>4, RulesOfConsumer
<1>6. PipelineTypeOK /\ Len(buffer) <= 1048576 /\ main = "gather" /\ ~subscribed
      /\ cpc \in {"subscribe", "listen", "handle", "backoff"} =>
        Reading(m) \/ Handling(m) \/ Retrying
  BY <1>1 DEF Reading, Handling, Retrying, Without
<1>7. Without("subscribe") => Asks
  BY DEF Without, Asks
<1>8. <<Accepted>>_pipelineVars => Reconnected'
  BY DEF Accepted, Reconnected
<1>9. PipelineSpec /\ ConsumerRuns /\ RedisAccepts => (Retrying ~> Reconnected)
  BY <1>5, <1>7, <1>8, PipelineTypeCorrect, PTL
  DEF ConsumerRules, ConsumerMoves, ConsumerLeaves, Retrying, ConsumerRuns,
      RedisAccepts, PipelineSpec
<1>10. PipelineSpec /\ ConsumerRuns => (Handling(m) ~> Emptied(m))
  BY <1>5, PipelineTypeCorrect, PTL
  DEF ConsumerRules, ConsumerMoves, ConsumerLeaves, ConsumerRuns, PipelineSpec
<1> QED
  BY <1>2, <1>3, <1>6, <1>9, <1>10, PipelineTypeCorrect, PTL
  DEF Descends, Emptied, Reconnected, Reconnects
=============================================================================
