------------------------ MODULE FundingArbExecutor --------------------------
(***************************************************************************)
(* FundingArbExecutor (funding_arb_executor.py): one signal at a time goes *)
(* through the guard, reconciliation, the two legs in parallel, the record *)
(* and the loss timestamp.  The module composes PilotGuard, Reconcile,     *)
(* GmxLeg and BinanceLeg: their variables are declared here, the open      *)
(* positions the guard counts are those the two venues hold.               *)
(*                                                                         *)
(* Around it: the operator trips and resets the killswitch and closes      *)
(* positions; keepers execute GMX orders late; the process may die, or its *)
(* task be cancelled, at every await, and start again with other settings. *)
(* Of all its state only what Redis and the venues hold outlives it.       *)
(***************************************************************************)
EXTENDS Integers, Sequences, FiniteSets

CONSTANTS
    MaxSignals,      \* bound: signals taken
    RawMarkets, Strip,   \* market strings, and the strings without blanks
    GmxMarkets,      \* ARBITRUM_MARKETS
    Symbols,         \* BINANCE_SYMBOL_BY_ALIAS
    Signals,         \* what a message may carry
    SettingsSpace,   \* the settings a process may be started with
    Cap, MaxConcurrent, CooldownWindow,
    TruePrice, MarkPrices, LotMin, MinNotional,
    MaxTime,         \* bound: the clock stops here
    FailingReads,    \* bound: the guard's reads, and "positions", that may fail
    WorldMoves       \* bound: which of "killswitch", "keeper", "close" happen

Ids        == 1..MaxSignals
Long       == "long_gmx_short_cex"
Short      == "short_gmx_long_cex"
Directions == {Long, Short}

Setting == [armed : SUBSET RawMarkets, dry_run : BOOLEAN, live_gmx : BOOLEAN,
            live_binance : BOOLEAN, has_key : BOOLEAN]
\* A notional is what float() makes of it: a number; a NaN, which minus infinity
\* is like, being under the cap and refused by int(); or "unreadable", what float()
\* raises on: null, a list, an object, text that is no number, an integer past its
\* range.
Signal  == [market : RawMarkets, direction : Directions \cup {"other"},
            notional : [kind : {"num", "nan", "unreadable"}, usd : Int]]

ASSUME ExecutorAssumption ==
    /\ MaxSignals \in Nat /\ MaxTime \in Nat
    /\ Signals \subseteq Signal
    /\ SettingsSpace \subseteq Setting /\ SettingsSpace # {}
    /\ GmxMarkets \subseteq RawMarkets /\ Symbols \subseteq GmxMarkets

\* What the guard and the legs assume of their part of it; the keys of
\* ARBITRUM_MARKETS carry no blanks.
ASSUME ConfigAssumption ==
    /\ IsFiniteSet(RawMarkets)
    /\ Strip \in [RawMarkets -> RawMarkets]
    /\ \A m \in GmxMarkets : Strip[m] = m
    /\ Cap \in Int /\ MaxConcurrent \in Nat \ {0} /\ CooldownWindow \in Nat
    /\ TruePrice \in Nat \ {0} /\ MarkPrices \subseteq Nat /\ MarkPrices # {}
    /\ LotMin \in Nat /\ MinNotional \in Nat

VARIABLES
    settings,     \* of the running process
    pc,           \* where the consumer task stands
    n,            \* signals taken so far; the last is the one in hand
    sigs,         \* what each of them was
    rec,          \* the ExecutionRecord about to be written
    executions,   \* the stream funding_arb:executions
    lost,         \* history: signals whose record was not written
    owed,         \* history: when the last loss was seen, NoLoss if it was
                  \* seen and could not be recorded, or never was
    gpos,         \* open GMX positions, <<market, is_long>>
    now, killswitch, lastLoss, stage, request, gmxN, gate, blind, standing,
    gstage, grefusal, gres, gtx,
    bjob, bstage, bmark, bqty, banswer, bres, bord, bpos

selfVars  == <<settings, pc, n, sigs, rec, executions, lost, owed>>
redisVars == <<now, killswitch, lastLoss>>
checkVars == <<stage, request, gmxN, gate, blind>>
guardVars == <<redisVars, checkVars>>
gmxVars   == <<gstage, grefusal, gres, gtx>>
binVars   == <<bjob, bstage, bmark, bqty, banswer, bres, bord, bpos>>
vars      == <<selfVars, gpos, guardVars, standing, gmxVars, binVars>>

Guard == INSTANCE PilotGuard WITH
    gmxOpen   <- Cardinality(gpos),
    binOpen   <- Cardinality({m \in RawMarkets : bpos[m] # 0}),
    armed     <- settings.armed,
    pnlToday  <- 0,         \* every record carries realized_pnl_usd 0.0, and
    pnlWindow <- 0,         \* nothing in this repository settles positions
    ArmedSets <- {s.armed : s \in SettingsSpace},
    Notionals <- {s.notional : s \in
                     {t \in Signals : t.notional.kind # "unreadable"}},
    PnlFloor  <- 0, PnlSteps <- {}, PnlBound <- 0, DayLength <- 1,
    MaxOpen   <- 2 * Cardinality(RawMarkets)

Gmx == INSTANCE GmxLeg WITH
    dryRun <- settings.dry_run, liveGmx <- settings.live_gmx,
    hasKey <- settings.has_key, order <- n

Bin == INSTANCE BinanceLeg WITH
    dryRun <- settings.dry_run, liveBinance <- settings.live_binance,
    order <- n, Markets <- RawMarkets,
    Notionals <- {s.notional.usd : s \in Signals}

\* Every market has an address of its own; the executor only uses USDC.
Rec == INSTANCE Reconcile WITH
    Aliases <- RawMarkets, Addresses <- RawMarkets,
    MarketAddress <- [m \in GmxMarkets |-> m], Collaterals <- {"usdc"}

-----------------------------------------------------------------------------
\* The subscribe loop around handle_signal, and all that it calls.
Looping == {"subscribe", "listen", "raised", "backoff"}
Pcs     == Looping \cup {"guard", "positions", "legs", "record", "loss", "return",
                         "down"}
Outcomes == {"guard", "bad_direction", "no_intent", "exception", "reconcile",
             "dispatched"}

Record == [id : Ids, outcome : Outcomes, success : BOOLEAN, clean : BOOLEAN,
           loss : BOOLEAN]
NoRec  == [id |-> 0]
NoSig  == [market |-> "none"]

TypeOK ==
    /\ settings \in SettingsSpace
    /\ pc \in Pcs
    /\ n \in 0..MaxSignals
    /\ sigs \in [Ids -> Signals \cup {NoSig}]
    /\ rec \in Record \cup {NoRec}
    /\ executions \in Seq(Record)
    /\ lost \subseteq Ids
    /\ owed \in Nat \cup {Guard!NoLoss}
    /\ gpos \subseteq GmxMarkets \X BOOLEAN
    /\ Guard!TypeOK /\ Gmx!TypeOK /\ Bin!TypeOK

Init ==
    /\ settings \in SettingsSpace
    /\ pc = "subscribe"
    /\ n = 0
    /\ sigs = [i \in Ids |-> NoSig]
    /\ rec = NoRec
    /\ executions = <<>>
    /\ lost = {}
    /\ gpos = {}
    /\ Gmx!LegInit /\ Bin!LegInit
    /\ now = 0 /\ killswitch \in BOOLEAN /\ lastLoss = Guard!NoLoss
    /\ owed = lastLoss
    /\ stage = "idle" /\ request = Guard!NoRequest /\ gmxN = 0
    /\ gate = "none" /\ blind = {} /\ standing = {}

-----------------------------------------------------------------------------
(* handle_signal, await by await.                                          *)

\* _handle_message and the start of handle_signal.  float() raises before the
\* try: the exception leaves the cycle, which unsubscribes on its way to run.
TakeSignal(s) ==
    /\ pc = "listen" /\ n < MaxSignals
    /\ n' = n + 1
    /\ sigs' = [sigs EXCEPT ![n + 1] = s]
    /\ UNCHANGED <<settings, rec, executions, owed, gpos, gmxVars, binVars>>
    /\ IF s.notional.kind = "unreadable"
         THEN pc' = "raised" /\ lost' = lost \cup {n + 1} /\ UNCHANGED guardVars
         ELSE pc' = "guard" /\ UNCHANGED lost /\ Guard!Begin(s.market, s.notional)

GuardStep ==
    /\ pc = "guard"
    /\ UNCHANGED <<selfVars, gpos, gmxVars, binVars>>
    /\ Guard!CheckStep

Refused(outcome) == [id |-> n, outcome |-> outcome, success |-> FALSE,
                     clean |-> FALSE, loss |-> FALSE]

WriteRecord(r) ==
    /\ pc' = "record"
    /\ rec' = r

\* What handle_signal finds wrong with a signal, in its order; "none" if
\* nothing.  The guard compares the stripped market, _build_intent the market
\* as it came; int(NaN) raises, and the record says so.
FAULTY_Objection(s) ==                     \* the guard's verdict is not used
    IF s.direction \notin Directions THEN "bad_direction"
    ELSE IF s.market \notin GmxMarkets \/ ~settings.has_key THEN "no_intent"
    ELSE IF s.notional.kind = "nan" THEN "exception"
    ELSE "none"

Objection(s) ==
    IF gate # "none" THEN "guard"
    ELSE IF s.direction \notin Directions THEN "bad_direction"
    ELSE IF s.market \notin GmxMarkets \/ ~settings.has_key THEN "no_intent"
    ELSE IF s.notional.kind = "nan" THEN "exception"
    ELSE "none"

\* The check itself stays at "done" until the signal is finished, so that
\* `standing` covers the dispatch too.
TakeVerdict ==
    /\ pc = "guard" /\ stage = "done"
    /\ LET o == Objection(sigs[n]) IN
         IF o = "none" THEN pc' = "positions" /\ UNCHANGED rec
                       ELSE WriteRecord(Refused(o))
    /\ UNCHANGED <<settings, n, sigs, executions, lost, owed, gpos, guardVars,
                   gmxVars, binVars>>

\* _direction_to_gmx_is_long and _direction_to_binance_side: the hedge takes
\* the other side.
GmxIsLong(d)   == d = Long
BinanceSide(d) == IF d = Long THEN "SELL" ELSE "BUY"

Intent(s) == [market |-> s.market, collateral |-> "usdc",
              is_long |-> GmxIsLong(s.direction), is_increase |-> TRUE]

AsList(S) == CHOOSE l \in [1..Cardinality(S) -> S] :
                 \A x \in S : \E i \in DOMAIN l : l[i] = x

OpenPositions == AsList({Rec!Decoded(p[1], "usdc", p[2]) : p \in gpos})

\* A failed read is an empty list, and an empty list never aborts.
FetchAndReconcile ==
    /\ pc = "positions"
    /\ UNCHANGED <<settings, n, sigs, executions, lost, owed, gpos, guardVars>>
    /\ \E ok \in IF "positions" \in FailingReads THEN BOOLEAN ELSE {TRUE} :
        IF Rec!ReconcileAction(Intent(sigs[n]),
                               IF ok THEN OpenPositions ELSE <<>>) = "ABORT"
          THEN WriteRecord(Refused("reconcile")) /\ UNCHANGED <<gmxVars, binVars>>
          ELSE /\ pc' = "legs" /\ UNCHANGED rec
               /\ Gmx!Start
               /\ Bin!Start(sigs[n].market, BinanceSide(sigs[n].direction),
                            sigs[n].notional.usd)

\* _validate_intent: the encoder refuses an order that is not of some size.
Encodable(s) == s.notional.usd > 0

\* The legs run as two tasks; the executor only signs with its own key.
LegStep ==
    /\ pc = "legs"
    /\ UNCHANGED <<selfVars, gpos, guardVars>>
    /\ \/ Gmx!LegStep(Encodable(sigs[n]), TRUE) /\ UNCHANGED binVars
       \/ Bin!LegStep /\ UNCHANGED gmxVars

FAULTY_IsSuccess ==                        \* a leg that broke counts as success
    /\ ~gres.returned \/ gres.error = "none"
    /\ bres.returned => bres.code = "none" /\ bres.gate = "none"

\* _is_success: both legs submitted, or, in a dry run, both simulated.
IsSuccess ==
    /\ gres.returned /\ bres.returned
    /\ IF gres.submitted /\ bres.submitted
         THEN bres.code = "none" /\ gres.error = "none"
         ELSE /\ settings.dry_run
              /\ gres.sim \in {"ok", "acceptable"}
              /\ bres.request /\ bres.code = "none" /\ bres.gate = "none"

\* _compose_error has nothing to report.
Clean ==
    /\ gres.returned /\ gres.error = "none"
    /\ bres.returned /\ bres.code = "none" /\ bres.gate = "none"

FAULTY_GmxLoss ==                          \* a simulation that fails is a loss
    /\ gres.returned
    /\ gres.status = "revert" \/ gres.error # "none" \/ gres.sim = "failed"

\* _is_loss_shaped_gmx_result: it means to leave the refusals out, but looks
\* for "live_gmx_disabled" where the signer says "live_gmx_enabled is False".
GmxLoss ==
    /\ gres.returned
    /\ \/ gres.submitted /\ gres.status = "revert"
       \/ ~gres.submitted /\ gres.error # "none"

BinanceLoss ==
    bres.returned /\ bres.gate = "none" /\ bres.code = "venue"

FAULTY_Gather ==                           \* waits for two results
    /\ pc = "legs" /\ gres.returned /\ bres.returned
    /\ WriteRecord([id |-> n, outcome |-> "dispatched", success |-> IsSuccess,
                    clean |-> Clean, loss |-> GmxLoss \/ BinanceLoss])
    /\ UNCHANGED <<settings, n, sigs, executions, lost, owed, gpos, guardVars>>
    /\ Gmx!Leave /\ Bin!Leave

\* Both tasks have ended.  An exception in one was made None.
Gather ==
    /\ pc = "legs" /\ gstage = "done" /\ bstage = "done"
    /\ WriteRecord([id |-> n, outcome |-> "dispatched", success |-> IsSuccess,
                    clean |-> Clean, loss |-> GmxLoss \/ BinanceLoss])
    /\ owed' = IF GmxLoss \/ BinanceLoss THEN now ELSE owed
    /\ UNCHANGED <<settings, n, sigs, executions, lost, gpos, guardVars>>
    /\ Gmx!Leave /\ Bin!Leave

FAULTY_XaddTwice ==                        \* a lost answer: written again
    /\ pc = "record"
    /\ executions' = Append(executions, rec)
    /\ \/ pc' = (IF rec.loss THEN "loss" ELSE "return") /\ rec' = NoRec
       \/ UNCHANGED <<pc, rec>>
    /\ UNCHANGED <<settings, n, sigs, lost, owed, gpos, guardVars, gmxVars, binVars>>

FAULTY_XaddRedo ==                         \* a failed write: handled again
    /\ pc = "record"
    /\ \/ executions' = Append(executions, rec)
          /\ pc' = IF rec.loss THEN "loss" ELSE "return"
       \/ pc' = "positions" /\ UNCHANGED executions
    /\ rec' = NoRec
    /\ UNCHANGED <<settings, n, sigs, lost, owed, gpos, guardVars, gmxVars, binVars>>

\* _xadd_execution is best-effort, the loss is recorded after it.  A write whose
\* answer is lost leaves what a write leaves: the failure is only logged.
Xadd ==
    /\ pc = "record"
    /\ \/ executions' = Append(executions, rec) /\ UNCHANGED lost
       \/ lost' = lost \cup {n} /\ UNCHANGED executions
    /\ pc' = IF rec.loss THEN "loss" ELSE "return"
    /\ rec' = NoRec
    /\ UNCHANGED <<settings, n, sigs, owed, gpos, guardVars, gmxVars, binVars>>

FAULTY_RecordLoss ==                       \* the end of the cooldown
    /\ pc = "loss"
    /\ pc' = "return"
    /\ lastLoss' = now + CooldownWindow
    /\ UNCHANGED <<settings, n, sigs, rec, executions, lost, owed, gpos, now,
                   killswitch, checkVars, gmxVars, binVars>>

RecordLoss ==
    /\ pc = "loss"
    /\ pc' = "return"
    /\ UNCHANGED <<settings, n, sigs, rec, executions, lost, gpos, gmxVars, binVars>>
    /\ \/ Guard!RecordLoss /\ UNCHANGED owed
       \/ UNCHANGED guardVars /\ owed' = lastLoss

\* handle_signal returns to the listening loop.
Return ==
    /\ pc = "return"
    /\ pc' = "listen"
    /\ UNCHANGED <<settings, n, sigs, rec, executions, lost, owed, gpos, gmxVars,
                   binVars>>
    /\ Guard!Return

\* The loop between two signals.  The cycle ends when its connection is lost,
\* when a signal has raised, or when the subscription is refused; run backs off
\* and begins another, any number of times.
Resubscribe ==
    /\ \/ pc \in {"subscribe", "listen", "raised"} /\ pc' = "backoff"
       \/ pc = "backoff" /\ pc' = "subscribe"
       \/ pc = "subscribe" /\ pc' = "listen"
    /\ UNCHANGED <<settings, n, sigs, rec, executions, lost, owed, gpos, guardVars,
                   gmxVars, binVars>>

TaskStep == \/ GuardStep \/ TakeVerdict \/ FetchAndReconcile \/ LegStep \/ Gather
            \/ Xadd \/ RecordLoss \/ Return

-----------------------------------------------------------------------------
(* Crash and restart.                                                      *)

\* The process dies, or main cancels the task: everything local is gone.
Crash ==
    /\ pc # "down"
    /\ pc' = "down"
    /\ rec' = NoRec
    /\ lost' = IF pc \in {"guard", "positions", "legs", "record"}
                 THEN lost \cup {n} ELSE lost
    /\ owed' = lastLoss
    /\ UNCHANGED <<settings, n, sigs, executions, gpos>>
    /\ Gmx!Leave /\ Bin!Leave
    /\ IF stage = "idle" THEN UNCHANGED guardVars ELSE Guard!Cancel

Restart ==
    /\ pc = "down"
    /\ pc' = "subscribe"
    /\ settings' \in SettingsSpace
    /\ UNCHANGED <<n, sigs, rec, executions, lost, owed, gpos, guardVars, gmxVars,
                   binVars>>

-----------------------------------------------------------------------------
(* The world.                                                              *)

OperatorFlips ==
    /\ "killswitch" \in WorldMoves
    /\ UNCHANGED <<selfVars, gpos, gmxVars, binVars>>
    /\ Guard!TripKillswitch \/ Guard!ResetKillswitch

Tick ==
    /\ UNCHANGED <<selfVars, gpos, gmxVars, binVars>>
    /\ Guard!Tick

Chain(i) ==
    /\ UNCHANGED <<selfVars, gpos, guardVars, binVars>>
    /\ Gmx!Chain(i)

\* An executed order opens or adds to the position on its side.
Keeper(i, t) ==
    /\ "keeper" \in WorldMoves
    /\ UNCHANGED <<selfVars, guardVars, binVars>>
    /\ Gmx!Keeper(i, t)
    /\ gpos' = IF t = "executed"
                 THEN gpos \cup {<<sigs[i].market, GmxIsLong(sigs[i].direction)>>}
                 ELSE gpos

OperatorCloses ==
    /\ "close" \in WorldMoves
    /\ UNCHANGED <<selfVars, guardVars, gmxVars>>
    /\ \/ \E p \in gpos : gpos' = gpos \ {p} /\ UNCHANGED binVars
       \/ \E m \in RawMarkets : Bin!Close(m) /\ UNCHANGED gpos

Step ==
    \/ \E s \in Signals : TakeSignal(s)
    \/ TaskStep
    \/ Resubscribe
    \/ Crash
    \/ Restart
    \/ OperatorFlips
    \/ Tick
    \/ \E i \in Ids : Chain(i)
    \/ \E i \in Ids, t \in Gmx!TxStates : Keeper(i, t)
    \/ OperatorCloses

Next == Step /\ Guard!Observe

Spec == Init /\ [][Next]_vars

\* Every await of a signal ends: HTTP calls carry a timeout; that Redis answers
\* or hangs up is assumed, as its client is given none.  Nothing is assumed of
\* the loop around it, nor that Redis ever accepts a subscription.
FairSpec == Spec /\ WF_vars(TaskStep /\ Guard!Observe)

\* The same promise in terms of the awaits themselves, as the proofs use it: the
\* task does not stand at an await for ever.
TaskAwaits == pc \notin Looping \cup {"down"}
TaskRuns   == []<>~TaskAwaits \/ []<><<TaskStep /\ Guard!Observe>>_vars

-----------------------------------------------------------------------------
(* Properties.                                                             *)

Handled(i) ==
    i < n \/ (i = n /\ pc \in Looping \cup {"loss", "return", "down"})

GmxSent  == {i \in Ids : gtx[i] # "none"}
BinSent  == {i \in Ids : bord[i] # "none"}
Recorded == {executions[k] : k \in DOMAIN executions}

GmxPlaced == GmxSent' # GmxSent
BinPlaced == BinSent' # BinSent

\* The ladder in the module's docstring, at the very step that places an
\* order: the flag of the venue is on and dry_run off, the signal's market is
\* armed and its notional within the cap, and whatever reason to deny held
\* from the start of the check up to now is one whose own read failed; the
\* killswitch is never such a one.
Ladder ==
    GmxPlaced \/ BinPlaced =>
        /\ ~settings.dry_run
        /\ GmxPlaced => settings.live_gmx /\ settings.has_key
        /\ BinPlaced => settings.live_binance
        /\ sigs[n].market \in settings.armed
        /\ sigs[n].notional.usd \in 1..Cap
        /\ standing \subseteq blind \ {"killswitch"}

LadderHolds == [][Ladder]_vars

\* No order is placed within the cooldown of a loss the consumer has seen and
\* could write down, however long recording it took and whatever restarts lie
\* between, unless the cooldown read failed.
LossCoolsDown ==
    [][GmxPlaced \/ BinPlaced =>
         \/ owed = Guard!NoLoss
         \/ now - owed >= CooldownWindow
         \/ "cooldown" \in blind]_vars

\* Only a process that trades books a loss: whatever a dry run's reads, gates and
\* simulations come back with, it puts no live process after it into a cooldown.
DryRunsBookNoLoss == [][lastLoss' # lastLoss => ~settings.dry_run]_vars

\* The audit trail: each signal that is done with has exactly one record, or
\* none if the write failed, the process died first, or the message raised.
AuditComplete ==
    \A i \in Ids :
        LET entries == {k \in DOMAIN executions : executions[k].id = i}
        IN  Cardinality(entries) = IF Handled(i) /\ i \notin lost THEN 1 ELSE 0

\* What a record says stays true for good: a signal refused for any reason
\* has no order on either venue, and a success is on both venues or, being a
\* dry run, on neither.
RecordsTell ==
    \A r \in Recorded :
        /\ r.outcome # "dispatched" => r.id \notin GmxSent \cup BinSent
        /\ r.success => (r.id \in GmxSent <=> r.id \in BinSent)

\* The consumer is a faithful client of its guard: every theorem about the
\* guard holds of it here.
UsesGuard == Guard!Spec

Phase(i) ==
    IF i > n THEN "new"
    ELSE IF i < n THEN "settled"
    ELSE IF pc \in {"guard", "positions"} THEN "new"
    ELSE IF pc = "legs" THEN "cleared" ELSE "settled"

Promise == INSTANCE GatedDispatch WITH
    Venues <- {"gmx", "binance"},
    phase  <- [i \in Ids |-> Phase(i)],
    live   <- IF settings.dry_run THEN {}
              ELSE {v \in {"gmx", "binance"} :
                      \/ v = "gmx" /\ settings.live_gmx /\ settings.has_key
                      \/ v = "binance" /\ settings.live_binance},
    placed <- (GmxSent \X {"gmx"}) \cup (BinSent \X {"binance"})

\* The executor keeps the promise of GatedDispatch.
KeepsPromise == Promise!Spec

\* Whatever has failed, been lost or broken, the task is nowhere left waiting
\* for something that nobody does any more: a leg that raised has ended too, and
\* its `await gather` with it.
TaskNeverStuck == TaskAwaits => ENABLED <<TaskStep /\ Guard!Observe>>_vars

\* Every signal taken is settled, and the loop listens again.
SignalSettles == (pc = "guard") ~> (pc \in {"listen", "down"})

-----------------------------------------------------------------------------
(* What the docs and comments say and the code does not do: each of these  *)
(* has a run of its own that shows how it is violated.                     *)

\* "One signal -> one ExecutionRecord.  Always returns; never raises."
HandleSignalNeverRaises == pc # "raised"

\* _is_success: "Both legs must report submitted=True for full success", and
\* _is_loss_shaped_gmx_result counts a revert on chain as "a loss/failure":
\* one signal is not both.
RevertIsNotSuccess == \A r \in Recorded : ~(r.success /\ r.loss)

\* "the live-disabled gate-fail [is] not [a loss]": with GMX off and Binance
\* in agreement, a dispatch is no loss.
RefusalIsNotLoss ==
    pc = "record" /\ ~settings.live_gmx /\ ~settings.live_binance => ~rec.loss

\* "on-chain state must not contradict the intent": the account never holds
\* both sides of one market.
OneSidePerMarket ==
    \A m \in GmxMarkets : ~({<<m, TRUE>>, <<m, FALSE>>} \subseteq gpos)

\* "using fallback $1.00 (dry_run only safe)".
HedgeWorthItsNotional ==
    bstage = "ack" /\ bord[n] = "filled" => bqty * TruePrice <= sigs[n].notional.usd
=============================================================================
