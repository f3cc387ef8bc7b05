----------------------------- MODULE BinanceLeg -----------------------------
(***************************************************************************)
(* The Binance leg of one signal: FundingArbExecutor._run_binance_leg and  *)
(* binance_order.place_market_order down to the signed POST.  The order    *)
(* is posted in one step and its answer read in a later one: the venue may *)
(* have taken an order whose answer never arrives.                         *)
(*                                                                         *)
(* Money is in whole dollars, quantities in whole lots of an instrument    *)
(* that costs TruePrice dollars a lot.                                     *)
(***************************************************************************)
EXTENDS Integers

CONSTANTS
    Ids,           \* signal numbers: each is dispatched at most once
    Markets,       \* market aliases
    Symbols,       \* those BINANCE_SYMBOL_BY_ALIAS knows
    TruePrice,     \* what a lot costs
    MarkPrices,    \* what mark_price_fn may answer; 0 is None or not positive
    LotMin,        \* exchangeInfo: the smallest order, in lots
    MinNotional,   \* exchangeInfo: the smallest order, in dollars
    Notionals      \* bound: the dollars asked for, when checked on its own

ASSUME BinanceAssumption ==
    /\ Ids \subseteq Nat
    /\ Notionals \subseteq Int
    /\ Symbols \subseteq Markets
    /\ TruePrice \in Nat \ {0}
    /\ MarkPrices \subseteq Nat
    /\ LotMin \in Nat /\ MinNotional \in Nat

VARIABLES
    dryRun,        \* funding_arb_executor_dry_run
    liveBinance,   \* live_binance_enabled
    order,         \* the signal being dispatched
    bjob,          \* what the leg was called with
    bstage,        \* the await the leg stands at
    bmark,         \* the mark price it sizes with
    bqty,          \* the quantity it will ask for
    banswer,       \* the HTTP answer to the POST, on its way back
    bres,          \* the OrderResult
    bord,          \* what the venue has made of each signal's order
    bpos           \* the account's net position in each market

bsettings == <<dryRun, liveBinance>>
blegVars  == <<bjob, bstage, bmark, bqty, banswer, bres>>
venueVars == <<bord, bpos>>
vars      == <<bsettings, order, blegVars, venueVars>>

Stages  == {"idle", "mark", "exchange_info", "position_mode", "post", "ack",
            "done"}
Answers == {"none", "fill", "expired", "error_200", "error_4xx", "lost"}
Fates   == {"none", "filled", "expired", "rejected"}
Sides   == {"BUY", "SELL"}

Job   == [market : Markets, side : Sides, usd : Int]
NoJob == [market |-> "none", side |-> "none", usd |-> 0]

\* returned = FALSE: no result yet, or the leg returned None.  code "local"
\* is -1, code "venue" any other.
OrderResult == [returned : BOOLEAN, submitted : BOOLEAN, request : BOOLEAN,
                code : {"none", "local", "venue"},
                gate : {"none", "live_off", "mode"}]

NoOrder == [returned |-> FALSE, submitted |-> FALSE, request |-> FALSE,
            code |-> "none", gate |-> "none"]

LocalError  == [NoOrder EXCEPT !.returned = TRUE, !.code = "local"]
Requested   == [NoOrder EXCEPT !.returned = TRUE, !.request = TRUE]
Blocked(g)  == [Requested EXCEPT !.gate = g]
VenueError  == [NoOrder EXCEPT !.returned = TRUE, !.code = "venue"]
Accepted    == [NoOrder EXCEPT !.returned = TRUE, !.submitted = TRUE]

TypeOK ==
    /\ dryRun \in BOOLEAN /\ liveBinance \in BOOLEAN
    /\ bjob \in Job \cup {NoJob}
    /\ bstage \in Stages
    /\ bmark \in Nat /\ bqty \in Nat
    /\ banswer \in Answers
    /\ bres \in OrderResult
    /\ bord \in [Ids -> Fates]
    /\ bpos \in [Markets -> Int]

LegInit ==
    /\ bjob = NoJob
    /\ bstage = "idle"
    /\ bmark = 0 /\ bqty = 0
    /\ banswer = "none"
    /\ bres = NoOrder
    /\ bord = [i \in Ids |-> "none"]
    /\ bpos = [m \in Markets |-> 0]

Init ==
    /\ dryRun \in BOOLEAN /\ liveBinance \in BOOLEAN
    /\ order = 0
    /\ LegInit

-----------------------------------------------------------------------------
\* quantity_from_notional: rounded down to whole lots, 0 when too small.
Quantity(usd, price) ==
    LET q == usd \div price
    IN  IF usd <= 0 \/ usd < MinNotional \/ q < LotMin THEN 0 ELSE q

PassesMinNotional(q, price) == q > 0 /\ q * price >= MinNotional

FAULTY_SizeFor(usd, price) == usd \div price        \* only zero is refused

\* Pre-flights 4 and 5: the quantity to order, 0 when the order is refused.
SizeFor(usd, price) ==
    LET q == Quantity(usd, price)
    IN  IF PassesMinNotional(q, price) THEN q ELSE 0

Finish(r) ==
    /\ bstage' = "done"
    /\ bres' = r

Proceed(next) ==
    /\ bstage' = next
    /\ UNCHANGED bres

Start(m, side, usd) ==
    /\ bstage = "idle"
    /\ bjob' = [market |-> m, side |-> side, usd |-> usd]
    /\ IF m \in Symbols THEN Proceed("mark") ELSE Finish(NoOrder)
    /\ UNCHANGED <<bsettings, bmark, bqty, banswer, venueVars>>

\* Without a mark price the leg goes on with $1.00.
FetchMark ==
    /\ bstage = "mark"
    /\ \E p \in MarkPrices : bmark' = IF p = 0 THEN 1 ELSE p
    /\ Proceed("exchange_info")
    /\ UNCHANGED <<bsettings, order, bjob, bqty, banswer, venueVars>>

FAULTY_Gate ==                         \* the live flag is not looked at
    IF dryRun THEN Finish(Requested) ELSE Proceed("position_mode")

\* The dry run, and gate 1.
Gate == IF dryRun THEN Finish(Requested)
        ELSE IF ~liveBinance THEN Finish(Blocked("live_off"))
        ELSE Proceed("position_mode")

\* exchangeInfo, which may not serve the symbol, the size, and the gates
\* decided without an await.
FetchExchangeInfo(served) ==
    /\ bstage = "exchange_info"
    /\ IF served
         THEN /\ bqty' = SizeFor(bjob.usd, bmark)
              /\ IF bqty' = 0 THEN Finish(LocalError) ELSE Gate
         ELSE Finish(LocalError) /\ UNCHANGED bqty
    /\ UNCHANGED <<bsettings, order, bjob, bmark, banswer, venueVars>>

\* fetch_position_mode answers "unknown" for every failure of its call.
PositionModes == {"one_way", "hedge", "unknown"}

\* Gate 2: hedge mode and an unknown mode both block the order.
CheckPositionMode ==
    /\ bstage = "position_mode"
    /\ \E mode \in PositionModes :
         IF mode = "one_way" THEN Proceed("post") ELSE Finish(Blocked("mode"))
    /\ UNCHANGED <<bsettings, order, bjob, bmark, bqty, banswer, venueVars>>

Signed(q) == IF bjob.side = "BUY" THEN q ELSE -q

\* The POST reaches the venue or does not.  A market order is filled, finds
\* no taker and expires, or is rejected; its answer may be lost in each case.
Post ==
    /\ bstage = "post"
    /\ Proceed("ack")
    /\ \/ UNCHANGED venueVars /\ banswer' = "lost"
       \/ /\ bord' = [bord EXCEPT ![order] = "filled"]
          /\ bpos' = [bpos EXCEPT ![bjob.market] = @ + Signed(bqty)]
          /\ banswer' \in {"fill", "lost"}
       \/ /\ bord' = [bord EXCEPT ![order] = "expired"]
          /\ UNCHANGED bpos
          /\ banswer' \in {"expired", "lost"}
       \/ /\ bord' = [bord EXCEPT ![order] = "rejected"]
          /\ UNCHANGED bpos
          /\ banswer' \in {"error_200", "error_4xx", "lost"}
    /\ UNCHANGED <<bsettings, order, bjob, bmark, bqty>>

FAULTY_Verdict(a) ==                   \* no answer is taken for an acceptance
    IF a = "error_200" THEN VenueError ELSE Accepted

\* signed_post turns a failed call and any status but 200 into None; a body
\* is an error when it has a `code`.  The order's status is not looked at.
Verdict(a) ==
    CASE a \in {"lost", "error_4xx"} -> Requested
      [] a = "error_200"             -> VenueError
      [] OTHER                       -> Accepted

ReadAnswer ==
    /\ bstage = "ack"
    /\ Finish(Verdict(banswer))
    /\ UNCHANGED <<bsettings, order, bjob, bmark, bqty, banswer, venueVars>>

LegStep ==
    \/ FetchMark
    \/ \E served \in BOOLEAN : FetchExchangeInfo(served)
    \/ CheckPositionMode \/ Post \/ ReadAnswer

FAULTY_Leave ==                        \* the quantity leaks into the next order
    /\ bstage' = "idle"
    /\ bjob' = NoJob
    /\ bmark' = 0 /\ bqty' = -1
    /\ banswer' = "none"
    /\ bres' = NoOrder
    /\ UNCHANGED <<bsettings, venueVars>>

\* The leg's result has been taken, or its task was cancelled.
Leave ==
    /\ bstage' = "idle"
    /\ bjob' = NoJob
    /\ bmark' = 0 /\ bqty' = 0
    /\ banswer' = "none"
    /\ bres' = NoOrder
    /\ UNCHANGED <<bsettings, venueVars>>

\* The operator closes a position: this code only opens.
Close(m) ==
    /\ bpos[m] # 0
    /\ bpos' = [bpos EXCEPT ![m] = 0]
    /\ UNCHANGED <<bsettings, blegVars, bord>>

-----------------------------------------------------------------------------
Next ==
    \/ /\ order + 1 \in Ids /\ order' = order + 1
       /\ \E m \in Markets, s \in Sides, u \in Notionals : Start(m, s, u)
    \/ LegStep
    \/ bstage # "idle" /\ Leave /\ UNCHANGED order
    \/ \E m \in Markets : Close(m) /\ UNCHANGED order

Spec == Init /\ [][Next]_vars

-----------------------------------------------------------------------------
\* The gate stack of place_market_order: whatever the venue has seen of this
\* program was sent with the live flag on and dry_run off.
PostedOnlyWhenLive ==
    (\E i \in Ids : bord[i] # "none") => ~dryRun /\ liveBinance

\* The checks before and after the rounding leave no order that the exchange
\* must refuse for its size, nor one above the notional at the mark used.
SizeAcceptable ==
    bstage \in {"position_mode", "post", "ack"} =>
        bqty >= LotMin /\ bqty * bmark \in MinNotional .. bjob.usd

\* What an OrderResult claims is so: a submitted order is at the venue and a
\* refused one, for whatever reason, is not open there.
VerdictTruthful ==
    bstage = "done" =>
        /\ bres.submitted => bord[order] \in {"filled", "expired"}
        /\ bres.code # "none" => bord[order] \in {"none", "rejected"}
        /\ bres.gate # "none" => bord[order] = "none"
=============================================================================
