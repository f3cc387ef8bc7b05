------------------------------ MODULE GmxReader ------------------------------
(***************************************************************************)
(* gmx_reader.fetch_gmx_funding_live: the emitter's read of one market.    *)
(* Three prices from Redis and up to six calls at "latest" are awaited one *)
(* after the other, while the market on chain moves on.                    *)
(*                                                                         *)
(* Rates are in units of the funding factor; open interest is in whole     *)
(* units and kept doubled, because a market whose collateral tokens are    *)
(* one and the same is halved.                                             *)
(***************************************************************************)
EXTENDS Integers

CONSTANTS
    Worlds,      \* what the market and the Reader contract may be like
    MaxMoves     \* bound on how often that changes

Tokens == {"long", "short"}

World == [status : {"open", "disabled", "delisted"}, moved : BOOLEAN,
          mapped : BOOLEAN, one_token : BOOLEAN, longs_pay : BOOLEAN,
          factor : Nat, oi : [BOOLEAN -> [Tokens -> Nat]]]

ASSUME WorldsAssumption == Worlds \subseteq World /\ MaxMoves \in Nat

VARIABLES
    world,       \* the market, and whether the Reader still has its address
    moves,       \* how often it has changed
    seen,        \* what it has been like during this call
    rstage,      \* the await the call stands at
    rmarket,     \* what getMarket told of the tokens
    rpriced,     \* the long token has a price
    rrate,       \* the signed rate of getMarketInfo
    roi,         \* a side's doubled open interest so far; -1 when unknown
    ranswer      \* what the call returned

registers  == <<rmarket, rpriced, rrate, roi>>
readerVars == <<world, moves, seen, rstage, registers, ranswer>>

ReadStages == {"market", "index", "long", "short", "info", "long_long",
               "long_short", "short_long", "short_short"}

Status == IF rstage \in ReadStages THEN "asked"
          ELSE IF rstage = "done" THEN "answered" ELSE "idle"

NoAnswer == [kind |-> "none", rate |-> 0, longs |-> 0, shorts |-> 0]
Escaped  == [NoAnswer EXCEPT !.kind = "raised"]

\* What the sweep gets of the call.  Its fetcher turns None into an exception and
\* _process_market leaves the market out for any exception: the two are one.
Delivered == IF ranswer.kind = "raised" THEN NoAnswer ELSE ranswer

Promise == INSTANCE FundingRead WITH status <- Status, answer <- Delivered

FundingState(rate, longs, shorts) ==
    [kind |-> "state", rate |-> rate, longs |-> longs, shorts |-> shorts]

MarketReads == [mapped : BOOLEAN, one_token : BOOLEAN]
ReadAnswers == [kind : {"none", "raised", "state"}, rate : Int, longs : Int,
                shorts : Int]

Unread   == [mapped |-> FALSE, one_token |-> FALSE]
NoTotals == [long \in BOOLEAN |-> 0]

ReaderInit ==
    /\ world \in Worlds /\ moves = 0 /\ seen = {}
    /\ rstage = "idle"
    /\ rmarket = Unread /\ rpriced = FALSE /\ rrate = 0 /\ roi = NoTotals
    /\ ranswer = NoAnswer

-----------------------------------------------------------------------------
GoOn(next) == rstage' = next /\ UNCHANGED ranswer
Return(a)  == rstage' = "done" /\ ranswer' = a
Frame      == UNCHANGED <<world, moves, seen>>

StartRead ==
    /\ rstage = "idle"
    /\ seen' = {world}
    /\ GoOn("market")
    /\ UNCHANGED <<world, moves, registers>>

\* The market is not in ARBITRUM_MARKETS, or the chain is not arbitrum.
RefuseMarket ==
    /\ rstage = "idle"
    /\ Return(NoAnswer)
    /\ UNCHANGED registers /\ Frame

\* Whatever now stands at the Reader's old address may say anything.
Told == IF world.moved THEN Worlds ELSE {world}

\* getMarket.  The call fails, does not decode, or is the zero struct of a
\* market that is not listed.
GetMarket ==
    /\ rstage = "market"
    /\ \/ Return(NoAnswer) /\ UNCHANGED rmarket
       \/ \E w \in Told :
            /\ w.status # "delisted"
            /\ rmarket' = [mapped |-> w.mapped, one_token |-> w.one_token]
            /\ GoOn("index")
    /\ UNCHANGED <<rpriced, rrate, roi>> /\ Frame

\* The read of one key of the price stream: a price, nothing usable, or a
\* payload (NaN, or JSON that is no object) that raises out of the call.
PriceReads == {"price", "missing", "raises"}

\* The index price is looked up by the market's alias, the other two by the
\* tokens, which the maps may not know.
GetIndexPrice ==
    /\ rstage = "index"
    /\ \E p \in PriceReads :
         CASE p = "raises"                      -> Return(Escaped)
           [] p = "missing" \/ ~rmarket.mapped  -> Return(NoAnswer)
           [] OTHER                             -> GoOn("long")
    /\ UNCHANGED registers /\ Frame

\* A missing long price is only noticed after the short one has been read.
GetLongPrice ==
    /\ rstage = "long"
    /\ \E p \in PriceReads :
         IF p = "raises" THEN Return(Escaped) /\ UNCHANGED rpriced
         ELSE GoOn("short") /\ rpriced' = (p = "price")
    /\ UNCHANGED <<rmarket, rrate, roi>> /\ Frame

\* The short token is a stablecoin, worth $1.00 when its key is missing,
\* unless the market has one token only.
GetShortPrice ==
    /\ rstage = "short"
    /\ \E p \in PriceReads :
         IF p = "raises" THEN Return(Escaped)
         ELSE IF rpriced /\ (p = "price" \/ ~rmarket.one_token)
           THEN GoOn("info")
         ELSE Return(NoAnswer)
    /\ UNCHANGED registers /\ Frame

FAULTY_Signed(w) == w.factor              \* the factor has no sign of its own

\* The factor is unsigned: the sign is longs_pay_shorts.
Signed(w) == IF w.longs_pay THEN w.factor ELSE -w.factor

\* getMarketInfo.  It fails, does not decode, or says the market is disabled.
GetMarketInfo ==
    /\ rstage = "info"
    /\ \/ Return(NoAnswer) /\ UNCHANGED rrate
       \/ \E w \in Told :
            /\ w.status = "open"
            /\ rrate' = Signed(w)
            /\ GoOn("long_long")
    /\ UNCHANGED <<rmarket, rpriced, roi>> /\ Frame

\* The second collateral: the sum, halved when both are the same token.
SumOf(first, read) ==
    IF rmarket.one_token THEN first + read ELSE 2 * (first + read)

FAULTY_OiReads(long, token) == {0, world.oi[long][token]}   \* failed: none

\* The DataStore has not moved with the Reader; its read may fail: -1.
OiReads(long, token) == {-1, world.oi[long][token]}

\* A side whose first read fails is unknown, and its second is left out.
ReadFirst(long, here, second, otherSide) ==
    /\ rstage = here
    /\ \E read \in OiReads(long, "long") :
         /\ roi' = [roi EXCEPT ![long] = read]
         /\ IF read = -1 THEN otherSide ELSE GoOn(second)
    /\ UNCHANGED <<rmarket, rpriced, rrate>> /\ Frame

Assembled == IF roi'[TRUE] = -1 \/ roi'[FALSE] = -1 THEN NoAnswer
             ELSE FundingState(rrate, roi'[TRUE], roi'[FALSE])

ReadSecond(long, here, then) ==
    /\ rstage = here
    /\ \E read \in OiReads(long, "short") :
         roi' = [roi EXCEPT ![long] = IF read = -1 THEN -1 ELSE SumOf(@, read)]
    /\ then
    /\ UNCHANGED <<rmarket, rpriced, rrate>> /\ Frame

\* Longs first, then shorts, read even when the longs are unknown.
ReadLongs  == \/ ReadFirst(TRUE, "long_long", "long_short", GoOn("short_long"))
              \/ ReadSecond(TRUE, "long_short", GoOn("short_long"))
ReadShorts == \/ ReadFirst(FALSE, "short_long", "short_short", Return(NoAnswer))
              \/ ReadSecond(FALSE, "short_short", Return(Assembled))

EndRead ==
    /\ rstage = "done"
    /\ rstage' = "idle" /\ ranswer' = NoAnswer /\ seen' = {}
    /\ rmarket' = Unread /\ rpriced' = FALSE /\ rrate' = 0 /\ roi' = NoTotals
    /\ UNCHANGED <<world, moves>>

-----------------------------------------------------------------------------
\* Positions are opened and closed, the rate follows them, governance disables
\* or delists the market, GMX moves its Reader.
MarketMoves ==
    /\ moves < MaxMoves
    /\ moves' = moves + 1
    /\ world' \in Worlds
    /\ seen' = IF rstage \in ReadStages THEN seen \cup {world'} ELSE seen
    /\ UNCHANGED <<rstage, registers, ranswer>>

ReaderNext ==
    \/ StartRead \/ RefuseMarket
    \/ GetMarket
    \/ GetIndexPrice \/ GetLongPrice \/ GetShortPrice
    \/ GetMarketInfo
    \/ ReadLongs \/ ReadShorts
    \/ EndRead
    \/ MarketMoves

ReaderSpec == ReaderInit /\ [][ReaderNext]_readerVars

-----------------------------------------------------------------------------
ReaderTypeOK ==
    /\ world \in Worlds /\ moves \in 0 .. MaxMoves /\ seen \subseteq Worlds
    /\ rstage \in ReadStages \cup {"idle", "done"}
    /\ rmarket \in MarketReads
    /\ rpriced \in BOOLEAN /\ rrate \in Int
    /\ roi \in [BOOLEAN -> Int]
    /\ ranswer \in ReadAnswers

\* A funding state that was returned is one the market explains: the rate was
\* its rate, with its sign, while it was open, and each side's open interest
\* is made of amounts it had, none missing or counted twice, unless the Reader
\* had moved during the call.
AnswerTrue == ranswer.kind = "state" => Promise!Explains(seen, ranswer)

\* What the sweep gets keeps the promise of FundingRead, and no other answer,
\* later or earlier than the one of its last await, is ever given.  The call by
\* itself does not keep it: ReadNeverRaises.
ReadKeepsPromise == Promise!Spec

\* "Returns None on ANY failure path -- never raises", says its docstring.  A
\* price of NaN passes `price <= 0` and raises out of int(), and a payload that
\* is JSON but no object has no `get`.
ReadNeverRaises == ranswer.kind # "raised"
=============================================================================
