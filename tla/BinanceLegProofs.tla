-------------------------- MODULE BinanceLegProofs --------------------------
(***************************************************************************)
(* The gates, the size and the result of a Binance order, for every lot    *)
(* size, minimum, price and notional, and any number of orders.            *)
(*                                                                         *)
(* BinInv adds to the three properties what each await behind a check      *)
(* still knows of it, and that the venue knows nothing of an order before  *)
(* its POST; at "ack" the answer on its way agrees with the venue.         *)
(***************************************************************************)
EXTENDS BinanceLeg, TLAPS

Gated  == {"position_mode", "post", "ack"}
Unsent == {"mark", "exchange_info", "position_mode", "post"}

\* What the venue has made of an order whose answer it has written.
AnswerAgrees ==
    /\ banswer = "fill" => bord[order] = "filled"
    /\ banswer = "expired" => bord[order] = "expired"
    /\ banswer = "error_200" => bord[order] = "rejected"

BinInv ==
    /\ TypeOK
    /\ order \in Nat
    /\ bstage # "idle" => order \in Ids /\ bjob \in Job
    /\ bstage \in Gated => ~dryRun /\ liveBinance
    /\ bstage \in {"exchange_info"} \cup Gated => bmark \in Nat \ {0}
    /\ \A i \in Ids : i > order => bord[i] = "none"
    /\ bstage \in Unsent => bord[order] = "none"
    /\ bstage = "ack" => AnswerAgrees /\ banswer # "none"
    /\ PostedOnlyWhenLive
    /\ SizeAcceptable
    /\ VerdictTruthful

-----------------------------------------------------------------------------
\* Rounding down never costs more than was asked for.
LEMMA RoundsDown ==
    ASSUME NEW usd \in Int, NEW price \in Nat \ {0}, usd > 0
    PROVE  usd \div price \in Nat /\ (usd \div price) * price <= usd
  OBVIOUS

\* A quantity that passes both checks is one the exchange takes.
LEMMA SizeIsAcceptable ==
    ASSUME NEW usd \in Int, NEW price \in Nat \ {0}
    PROVE  /\ SizeFor(usd, price) \in Nat
           /\ SizeFor(usd, price) # 0 =>
                /\ SizeFor(usd, price) >= LotMin
                /\ SizeFor(usd, price) * price \in MinNotional .. usd
<1> DEFINE q == Quantity(usd, price)
<1>1. q = 0 \/ (usd > 0 /\ q = usd \div price /\ q >= LotMin)
  BY BinanceAssumption DEF Quantity
<1>2. q \in Nat /\ (q # 0 => q * price <= usd /\ q >= LotMin)
  BY <1>1, RoundsDown
<1>3. q * price \in Int
  BY <1>2
<1>4. SizeFor(usd, price) = q \/ SizeFor(usd, price) = 0
  BY DEF SizeFor
<1>5. SizeFor(usd, price) # 0 => q * price >= MinNotional
  BY <1>4 DEF SizeFor, PassesMinNotional
<1> HIDE DEF q
<1> QED
  BY <1>2, <1>3, <1>4, <1>5, BinanceAssumption

\* What each of the results a leg can finish with leaves unclaimed.
Silent(r)  == r \in OrderResult /\ ~r.submitted /\ r.code = "none" /\ r.gate = "none"
Error(r)   == r \in OrderResult /\ ~r.submitted /\ r.gate = "none"
Refusal(r) == r \in OrderResult /\ ~r.submitted /\ r.code = "none"

LEMMA ResultFacts ==
    /\ Silent(NoOrder) /\ Silent(Requested)
    /\ Error(LocalError) /\ Error(VenueError)
    /\ Refusal(Blocked("live_off")) /\ Refusal(Blocked("mode"))
    /\ Accepted \in OrderResult /\ Accepted.code = "none" /\ Accepted.gate = "none"
<1> USE DEF NoOrder, OrderResult, Silent, Error, Refusal
<1>1. Silent(NoOrder)
  OBVIOUS
<1>2. Silent(Requested)
  BY DEF Requested
<1>3. Error(LocalError)
  BY DEF LocalError
<1>4. Error(VenueError)
  BY DEF VenueError
<1>5. Refusal(Blocked("live_off"))
  BY DEF Blocked, Requested
<1>6. Refusal(Blocked("mode"))
  BY DEF Blocked, Requested
<1>7. Accepted \in OrderResult /\ Accepted.code = "none" /\ Accepted.gate = "none"
  BY DEF Accepted
<1> QED
  BY <1>1, <1>2, <1>3, <1>4, <1>5, <1>6, <1>7

LEMMA InitBinInv == Init => BinInv
  BY BinanceAssumption, ResultFacts
  DEF Init, LegInit, BinInv, TypeOK, Stages, Answers, Fates, NoJob, Gated,
      Unsent, PostedOnlyWhenLive, SizeAcceptable, VerdictTruthful, Silent

LEMMA BinInvStep == BinInv /\ [Next]_vars => BinInv'
<1> SUFFICES ASSUME BinInv, [Next]_vars PROVE BinInv'
  OBVIOUS
<1> USE BinanceAssumption
    DEF BinInv, TypeOK, Stages, Answers, Fates, Gated, Unsent, AnswerAgrees,
        bsettings, blegVars, venueVars, Finish, Proceed, PostedOnlyWhenLive,
        SizeAcceptable, VerdictTruthful
<1>1. CASE UNCHANGED vars
  BY <1>1 DEF vars
<1>2. ASSUME order + 1 \in Ids, order' = order + 1, NEW m \in Markets,
             NEW s \in Sides, NEW u \in Notionals, Start(m, s, u)
      PROVE  BinInv'
  BY <1>2, ResultFacts DEF Start, Job, Silent
<1>3. CASE FetchMark
  BY <1>3 DEF FetchMark
<1>4. ASSUME NEW served \in BOOLEAN, FetchExchangeInfo(served)
      PROVE  BinInv'
  <2>1. bjob.usd \in Int /\ bmark \in Nat \ {0}
    BY <1>4 DEF FetchExchangeInfo, Job
  <2>2. CASE Finish(LocalError) /\ UNCHANGED bqty
    BY <1>4, <2>2, ResultFacts DEF FetchExchangeInfo, Error
  <2>3. CASE bqty' = SizeFor(bjob.usd, bmark) /\ bqty' = 0 /\ Finish(LocalError)
    BY <1>4, <2>3, ResultFacts DEF FetchExchangeInfo, Error
  <2>4. CASE bqty' = SizeFor(bjob.usd, bmark) /\ bqty' # 0 /\ Gate
    <3>1. /\ bqty' \in Nat /\ bqty' >= LotMin
          /\ bqty' * bmark \in MinNotional .. bjob.usd
      BY <2>1, <2>4, SizeIsAcceptable
    <3> QED
      BY <1>4, <2>4, <3>1, ResultFacts
      DEF FetchExchangeInfo, Gate, Silent, Refusal
  <2> QED
    BY <1>4, <2>2, <2>3, <2>4 DEF FetchExchangeInfo
<1>5. CASE CheckPositionMode
  BY <1>5, ResultFacts DEF CheckPositionMode, Refusal
<1>6. CASE Post
  BY <1>6 DEF Post, Signed, Job
<1>7. CASE ReadAnswer
  BY <1>7, ResultFacts DEF ReadAnswer, Verdict, Silent, Error
<1>8. CASE bstage # "idle" /\ Leave /\ UNCHANGED order
  BY <1>8, ResultFacts DEF Leave, NoJob, Silent
<1>9. ASSUME NEW m \in Markets, Close(m), UNCHANGED order PROVE BinInv'
  BY <1>9 DEF Close
<1> QED
  BY <1>1, <1>2, <1>3, <1>4, <1>5, <1>6, <1>7, <1>8, <1>9 DEF Next, LegStep

LEMMA BinInvariance == Spec => []BinInv
  BY InitBinInv, BinInvStep, PTL DEF Spec

-----------------------------------------------------------------------------
\* The leg, its job and the orders at the venue keep their types, for any
\* markets, prices and notionals.
THEOREM BinanceTypeCorrect == Spec => []TypeOK
<1>1. BinInv => TypeOK
  BY DEF BinInv
<1> QED
  BY <1>1, BinInvariance, PTL

\* No order of this program reaches Binance unless the live flag is on and
\* dry_run off, whichever reads fail before it.
THEOREM OrdersAreGated == Spec => []PostedOnlyWhenLive
<1>1. BinInv => PostedOnlyWhenLive
  BY DEF BinInv
<1> QED
  BY <1>1, BinInvariance, PTL

\* Whatever the lot size, the minimum, the mark and the notional, an order on
\* its way is large enough for the exchange and no larger than asked for.
THEOREM SizesAreAcceptable == Spec => []SizeAcceptable
<1>1. BinInv => SizeAcceptable
  BY DEF BinInv
<1> QED
  BY <1>1, BinInvariance, PTL

\* An OrderResult never claims an order the venue has not taken, nor denies
\* one that is open there, whichever answers are lost.
THEOREM VerdictsAreTruthful == Spec => []VerdictTruthful
<1>1. BinInv => VerdictTruthful
  BY DEF BinInv
<1> QED
  BY <1>1, BinInvariance, PTL
=============================================================================
