--------------------------- MODULE GmxReaderProofs ---------------------------
(***************************************************************************)
(* What a read of a market returns, for every way the market may change    *)
(* and however often.                                                      *)
(*                                                                         *)
(* ReaderInv records what each register still stands for: the answer it    *)
(* was taken from came from some world of this call, unless the Reader had *)
(* moved.  Every step is then one of FundingRead, or changes nothing it    *)
(* sees.                                                                   *)
(***************************************************************************)
EXTENDS GmxReader, TLAPS

OiStages     == {"long_long", "long_short", "short_long", "short_short"}
ShortStages  == {"short_long", "short_short"}
MarketStages == {"index", "long", "short", "info"} \cup OiStages

Moved == \E w \in seen : w.moved

MarketKnown ==
    \E w \in seen : w.status # "delisted" /\ rmarket.one_token = w.one_token

RateKnown == \E w \in seen : w.status = "open" /\ rrate = Signed(w)

FirstKnown(l) == \E u \in seen : roi[l] = u.oi[l]["long"]

SumKnown(l) ==
    \E u, v \in seen : roi[l] = SumOf(u.oi[l]["long"], v.oi[l]["short"])

ReaderInv ==
    /\ ReaderTypeOK
    /\ rstage \in ReadStages => world \in seen /\ ranswer = NoAnswer
    /\ rstage = "idle" => ranswer = NoAnswer /\ seen = {}
    /\ rstage \in MarketStages => Moved \/ MarketKnown
    /\ rstage \in OiStages => Moved \/ RateKnown
    /\ rstage = "long_short" => FirstKnown(TRUE)
    /\ rstage \in ShortStages => roi[TRUE] = -1 \/ SumKnown(TRUE)
    /\ rstage = "short_short" => FirstKnown(FALSE)
    /\ AnswerTrue

USE DEF ReadStages, OiStages, ShortStages, MarketStages

-----------------------------------------------------------------------------
LEMMA WorldFacts ==
    ASSUME NEW w \in Worlds
    PROVE  /\ w \in World
           /\ Signed(w) \in Int
           /\ \A l \in BOOLEAN, t \in Tokens : w.oi[l][t] \in Nat
<1>1. w \in World
  BY WorldsAssumption
<1> QED
  BY <1>1 DEF World, Signed

LEMMA AnswerFacts ==
    /\ NoAnswer = Promise!None
    /\ NoAnswer.kind = "none" /\ Escaped.kind = "raised"
    /\ \A r, a, b \in Int :
         /\ FundingState(r, a, b).kind = "state"
         /\ FundingState(r, a, b).rate = r
         /\ FundingState(r, a, b).longs = a
         /\ FundingState(r, a, b).shorts = b
  BY DEF NoAnswer, Escaped, FundingState, Promise!None

LEMMA AnswerTypes ==
    /\ NoAnswer \in ReadAnswers /\ Escaped \in ReadAnswers
    /\ \A r, a, b \in Int : FundingState(r, a, b) \in ReadAnswers
    /\ Unread \in MarketReads
    /\ \A w \in World : [mapped |-> w.mapped, one_token |-> w.one_token]
                         \in MarketReads
  BY DEF NoAnswer, Escaped, FundingState, ReadAnswers, Unread, MarketReads,
      World

LEMMA OiFacts ==
    ASSUME world \in Worlds, NEW l \in BOOLEAN, NEW t \in Tokens,
           NEW read \in OiReads(l, t)
    PROVE  read \in Int /\ \A x \in Int : SumOf(x, read) \in Int
<1>1. world.oi[l][t] \in Nat
  BY WorldFacts
<1>2. read \in Int
  BY <1>1 DEF OiReads
<1> QED
  BY <1>2 DEF SumOf

\* What the registers stand for makes an answer that FundingRead explains.
LEMMA RegistersExplain ==
    ASSUME ReaderTypeOK, Moved \/ MarketKnown, Moved \/ RateKnown,
           NEW a \in Int, NEW b \in Int,
           \E u, v \in seen : a = SumOf(u.oi[TRUE]["long"], v.oi[TRUE]["short"]),
           \E u, v \in seen : b = SumOf(u.oi[FALSE]["long"], v.oi[FALSE]["short"])
    PROVE  Promise!Explains(seen, FundingState(rrate, a, b))
<1> DEFINE ans == FundingState(rrate, a, b)
<1>1. ans.rate = rrate /\ ans.longs = a /\ ans.shorts = b
  BY DEF FundingState
<1>2. CASE Moved
  BY <1>2 DEF Moved, Promise!Explains
<1>3. CASE MarketKnown /\ RateKnown
  <2>1. PICK m \in seen : m.status # "delisted" /\ rmarket.one_token = m.one_token
    BY <1>3 DEF MarketKnown
  <2>2. \A u, v \in seen, l \in BOOLEAN :
          SumOf(u.oi[l]["long"], v.oi[l]["short"]) \in Promise!Totals(m, seen, l)
    BY <2>1 DEF SumOf, Promise!Totals, Promise!Doubled
  <2>3. a \in Promise!Totals(m, seen, TRUE) /\ b \in Promise!Totals(m, seen, FALSE)
    BY <2>2
  <2>4. \E w \in seen : w.status = "open" /\ rrate = Promise!RateOf(w)
    BY <1>3 DEF RateKnown, Signed, Promise!RateOf
  <2>5. Promise!Explains(seen, ans)
    <3> HIDE DEF ans
    <3>1. \E w \in seen : w.status = "open" /\ ans.rate = Promise!RateOf(w)
      BY <1>1, <2>4
    <3>2. \E w \in seen : /\ w.status # "delisted"
                         /\ ans.longs \in Promise!Totals(w, seen, TRUE)
                         /\ ans.shorts \in Promise!Totals(w, seen, FALSE)
      BY <1>1, <2>1, <2>3
    <3> QED
      BY <3>1, <3>2 DEF Promise!Explains
  <2> QED
    BY <2>5
<1> QED
  BY <1>2, <1>3

LEMMA ReaderInvInit == ReaderInit => ReaderInv
<1> SUFFICES ASSUME ReaderInit PROVE ReaderInv
  OBVIOUS
<1>1. ReaderTypeOK
  <2>1. world \in Worlds /\ moves \in 0 .. MaxMoves /\ seen \subseteq Worlds
    BY WorldsAssumption DEF ReaderInit
  <2>2. rmarket \in MarketReads /\ rpriced \in BOOLEAN
    BY AnswerTypes DEF ReaderInit
  <2>3. rrate \in Int /\ roi \in [BOOLEAN -> Int]
    BY DEF ReaderInit, NoTotals
  <2>4. rstage \in ReadStages \cup {"idle", "done"}
    BY DEF ReaderInit
  <2> QED
    BY <2>1, <2>2, <2>3, <2>4, AnswerTypes DEF ReaderInit, ReaderTypeOK
<1> QED
  BY <1>1, AnswerFacts DEF ReaderInit, ReaderInv, AnswerTrue

-----------------------------------------------------------------------------
LEMMA ReaderTypeStep ==
    ASSUME ReaderTypeOK, ReaderNext
    PROVE  ReaderTypeOK'
<1> USE DEF ReaderTypeOK, GoOn, Return, Frame, registers
<1>1. CASE StartRead \/ RefuseMarket
  BY <1>1, AnswerTypes DEF StartRead, RefuseMarket
<1>2. Told \subseteq Worlds /\ Worlds \subseteq World
  BY WorldsAssumption DEF Told
<1>3. CASE GetMarket
  BY <1>2, <1>3, AnswerTypes DEF GetMarket
<1>4. CASE GetIndexPrice
  BY <1>4, AnswerTypes DEF GetIndexPrice
<1>5. CASE GetLongPrice
  BY <1>5, AnswerTypes DEF GetLongPrice
<1>6. CASE GetShortPrice
  BY <1>6, AnswerTypes DEF GetShortPrice
<1>7. CASE GetMarketInfo
  <2>1. \A w \in Worlds : Signed(w) \in Int
    BY WorldFacts
  <2> QED
    BY <1>2, <1>7, <2>1, AnswerTypes DEF GetMarketInfo
<1>8. CASE ReadLongs
  <2>1. roi' \in [BOOLEAN -> Int]
    BY <1>8, OiFacts DEF ReadLongs, ReadFirst, ReadSecond, Tokens
  <2> QED
    BY <1>8, <2>1, AnswerTypes DEF ReadLongs, ReadFirst, ReadSecond
<1>9. CASE ReadShorts
  <2>1. roi' \in [BOOLEAN -> Int]
    BY <1>9, OiFacts DEF ReadShorts, ReadFirst, ReadSecond, Tokens
  <2>2. Assembled \in ReadAnswers
    <3>1. roi'[TRUE] \in Int /\ roi'[FALSE] \in Int
      BY <2>1
    <3> QED
      BY <3>1, AnswerTypes DEF Assembled
  <2> QED
    BY <1>9, <2>1, <2>2, AnswerTypes DEF ReadShorts, ReadFirst, ReadSecond
<1>10. CASE EndRead
  <2>1. roi' = [long \in BOOLEAN |-> 0] /\ rrate' = 0 /\ rpriced' = FALSE
    BY <1>10 DEF EndRead, NoTotals
  <2>2. rmarket' \in MarketReads /\ ranswer' \in ReadAnswers /\ seen' \subseteq Worlds
    BY <1>10, AnswerTypes DEF EndRead
  <2>3. roi' \in [BOOLEAN -> Int]
    BY <2>1
  <2> QED
    BY <1>10, <2>1, <2>2, <2>3 DEF EndRead
<1>11. CASE MarketMoves
  BY <1>11, WorldsAssumption DEF MarketMoves
<1> QED
  BY <1>1, <1>3, <1>4, <1>5, <1>6, <1>7, <1>8, <1>9, <1>10, <1>11
  DEF ReaderNext

LEMMA ReaderInvStep == ReaderInv /\ [ReaderNext]_readerVars => ReaderInv'
<1> SUFFICES ASSUME ReaderInv, [ReaderNext]_readerVars PROVE ReaderInv'
  OBVIOUS
<1> USE DEF ReaderInv, AnswerTrue, Moved, MarketKnown, RateKnown, FirstKnown,
            SumKnown, GoOn, Return, Frame, registers
<1>1. CASE UNCHANGED readerVars
  <2>1. ReaderTypeOK' /\ AnswerTrue'
    BY <1>1 DEF readerVars, ReaderTypeOK
  <2>2. \A a, b \in Int : SumOf(a, b)' = SumOf(a, b)
    BY <1>1 DEF readerVars, SumOf
  <2> QED
    BY <1>1, <2>1, <2>2 DEF readerVars, SumOf
<1> SUFFICES ASSUME ReaderNext PROVE ReaderInv'
  BY <1>1
<1>2. ReaderTypeOK'
  BY ReaderTypeStep
<1>3. NoAnswer.kind = "none" /\ Escaped.kind = "raised"
  BY AnswerFacts
<1>4. CASE StartRead \/ RefuseMarket
  BY <1>2, <1>3, <1>4 DEF StartRead, RefuseMarket
<1>5. CASE GetMarket
  <2>1. CASE Return(NoAnswer)
    BY <1>2, <1>3, <1>5, <2>1 DEF GetMarket
  <2>2. CASE \E w \in Told : /\ w.status # "delisted"
                             /\ rmarket' = [mapped |-> w.mapped, one_token |-> w.one_token]
                             /\ GoOn("index")
    <3>1. Moved' \/ MarketKnown'
      BY <1>5, <2>2 DEF GetMarket, Told
    <3> QED
      BY <1>2, <1>3, <1>5, <2>2, <3>1 DEF GetMarket
  <2> QED
    BY <1>5, <2>1, <2>2 DEF GetMarket
<1>6. CASE GetIndexPrice
  BY <1>2, <1>3, <1>6 DEF GetIndexPrice
<1>7. CASE GetLongPrice
  BY <1>2, <1>3, <1>7 DEF GetLongPrice
<1>8. CASE GetShortPrice
  BY <1>2, <1>3, <1>8 DEF GetShortPrice
<1>9. CASE GetMarketInfo
  BY <1>2, <1>3, <1>9 DEF GetMarketInfo, Told
<1>10. CASE ReadLongs
  <2>1. CASE rstage = "long_long"
    <3>1. PICK read \in OiReads(TRUE, "long") :
            /\ roi' = [roi EXCEPT ![TRUE] = read]
            /\ IF read = -1 THEN GoOn("short_long") ELSE GoOn("long_short")
      BY <1>10, <2>1 DEF ReadLongs, ReadFirst, ReadSecond
    <3>2. roi'[TRUE] = read
      BY <3>1 DEF ReaderTypeOK
    <3>3. CASE read = -1
      BY <1>2, <1>3, <1>10, <2>1, <3>1, <3>2, <3>3
      DEF ReadLongs, ReadFirst, ReadSecond
    <3>4. CASE read # -1
      <4>1. read = world.oi[TRUE]["long"]
        BY <3>1, <3>4 DEF OiReads
      <4>2. seen' = seen /\ world \in seen
        BY <1>10, <2>1 DEF ReadLongs, ReadFirst, ReadSecond
      <4>3. FirstKnown(TRUE)'
        BY <3>2, <4>1, <4>2
      <4> QED
        BY <1>2, <1>3, <1>10, <2>1, <3>1, <3>4, <4>3
        DEF ReadLongs, ReadFirst, ReadSecond
    <3> QED
      BY <3>3, <3>4
  <2>2. CASE rstage = "long_short"
    <3>1. PICK u \in seen : roi[TRUE] = u.oi[TRUE]["long"]
      BY <2>2
    <3>2. GoOn("short_long")
      BY <1>10, <2>2 DEF ReadLongs, ReadFirst, ReadSecond
    <3>3. \/ roi'[TRUE] = -1
          \/ roi'[TRUE] = SumOf(u.oi[TRUE]["long"], world.oi[TRUE]["short"])
      BY <1>10, <2>2, <3>1 DEF ReadLongs, ReadFirst, ReadSecond, OiReads, ReaderTypeOK
    <3>4. rmarket' = rmarket /\ seen' = seen /\ world \in seen
      BY <1>10, <2>2 DEF ReadLongs, ReadFirst, ReadSecond
    <3>5. roi'[TRUE] = -1 \/ SumKnown(TRUE)'
      BY <3>3, <3>4 DEF SumOf
    <3> QED
      BY <1>2, <1>3, <1>10, <2>2, <3>2, <3>4, <3>5
      DEF ReadLongs, ReadFirst, ReadSecond
  <2> QED
    BY <1>10, <2>1, <2>2 DEF ReadLongs, ReadFirst, ReadSecond
<1>11. CASE ReadShorts
  <2>1. /\ rmarket' = rmarket /\ seen' = seen /\ rrate' = rrate
        /\ world' = world /\ world \in seen
    BY <1>11 DEF ReadShorts, ReadFirst, ReadSecond
  <2>2. roi'[TRUE] = roi[TRUE]
    BY <1>11 DEF ReadShorts, ReadFirst, ReadSecond, ReaderTypeOK
  <2>3. CASE rstage = "short_long"
    <3>1. \/ Return(NoAnswer)
          \/ roi'[FALSE] = world.oi[FALSE]["long"] /\ GoOn("short_short")
      BY <1>11, <2>3 DEF ReadShorts, ReadFirst, ReadSecond, OiReads, ReaderTypeOK
    <3>2. CASE Return(NoAnswer)
      BY <1>2, <1>3, <3>2
    <3>3. CASE roi'[FALSE] = world.oi[FALSE]["long"] /\ GoOn("short_short")
      <4>1. FirstKnown(FALSE)'
        BY <2>1, <3>3
      <4>2. roi'[TRUE] = -1 \/ SumKnown(TRUE)'
        BY <2>1, <2>2, <2>3 DEF SumOf
      <4> QED
        BY <1>2, <1>3, <2>1, <2>3, <3>3, <4>1, <4>2
    <3> QED
      BY <3>1, <3>2, <3>3
  <2>4. CASE rstage = "short_short"
    <3>1. PICK u \in seen : roi[FALSE] = u.oi[FALSE]["long"]
      BY <2>4
    <3>2. Return(Assembled)
      BY <1>11, <2>4 DEF ReadShorts, ReadFirst, ReadSecond
    <3>3. \/ roi'[FALSE] = -1
          \/ roi'[FALSE] = SumOf(u.oi[FALSE]["long"], world.oi[FALSE]["short"])
      BY <1>11, <2>4, <3>1
      DEF ReadShorts, ReadFirst, ReadSecond, OiReads, ReaderTypeOK
    <3>4. AnswerTrue'
      <4>1. CASE Assembled = NoAnswer
        BY <1>3, <3>2, <4>1
      <4>2. CASE Assembled # NoAnswer
        <5>1. roi'[TRUE] # -1 /\ roi'[FALSE] # -1
          BY <4>2 DEF Assembled
        <5>2. Promise!Explains(seen, FundingState(rrate, roi'[TRUE], roi'[FALSE]))
          <6>1. roi'[TRUE] \in Int /\ roi'[FALSE] \in Int
            BY <1>2 DEF ReaderTypeOK
          <6> QED
            BY <2>1, <2>2, <2>4, <3>1, <3>3, <5>1, <6>1, RegistersExplain
        <5>3. ranswer' = FundingState(rrate, roi'[TRUE], roi'[FALSE])
          BY <3>2, <5>1 DEF Assembled
        <5> QED
          BY <2>1, <5>2, <5>3
      <4> QED
        BY <4>1, <4>2
    <3> QED
      BY <1>2, <3>2, <3>4
  <2> QED
    BY <1>11, <2>3, <2>4 DEF ReadShorts, ReadFirst, ReadSecond
<1>12. CASE EndRead
  BY <1>2, <1>3, <1>12 DEF EndRead
<1>13. CASE MarketMoves
  BY <1>2, <1>3, <1>13 DEF MarketMoves, SumOf
<1> QED
  BY <1>4, <1>5, <1>6, <1>7, <1>8, <1>9, <1>10, <1>11, <1>12, <1>13
  DEF ReaderNext

LEMMA ReaderInvariance == ReaderSpec => []ReaderInv
  BY ReaderInvInit, ReaderInvStep, PTL DEF ReaderSpec

\* However the market changes, and however often, between the awaits of one
\* read, the rate, its sign and each side's open interest are the market's own.
THEOREM AnswersAreTrue == ReaderSpec => []AnswerTrue
<1>1. ReaderInv => AnswerTrue
  BY DEF ReaderInv
<1> QED
  BY <1>1, ReaderInvariance, PTL

-----------------------------------------------------------------------------
LEMMA PromiseInit == ReaderInit => Promise!Init
  BY AnswerFacts DEF ReaderInit, Promise!Init, Status, Delivered

LEMMA PromiseStep ==
    ReaderInv /\ ReaderInv' /\ [ReaderNext]_readerVars
      => [Promise!Next]_<<world, seen, Status, Delivered>>
<1> SUFFICES ASSUME ReaderInv, ReaderInv', [ReaderNext]_readerVars
             PROVE  [Promise!Next]_<<world, seen, Status, Delivered>>
  OBVIOUS
<1> DEFINE abs == <<world, seen, Status, Delivered>>
<1> USE DEF GoOn, Return, Frame, registers, Delivered
<1>1. CASE UNCHANGED readerVars
  BY <1>1 DEF readerVars, Status
<1>2. CASE StartRead
  BY <1>2 DEF StartRead, Status, Promise!Next, Promise!Ask
<1>3. CASE RefuseMarket
  BY <1>3, AnswerFacts DEF RefuseMarket, Status, Promise!Next, Promise!Refuse
<1>4. ASSUME rstage \in ReadStages, Frame,
             \/ rstage' \in ReadStages /\ UNCHANGED ranswer
             \/ rstage' = "done" /\ ranswer' \in {NoAnswer, Escaped}
             \/ /\ rstage' = "done" /\ ranswer'.kind = "state"
      PROVE  [Promise!Next]_abs
  <2>1. Status = "asked"
    BY <1>4 DEF Status
  <2>2. CASE rstage' \in ReadStages /\ UNCHANGED ranswer
    BY <1>4, <2>1, <2>2 DEF Status
  <2>3. CASE rstage' = "done" /\ ranswer' \in {NoAnswer, Escaped}
    BY <1>4, <2>1, <2>3, AnswerFacts DEF Status, Promise!Next, Promise!Answer
  <2>4. CASE rstage' = "done" /\ ranswer'.kind = "state"
    <3>1. Promise!Explains(seen, ranswer')
      BY <1>4, <2>4 DEF ReaderInv, AnswerTrue
    <3> QED
      BY <1>4, <2>1, <2>4, <3>1 DEF Status, Promise!Next, Promise!Answer
  <2> QED
    BY <1>4, <2>2, <2>3, <2>4
<1>5. CASE GetMarket
  BY <1>4, <1>5 DEF GetMarket
<1>6. CASE GetIndexPrice
  BY <1>4, <1>6 DEF GetIndexPrice
<1>7. CASE GetLongPrice
  BY <1>4, <1>7 DEF GetLongPrice
<1>8. CASE GetShortPrice
  BY <1>4, <1>8 DEF GetShortPrice
<1>9. CASE GetMarketInfo
  BY <1>4, <1>9 DEF GetMarketInfo
<1>10. CASE ReadLongs
  BY <1>4, <1>10 DEF ReadLongs, ReadFirst, ReadSecond
<1>11. CASE ReadShorts
  <2>1. Assembled = NoAnswer \/ Assembled.kind = "state"
    <3>1. FundingState(rrate, roi'[TRUE], roi'[FALSE]).kind = "state"
      BY DEF FundingState
    <3> QED
      BY <3>1 DEF Assembled
  <2> QED
    BY <1>4, <1>11, <2>1 DEF ReadShorts, ReadFirst, ReadSecond
<1>12. CASE EndRead
  BY <1>12, AnswerFacts DEF EndRead, Status, Promise!Next, Promise!Take
<1>13. CASE MarketMoves
  BY <1>13 DEF MarketMoves, Status, Promise!Next, Promise!Move, ReaderInv,
     ReaderTypeOK
<1> QED
  BY <1>1, <1>2, <1>3, <1>5, <1>6, <1>7, <1>8, <1>9, <1>10, <1>11, <1>12, <1>13
  DEF ReaderNext

\* The read implements FundingRead: one answer a call, given at its last await,
\* that the worlds seen during the call explain.
THEOREM ReadImplementsPromise == ReaderSpec => ReadKeepsPromise
  BY ReaderInvariance, PromiseInit, PromiseStep, PTL
  DEF ReaderSpec, ReadKeepsPromise, Promise!Spec

-----------------------------------------------------------------------------
(* What follows for a market that keeps still, and what a read costs.      *)

\* The sign of the rate, and the rate itself, of a market that did not change
\* while it was read, and both sides' open interest, halved where one token is
\* both collaterals, are exactly its own; and one not listed, or disabled, gives
\* no state at all (gmx_reader.py fetch_gmx_funding_live).
SideOf(w, long) == Promise!Doubled(w, w.oi[long]["long"], w.oi[long]["short"])
Snapshot ==
    \A w \in Worlds : seen = {w} /\ ~w.moved /\ ranswer.kind = "state" =>
        /\ w.status = "open"
        /\ ranswer.rate = Signed(w)
        /\ ranswer.longs = SideOf(w, TRUE) /\ ranswer.shorts = SideOf(w, FALSE)

THEOREM QuietReadsAreSnapshots == ReaderSpec => []Snapshot
<1>1. AnswerTrue => Snapshot
  <2> SUFFICES ASSUME AnswerTrue, NEW w \in Worlds, seen = {w}, ~w.moved,
                      ranswer.kind = "state"
               PROVE  /\ w.status = "open"
                      /\ ranswer.rate = Signed(w)
                      /\ ranswer.longs = SideOf(w, TRUE)
                      /\ ranswer.shorts = SideOf(w, FALSE)
    BY DEF Snapshot
  <2>1. Promise!Explains({w}, ranswer)
    BY DEF AnswerTrue
  <2>2. /\ w.status = "open" /\ ranswer.rate = Promise!RateOf(w)
        /\ ranswer.longs \in Promise!Totals(w, {w}, TRUE)
        /\ ranswer.shorts \in Promise!Totals(w, {w}, FALSE)
    BY <2>1 DEF Promise!Explains
  <2>3. \A l \in BOOLEAN : Promise!Totals(w, {w}, l) = {SideOf(w, l)}
    BY DEF Promise!Totals, SideOf
  <2> QED
    BY <2>2, <2>3 DEF Signed, Promise!RateOf
<1> QED
  BY <1>1, AnswersAreTrue, PTL

\* The awaits a read has at most before it.
AwaitsLeft ==
    CASE rstage = "market" -> 9      [] rstage = "index" -> 8
      [] rstage = "long" -> 7        [] rstage = "short" -> 6
      [] rstage = "info" -> 5        [] rstage = "long_long" -> 4
      [] rstage = "long_short" -> 3  [] rstage = "short_long" -> 2
      [] rstage = "short_short" -> 1 [] OTHER -> 0

ReadStep == GetMarket \/ GetIndexPrice \/ GetLongPrice \/ GetShortPrice
            \/ GetMarketInfo \/ ReadLongs \/ ReadShorts

LEMMA ReadStepCosts == ReadStep => AwaitsLeft' < AwaitsLeft
<1> USE DEF AwaitsLeft, GoOn, Return
<1>1. CASE GetMarket
  BY <1>1 DEF GetMarket
<1>2. CASE GetIndexPrice
  BY <1>2 DEF GetIndexPrice, PriceReads
<1>3. CASE GetLongPrice
  BY <1>3 DEF GetLongPrice
<1>4. CASE GetShortPrice
  BY <1>4 DEF GetShortPrice
<1>5. CASE GetMarketInfo
  BY <1>5 DEF GetMarketInfo
<1>6. CASE ReadLongs
  <2>1. \/ rstage = "long_long" /\ rstage' \in {"long_short", "short_long"}
        \/ rstage = "long_short" /\ rstage' = "short_long"
    BY <1>6, Zenon DEF ReadLongs, ReadFirst, ReadSecond
  <2> QED
    BY <2>1
<1>7. CASE ReadShorts
  <2>1. \/ rstage = "short_long" /\ rstage' \in {"short_short", "done"}
        \/ rstage = "short_short" /\ rstage' = "done"
    BY <1>7, Zenon DEF ReadShorts, ReadFirst, ReadSecond
  <2> QED
    BY <2>1
<1> QED
  BY <1>1, <1>2, <1>3, <1>4, <1>5, <1>6, <1>7 DEF ReadStep

\* Without any fairness: a read makes at most nine awaits, whatever fails and
\* however the market moves, and has answered when none is left
\* (gmx_reader.py fetch_gmx_funding_live).
THEOREM ReadsCostBounded ==
  ReaderSpec => /\ [](AwaitsLeft \in 0 .. 9 /\
                      (AwaitsLeft = 0 <=> rstage \in {"idle", "done"}))
                /\ [][/\ ReadStep => AwaitsLeft' < AwaitsLeft
                      /\ AwaitsLeft = 0 \/ AwaitsLeft' <= AwaitsLeft]_readerVars
<1>1. ReaderInv => AwaitsLeft \in 0 .. 9 /\
                   (AwaitsLeft = 0 <=> rstage \in {"idle", "done"})
  BY DEF ReaderInv, ReaderTypeOK, AwaitsLeft
<1>2. [ReaderNext]_readerVars => [/\ ReadStep => AwaitsLeft' < AwaitsLeft
                                  /\ AwaitsLeft = 0 \/ AwaitsLeft' <= AwaitsLeft]_readerVars
  <2> SUFFICES ASSUME ReaderNext PROVE AwaitsLeft = 0 \/ AwaitsLeft' <= AwaitsLeft
    BY ReadStepCosts
  <2>1. AwaitsLeft \in 0 .. 9 /\ AwaitsLeft' \in 0 .. 9
    BY DEF AwaitsLeft
  <2>2. CASE ReadStep
    BY <2>1, <2>2, ReadStepCosts
  <2>3. CASE StartRead \/ RefuseMarket \/ EndRead
    BY <2>3 DEF StartRead, RefuseMarket, EndRead, AwaitsLeft
  <2>4. CASE MarketMoves
    <3>1. AwaitsLeft' = AwaitsLeft
      BY <2>4 DEF MarketMoves, AwaitsLeft
    <3> QED
      BY <2>1, <3>1
  <2> QED
    BY <2>2, <2>3, <2>4 DEF ReaderNext, ReadStep
<1> QED
  BY <1>1, <1>2, ReaderInvariance, PTL DEF ReaderSpec
=============================================================================
