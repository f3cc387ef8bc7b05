------------------------- MODULE BinanceOrdersProofs -------------------------
(***************************************************************************)
(* The Binance side of a process for every TTL, latency, lot and number of *)
(* orders.  First, that the composition takes only steps of the leg, so    *)
(* that what is proved of the leg holds beside the cache and the lookups;  *)
(* then the age of what the cache serves, that it is never emptied, and    *)
(* that a lookup tells the truth.                                          *)
(*                                                                         *)
(* CacheInv: a stamp is at most one call younger than the body it stands   *)
(* for, because the call began before the venue wrote the body and ended   *)
(* within Latency; setting the wall clock back makes stamps no younger.    *)
(***************************************************************************)
EXTENDS BinanceOrders, BinanceLegProofs

Calling == {"fetch", "reply"}

CacheInv ==
    /\ CacheTypeOK
    /\ heldRead <= now
    /\ held # {} => stamped <= heldRead + Latency
    /\ estage \in Calling =>
         heldRead <= ebegan /\ ebegan <= now /\ now <= ebegan + Latency
    /\ estage = "reply" => ebegan <= ebodyRead /\ ebodyRead <= now
    /\ ServedAgeBounded

LookupInv ==
    /\ QueryTypeOK
    /\ qstage # "idle" => qid \in Ids
    /\ qanswer # "none" => qstage = "asked"
    /\ qanswer = "found" => qkind = "status" /\ OnBook(qid)
    /\ LookupTruthful

-----------------------------------------------------------------------------
\* Every step of the composition is a step of the leg, or none of its state.
LEMMA LegSimulated == [OrdersNext]_ordersVars => [Next]_vars
<1> SUFFICES ASSUME [OrdersNext]_ordersVars PROVE [Next]_vars
  OBVIOUS
<1> USE DEF Next, LegStep
<1>1. CASE UNCHANGED ordersVars
  BY <1>1 DEF ordersVars, vars, bsettings, blegVars, venueVars
<1>2. CASE StartOrder
  BY <1>2 DEF StartOrder
<1>3. CASE LegMoves
  BY <1>3 DEF LegMoves
<1>4. CASE LegAsksInfo
  BY <1>4 DEF LegAsksInfo
<1>5. CASE LegTakesInfo
  <2>1. (bjob.market \in held) \in BOOLEAN
    OBVIOUS
  <2> QED
    BY <1>5, <2>1 DEF LegTakesInfo
<1>6. CASE LegLeaves
  BY <1>6 DEF LegLeaves
<1>7. ASSUME NEW force \in BOOLEAN, CommandAsksInfo(force) PROVE [Next]_vars
  BY <1>7 DEF CommandAsksInfo
<1>8. CASE CommandTakesInfo
  BY <1>8 DEF CommandTakesInfo
<1>9. CASE CacheMoves
  BY <1>9 DEF CacheMoves
<1>10. CASE Lookup
  BY <1>10 DEF Lookup, AskVenue, VenueLooks, HearLookup, EndLookup
<1> QED
  BY <1>1, <1>2, <1>3, <1>4, <1>5, <1>6, <1>7, <1>8, <1>9, <1>10
  DEF OrdersNext

\* The leg beside the cache and the lookups is the leg: everything proved of
\* BinanceLeg's Spec holds of place_market_order as the process runs it.
THEOREM OrdersImplementLeg == OrdersSpec => Spec
<1>1. OrdersInit => Init
  BY DEF OrdersInit
<1> QED
  BY <1>1, LegSimulated, PTL DEF OrdersSpec, Spec

\* The gates, the size and the result as the process runs the leg: with filters
\* out of the cache, of whatever age, and lookups that overtake the order.
THEOREM OrdersKeepTheirGates ==
  OrdersSpec => [](PostedOnlyWhenLive /\ SizeAcceptable /\ VerdictTruthful)
BY OrdersImplementLeg, OrdersAreGated, SizesAreAcceptable, VerdictsAreTruthful,
   PTL

-----------------------------------------------------------------------------
\* What the cache does in a step of the composition.
CacheAct ==
    \/ \E force \in BOOLEAN : AskInfo(force)
    \/ LeaveCache
    \/ CacheStep
    \/ UNCHANGED cacheVars

LEMMA CacheActs == [OrdersNext]_ordersVars => CacheAct
<1> USE DEF CacheAct
<1>1. ASSUME UNCHANGED ordersVars PROVE CacheAct
  BY <1>1 DEF ordersVars
<1>2. ASSUME OrdersNext PROVE CacheAct
  BY <1>2 DEF OrdersNext, StartOrder, LegMoves, LegAsksInfo, LegTakesInfo,
      LegLeaves, CommandAsksInfo, CommandTakesInfo, CacheMoves, Lookup,
      AskVenue, VenueLooks, HearLookup, EndLookup
<1> QED
  BY <1>1, <1>2

LEMMA CacheInvInit == OrdersInit => CacheInv
<1> SUFFICES ASSUME CacheInit PROVE CacheInv
  BY DEF OrdersInit
<1> USE CacheAssumption DEF CacheInit
<1>1. CacheTypeOK
  <2>1. now \in 0 .. MaxTime /\ stepped \in 0 .. MaxStep
    OBVIOUS
  <2>2. held \subseteq Listed /\ ebody \subseteq Listed
    BY Zenon
  <2>3. /\ heldRead \in Nat /\ stamped \in Int
        /\ ebegan \in Nat /\ ebodyRead \in Nat
    OBVIOUS
  <2>4. estage \in CallStages /\ etried \in BOOLEAN
    BY Zenon DEF CallStages
  <2> QED
    BY <2>1, <2>2, <2>3, <2>4, Zenon DEF CacheTypeOK
<1>2. ServedAgeBounded
  BY DEF ServedAgeBounded
<1> QED
  BY <1>1, <1>2 DEF CacheInv, Calling

LEMMA CacheInvStep == CacheInv /\ CacheAct => CacheInv'
<1> SUFFICES ASSUME CacheInv, CacheAct PROVE CacheInv'
  OBVIOUS
<1> USE CacheAssumption
    DEF CacheInv, CacheTypeOK, CallStages, Calling, ServedAgeBounded,
        clockVars, mapVars, callVars
<1>1. ASSUME NEW force \in BOOLEAN, AskInfo(force) PROVE CacheInv'
  BY <1>1 DEF AskInfo, Fresh, WallClock
<1>2. CASE LeaveCache
  BY <1>2 DEF LeaveCache
<1>3. ASSUME NEW entries \in [Listed -> Entries], VenueAnswers(entries)
      PROVE  CacheInv'
  BY <1>3 DEF VenueAnswers, Parsed
<1>4. CASE StoreReply
  <2> USE <1>4 DEF StoreReply
  <2>1. CASE ebody = {}
    BY <2>1
  <2>2. CASE ebody # {}
    <3>1. held' # {} /\ heldRead' = ebodyRead /\ stamped' = now - stepped
      BY <2>2 DEF WallClock
    <3> QED
      BY <2>2, <3>1
  <2> QED
    BY <2>1, <2>2
<1>5. CASE Tick
  BY <1>5 DEF Tick
<1>6. CASE SetClockBack
  BY <1>6 DEF SetClockBack
<1>7. CASE UNCHANGED cacheVars
  BY <1>7 DEF cacheVars
<1> QED
  BY <1>1, <1>2, <1>3, <1>4, <1>5, <1>6, <1>7 DEF CacheAct, CacheStep

LEMMA CacheInvariance == OrdersSpec => []CacheInv
  BY CacheInvInit, CacheActs, CacheInvStep, PTL DEF OrdersSpec

\* Whatever the TTL and the latency, and however often the wall clock is set
\* back, an order is sized with filters of bounded age, unless the very call
\* that was to renew them failed.
THEOREM FiltersAreRecent == OrdersSpec => []ServedAgeBounded
<1>1. CacheInv => ServedAgeBounded
  BY DEF CacheInv
<1> QED
  BY <1>1, CacheInvariance, PTL

\* No failed refresh empties a filled cache, renews its stamp or brings an
\* older body back.
THEOREM CacheOnlyGainsNews == OrdersSpec => FilledStaysFilled
<1> DEFINE Kept == held # {} =>
        /\ held' # {}
        /\ heldRead' >= heldRead
        /\ (stamped' # stamped => ebody # {} /\ heldRead' >= ebegan)
<1>1. ASSUME CacheInv, CacheAct PROVE [Kept]_mapVars
  <2> USE <1>1 DEF CacheInv, CacheTypeOK, Calling
  <2>1. CASE StoreReply
    BY <2>1 DEF StoreReply, mapVars
  <2>2. CASE ~StoreReply
    BY <2>2 DEF CacheAct, CacheStep, AskInfo, LeaveCache, VenueAnswers, Tick,
        SetClockBack, cacheVars
  <2> QED
    BY <2>1, <2>2
<1> QED
  BY <1>1, CacheActs, CacheInvariance, PTL DEF OrdersSpec, FilledStaysFilled

-----------------------------------------------------------------------------
\* An order once filled or expired stays so, for it is posted only once.
LEMMA BookStable ==
    ASSUME BinInv, [Next]_vars, NEW i \in Ids, OnBook(i)
    PROVE  OnBook(i)'
<1> USE DEF OnBook, BinInv, TypeOK, bsettings, blegVars, venueVars
<1>1. CASE Post
  <2>1. bord[order] = "none"
    BY <1>1 DEF Post, Unsent
  <2> QED
    BY <1>1, <2>1 DEF Post, Fates
<1>2. CASE ~Post
  BY <1>2 DEF Next, LegStep, vars, Start, FetchMark, FetchExchangeInfo,
      CheckPositionMode, ReadAnswer, Leave, Close
<1> QED
  BY <1>1, <1>2

LEMMA LookupInvInit == OrdersInit => LookupInv
  BY DEF OrdersInit, LookupInv, QueryTypeOK, Lookups, QueryAnswers, NoQuery,
     QueryResult, LookupTruthful

LEMMA LookupInvStep ==
    BinInv /\ LookupInv /\ [OrdersNext]_ordersVars => LookupInv'
<1> SUFFICES ASSUME BinInv, LookupInv, [OrdersNext]_ordersVars
             PROVE  LookupInv'
  OBVIOUS
<1>1. \A i \in Ids : OnBook(i) => OnBook(i)'
  BY LegSimulated, BookStable
<1> USE DEF OnBook, LookupInv, QueryTypeOK, Lookups, QueryAnswers, NoQuery,
            QueryResult, LookupTruthful
<1>2. ASSUME NEW kind \in {"status", "cancel"}, NEW i \in Ids, AskVenue(kind, i)
      PROVE  LookupInv'
  BY <1>1, <1>2 DEF AskVenue
<1>3. CASE VenueLooks
  BY <1>1, <1>3 DEF VenueLooks
<1>4. CASE HearLookup
  BY <1>1, <1>4 DEF HearLookup, Looked
<1>5. CASE EndLookup
  BY <1>5 DEF EndLookup
<1>6. CASE UNCHANGED queryVars
  BY <1>1, <1>6 DEF queryVars
<1> QED
  BY <1>2, <1>3, <1>4, <1>5, <1>6
  DEF OrdersNext, ordersVars, StartOrder, LegMoves, LegAsksInfo, LegTakesInfo,
      LegLeaves, CommandAsksInfo, CommandTakesInfo, CacheMoves, Lookup

\* A lookup never reports an order that is not at the venue, in whatever order
\* the POST, the lookup and their answers arrive.
THEOREM LookupsAreTruthful == OrdersSpec => []LookupTruthful
<1>1. OrdersInit => LookupInv
  BY LookupInvInit
<1>2. OrdersSpec => []BinInv
  BY OrdersImplementLeg, BinInvariance
<1>3. LookupInv => LookupTruthful
  BY DEF LookupInv
<1> QED
  BY <1>1, <1>2, <1>3, LookupInvStep, PTL DEF OrdersSpec

\* The leg, the cache and the lookups keep their types together, for any TTL,
\* latency, markets and number of orders.
THEOREM OrdersTypeCorrect == OrdersSpec => [](TypeOK /\ CacheTypeOK /\ QueryTypeOK)
<1>1. OrdersSpec => []BinInv
  BY OrdersImplementLeg, BinInvariance
<1>2. OrdersInit => LookupInv
  BY LookupInvInit
<1>3. /\ BinInv => TypeOK
      /\ CacheInv => CacheTypeOK
      /\ LookupInv => QueryTypeOK
  BY DEF BinInv, CacheInv, LookupInv
<1> QED
  BY <1>1, <1>2, <1>3, CacheInvariance, LookupInvStep, PTL DEF OrdersSpec
=============================================================================
