---------------------------- MODULE BinanceOrders ----------------------------
(***************************************************************************)
(* The Binance side of one process: the order leg, the exchangeInfo cache  *)
(* its pre-flight reads, and the two lookups of binance_order by client    *)
(* order id, get_order_status and cancel_order, which nothing stops from   *)
(* running while the order they ask about is still on its way.             *)
(***************************************************************************)
EXTENDS BinanceLeg, ExchangeInfoCache

ASSUME ListedAssumption == Listed = Symbols

VARIABLES
    qstage,     \* where the lookup stands
    qkind,      \* which of the two it is
    qid,        \* the order it asks about
    qanswer,    \* the venue's answer, on its way back
    qres        \* the OrderResult; for a cancel, what its body says

queryVars  == <<qstage, qkind, qid, qanswer, qres>>
ordersVars == <<vars, cacheVars, queryVars>>

Lookups      == {"none", "status", "cancel"}
QueryAnswers == {"none", "found", "error_200", "error_4xx", "lost"}
NoQuery     == [submitted |-> FALSE, code |-> "none"]
QueryResult == [submitted : BOOLEAN, code : {"none", "venue"}]

QueryTypeOK ==
    /\ qkind \in Lookups /\ qid \in Ids \cup {0}
    /\ qstage \in {"idle", "asked", "heard"}
    /\ qanswer \in QueryAnswers
    /\ qres \in QueryResult

OrdersInit ==
    /\ Init
    /\ CacheInit
    /\ qstage = "idle" /\ qkind = "none" /\ qid = 0
    /\ qanswer = "none" /\ qres = NoQuery

-----------------------------------------------------------------------------
\* signed_get or signed_delete is called with the client order id of an order
\* that has been dispatched.
AskVenue(kind, i) ==
    /\ qstage = "idle" /\ i <= order
    /\ qstage' = "asked" /\ qkind' = kind /\ qid' = i
    /\ UNCHANGED <<vars, cacheVars, qanswer, qres>>

\* A market order never rests: the venue finds it when it was filled or has
\* expired, and has nothing to cancel.
OnBook(i) == bord[i] \in {"filled", "expired"}

VenueLooks ==
    /\ qstage = "asked" /\ qanswer = "none"
    /\ qanswer' \in {"lost", "error_200"} \cup
                    (IF qkind = "status" /\ OnBook(qid) THEN {"found"}
                                                        ELSE {"error_4xx"})
    /\ UNCHANGED <<vars, cacheVars, qstage, qkind, qid, qres>>

FAULTY_Looked(a) ==                    \* a lost answer means the order is there
    [submitted |-> a \in {"found", "lost"},
     code |-> IF a = "error_200" THEN "venue" ELSE "none"]

\* Every status but 200 is no body, and no body is an OrderResult that is
\* not submitted and has no error_code: -2013 looks like a lost answer.
Looked(a) ==
    [submitted |-> a = "found",
     code |-> IF a = "error_200" THEN "venue" ELSE "none"]

HearLookup ==
    /\ qanswer # "none"
    /\ qstage' = "heard"
    /\ qanswer' = "none"
    /\ qres' = Looked(qanswer)
    /\ UNCHANGED <<vars, cacheVars, qkind, qid>>

EndLookup ==
    /\ qstage = "heard"
    /\ qstage' = "idle" /\ qkind' = "none" /\ qid' = 0 /\ qres' = NoQuery
    /\ UNCHANGED <<vars, cacheVars, qanswer>>

Lookup ==
    \/ \E kind \in {"status", "cancel"}, i \in Ids : AskVenue(kind, i)
    \/ VenueLooks \/ HearLookup \/ EndLookup

-----------------------------------------------------------------------------
\* place_market_order asks for the filters, and goes on when it has them.
LegAsksInfo ==
    /\ bstage = "exchange_info"
    /\ AskInfo(FALSE)
    /\ UNCHANGED <<vars, queryVars>>

LegTakesInfo ==
    /\ estage = "served"
    /\ FetchExchangeInfo(bjob.market \in held)
    /\ LeaveCache
    /\ UNCHANGED queryVars

\* A command asks for the filters before any order, or forces a refresh.
CommandAsksInfo(force) ==
    /\ bstage = "idle"
    /\ AskInfo(force)
    /\ UNCHANGED <<vars, queryVars>>

CommandTakesInfo ==
    /\ bstage = "idle" /\ estage = "served"
    /\ LeaveCache
    /\ UNCHANGED <<vars, queryVars>>

CacheMoves == CacheStep /\ UNCHANGED <<vars, queryVars>>

StartOrder ==
    /\ estage = "away"
    /\ order + 1 \in Ids /\ order' = order + 1
    /\ \E m \in Markets, s \in Sides, u \in Notionals : Start(m, s, u)
    /\ UNCHANGED <<cacheVars, queryVars>>

LegMoves ==
    /\ FetchMark \/ CheckPositionMode \/ Post \/ ReadAnswer
    /\ UNCHANGED <<cacheVars, queryVars>>

\* The leg is done, or was cancelled at whichever await it stood.
LegLeaves ==
    /\ bstage # "idle"
    /\ Leave /\ UNCHANGED order
    /\ LeaveCache
    /\ UNCHANGED queryVars

OrdersNext ==
    \/ StartOrder \/ LegMoves \/ LegAsksInfo \/ LegTakesInfo \/ LegLeaves
    \/ \E force \in BOOLEAN : CommandAsksInfo(force)
    \/ CommandTakesInfo
    \/ CacheMoves
    \/ Lookup

OrdersSpec == OrdersInit /\ [][OrdersNext]_ordersVars

-----------------------------------------------------------------------------
\* A lookup that says an order was submitted is right, however the lookup,
\* the order and their answers overtake one another, and a cancel never claims
\* to have undone an order that can only have been filled.
LookupTruthful ==
    qstage = "heard" /\ qres.submitted => qkind = "status" /\ OnBook(qid)
=============================================================================
