---------------------------- MODULE MCPilotGuard ----------------------------
(* PilotGuard on a small instance: one market in two spellings,             *)
(* notionals on both sides of the cap and NaN, two ticks to a day.          *)
EXTENDS PilotGuard

MCRawMarkets == {"sol", " sol"}
MCStrip == [m \in MCRawMarkets |-> IF m = " sol" THEN "sol" ELSE m]
MCNotionals == {[kind |-> "num", usd |-> 10], [kind |-> "num", usd |-> 11],
                [kind |-> "nan", usd |-> 0]}
MCArmedSets == {{}, {"sol"}}
MCPnlFloor == -1
MCFailingReads == Reasons
MCPnlSteps == {-2, 2}

=============================================================================
