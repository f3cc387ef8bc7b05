------------------------ MODULE MCFundingArbExecutor ------------------------
(* FundingArbExecutor on small instances.                                   *)
EXTENDS FundingArbExecutor

MCRawMarkets == {"sol", "arb", " sol"}
MCStrip == [m \in MCRawMarkets |-> IF m = " sol" THEN "sol" ELSE m]
MCGmxMarkets == {"sol", "arb"}
MCSymbols == {"sol"}

Num(u) == [kind |-> "num", usd |-> u]
Signal3(m, d, x) == [market |-> m, direction |-> d, notional |-> x]

\* Every way a signal can go, for runs of one signal.
AllSignals ==
    {Signal3("sol", d, Num(10)) : d \in {Long, Short, "other"}} \cup
    {Signal3(m, Long, Num(10)) : m \in {"arb", " sol"}} \cup
    {Signal3("sol", Long, x) : x \in {Num(11), Num(-1), [kind |-> "nan", usd |-> 0],
                                      [kind |-> "unreadable", usd |-> 0]}}

\* The two that reach both venues, for runs of two signals.
GoodSignals == {Signal3("sol", d, Num(10)) : d \in {Long, Short}}

Started(dry, gmx, bin, key) ==
    [armed |-> {"sol", "arb"}, dry_run |-> dry, live_gmx |-> gmx,
     live_binance |-> bin, has_key |-> key]

\* Every choice of the live flags, dry runs, no key, nothing armed.
AllSettings ==
    {Started(FALSE, g, b, TRUE) : g, b \in BOOLEAN} \cup
    {Started(TRUE, TRUE, TRUE, TRUE), Started(FALSE, TRUE, TRUE, FALSE),
     [Started(FALSE, TRUE, TRUE, TRUE) EXCEPT !.armed = {}]}

LiveSettings == {Started(FALSE, TRUE, TRUE, TRUE)}

OneSignal == {Signal3("sol", Long, Num(10))}

MCMarkPrices == {0}

EveryRead == {"killswitch", "daily_pnl", "gmx_full", "binance_full", "cooldown",
              "positions"}
CooldownReads == {"cooldown", "binance_full", "positions"}
NoRead == {}

EveryMove == {"killswitch", "keeper", "close"}
NoMove == {}
KeeperMoves == {"keeper"}

=============================================================================
