---------------------------- MODULE MCBinanceLeg ----------------------------
(* Two orders of the Binance leg under every setting of the gates: a market *)
(* with a symbol and one without, notionals that round down to below the    *)
(* exchange minimum, lots of three dollars, a mark price that may be absent;*)
(* beside it a cache whose map lives one tick behind calls of one tick, a   *)
(* wall clock that goes back once, and lookups of either order.             *)
EXTENDS BinanceOrders

MCIds == 1..2
MCMarkets == {"sol", "arb"}
MCSymbols == {"sol"}
MCMarkPrices == {0, 3}
MCNotionals == {0, 7, 10}

=============================================================================
