---------------------------- MODULE MCComponents ----------------------------
(* Four components that share no state, checked one at a time: `part` says  *)
(* which, and the others stay where they start.                             *)
(*   leg       two dispatches of the GMX leg under every setting of the     *)
(*             gates;                                                       *)
(*   reader    reads of a market that changes twice: its sign and size      *)
(*             turn, it has a single token, is disabled, delisted or        *)
(*             unmapped, or the Reader moves;                               *)
(*   pipeline  two sweeps of two markets, one lost connection, any number   *)
(*             of restarts;                                                 *)
(*   cli       two known markets and one unknown; every list of up to three *)
(*             positions an account can come to hold, read one position at  *)
(*             a time, against every order; every tick of the watchdog and  *)
(*             every smoke test in which the world changes at most twice.   *)
EXTENDS GmxLeg, GmxReader, SignalPipeline, OperatorCli

MCIds == 1..2

Open == [status |-> "open", moved |-> FALSE, mapped |-> TRUE,
         one_token |-> FALSE, longs_pay |-> TRUE, factor |-> 1,
         oi |-> [l \in BOOLEAN |-> [t \in Tokens |-> IF l THEN 2 ELSE 1]]]

MCWorlds ==
    {Open,
     [Open EXCEPT !.longs_pay = FALSE, !.oi[TRUE]["short"] = 5],
     [Open EXCEPT !.one_token = TRUE, !.factor = 2],
     [Open EXCEPT !.status = "disabled", !.mapped = FALSE],
     [Open EXCEPT !.status = "delisted"],
     [Open EXCEPT !.moved = TRUE]}

MCMarketList == <<"btc", "sol">>
MCRates == {-1, 0, 1}

MCAliases == {"sol", "eth", "pepe"}
MCAddresses == {"0xsol", "0xeth", "0xother"}
MCMarketAddress == [a \in {"sol", "eth"} |-> IF a = "sol" THEN "0xsol" ELSE "0xeth"]
MCCollaterals == {"usdc", "weth"}

VARIABLE part
partVars == <<part, vars, readerVars, pipelineVars, cliVars>>

OfLeg(A) ==
    part = "leg" /\ A /\ UNCHANGED <<part, readerVars, pipelineVars, cliVars>>
OfReader(A) ==
    part = "reader" /\ A /\ UNCHANGED <<part, vars, pipelineVars, cliVars>>
OfPipeline(A) ==
    part = "pipeline" /\ A /\ UNCHANGED <<part, vars, readerVars, cliVars>>
OfCli(A) ==
    part = "cli" /\ A /\ UNCHANGED <<part, vars, readerVars, pipelineVars>>

PartInit ==
    /\ Init /\ ReaderInit /\ PipelineInit /\ CliInit
    /\ part \in {"leg", "reader", "pipeline", "cli"}
    /\ part # "leg" => ~dryRun /\ ~liveGmx /\ ~hasKey
    /\ part # "reader" => world = Open
    /\ part # "pipeline" => cexMode = "mock" /\ ~consumerOn

PartNext ==
    \/ OfLeg(Next) \/ OfReader(ReaderNext)
    \/ OfPipeline(PipelineNext) \/ OfCli(CliNext)

\* The fairness of the pipeline; nothing is asked of the others.
PartSpec ==
    /\ PartInit /\ [][PartNext]_partVars
    /\ WF_partVars(OfPipeline(Emit)) /\ WF_partVars(OfPipeline(Shutdown))
=============================================================================
