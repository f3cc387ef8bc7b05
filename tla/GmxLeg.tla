------------------------------- MODULE GmxLeg -------------------------------
(***************************************************************************)
(* The GMX leg of one signal: gmx_signer.sign_order, then submit_signed.   *)
(* Every RPC is an await of its own and may fail (transport error, bad     *)
(* status, bad JSON: _eth_call returns {} for all of them).  A raw         *)
(* transaction whose answer is lost may still have reached the sequencer,  *)
(* so sending and hearing the answer are two steps.                        *)
(*                                                                         *)
(* gtx follows each transaction on chain: once mined, it has created an    *)
(* order that GMX's keepers execute or cancel later.                       *)
(***************************************************************************)
EXTENDS Naturals

CONSTANT Ids     \* signal numbers: each is dispatched at most once

ASSUME IdsAssumption == Ids \subseteq Nat

VARIABLES
    dryRun,      \* funding_arb_executor_dry_run
    liveGmx,     \* live_gmx_enabled
    hasKey,      \* the executor key was found when first looked for
    order,       \* the signal being dispatched
    gstage,      \* the await the leg stands at
    grefusal,    \* why submit_signed refused and only simulates
    gres,        \* the SendResult
    gtx          \* what the chain has made of each signal's transaction

gsettings == <<dryRun, liveGmx, hasKey>>
glegVars  == <<gstage, grefusal, gres>>
vars      == <<gsettings, order, glegVars, gtx>>

Stages   == {"idle", "nonce", "gas_price", "simulate", "send", "ack",
             "receipt", "done"}
TxStates == {"none", "mempool", "dropped", "reverted", "mined", "executed",
             "cancelled"}
Errors   == {"none", "live_off", "mismatch", "send_failed"}

\* returned = FALSE: the leg has not returned, or it raised and gather made
\* None of it.
SendResult == [returned : BOOLEAN, submitted : BOOLEAN,
               sim : {"none", "ok", "acceptable", "failed"},
               status : {"none", "success", "revert"}, error : Errors]

NoSend == [returned |-> FALSE, submitted |-> FALSE, sim |-> "none",
           status |-> "none", error |-> "none"]

Simulated(s, e) == [NoSend EXCEPT !.returned = TRUE, !.sim = s, !.error = e]
SendFailed      == [NoSend EXCEPT !.returned = TRUE, !.error = "send_failed"]
Submitted(st)   == [NoSend EXCEPT !.returned = TRUE, !.submitted = TRUE,
                                  !.status = st]

OnChain(t) == t \in {"reverted", "mined", "executed", "cancelled"}

TypeOK ==
    /\ dryRun \in BOOLEAN /\ liveGmx \in BOOLEAN /\ hasKey \in BOOLEAN
    /\ gstage \in Stages
    /\ grefusal \in Errors
    /\ gres \in SendResult
    /\ gtx \in [Ids -> TxStates]

LegInit ==
    /\ gstage = "idle"
    /\ grefusal = "none"
    /\ gres = NoSend
    /\ gtx = [i \in Ids |-> "none"]

Init ==
    /\ dryRun \in BOOLEAN /\ liveGmx \in BOOLEAN /\ hasKey \in BOOLEAN
    /\ order = 0
    /\ LegInit

-----------------------------------------------------------------------------
Finish(r) ==
    /\ gstage' = "done"
    /\ gres' = r
    /\ grefusal' = "none"

Proceed(next) ==
    /\ gstage' = next
    /\ UNCHANGED <<gres, grefusal>>

\* sign_order without a key raises.
Start ==
    /\ gstage = "idle"
    /\ IF hasKey THEN Proceed("nonce") ELSE Finish(NoSend)
    /\ UNCHANGED <<gsettings, gtx>>

FetchNonce ==
    /\ gstage = "nonce"
    /\ Proceed("gas_price") \/ Finish(NoSend)
    /\ UNCHANGED <<gsettings, order, gtx>>

\* The gates of submit_signed, in its order; "none" is all clear.
FAULTY_Refusal(ours) ==              \* dry_run alone decides, live flag ignored
    IF ~ours THEN "mismatch" ELSE "none"

Refusal(ours) ==
    IF ~liveGmx THEN "live_off" ELSE IF ~ours THEN "mismatch" ELSE "none"

\* With the gas price the transaction is built, unless the intent does not
\* validate, and signed; submit_signed takes its gates without an await.
FetchGasPrice(valid, ours) ==
    /\ gstage = "gas_price"
    /\ \/ Finish(NoSend)
       \/ /\ valid
          /\ gres' = gres
          /\ IF dryRun
               THEN gstage' = "simulate" /\ grefusal' = "none"
             ELSE IF Refusal(ours) # "none"
               THEN gstage' = "simulate" /\ grefusal' = Refusal(ours)
             ELSE gstage' = "send" /\ grefusal' = "none"
    /\ UNCHANGED <<gsettings, order, gtx>>

\* What eth_call may come back with: no usable body, a result, or an error
\* whose revert data name a bucket of gmx_errors, or are an Error(string) on
\* allowance or balance, or on anything else, or name nothing it knows.
Buckets    == {"slippage", "market", "position", "fee", "pool", "misc"}
SimAnswers == {"nothing", "result", "erc20", "string", "unknown"} \cup Buckets

\* classify_revert_payload: a revert only an unfunded account gets.
KnownAcceptable(a) == a \in {"fee", "position", "erc20"}

Classified(a) ==
    CASE a = "result"        -> "ok"
      [] KnownAcceptable(a)  -> "acceptable"
      [] OTHER               -> "failed"

Simulate ==
    /\ gstage = "simulate"
    /\ \E a \in SimAnswers : Finish(Simulated(Classified(a), grefusal))
    /\ UNCHANGED <<gsettings, order, gtx>>

\* eth_sendRawTransaction reaches the sequencer and is accepted, or not.
Send ==
    /\ gstage = "send"
    /\ Proceed("ack")
    /\ gtx' \in {gtx, [gtx EXCEPT ![order] = "mempool"]}
    /\ UNCHANGED <<gsettings, order>>

FAULTY_HearSend ==                     \* a lost answer is taken for a success
    /\ gstage = "ack"
    /\ Proceed("receipt")
    /\ UNCHANGED <<gsettings, order, gtx>>

\* Its answer comes back with the hash, or an RPC error, or not at all.
HearSend ==
    /\ gstage = "ack"
    /\ \/ gtx[order] # "none" /\ Proceed("receipt")
       \/ Finish(SendFailed)
    /\ UNCHANGED <<gsettings, order, gtx>>

FAULTY_PollReceipt ==                \* the raw receipt leaks into the result
    /\ gstage = "receipt"
    /\ Finish(Submitted(gtx[order]))
    /\ UNCHANGED <<gsettings, order, gtx>>

\* One poll for the receipt; without one the status stays None.
PollReceipt ==
    /\ gstage = "receipt"
    /\ \/ Finish(Submitted("none"))
       \/ OnChain(gtx[order])
          /\ Finish(Submitted(IF gtx[order] = "reverted" THEN "revert"
                                                         ELSE "success"))
    /\ UNCHANGED <<gsettings, order, gtx>>

LegStep(valid, ours) ==
    \/ FetchNonce \/ FetchGasPrice(valid, ours) \/ Simulate \/ Send
    \/ HearSend \/ PollReceipt

\* The leg's result has been taken, or its task was cancelled.
Leave ==
    /\ gstage' = "idle"
    /\ grefusal' = "none"
    /\ gres' = NoSend
    /\ UNCHANGED <<gsettings, gtx>>

-----------------------------------------------------------------------------
\* Arbitrum drops, reverts or executes the createOrder transaction.
Chain(i) ==
    /\ gtx[i] = "mempool"
    /\ \E t \in {"dropped", "reverted", "mined"} : gtx' = [gtx EXCEPT ![i] = t]
    /\ UNCHANGED <<gsettings, glegVars>>

\* A keeper executes or cancels the order the transaction created.
Keeper(i, t) ==
    /\ gtx[i] = "mined"
    /\ t \in {"executed", "cancelled"}
    /\ gtx' = [gtx EXCEPT ![i] = t]
    /\ UNCHANGED <<gsettings, glegVars>>

Next ==
    \/ Start /\ order + 1 \in Ids /\ order' = order + 1
    \/ \E valid, ours \in BOOLEAN : LegStep(valid, ours)
    \/ gstage = "done" /\ Leave /\ UNCHANGED order
    \/ \E i \in Ids : Chain(i) /\ UNCHANGED order
    \/ \E i \in Ids, t \in TxStates : Keeper(i, t) /\ UNCHANGED order

Spec == Init /\ [][Next]_vars

-----------------------------------------------------------------------------
\* The gate matrix of submit_signed: whatever is on its way to the chain was
\* sent with the live flag on, dry_run off and a key loaded.
BroadcastGated ==
    (\E i \in Ids : gtx[i] # "none") => ~dryRun /\ liveGmx /\ hasKey

\* What a SendResult claims is so: a hash means the chain has the
\* transaction, and a status is the one the transaction got.  Nothing is
\* claimed of a transaction whose answer was lost.
ResultTruthful ==
    gstage = "done" =>
        /\ gres.submitted => gtx[order] # "none"
        /\ gres.status = "revert" => gtx[order] = "reverted"
        /\ gres.status = "success" => gtx[order] \in {"mined", "executed", "cancelled"}
        /\ gres.sim # "none" => gtx[order] = "none"
=============================================================================
