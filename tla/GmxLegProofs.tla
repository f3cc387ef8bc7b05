---------------------------- MODULE GmxLegProofs ----------------------------
(***************************************************************************)
(* The gate matrix of submit_signed and the truth of its SendResult, for   *)
(* any number of orders.                                                   *)
(*                                                                         *)
(* Neither property is inductive: BroadcastGated needs what having passed  *)
(* the gates means for the stages behind them, ResultTruthful needs that   *)
(* no transaction of an order exists before the leg sends it.              *)
(***************************************************************************)
EXTENDS GmxLeg, TLAPS

Sending == {"send", "ack", "receipt"}
Unsent  == {"nonce", "gas_price", "simulate", "send"}

GmxInv ==
    /\ TypeOK
    /\ order \in Nat
    /\ gstage # "idle" => order \in Ids
    /\ gstage \in Unsent => hasKey
    /\ gstage \in Sending => ~dryRun /\ liveGmx /\ hasKey
    /\ \A i \in Ids : i > order => gtx[i] = "none"
    /\ gstage \in Unsent => gtx[order] = "none"
    /\ gstage = "receipt" => gtx[order] # "none"
    /\ BroadcastGated
    /\ ResultTruthful

-----------------------------------------------------------------------------
LEMMA InitGmxInv == Init => GmxInv
  BY IdsAssumption
  DEF Init, LegInit, GmxInv, TypeOK, BroadcastGated, ResultTruthful, Stages,
      TxStates, SendResult, NoSend, Errors, Unsent, Sending

\* A result that says nothing claims nothing.
LEMMA NoSendFacts ==
    /\ NoSend \in SendResult
    /\ ~NoSend.submitted /\ NoSend.status = "none" /\ NoSend.sim = "none"
  BY DEF NoSend, SendResult, Errors

LEMMA GmxInvStep == GmxInv /\ [Next]_vars => GmxInv'
<1> SUFFICES ASSUME GmxInv, [Next]_vars PROVE GmxInv'
  OBVIOUS
<1> USE IdsAssumption
    DEF GmxInv, TypeOK, Stages, TxStates, Unsent, Sending, gsettings, glegVars,
        Finish, Proceed, BroadcastGated, ResultTruthful
<1>1. CASE UNCHANGED vars
  BY <1>1 DEF vars
<1>2. CASE Start /\ order + 1 \in Ids /\ order' = order + 1
  BY <1>2, NoSendFacts DEF Start, Errors
<1>3. CASE FetchNonce
  BY <1>3, NoSendFacts DEF FetchNonce, Errors
<1>4. ASSUME NEW valid \in BOOLEAN, NEW ours \in BOOLEAN,
             FetchGasPrice(valid, ours)
      PROVE  GmxInv'
  BY <1>4, NoSendFacts DEF FetchGasPrice, Refusal, Errors
<1>5. CASE Simulate
  BY <1>5 DEF Simulate, Classified, Simulated, NoSend, SendResult, Errors
<1>6. CASE Send
  BY <1>6 DEF Send
<1>7. CASE HearSend
  BY <1>7 DEF HearSend, SendFailed, NoSend, SendResult, Errors
<1>8. CASE PollReceipt
  BY <1>8 DEF PollReceipt, Submitted, OnChain, NoSend, SendResult, Errors
<1>9. CASE gstage = "done" /\ Leave /\ UNCHANGED order
  BY <1>9, NoSendFacts DEF Leave, Errors
<1>10. ASSUME NEW i \in Ids, Chain(i), UNCHANGED order PROVE GmxInv'
  BY <1>10 DEF Chain
<1>11. ASSUME NEW i \in Ids, NEW t \in TxStates, Keeper(i, t), UNCHANGED order
       PROVE  GmxInv'
  BY <1>11 DEF Keeper
<1> QED
  BY <1>1, <1>2, <1>3, <1>4, <1>5, <1>6, <1>7, <1>8, <1>9, <1>10, <1>11
  DEF Next, LegStep

LEMMA GmxInvariance == Spec => []GmxInv
  BY InitGmxInv, GmxInvStep, PTL DEF Spec

-----------------------------------------------------------------------------
\* The leg, its result and the transactions keep their types, for any number of
\* orders: no stage of one await leaks into the next.
THEOREM LegTypeCorrect == Spec => []TypeOK
<1>1. GmxInv => TypeOK
  BY DEF GmxInv
<1> QED
  BY <1>1, GmxInvariance, PTL

\* Nothing of this program reaches the chain unless the live flag is on,
\* dry_run off and a key loaded, whatever order the RPCs fail in.
THEOREM BroadcastsAreGated == Spec => []BroadcastGated
<1>1. GmxInv => BroadcastGated
  BY DEF GmxInv
<1> QED
  BY <1>1, GmxInvariance, PTL

\* A SendResult never claims a transaction, a status or a simulation that the
\* chain contradicts.
THEOREM ResultsAreTruthful == Spec => []ResultTruthful
<1>1. GmxInv => ResultTruthful
  BY DEF GmxInv
<1> QED
  BY <1>1, GmxInvariance, PTL
=============================================================================
