---------------------- MODULE FundingArbExecutorProofs ----------------------
(***************************************************************************)
(* The executor, for any number of signals, any markets and settings, and  *)
(* whichever reads, writes, answers and processes fail.                    *)
(*                                                                         *)
(* Each part adds to the invariant of the parts before it:                 *)
(*   - TrailInv, the signal in hand and the stream: AuditComplete;         *)
(*   - SentInv, where each signal's orders stand: RecordsTell, and that    *)
(*     the executor implements GatedDispatch;                              *)
(*   - ClientInv, types, and the check running while a signal is in hand:  *)
(*     UsesGuard and TypeOK;                                               *)
(*   - LadderInv, what lies behind a verdict: LadderHolds;                 *)
(*   - LossInv, the loss that is owed: LossCoolsDown.                      *)
(* The first two leave open what the guard decides.                        *)
(*                                                                         *)
(* Then liveness: Work, the awaits still ahead of the task, only shrinks,  *)
(* and what the task waits for is always there (TaskReady).                *)
(*                                                                         *)
(* Then what the guard and the legs promise by themselves, here, where a   *)
(* restart may change the settings: LegTruth.                              *)
(*                                                                         *)
(* Last, what reconciliation lets through and what becomes of an order,    *)
(* and with these, for each documented claim that the code does not keep,  *)
(* the only ways in which it fails.                                        *)
(***************************************************************************)
EXTENDS FundingArbExecutor, FiniteSetTheorems, TLAPS

\* Where the loop stands between two signals is told by the place's name alone.
USE DEF Looping

InHand  == {"guard", "positions", "legs", "record"}
Settled == Looping \cup {"loss", "return", "down"}

\* The consumer's place, its record and the stream fit together: a signal in
\* hand is not lost, and the stream tells of nothing but signals taken.
PlaceInv ==
    /\ n \in 0..MaxSignals
    /\ pc \in InHand \cup Settled
    /\ n = 0 => pc \in Looping \cup {"down"}
    /\ lost \subseteq 1..n
    /\ pc \in InHand => n \notin lost
    /\ pc = "raised" => n \in lost
    /\ pc = "record" => rec \in Record /\ rec.id = n
    /\ executions \in Seq(Record)

\* A signal that is done with and not lost has an entry, no other has one,
\* and no two entries are about one signal.
OneEntryEach ==
    /\ \A i \in Ids : (Handled(i) /\ i \notin lost) <=>
                      (\E k \in DOMAIN executions : executions[k].id = i)
    /\ \A k, l \in DOMAIN executions :
          executions[k].id = executions[l].id => k = l

TrailInv == PlaceInv /\ OneEntryEach

trailVars == <<pc, n, rec, executions, lost>>

LEMMA IdsOfRecords == \A r \in Record : r.id \in Ids
  BY DEF Record

LEMMA RefusedIsRecord ==
  ASSUME n \in Ids, NEW o \in Outcomes
  PROVE  Refused(o) \in Record /\ Refused(o).id = n
  BY DEF Refused, Record

LEMMA TrailInit == Init => TrailInv
  BY ExecutorAssumption
  DEF Init, TrailInv, PlaceInv, OneEntryEach, InHand, Settled, Handled, Ids

LEMMA TrailKept == TrailInv /\ UNCHANGED trailVars => TrailInv'
  BY DEF TrailInv, PlaceInv, OneEntryEach, Handled, trailVars

\* A step of the consumer from one place to another that writes nothing and
\* loses nothing.
LEMMA TrailMoves ==
  ASSUME TrailInv, pc' \in InHand \cup Settled, n' = n,
         executions' = executions, lost' = lost,
         pc \in InHand <=> pc' \in InHand,
         pc' \in InHand \cup {"loss", "return"} => n # 0,
         pc' = "raised" => n \in lost,
         pc' = "record" => rec' \in Record /\ rec'.id = n
  PROVE  TrailInv'
<1>1. PlaceInv'
  BY DEF TrailInv, PlaceInv, InHand, Settled
<1>2. \A i \in Ids : Handled(i)' <=> Handled(i)
  BY DEF TrailInv, PlaceInv, Handled, InHand, Settled
<1>3. OneEntryEach'
  BY <1>2 DEF TrailInv, OneEntryEach
<1> QED BY <1>1, <1>3 DEF TrailInv

LEMMA TakeSignalTrail ==
  ASSUME NEW s, TrailInv, TakeSignal(s)
  PROVE  TrailInv'
<1>1. /\ pc = "listen" /\ n \in 0..MaxSignals /\ n < MaxSignals /\ n' = n + 1
      /\ rec' = rec /\ executions' = executions
      /\ \/ pc' = "raised" /\ lost' = lost \cup {n + 1}
         \/ pc' = "guard" /\ lost' = lost
  BY DEF TakeSignal, TrailInv, PlaceInv
<1>2. MaxSignals \in Nat
  BY ExecutorAssumption
<1>3. PlaceInv'
  <2>1. n' \in 0..MaxSignals /\ n' # 0
    BY <1>1, <1>2
  <2>2. lost \subseteq 1..n /\ executions \in Seq(Record)
    BY DEF TrailInv, PlaceInv
  <2>3. CASE pc' = "raised" /\ lost' = lost \cup {n + 1}
    <3>1. lost' \subseteq 1..n' /\ n' \in lost'
      BY <1>1, <1>2, <2>2, <2>3
    <3> QED BY <1>1, <2>1, <2>2, <2>3, <3>1 DEF PlaceInv, InHand, Settled
  <2>4. CASE pc' = "guard" /\ lost' = lost
    <3>1. lost' \subseteq 1..n' /\ n' \notin lost'
      BY <1>1, <1>2, <2>2, <2>4
    <3> QED BY <1>1, <2>1, <2>2, <2>4, <3>1 DEF PlaceInv, InHand, Settled
  <2> QED BY <1>1, <2>3, <2>4
<1>4. \A i \in Ids : (Handled(i) /\ i \notin lost)' <=> (Handled(i) /\ i \notin lost)
  BY <1>1, <1>2 DEF TrailInv, PlaceInv, Handled, Ids
<1>5. OneEntryEach'
  BY <1>1, <1>4 DEF TrailInv, OneEntryEach
<1> QED BY <1>3, <1>5 DEF TrailInv

LEMMA XaddTrail == TrailInv /\ Xadd => TrailInv'
<1> SUFFICES ASSUME TrailInv, Xadd PROVE TrailInv'
  OBVIOUS
<1>1. /\ pc = "record" /\ n' = n /\ n \in Ids /\ n \notin lost
      /\ rec \in Record /\ rec.id = n /\ executions \in Seq(Record)
      /\ pc' \in {"loss", "return"}
  BY ExecutorAssumption DEF Xadd, TrailInv, PlaceInv, InHand, Ids
<1>2. \A i \in Ids : Handled(i) <=> i < n
  BY <1>1 DEF Handled, Ids
<1>3. \A i \in Ids : Handled(i)' <=> (i < n \/ i = n)
  BY <1>1 DEF Handled
<1>4. CASE executions' = Append(executions, rec) /\ lost' = lost
  <2>1. /\ executions' \in Seq(Record)
        /\ DOMAIN executions = 1..Len(executions) /\ Len(executions) \in Nat
        /\ DOMAIN executions' = 1..(Len(executions) + 1)
        /\ \A k \in DOMAIN executions : executions'[k] = executions[k]
        /\ executions'[Len(executions) + 1] = rec
    BY <1>1, <1>4
  <2>2. PlaceInv'
    BY <1>1, <1>4, <2>1 DEF TrailInv, PlaceInv, InHand, Settled
  <2>3. \A k \in DOMAIN executions : executions[k].id # n
    BY <1>1, <1>2 DEF TrailInv, OneEntryEach, Ids
  <2>4. \A k \in DOMAIN executions' :
            \/ k \in DOMAIN executions
            \/ k = Len(executions) + 1 /\ executions'[k].id = n
    BY <1>1, <2>1
  <2>5. \A i \in Ids : (Handled(i) /\ i \notin lost)' <=>
                       (\E k \in DOMAIN executions' : executions'[k].id = i)
    <3> SUFFICES ASSUME NEW i \in Ids
                 PROVE  ((i < n \/ i = n) /\ i \notin lost) <=>
                        (\E k \in DOMAIN executions' : executions'[k].id = i)
      BY <1>3, <1>4
    <3>1. CASE i = n
      BY <1>1, <2>1, <3>1
    <3>2. CASE i # n
      <4>1. (\E k \in DOMAIN executions' : executions'[k].id = i) <=>
            (\E k \in DOMAIN executions : executions[k].id = i)
        BY <2>1, <2>4, <3>2
      <4> QED BY <1>2, <3>2, <4>1 DEF TrailInv, OneEntryEach
    <3> QED BY <3>1, <3>2
  <2>6. \A k, l \in DOMAIN executions' :
            executions'[k].id = executions'[l].id => k = l
    BY <2>1, <2>3, <2>4 DEF TrailInv, OneEntryEach
  <2> QED BY <2>2, <2>5, <2>6 DEF TrailInv, OneEntryEach
<1>5. CASE lost' = lost \cup {n} /\ executions' = executions
  <2>1. PlaceInv'
    BY <1>1, <1>5 DEF TrailInv, PlaceInv, InHand, Settled, Ids
  <2>2. \A i \in Ids : (Handled(i) /\ i \notin lost)' <=>
                       (Handled(i) /\ i \notin lost)
    BY <1>1, <1>2, <1>3, <1>5 DEF Ids
  <2> QED BY <1>5, <2>1, <2>2 DEF TrailInv, OneEntryEach
<1> QED BY <1>4, <1>5 DEF Xadd

LEMMA CrashTrail == TrailInv /\ Crash => TrailInv'
<1> SUFFICES ASSUME TrailInv, Crash PROVE TrailInv'
  OBVIOUS
<1>1. /\ pc' = "down" /\ n' = n /\ executions' = executions
      /\ lost' = IF pc \in InHand THEN lost \cup {n} ELSE lost
  BY DEF Crash, InHand
<1>2. PlaceInv'
  BY <1>1 DEF TrailInv, PlaceInv, InHand, Settled
<1>3. \A i \in Ids : (Handled(i) /\ i \notin lost)' <=> (Handled(i) /\ i \notin lost)
  BY <1>1 DEF TrailInv, PlaceInv, Handled, InHand, Settled, Ids
<1> QED BY <1>1, <1>2, <1>3 DEF TrailInv, OneEntryEach

LEMMA TaskTrail == TrailInv /\ TaskStep => TrailInv'
<1> SUFFICES ASSUME TrailInv, TaskStep PROVE TrailInv'
  OBVIOUS
<1> USE DEF InHand, Settled
<1>0. pc \in InHand => n \in Ids
  BY ExecutorAssumption DEF TrailInv, PlaceInv, Ids
<1>1. CASE GuardStep
  BY <1>1, TrailKept DEF GuardStep, selfVars, trailVars
<1>2. CASE TakeVerdict
  <2>1. /\ pc = "guard" /\ n' = n /\ executions' = executions /\ lost' = lost
        /\ \/ pc' = "positions"
           \/ \E o \in Outcomes : pc' = "record" /\ rec' = Refused(o)
    BY <1>2 DEF TakeVerdict, WriteRecord, Objection, Outcomes
  <2>2. pc' = "record" => rec' \in Record /\ rec'.id = n
    BY <1>0, <2>1, RefusedIsRecord
  <2> QED BY <2>1, <2>2, <1>0, TrailMoves DEF TrailInv, PlaceInv
<1>3. CASE FetchAndReconcile
  <2>1. /\ pc = "positions" /\ n' = n /\ executions' = executions /\ lost' = lost
        /\ \/ pc' = "legs"
           \/ \E o \in Outcomes : pc' = "record" /\ rec' = Refused(o)
    BY <1>3 DEF FetchAndReconcile, WriteRecord, Outcomes
  <2>2. pc' = "record" => rec' \in Record /\ rec'.id = n
    BY <1>0, <2>1, RefusedIsRecord
  <2> QED BY <2>1, <2>2, <1>0, TrailMoves DEF TrailInv, PlaceInv
<1>4. CASE LegStep
  BY <1>4, TrailKept DEF LegStep, selfVars, trailVars
<1>5. CASE Gather
  <2>1. /\ pc = "legs" /\ pc' = "record" /\ n' = n
        /\ executions' = executions /\ lost' = lost
        /\ rec' = [id |-> n, outcome |-> "dispatched", success |-> IsSuccess,
                   clean |-> Clean, loss |-> GmxLoss \/ BinanceLoss]
    BY <1>5 DEF Gather, WriteRecord
  <2>2. IsSuccess \in BOOLEAN /\ Clean \in BOOLEAN
        /\ (GmxLoss \/ BinanceLoss) \in BOOLEAN
    BY DEF IsSuccess, Clean, GmxLoss, BinanceLoss
  <2>3. rec' \in Record /\ rec'.id = n
    BY <1>0, <2>1, <2>2 DEF Record, Outcomes
  <2> QED BY <2>1, <2>3, <1>0, TrailMoves DEF TrailInv, PlaceInv
<1>6. CASE Xadd
  BY <1>6, XaddTrail
<1>7. CASE RecordLoss
  <2>1. /\ pc = "loss" /\ pc' = "return" /\ n' = n
        /\ executions' = executions /\ lost' = lost
    BY <1>7 DEF RecordLoss
  <2> QED BY <2>1, TrailMoves DEF TrailInv, PlaceInv
<1>8. CASE Return
  <2>1. /\ pc = "return" /\ pc' = "listen" /\ n' = n
        /\ executions' = executions /\ lost' = lost
    BY <1>8 DEF Return
  <2> QED BY <2>1, TrailMoves DEF TrailInv, PlaceInv
<1> QED BY <1>1, <1>2, <1>3, <1>4, <1>5, <1>6, <1>7, <1>8 DEF TaskStep

LEMMA TrailNext == TrailInv /\ [Next]_vars => TrailInv'
<1> SUFFICES ASSUME TrailInv, [Next]_vars PROVE TrailInv'
  OBVIOUS
<1>1. CASE UNCHANGED vars
  BY <1>1, TrailKept DEF vars, selfVars, trailVars
<1>2. ASSUME NEW s \in Signals, TakeSignal(s) PROVE TrailInv'
  BY <1>2, TakeSignalTrail
<1>3. CASE TaskStep
  BY <1>3, TaskTrail
<1>4. CASE Crash
  BY <1>4, CrashTrail
<1>5. CASE Restart
  <2>1. /\ pc = "down" /\ pc' = "subscribe" /\ n' = n
        /\ executions' = executions /\ lost' = lost
    BY <1>5 DEF Restart
  <2> QED BY <2>1, TrailMoves DEF TrailInv, PlaceInv, InHand, Settled
<1>6. CASE OperatorFlips
  BY <1>6, TrailKept DEF OperatorFlips, selfVars, trailVars
<1>7. CASE Tick
  BY <1>7, TrailKept DEF Tick, selfVars, trailVars
<1>8. ASSUME NEW i \in Ids, Chain(i) PROVE TrailInv'
  BY <1>8, TrailKept DEF Chain, selfVars, trailVars
<1>9. ASSUME NEW i \in Ids, NEW t \in Gmx!TxStates, Keeper(i, t) PROVE TrailInv'
  BY <1>9, TrailKept DEF Keeper, selfVars, trailVars
<1>10. CASE OperatorCloses
  BY <1>10, TrailKept DEF OperatorCloses, selfVars, trailVars
<1>11. CASE Resubscribe
  <2>1. /\ pc \in Looping /\ pc' \in Looping \ {"raised"} /\ n' = n
        /\ executions' = executions /\ lost' = lost
    BY <1>11 DEF Resubscribe
  <2> QED BY <2>1, TrailMoves DEF TrailInv, PlaceInv, InHand, Settled
<1> QED
  BY <1>1, <1>2, <1>3, <1>4, <1>5, <1>6, <1>7, <1>8, <1>9, <1>10, <1>11
  DEF Next, Step

LEMMA TrailCounts == TrailInv => AuditComplete
<1> SUFFICES ASSUME TrailInv, NEW i \in Ids
             PROVE  Cardinality({k \in DOMAIN executions : executions[k].id = i})
                      = IF Handled(i) /\ i \notin lost THEN 1 ELSE 0
  BY DEF AuditComplete
<1> DEFINE entries == {k \in DOMAIN executions : executions[k].id = i}
<1>1. CASE Handled(i) /\ i \notin lost
  <2>1. PICK k \in DOMAIN executions : executions[k].id = i
    BY <1>1 DEF TrailInv, OneEntryEach
  <2>2. entries = {k}
    BY <2>1 DEF TrailInv, OneEntryEach
  <2> QED BY <1>1, <2>2, FS_Singleton
<1>2. CASE ~(Handled(i) /\ i \notin lost)
  <2>1. entries = {}
    BY <1>2 DEF TrailInv, OneEntryEach
  <2> QED BY <1>2, <2>1, FS_EmptySet
<1> QED BY <1>1, <1>2

\* Each signal that is done with has exactly one record in the stream, or none
\* if its write failed, its process died first or its message raised: for any
\* number of signals and any settings, markets and failures.
THEOREM AuditIsComplete == Spec => []AuditComplete
  BY TrailInit, TrailNext, TrailCounts, PTL DEF Spec

\* The stream keeps the order in which the signals were taken.
InOrder ==
    \A k, l \in DOMAIN executions : k < l => executions[k].id < executions[l].id

LEMMA InOrderNext == TrailInv /\ InOrder /\ [Next]_vars => InOrder'
<1> SUFFICES ASSUME TrailInv, InOrder, [Next]_vars PROVE InOrder'
  OBVIOUS
<1>1. executions \in Seq(Record)
  BY DEF TrailInv, PlaceInv
<1>2. CASE executions' = executions
  BY <1>2 DEF InOrder
<1>3. CASE Xadd /\ executions' = Append(executions, rec)
  <2>1. pc = "record" /\ n \in Ids /\ rec.id = n
    BY <1>3, ExecutorAssumption DEF Xadd, TrailInv, PlaceInv, InHand, Ids
  <2>2. \A k \in DOMAIN executions : executions[k].id \in Ids /\ executions[k].id < n
    <3> SUFFICES ASSUME NEW k \in DOMAIN executions
                 PROVE  executions[k].id \in Ids /\ executions[k].id < n
      OBVIOUS
    <3>1. executions[k].id \in Ids
      BY <1>1, IdsOfRecords
    <3>2. Handled(executions[k].id)
      BY <3>1 DEF TrailInv, OneEntryEach
    <3> QED
      BY <2>1, <3>1, <3>2 DEF Handled
  <2>3. /\ Len(executions) \in Nat /\ DOMAIN executions = 1..Len(executions)
        /\ DOMAIN executions' = 1..(Len(executions) + 1)
        /\ \A k \in DOMAIN executions : executions'[k] = executions[k]
        /\ executions'[Len(executions) + 1] = rec
    BY <1>1, <1>3, <2>1 DEF TrailInv, PlaceInv
  <2> SUFFICES ASSUME NEW k \in DOMAIN executions', NEW l \in DOMAIN executions',
                      k < l
               PROVE  executions'[k].id < executions'[l].id
    BY DEF InOrder
  <2>4. CASE l \in DOMAIN executions
    <3>1. k \in DOMAIN executions
      BY <2>3, <2>4
    <3> QED
      BY <2>3, <2>4, <3>1 DEF InOrder
  <2>5. CASE l = Len(executions) + 1
    <3>1. k \in DOMAIN executions
      BY <2>3, <2>5
    <3> QED
      BY <2>1, <2>2, <2>3, <2>5, <3>1
  <2> QED
    BY <2>3, <2>4, <2>5
<1>4. executions' = executions \/ (Xadd /\ executions' = Append(executions, rec))
  BY DEF Next, Step, TaskStep, vars, selfVars, TakeSignal, GuardStep, TakeVerdict,
         FetchAndReconcile, LegStep, Gather, Xadd, RecordLoss, Return,
         Resubscribe, Crash, Restart, OperatorFlips, Tick, Chain, Keeper,
         OperatorCloses
<1> QED
  BY <1>2, <1>3, <1>4

\* However many of the writes fail and however often the process dies between
\* them, a record written later is about a later signal
\* (funding_arb_executor.py _xadd_execution).
THEOREM AuditIsInOrder == Spec => []InOrder
<1>1. Init => InOrder
  BY DEF Init, InOrder
<1> QED
  BY <1>1, TrailInit, TrailNext, InOrderNext, PTL DEF Spec

-----------------------------------------------------------------------------
(* What a record says stays true.  TrailInv tells which signal a record is *)
(* about; SentInv adds where each signal's orders stand.                   *)

Unsent(i) == gtx[i] = "none" /\ bord[i] = "none"

\* An order that has not been sent, one that has, what each leg's result says
\* of it, and the gates that lie behind.
GmxLegSent ==
    /\ gstage \in {"nonce", "gas_price", "simulate", "send"} => gtx[n] = "none"
    /\ gstage \in {"nonce", "gas_price", "send"} => settings.has_key
    /\ gstage = "send" => ~settings.dry_run /\ settings.live_gmx
    /\ gstage = "receipt" => gtx[n] # "none"
    /\ gstage = "done" => /\ gres.submitted => gtx[n] # "none"
                          /\ gres.sim # "none" => gtx[n] = "none"

BinLegSent ==
    /\ bstage \in {"mark", "exchange_info", "position_mode", "post"} =>
          bord[n] = "none"
    /\ bstage \in {"position_mode", "post", "ack"} =>
          ~settings.dry_run /\ settings.live_binance
    /\ bstage = "ack" =>
          \/ banswer \in {"lost", "error_4xx"}
          \/ banswer \in {"fill", "expired", "error_200"} /\ bord[n] # "none"
    /\ bstage = "done" => /\ bres.submitted => bord[n] # "none"
                          /\ settings.dry_run => bord[n] = "none"

\* What the record about to be written says is so.
RecordTrue ==
    /\ rec.outcome # "dispatched" => Unsent(n)
    /\ rec.success => (gtx[n] = "none" <=> bord[n] = "none")

SentInv ==
    /\ gtx \in [Ids -> Gmx!TxStates] /\ bord \in [Ids -> Bin!Fates]
    /\ \A i \in Ids : i > n => Unsent(i)
    /\ pc \in {"guard", "positions"} => Unsent(n)
    /\ pc # "legs" => gstage = "idle" /\ bstage = "idle"
    /\ pc = "legs" => GmxLegSent /\ BinLegSent
    /\ pc = "record" => RecordTrue
    /\ RecordsTell

legVars == <<gstage, gres, bstage, banswer, bres>>

LEMMA RecordedOld ==
  ASSUME TrailInv, NEW r \in Recorded
  PROVE  r \in Record /\ r.id \in Ids /\ Handled(r.id)
<1>1. PICK k \in DOMAIN executions : r = executions[k]
  BY DEF Recorded
<1>2. r \in Record
  BY <1>1 DEF TrailInv, PlaceInv
<1>3. r.id \in Ids
  BY <1>2, IdsOfRecords
<1> QED BY <1>1, <1>2, <1>3 DEF TrailInv, OneEntryEach

LEMMA SentInit == Init => SentInv
  BY ExecutorAssumption
  DEF Init, SentInv, Gmx!LegInit, Bin!LegInit, Gmx!TxStates, Bin!Fates,
      Unsent, RecordsTell, Recorded

\* A step that sends nothing and leaves the legs and the records alone.
LEMMA SentKept ==
  ASSUME SentInv, TrailInv, UNCHANGED <<settings, pc, n, rec, executions, legVars>>,
         gtx' \in [Ids -> Gmx!TxStates], bord' \in [Ids -> Bin!Fates],
         \A i \in Ids : /\ gtx'[i] = "none" <=> gtx[i] = "none"
                        /\ bord'[i] = "none" <=> bord[i] = "none"
  PROVE  SentInv'
<1> DEFINE inHand == pc \in {"guard", "positions", "legs", "record"}
<1>1. inHand => n \in Ids
  BY ExecutorAssumption DEF TrailInv, PlaceInv, InHand, Settled, Ids
<1>2. \A i \in Ids : i > n => Unsent(i)'
  BY DEF SentInv, Unsent
<1>3. pc \in {"guard", "positions"} => Unsent(n)'
  BY <1>1 DEF SentInv, Unsent
<1>4. pc = "legs" => (GmxLegSent /\ BinLegSent)'
  <2> SUFFICES ASSUME pc = "legs" PROVE (GmxLegSent /\ BinLegSent)'
    OBVIOUS
  <2>1. n \in Ids /\ n' = n /\ UNCHANGED <<gstage, gres, bstage, banswer, bres, settings>>
    BY <1>1 DEF legVars
  <2>2. GmxLegSent'
    BY <2>1 DEF SentInv, GmxLegSent
  <2>3. BinLegSent'
    BY <2>1 DEF SentInv, BinLegSent
  <2> QED BY <2>2, <2>3
<1>5. pc = "record" => RecordTrue'
  BY <1>1 DEF SentInv, RecordTrue, Unsent
<1>6. RecordsTell'
  <2>1. Recorded' = Recorded
    BY DEF Recorded
  <2>2. GmxSent' = GmxSent /\ BinSent' = BinSent
    BY DEF GmxSent, BinSent
  <2> QED BY <2>1, <2>2 DEF SentInv, RecordsTell
<1>7. pc # "legs" => gstage' = "idle" /\ bstage' = "idle"
  BY DEF SentInv, legVars
<1> QED BY <1>2, <1>3, <1>4, <1>5, <1>6, <1>7 DEF SentInv

\* A step of the consumer outside its legs, with no order and no record.
LEMMA SentMoves ==
  ASSUME SentInv, TrailInv, n' = n, executions' = executions,
         UNCHANGED <<gtx, bord>>, pc' # "legs",
         gstage' = "idle", bstage' = "idle",
         pc' \in {"guard", "positions"} => pc \in {"guard", "positions"},
         pc' = "record" => RecordTrue'
  PROVE  SentInv'
<1>1. RecordsTell'
  BY DEF SentInv, RecordsTell, Recorded, GmxSent, BinSent
<1>2. \A i \in Ids : i > n' => Unsent(i)'
  BY DEF SentInv, Unsent
<1>3. pc' \in {"guard", "positions"} => Unsent(n)'
  BY DEF SentInv, Unsent
<1> QED BY <1>1, <1>2, <1>3 DEF SentInv

LEMMA TakeSignalSent ==
  ASSUME NEW s, TrailInv, SentInv, TakeSignal(s)
  PROVE  SentInv'
<1>1. /\ pc = "listen" /\ n \in Nat /\ n' = n + 1 /\ n' \in Ids
      /\ pc' \in {"guard", "raised"}
      /\ UNCHANGED <<gtx, bord, gstage, bstage, executions>>
  BY ExecutorAssumption
  DEF TakeSignal, TrailInv, PlaceInv, gmxVars, binVars, Ids
<1>2. RecordsTell'
  BY <1>1 DEF SentInv, RecordsTell, Recorded, GmxSent, BinSent
<1>3. \A i \in Ids : i > n' => Unsent(i)'
  BY <1>1 DEF SentInv, Unsent, Ids
<1>4. Unsent(n)'
  BY <1>1 DEF SentInv, Unsent, Ids
<1> QED BY <1>1, <1>2, <1>3, <1>4 DEF SentInv

LEMMA StartSent ==
  ASSUME TrailInv, SentInv, FetchAndReconcile
  PROVE  SentInv'
<1>1. /\ pc = "positions" /\ n' = n /\ n \in Ids
      /\ UNCHANGED <<settings, executions>>
      /\ gstage = "idle" /\ bstage = "idle" /\ Unsent(n)
  BY ExecutorAssumption
  DEF FetchAndReconcile, TrailInv, PlaceInv, InHand, SentInv, Ids
<1>2. CASE pc' = "record" /\ rec' = Refused("reconcile") /\ UNCHANGED <<gmxVars, binVars>>
  <2>1. UNCHANGED <<gtx, bord, gstage, bstage>>
    BY <1>2 DEF gmxVars, binVars
  <2>2. RecordTrue'
    BY <1>1, <1>2, <2>1 DEF RecordTrue, Refused, Unsent
  <2> QED BY <1>1, <1>2, <2>1, <2>2, SentMoves
<1>3. ASSUME pc' = "legs", rec' = rec, Gmx!Start,
             Bin!Start(sigs[n].market, BinanceSide(sigs[n].direction),
                       sigs[n].notional.usd)
      PROVE  SentInv'
  <2>1. UNCHANGED <<gtx, bord>>
    BY <1>3 DEF Gmx!Start, Bin!Start, Bin!venueVars
  <2>2. GmxLegSent'
    <3>1. \/ gstage' = "nonce" /\ settings.has_key
          \/ gstage' = "done" /\ gres' = Gmx!NoSend
      BY <1>3 DEF Gmx!Start, Gmx!Proceed, Gmx!Finish
    <3> QED BY <1>1, <2>1, <3>1 DEF GmxLegSent, Unsent, Gmx!NoSend
  <2>3. BinLegSent'
    <3>1. \/ bstage' = "mark"
          \/ bstage' = "done" /\ bres' = Bin!NoOrder
      BY <1>3 DEF Bin!Start, Bin!Proceed, Bin!Finish
    <3> QED BY <1>1, <2>1, <3>1 DEF BinLegSent, Unsent, Bin!NoOrder
  <2>4. RecordsTell'
    BY <1>1, <2>1 DEF SentInv, RecordsTell, Recorded, GmxSent, BinSent
  <2>5. \A i \in Ids : i > n' => Unsent(i)'
    BY <1>1, <2>1 DEF SentInv, Unsent
  <2> QED BY <1>3, <2>1, <2>2, <2>3, <2>4, <2>5 DEF SentInv
<1> QED BY <1>2, <1>3 DEF FetchAndReconcile, WriteRecord

\* A leg may send the order of the signal in hand: no record is about it yet.
LEMMA LegsSent ==
  ASSUME TrailInv, SentInv, pc = "legs", pc' = pc, n' = n,
         executions' = executions,
         gtx' \in [Ids -> Gmx!TxStates], bord' \in [Ids -> Bin!Fates],
         \A i \in Ids \ {n} : gtx'[i] = gtx[i] /\ bord'[i] = bord[i],
         GmxLegSent', BinLegSent'
  PROVE  SentInv'
<1>1. n \in Ids /\ n \in Nat
  BY ExecutorAssumption DEF TrailInv, PlaceInv, InHand, Ids
<1>2. \A i \in Ids : i > n' => Unsent(i)'
  BY <1>1 DEF SentInv, Unsent, Ids
<1>3. \A r \in Recorded : r.id \in Ids \ {n}
  BY <1>1, RecordedOld DEF Handled
<1>4. \A r \in Recorded : /\ r.id \in GmxSent' <=> r.id \in GmxSent
                          /\ r.id \in BinSent' <=> r.id \in BinSent
  BY <1>3 DEF GmxSent, BinSent
<1>5. RecordsTell'
  <2>1. Recorded' = Recorded
    BY DEF Recorded
  <2> QED BY <1>4, <2>1 DEF SentInv, RecordsTell
<1> QED BY <1>2, <1>5 DEF SentInv

LEMMA GmxStepSent ==
  ASSUME NEW valid, NEW ours, n \in Ids, gtx \in [Ids -> Gmx!TxStates],
         GmxLegSent, Gmx!LegStep(valid, ours), settings' = settings
  PROVE  /\ gtx' \in [Ids -> Gmx!TxStates]
         /\ \A i \in Ids \ {n} : gtx'[i] = gtx[i]
         /\ n' = n => GmxLegSent'
<1> USE DEF Gmx!Proceed, Gmx!Finish, Gmx!NoSend, GmxLegSent
<1>1. CASE Gmx!FetchNonce
  BY <1>1 DEF Gmx!FetchNonce
<1>2. CASE Gmx!FetchGasPrice(valid, ours)
  BY <1>2 DEF Gmx!FetchGasPrice, Gmx!Refusal
<1>3. CASE Gmx!Simulate
  BY <1>3 DEF Gmx!Simulate, Gmx!Simulated
<1>4. CASE Gmx!Send
  <2>1. gstage' = "ack" /\ \/ gtx' = gtx
                           \/ gtx' = [gtx EXCEPT ![n] = "mempool"]
    BY <1>4 DEF Gmx!Send
  <2> QED BY <2>1 DEF Gmx!TxStates
<1>5. CASE Gmx!HearSend
  BY <1>5 DEF Gmx!HearSend, Gmx!SendFailed
<1>6. CASE Gmx!PollReceipt
  BY <1>6 DEF Gmx!PollReceipt, Gmx!Submitted
<1> QED BY <1>1, <1>2, <1>3, <1>4, <1>5, <1>6 DEF Gmx!LegStep

LEMMA BinStepSent ==
  ASSUME n \in Ids, bord \in [Ids -> Bin!Fates], BinLegSent, Bin!LegStep,
         settings' = settings, n' = n
  PROVE  /\ bord' \in [Ids -> Bin!Fates]
         /\ \A i \in Ids \ {n} : bord'[i] = bord[i]
         /\ BinLegSent'
<1> USE DEF Bin!Proceed, Bin!Finish, Bin!venueVars, BinLegSent
<1>1. CASE Bin!FetchMark
  BY <1>1 DEF Bin!FetchMark
<1>2. ASSUME NEW served \in BOOLEAN, Bin!FetchExchangeInfo(served)
      PROVE  /\ bord' \in [Ids -> Bin!Fates]
             /\ \A i \in Ids \ {n} : bord'[i] = bord[i]
             /\ BinLegSent'
  <2>1. /\ bstage = "exchange_info" /\ bord' = bord
        /\ \/ bstage' = "done" /\ bres'.submitted = FALSE
           \/ /\ bstage' = "position_mode"
              /\ ~settings.dry_run /\ settings.live_binance
    BY <1>2 DEF Bin!FetchExchangeInfo, Bin!Gate, Bin!Requested, Bin!Blocked,
                Bin!LocalError, Bin!NoOrder
  <2> QED BY <2>1
<1>3. CASE Bin!CheckPositionMode
  BY <1>3 DEF Bin!CheckPositionMode, Bin!Blocked, Bin!Requested, Bin!NoOrder
<1>4. CASE Bin!Post
  <2>1. /\ bstage = "post" /\ bstage' = "ack"
        /\ \/ bord' = bord /\ banswer' = "lost"
           \/ /\ bord' = [bord EXCEPT ![n] = "filled"]
              /\ banswer' \in {"fill", "lost"}
           \/ /\ bord' = [bord EXCEPT ![n] = "expired"]
              /\ banswer' \in {"expired", "lost"}
           \/ /\ bord' = [bord EXCEPT ![n] = "rejected"]
              /\ banswer' \in {"error_200", "error_4xx", "lost"}
    BY <1>4 DEF Bin!Post
  <2> QED BY <2>1 DEF Bin!Fates
<1>5. CASE Bin!ReadAnswer
  <2>1. /\ bstage = "ack" /\ bstage' = "done" /\ bord' = bord
        /\ bres' = Bin!Verdict(banswer)
    BY <1>5 DEF Bin!ReadAnswer
  <2>2. bres'.submitted => banswer \notin {"lost", "error_4xx"}
    BY <2>1 DEF Bin!Verdict, Bin!Requested, Bin!NoOrder
  <2> QED BY <2>1, <2>2
<1> QED BY <1>1, <1>2, <1>3, <1>4, <1>5 DEF Bin!LegStep

LEMMA LegStepSent ==
  ASSUME TrailInv, SentInv, LegStep
  PROVE  SentInv'
<1>1. /\ pc = "legs" /\ UNCHANGED <<settings, pc, n, executions>> /\ n \in Ids
      /\ gtx \in [Ids -> Gmx!TxStates] /\ bord \in [Ids -> Bin!Fates]
      /\ GmxLegSent /\ BinLegSent
  BY ExecutorAssumption
  DEF LegStep, selfVars, TrailInv, PlaceInv, InHand, SentInv, Ids
<1>2. CASE Gmx!LegStep(Encodable(sigs[n]), TRUE) /\ UNCHANGED binVars
  <2>1. UNCHANGED <<bstage, banswer, bres, bord>>
    BY <1>2 DEF binVars
  <2>2. BinLegSent'
    BY <1>1, <2>1 DEF BinLegSent
  <2>3. /\ gtx' \in [Ids -> Gmx!TxStates]
        /\ \A i \in Ids \ {n} : gtx'[i] = gtx[i]
        /\ GmxLegSent'
    BY <1>1, <1>2, GmxStepSent
  <2> QED BY <1>1, <2>1, <2>2, <2>3, LegsSent
<1>3. CASE Bin!LegStep /\ UNCHANGED gmxVars
  <2>1. UNCHANGED <<gstage, gres, gtx>>
    BY <1>3 DEF gmxVars
  <2>2. GmxLegSent'
    BY <1>1, <2>1 DEF GmxLegSent
  <2>3. /\ bord' \in [Ids -> Bin!Fates]
        /\ \A i \in Ids \ {n} : bord'[i] = bord[i]
        /\ BinLegSent'
    BY <1>1, <1>3, BinStepSent
  <2> QED BY <1>1, <2>1, <2>2, <2>3, LegsSent
<1> QED BY <1>2, <1>3 DEF LegStep

\* What _is_success says of the two results is so of the two orders.
LEMMA GatherSent ==
  ASSUME TrailInv, SentInv, Gather
  PROVE  SentInv'
<1>1. /\ pc = "legs" /\ pc' = "record" /\ n' = n /\ executions' = executions
      /\ gstage = "done" /\ bstage = "done"
      /\ rec'.outcome = "dispatched" /\ rec'.success = IsSuccess
      /\ gstage' = "idle" /\ bstage' = "idle" /\ UNCHANGED <<gtx, bord>>
  BY DEF Gather, WriteRecord, Gmx!Leave, Bin!Leave, Bin!venueVars
<1>2. GmxLegSent /\ BinLegSent
  BY <1>1 DEF SentInv
<1>3. IsSuccess => (gtx[n] = "none" <=> bord[n] = "none")
  BY <1>1, <1>2 DEF IsSuccess, GmxLegSent, BinLegSent
<1>4. RecordTrue'
  BY <1>1, <1>3 DEF RecordTrue
<1> QED BY <1>1, <1>4, SentMoves

LEMMA XaddSent ==
  ASSUME TrailInv, SentInv, Xadd
  PROVE  SentInv'
<1>1. /\ pc = "record" /\ n' = n /\ n \in Ids /\ pc' \in {"loss", "return"}
      /\ rec \in Record /\ rec.id = n /\ executions \in Seq(Record)
      /\ UNCHANGED <<gtx, bord, gstage, bstage>>
      /\ RecordTrue /\ gstage = "idle" /\ bstage = "idle"
  BY ExecutorAssumption
  DEF Xadd, TrailInv, PlaceInv, InHand, Ids, gmxVars, binVars, SentInv
<1>2. \A r \in Recorded' : r \in Recorded \/ r = rec
  BY <1>1 DEF Xadd, Recorded
<1>3. RecordsTell'
  <2>1. GmxSent' = GmxSent /\ BinSent' = BinSent
    BY <1>1 DEF GmxSent, BinSent
  <2>2. /\ rec.outcome # "dispatched" => rec.id \notin GmxSent \cup BinSent
        /\ rec.success => (rec.id \in GmxSent <=> rec.id \in BinSent)
    BY <1>1 DEF RecordTrue, Unsent, GmxSent, BinSent
  <2> QED BY <1>2, <2>1, <2>2 DEF SentInv, RecordsTell
<1>4. \A i \in Ids : i > n' => Unsent(i)'
  BY <1>1 DEF SentInv, Unsent
<1> QED BY <1>1, <1>3, <1>4 DEF SentInv

LEMMA TaskSent == TrailInv /\ SentInv /\ TaskStep => SentInv'
<1> SUFFICES ASSUME TrailInv, SentInv, TaskStep PROVE SentInv'
  OBVIOUS
<1>0. gtx \in [Ids -> Gmx!TxStates] /\ bord \in [Ids -> Bin!Fates]
      /\ (pc # "legs" => gstage = "idle" /\ bstage = "idle")
  BY DEF SentInv
<1>1. CASE GuardStep
  BY <1>0, <1>1, SentKept DEF GuardStep, selfVars, gmxVars, binVars, legVars
<1>2. CASE TakeVerdict
  <2>1. /\ pc = "guard" /\ n' = n /\ executions' = executions
        /\ UNCHANGED <<gtx, bord, gstage, bstage>>
        /\ \/ pc' = "positions"
           \/ \E o : o # "dispatched" /\ pc' = "record" /\ rec' = Refused(o)
    BY <1>2 DEF TakeVerdict, WriteRecord, Objection, gmxVars, binVars
  <2>2. pc' = "record" => RecordTrue'
    BY <2>1 DEF RecordTrue, Refused, SentInv, Unsent
  <2> QED BY <1>0, <2>1, <2>2, SentMoves
<1>3. CASE FetchAndReconcile
  BY <1>3, StartSent
<1>4. CASE LegStep
  BY <1>4, LegStepSent
<1>5. CASE Gather
  BY <1>5, GatherSent
<1>6. CASE Xadd
  BY <1>6, XaddSent
<1>7. CASE RecordLoss
  <2>1. /\ pc = "loss" /\ pc' = "return" /\ n' = n /\ executions' = executions
        /\ UNCHANGED <<gtx, bord, gstage, bstage>>
    BY <1>7 DEF RecordLoss, gmxVars, binVars
  <2> QED BY <1>0, <2>1, SentMoves
<1>8. CASE Return
  <2>1. /\ pc = "return" /\ pc' = "listen" /\ n' = n /\ executions' = executions
        /\ UNCHANGED <<gtx, bord, gstage, bstage>>
    BY <1>8 DEF Return, gmxVars, binVars
  <2> QED BY <1>0, <2>1, SentMoves
<1> QED BY <1>1, <1>2, <1>3, <1>4, <1>5, <1>6, <1>7, <1>8 DEF TaskStep

LEMMA SentNext == TrailInv /\ SentInv /\ [Next]_vars => SentInv'
<1> SUFFICES ASSUME TrailInv, SentInv, [Next]_vars PROVE SentInv'
  OBVIOUS
<1>0. gtx \in [Ids -> Gmx!TxStates] /\ bord \in [Ids -> Bin!Fates]
  BY DEF SentInv
<1> USE DEF selfVars, gmxVars, binVars, legVars
<1>1. CASE UNCHANGED vars
  BY <1>0, <1>1, SentKept DEF vars
<1>2. ASSUME NEW s \in Signals, TakeSignal(s) PROVE SentInv'
  BY <1>2, TakeSignalSent
<1>3. CASE TaskStep
  BY <1>3, TaskSent
<1>4. CASE Crash
  <2>1. /\ pc' = "down" /\ n' = n /\ executions' = executions
        /\ gstage' = "idle" /\ bstage' = "idle" /\ UNCHANGED <<gtx, bord>>
    BY <1>4 DEF Crash, Gmx!Leave, Bin!Leave, Bin!venueVars
  <2> QED BY <2>1, SentMoves
<1>5. CASE Restart \/ Resubscribe
  <2>1. /\ pc \in Looping \cup {"down"} /\ pc' \in Looping /\ n' = n
        /\ executions' = executions /\ UNCHANGED <<gtx, bord, gstage, bstage>>
    BY <1>5 DEF Restart, Resubscribe
  <2>2. gstage' = "idle" /\ bstage' = "idle"
    BY <2>1 DEF SentInv
  <2> QED BY <2>1, <2>2, SentMoves
<1>6. CASE OperatorFlips
  BY <1>0, <1>6, SentKept DEF OperatorFlips
<1>7. CASE Tick
  BY <1>0, <1>7, SentKept DEF Tick
<1>8. ASSUME NEW i \in Ids, Chain(i) PROVE SentInv'
  <2>1. PICK t \in {"dropped", "reverted", "mined"} :
            gtx[i] = "mempool" /\ gtx' = [gtx EXCEPT ![i] = t]
    BY <1>8 DEF Chain, Gmx!Chain
  <2>2. gtx' \in [Ids -> Gmx!TxStates]
        /\ \A j \in Ids : gtx'[j] = "none" <=> gtx[j] = "none"
    BY <1>0, <2>1 DEF Gmx!TxStates
  <2> QED BY <1>0, <1>8, <2>2, SentKept DEF Chain, Gmx!Chain, Gmx!glegVars
<1>9. ASSUME NEW i \in Ids, NEW t \in Gmx!TxStates, Keeper(i, t) PROVE SentInv'
  <2>1. gtx[i] = "mined" /\ t # "none" /\ gtx' = [gtx EXCEPT ![i] = t]
    BY <1>9 DEF Keeper, Gmx!Keeper
  <2>2. gtx' \in [Ids -> Gmx!TxStates]
        /\ \A j \in Ids : gtx'[j] = "none" <=> gtx[j] = "none"
    BY <1>0, <2>1
  <2> QED BY <1>0, <1>9, <2>2, SentKept DEF Keeper, Gmx!Keeper, Gmx!glegVars
<1>10. CASE OperatorCloses
  BY <1>0, <1>10, SentKept DEF OperatorCloses, Bin!Close, Bin!blegVars
<1> QED
  BY <1>1, <1>2, <1>3, <1>4, <1>5, <1>6, <1>7, <1>8, <1>9, <1>10 DEF Next, Step

\* What a record says stays true for good: a refused signal has no order on
\* either venue, a success is on both or, in a dry run, on neither; for any
\* number of signals, and whatever either leg, its answers and the process do.
THEOREM RecordsStayTrue == Spec => []RecordsTell
<1>1. Init => TrailInv /\ SentInv
  BY TrailInit, SentInit
<1>2. TrailInv /\ SentInv /\ [Next]_vars => (TrailInv /\ SentInv)'
  BY TrailNext, SentNext
<1>3. SentInv => RecordsTell
  BY DEF SentInv
<1> QED BY <1>1, <1>2, <1>3, PTL DEF Spec

-----------------------------------------------------------------------------
(* The executor implements GatedDispatch.                                  *)

PhaseOf == [i \in Ids |-> Phase(i)]
Live    == IF settings.dry_run THEN {}
           ELSE {v \in {"gmx", "binance"} :
                   \/ v = "gmx" /\ settings.live_gmx /\ settings.has_key
                   \/ v = "binance" /\ settings.live_binance}
Placed  == (GmxSent \X {"gmx"}) \cup (BinSent \X {"binance"})

Stutter == UNCHANGED <<PhaseOf, Live, Placed>>

LEMMA PromiseMap ==
  /\ Promise!Init <=> /\ PhaseOf = [i \in Ids |-> "new"]
                      /\ Live \in SUBSET {"gmx", "binance"} /\ Placed = {}
  /\ Stutter => [Promise!Next]_Promise!vars
  BY DEF Promise!Init, Promise!vars, Stutter, PhaseOf, Live, Placed

LEMMA PromiseInit == Init => Promise!Init
<1> SUFFICES ASSUME Init PROVE Promise!Init
  OBVIOUS
<1>1. n = 0 /\ GmxSent = {} /\ BinSent = {}
  BY DEF Init, Gmx!LegInit, Bin!LegInit, GmxSent, BinSent
<1>2. PhaseOf = [i \in Ids |-> "new"]
  BY <1>1 DEF PhaseOf, Phase, Ids
<1>3. Placed = {} /\ Live \in SUBSET {"gmx", "binance"}
  BY <1>1 DEF Placed, Live
<1> QED BY <1>2, <1>3, PromiseMap

LEMMA SameOrders ==
  UNCHANGED <<gtx, bord>> => Placed' = Placed
  BY DEF Placed, GmxSent, BinSent

\* The signal in hand is refused, finished or lost.
LEMMA SettleStep ==
  ASSUME TrailInv, n \in Ids, pc \in {"guard", "positions", "legs"},
         n' = n, pc' \in {"record", "down"},
         UNCHANGED <<settings, gtx, bord>>
  PROVE  Promise!Settle(n)
<1>1. Phase(n) \in {"new", "cleared"} /\ Phase(n)' = "settled"
  BY DEF Phase, Ids
<1>2. \A i \in Ids \ {n} : Phase(i)' = Phase(i)
  BY DEF Phase, Ids
<1>3. PhaseOf' = [PhaseOf EXCEPT ![n] = "settled"]
  BY <1>1, <1>2 DEF PhaseOf
<1>4. Live' = Live /\ Placed' = Placed
  BY SameOrders DEF Live
<1> QED BY <1>1, <1>3, <1>4 DEF Promise!Settle, PhaseOf, Live, Placed

\* A step of the consumer that neither clears nor settles the signal in hand.
LEMMA PhaseStutter ==
  ASSUME TrailInv, n' = n,
         pc' = pc \/ {pc, pc'} \subseteq {"guard", "positions"}
                  \/ {pc, pc'} \cap {"guard", "positions", "legs"} = {}
  PROVE  PhaseOf' = PhaseOf
<1>1. \A i \in Ids : Phase(i)' = Phase(i)
  BY DEF Phase
<1> QED BY <1>1 DEF PhaseOf

LEMMA TakeSignalPromise ==
  ASSUME NEW s, TrailInv, TakeSignal(s)
  PROVE  [Promise!Next]_Promise!vars
<1>1. /\ pc = "listen" /\ n \in Nat /\ n' = n + 1 /\ n' \in Ids
      /\ pc' \in {"guard", "raised"}
      /\ UNCHANGED <<settings, gtx, bord>>
  BY ExecutorAssumption
  DEF TakeSignal, TrailInv, PlaceInv, gmxVars, binVars, Ids
<1>2. Live' = Live /\ Placed' = Placed
  BY <1>1, SameOrders DEF Live
<1>3. \A i \in Ids \ {n'} : Phase(i)' = Phase(i)
  BY <1>1 DEF Phase, Ids
<1>4. Phase(n') = "new"
  BY <1>1 DEF Phase
<1>5. CASE pc' = "guard"
  <2>1. \A i \in Ids : Phase(i)' = Phase(i)
    BY <1>1, <1>3, <1>4, <1>5 DEF Phase, Ids
  <2> QED BY <1>2, <2>1, PromiseMap DEF Stutter, PhaseOf
<1>6. CASE pc' = "raised"
  <2>1. \A i \in Ids : Phase(i)' = IF i = n' THEN "settled" ELSE Phase(i)
    BY <1>1, <1>3, <1>6 DEF Phase, Ids
  <2>2. PICK j \in Ids : j = n'
    BY <1>1
  <2>3. PhaseOf' = [PhaseOf EXCEPT ![j] = "settled"]
    BY <2>1, <2>2 DEF PhaseOf
  <2>4. PhaseOf[j] = "new"
    BY <1>4, <2>2 DEF PhaseOf
  <2>5. Promise!Settle(j)
    BY <1>2, <2>3, <2>4 DEF Promise!Settle, PhaseOf, Live, Placed
  <2> QED BY <2>2, <2>5 DEF Promise!Next
<1> QED BY <1>1, <1>5, <1>6

LEMMA FetchPromise ==
  ASSUME TrailInv, FetchAndReconcile
  PROVE  [Promise!Next]_Promise!vars
<1>1. /\ pc = "positions" /\ n' = n /\ n \in Ids
      /\ settings' = settings /\ pc' \in {"record", "legs"}
      /\ UNCHANGED <<gtx, bord>>
  BY ExecutorAssumption
  DEF FetchAndReconcile, WriteRecord, TrailInv, PlaceInv, InHand, Ids,
      gmxVars, binVars, Gmx!Start, Bin!Start, Bin!venueVars
<1>2. CASE pc' = "record"
  BY <1>1, <1>2, SettleStep DEF Promise!Next
<1>3. CASE pc' = "legs"
  <2>1. \A i \in Ids : /\ Phase(i) # "cleared"
                       /\ Phase(i)' = IF i = n THEN "cleared" ELSE Phase(i)
    BY <1>1, <1>3 DEF Phase, Ids
  <2>2. Phase(n) = "new"
    BY <1>1 DEF Phase, Ids
  <2>3. PhaseOf' = [PhaseOf EXCEPT ![n] = "cleared"]
    BY <2>1 DEF PhaseOf
  <2>4. Live' = Live /\ Placed' = Placed
    BY <1>1, SameOrders DEF Live
  <2>5. Promise!Clear(n)
    BY <1>1, <2>1, <2>2, <2>3, <2>4
    DEF Promise!Clear, Promise!Dispatching, PhaseOf, Live, Placed
  <2> QED BY <1>1, <2>5 DEF Promise!Next
<1> QED BY <1>1, <1>2, <1>3

\* What a leg does to the order of the signal in hand is nothing, or to place
\* it on its venue.
LEMMA PlaceStep ==
  ASSUME n \in Ids, pc = "legs", pc' = pc, n' = n, settings' = settings,
         TrailInv, NEW v \in {"gmx", "binance"}, v \in Live,
         <<n, v>> \notin Placed, Placed' = Placed \cup {<<n, v>>}
  PROVE  Promise!Place(n, v)
<1>1. PhaseOf' = PhaseOf /\ Live' = Live
  BY PhaseStutter DEF Live
<1>2. PhaseOf[n] = "cleared"
  BY DEF PhaseOf, Phase, Ids
<1> QED BY <1>1, <1>2 DEF Promise!Place, PhaseOf, Live, Placed

LEMMA LegPromise ==
  ASSUME TrailInv, SentInv, LegStep
  PROVE  [Promise!Next]_Promise!vars
<1>1. /\ pc = "legs" /\ UNCHANGED <<settings, pc, n>> /\ n \in Ids
      /\ gtx \in [Ids -> Gmx!TxStates] /\ bord \in [Ids -> Bin!Fates]
      /\ GmxLegSent /\ BinLegSent
  BY ExecutorAssumption
  DEF LegStep, selfVars, TrailInv, PlaceInv, InHand, SentInv, Ids
<1>2. PhaseOf' = PhaseOf /\ Live' = Live
  BY <1>1, PhaseStutter DEF Live
<1>3. UNCHANGED <<gtx, bord>> => [Promise!Next]_Promise!vars
  BY <1>2, SameOrders, PromiseMap DEF Stutter
<1>4. CASE Gmx!LegStep(Encodable(sigs[n]), TRUE) /\ UNCHANGED binVars
  <2>1. bord' = bord
    BY <1>4 DEF binVars
  <2>2. CASE gtx' = gtx
    BY <1>3, <2>1, <2>2
  <2>3. CASE gstage = "send" /\ gtx' = [gtx EXCEPT ![n] = "mempool"]
    <3>1. gtx[n] = "none" /\ "gmx" \in Live
      BY <1>1, <2>3 DEF GmxLegSent, Live
    <3>2. GmxSent' = GmxSent \cup {n} /\ n \notin GmxSent /\ BinSent' = BinSent
      BY <1>1, <2>1, <2>3, <3>1 DEF GmxSent, BinSent
    <3>3. <<n, "gmx">> \notin Placed /\ Placed' = Placed \cup {<<n, "gmx">>}
      BY <3>2 DEF Placed
    <3>4. Promise!Place(n, "gmx")
      BY <1>1, <3>1, <3>3, PlaceStep
    <3> QED BY <1>1, <3>4 DEF Promise!Next
  <2>4. gtx' = gtx \/ (gstage = "send" /\ gtx' = [gtx EXCEPT ![n] = "mempool"])
    BY <1>4 DEF Gmx!LegStep, Gmx!FetchNonce, Gmx!FetchGasPrice, Gmx!Simulate,
                Gmx!Send, Gmx!HearSend, Gmx!PollReceipt
  <2> QED BY <2>2, <2>3, <2>4
<1>5. CASE Bin!LegStep /\ UNCHANGED gmxVars
  <2>1. gtx' = gtx
    BY <1>5 DEF gmxVars
  <2>2. CASE bord' = bord
    BY <1>3, <2>1, <2>2
  <2>3. ASSUME NEW f \in {"filled", "expired", "rejected"},
               bstage = "post", bord' = [bord EXCEPT ![n] = f]
        PROVE  [Promise!Next]_Promise!vars
    <3>1. bord[n] = "none" /\ "binance" \in Live
      BY <1>1, <2>3 DEF BinLegSent, Live
    <3>2. BinSent' = BinSent \cup {n} /\ n \notin BinSent /\ GmxSent' = GmxSent
      BY <1>1, <2>1, <2>3, <3>1 DEF GmxSent, BinSent
    <3>3. <<n, "binance">> \notin Placed /\ Placed' = Placed \cup {<<n, "binance">>}
      BY <3>2 DEF Placed
    <3>4. Promise!Place(n, "binance")
      BY <1>1, <3>1, <3>3, PlaceStep
    <3> QED BY <1>1, <3>4 DEF Promise!Next
  <2>4. \/ bord' = bord
        \/ \E f \in {"filled", "expired", "rejected"} :
              bstage = "post" /\ bord' = [bord EXCEPT ![n] = f]
    BY <1>5 DEF Bin!LegStep, Bin!FetchMark, Bin!FetchExchangeInfo,
                Bin!CheckPositionMode, Bin!Post, Bin!ReadAnswer, Bin!venueVars
  <2> QED BY <2>2, <2>3, <2>4
<1> QED BY <1>4, <1>5 DEF LegStep

LEMMA TaskPromise ==
  TrailInv /\ SentInv /\ TaskStep => [Promise!Next]_Promise!vars
<1> SUFFICES ASSUME TrailInv, SentInv, TaskStep
             PROVE  [Promise!Next]_Promise!vars
  OBVIOUS
<1>0. pc \in InHand => n \in Ids
  BY ExecutorAssumption DEF TrailInv, PlaceInv, InHand, Ids
<1> USE DEF selfVars, gmxVars, binVars
<1>1. \/ GuardStep \/ Xadd \/ RecordLoss \/ Return
      \/ TakeVerdict /\ pc' = "positions"
      => [Promise!Next]_Promise!vars
  <2> SUFFICES ASSUME \/ GuardStep \/ Xadd \/ RecordLoss \/ Return
                      \/ TakeVerdict /\ pc' = "positions"
               PROVE  [Promise!Next]_Promise!vars
    OBVIOUS
  <2>1. UNCHANGED <<settings, n, gtx, bord>>
    BY DEF GuardStep, Xadd, RecordLoss, Return, TakeVerdict
  <2>2. pc' = pc \/ {pc, pc'} \subseteq {"guard", "positions"}
                 \/ {pc, pc'} \cap {"guard", "positions", "legs"} = {}
    BY DEF GuardStep, Xadd, RecordLoss, Return, TakeVerdict
  <2> QED BY <2>1, <2>2, PhaseStutter, SameOrders, PromiseMap DEF Stutter, Live
<1>2. CASE (TakeVerdict /\ pc' = "record") \/ Gather
  <2>1. /\ pc \in {"guard", "legs"} /\ pc' = "record" /\ n' = n
        /\ UNCHANGED <<settings, gtx, bord>>
    BY <1>2 DEF TakeVerdict, Gather, WriteRecord, Gmx!Leave, Bin!Leave,
                Bin!venueVars
  <2> QED BY <1>0, <2>1, SettleStep DEF Promise!Next, InHand
<1>3. CASE FetchAndReconcile
  BY <1>3, FetchPromise
<1>4. CASE LegStep
  BY <1>4, LegPromise
<1>5. TakeVerdict => pc' \in {"positions", "record"}
  BY DEF TakeVerdict, WriteRecord
<1> QED BY <1>1, <1>2, <1>3, <1>4, <1>5 DEF TaskStep

LEMMA PromiseNext ==
  TrailInv /\ SentInv /\ [Next]_vars => [Promise!Next]_Promise!vars
<1> SUFFICES ASSUME TrailInv, SentInv, [Next]_vars
             PROVE  [Promise!Next]_Promise!vars
  OBVIOUS
<1> USE DEF selfVars, gmxVars, binVars
<1>1. CASE UNCHANGED vars
  <2>1. UNCHANGED <<settings, pc, n, gtx, bord>>
    BY <1>1 DEF vars
  <2> QED BY <2>1, PhaseStutter, SameOrders, PromiseMap DEF Stutter, Live
<1>2. ASSUME NEW s \in Signals, TakeSignal(s) PROVE [Promise!Next]_Promise!vars
  BY <1>2, TakeSignalPromise
<1>3. CASE TaskStep
  BY <1>3, TaskPromise
<1>4. CASE Crash
  <2>1. /\ pc' = "down" /\ pc # "down" /\ n' = n
        /\ UNCHANGED <<settings, gtx, bord>>
    BY <1>4 DEF Crash, Gmx!Leave, Bin!Leave, Bin!venueVars
  <2>2. CASE pc \in {"guard", "positions", "legs"}
    <3>1. n \in Ids
      BY <2>2, ExecutorAssumption DEF TrailInv, PlaceInv, InHand, Ids
    <3> QED BY <2>1, <2>2, <3>1, SettleStep DEF Promise!Next
  <2>3. CASE pc \notin {"guard", "positions", "legs"}
    BY <2>1, <2>3, PhaseStutter, SameOrders, PromiseMap DEF Stutter, Live
  <2> QED BY <2>2, <2>3
<1>5. CASE Restart
  <2>1. /\ pc = "down" /\ pc' = "subscribe" /\ n' = n /\ UNCHANGED <<gtx, bord>>
    BY <1>5 DEF Restart
  <2>2. PhaseOf' = PhaseOf /\ Placed' = Placed
    BY <2>1, PhaseStutter, SameOrders
  <2>3. \A i \in Ids : PhaseOf[i] # "cleared"
    BY <2>1 DEF PhaseOf, Phase
  <2>4. Live' \in SUBSET {"gmx", "binance"}
    BY DEF Live
  <2>5. Promise!Reconfigure
    BY <2>2, <2>3, <2>4
    DEF Promise!Reconfigure, Promise!Dispatching, PhaseOf, Live, Placed
  <2> QED BY <2>5 DEF Promise!Next
<1>6. CASE OperatorFlips \/ Tick \/ OperatorCloses
  <2>1. UNCHANGED <<settings, pc, n, gtx, bord>>
    BY <1>6 DEF OperatorFlips, Tick, OperatorCloses, Bin!Close
  <2> QED BY <2>1, PhaseStutter, SameOrders, PromiseMap DEF Stutter, Live
<1>7. ASSUME NEW i \in Ids, Chain(i) \/ \E t \in Gmx!TxStates : Keeper(i, t)
      PROVE  [Promise!Next]_Promise!vars
  <2>1. /\ UNCHANGED <<settings, pc, n, bord>>
        /\ gtx[i] # "none"
        /\ \E t : t # "none" /\ gtx' = [gtx EXCEPT ![i] = t]
    BY <1>7 DEF Chain, Keeper, Gmx!Chain, Gmx!Keeper
  <2>2. GmxSent' = GmxSent /\ BinSent' = BinSent
    BY <2>1 DEF GmxSent, BinSent, SentInv
  <2> QED BY <2>1, <2>2, PhaseStutter, PromiseMap DEF Stutter, Live, Placed
<1>8. CASE Resubscribe
  <2>1. pc \in Looping /\ pc' \in Looping /\ UNCHANGED <<settings, n, gtx, bord>>
    BY <1>8 DEF Resubscribe
  <2> QED BY <2>1, PhaseStutter, SameOrders, PromiseMap DEF Stutter, Live
<1> QED
  BY <1>1, <1>2, <1>3, <1>4, <1>5, <1>6, <1>7, <1>8 DEF Next, Step

\* The executor keeps the promise of GatedDispatch, for any number of signals:
\* only the signal being dispatched gets an order, at most one on each venue,
\* and only on a venue that is live; nothing ever adds an order to a signal
\* that is settled, not a crash, a restart nor a late answer.
THEOREM ExecutorKeepsPromise == Spec => KeepsPromise
<1>1. Init => TrailInv /\ SentInv
  BY TrailInit, SentInit
<1>2. TrailInv /\ SentInv /\ [Next]_vars => (TrailInv /\ SentInv)'
  BY TrailNext, SentNext
<1> QED
  BY <1>1, <1>2, PromiseInit, PromiseNext, PTL DEF Spec, KeepsPromise, Promise!Spec

-----------------------------------------------------------------------------
(* Types.  gpos is the set of positions that orders have opened, so that   *)
(* what is known of their markets is part of the invariant.                *)

MarketsKnown ==
    /\ \A i \in Ids : gtx[i] # "none" => sigs[i].market \in GmxMarkets
    /\ pc \in {"positions", "legs"} => sigs[n].market \in GmxMarkets

SelfTypes ==
    /\ settings \in SettingsSpace
    /\ sigs \in [Ids -> Signals \cup {NoSig}]
    /\ \A i \in Ids : i <= n => sigs[i] \in Signals
    /\ rec \in Record \cup {NoRec}
    /\ now \in Nat /\ killswitch \in BOOLEAN
    /\ lastLoss \in Nat \cup {Guard!NoLoss} /\ owed \in Nat \cup {Guard!NoLoss}
    /\ gpos \subseteq GmxMarkets \X BOOLEAN

CheckTypes ==
    /\ stage \in Guard!Stages
    /\ request \in Guard!Request \cup {Guard!NoRequest}
    /\ gmxN \in Nat
    /\ gate \in Guard!Gates
    /\ blind \subseteq Guard!Reasons /\ standing \subseteq Guard!Reasons

\* The mark a size is divided by is never zero.
BinTyped == Bin!TypeOK /\ (bstage = "exchange_info" => bmark # 0)

TypeInv == SelfTypes /\ CheckTypes /\ Gmx!TypeOK /\ BinTyped /\ MarketsKnown

OpenAtBinance == {m \in RawMarkets : bpos[m] # 0}

LEMMA SettingTypes ==
  ASSUME NEW s \in SettingsSpace
  PROVE  /\ s.armed \in SUBSET RawMarkets
         /\ s.dry_run \in BOOLEAN /\ s.live_gmx \in BOOLEAN
         /\ s.live_binance \in BOOLEAN /\ s.has_key \in BOOLEAN
  BY ExecutorAssumption DEF Setting

LEMMA SignalTypes ==
  ASSUME NEW s \in Signals
  PROVE  /\ s.market \in RawMarkets /\ s.notional.usd \in Int
         /\ s.notional.kind \in {"num", "nan", "unreadable"}
  BY ExecutorAssumption DEF Signal

LEMMA BothSides == IsFiniteSet(BOOLEAN) /\ Cardinality(BOOLEAN) = 2
<1>1. IsFiniteSet({TRUE}) /\ Cardinality({TRUE}) = 1
  BY FS_Singleton
<1>2. BOOLEAN = {TRUE} \cup {FALSE} /\ FALSE \notin {TRUE}
  OBVIOUS
<1>3. IsFiniteSet({TRUE} \cup {FALSE}) /\ Cardinality({TRUE} \cup {FALSE}) = 1 + 1
  BY <1>1, <1>2, FS_AddElement
<1>4. IsFiniteSet(BOOLEAN) /\ Cardinality(BOOLEAN) = 1 + 1
  BY <1>2, <1>3, Zenon
<1> QED BY <1>4

\* Open positions are finitely many, within the bound the guard is given.
LEMMA OpenAreFinite ==
  ASSUME NEW held, held \subseteq GmxMarkets \X BOOLEAN,
         NEW open, open \subseteq RawMarkets
  PROVE  /\ IsFiniteSet(held) /\ IsFiniteSet(open)
         /\ Cardinality(held) \in 0 .. 2 * Cardinality(RawMarkets)
         /\ Cardinality(open) \in 0 .. 2 * Cardinality(RawMarkets)
<1>1. IsFiniteSet(RawMarkets) /\ Cardinality(RawMarkets) \in Nat
  BY ConfigAssumption, FS_CardinalityType
<1>2. /\ IsFiniteSet(RawMarkets \X BOOLEAN)
      /\ Cardinality(RawMarkets \X BOOLEAN) = Cardinality(RawMarkets) * 2
  BY <1>1, BothSides, FS_Product
<1>3. held \subseteq RawMarkets \X BOOLEAN
  BY ExecutorAssumption
<1>4. /\ IsFiniteSet(held) /\ Cardinality(held) \in Nat
      /\ Cardinality(held) <= Cardinality(RawMarkets) * 2
  BY <1>2, <1>3, FS_Subset, FS_CardinalityType
<1>5. /\ IsFiniteSet(open) /\ Cardinality(open) \in Nat
      /\ Cardinality(open) <= Cardinality(RawMarkets)
  BY <1>1, FS_Subset, FS_CardinalityType
<1> QED BY <1>1, <1>4, <1>5

LEMMA GmxTypes ==
  ASSUME Gmx!TypeOK, settings' = settings,
         \/ gmxVars' = gmxVars \/ Gmx!Start \/ Gmx!Leave
         \/ \E valid, ours : Gmx!LegStep(valid, ours)
         \/ \E i \in Ids : Gmx!Chain(i)
         \/ \E i \in Ids, t \in Gmx!TxStates : Gmx!Keeper(i, t)
  PROVE  Gmx!TypeOK'
<1> USE DEF Gmx!TypeOK, Gmx!Stages, Gmx!Finish, Gmx!Proceed, gmxVars
<1>s. settings'.dry_run \in BOOLEAN /\ settings'.live_gmx \in BOOLEAN
      /\ settings'.has_key \in BOOLEAN
  OBVIOUS
<1>n. Gmx!NoSend \in Gmx!SendResult /\ "none" \in Gmx!Errors
  BY DEF Gmx!NoSend, Gmx!SendResult, Gmx!Errors
<1>1. CASE gmxVars' = gmxVars
  BY <1>1
<1>2. CASE Gmx!Start \/ Gmx!Leave
  BY <1>2, <1>n, <1>s DEF Gmx!Start, Gmx!Leave
<1>3. ASSUME NEW valid, NEW ours, Gmx!LegStep(valid, ours) PROVE Gmx!TypeOK'
  <2>1. CASE Gmx!FetchNonce
    BY <2>1, <1>n, <1>s DEF Gmx!FetchNonce
  <2>2. CASE Gmx!FetchGasPrice(valid, ours)
    BY <2>2, <1>n, <1>s DEF Gmx!FetchGasPrice, Gmx!Refusal, Gmx!Errors
  <2>3. CASE Gmx!Simulate
    BY <2>3, <1>n, <1>s
    DEF Gmx!Simulate, Gmx!Classified, Gmx!Simulated, Gmx!NoSend, Gmx!SendResult
  <2>4. CASE Gmx!Send
    BY <2>4, <1>n, <1>s DEF Gmx!Send, Gmx!TxStates
  <2>5. CASE Gmx!HearSend
    BY <2>5, <1>n, <1>s
    DEF Gmx!HearSend, Gmx!SendFailed, Gmx!NoSend, Gmx!SendResult, Gmx!Errors
  <2>6. CASE Gmx!PollReceipt
    BY <2>6, <1>n, <1>s
    DEF Gmx!PollReceipt, Gmx!Submitted, Gmx!NoSend, Gmx!SendResult
  <2> QED BY <1>3, <2>1, <2>2, <2>3, <2>4, <2>5, <2>6 DEF Gmx!LegStep
<1>4. ASSUME NEW i \in Ids, NEW t \in Gmx!TxStates, Gmx!Chain(i) \/ Gmx!Keeper(i, t)
      PROVE  Gmx!TypeOK'
  BY <1>4, <1>s DEF Gmx!Chain, Gmx!Keeper, Gmx!glegVars, Gmx!TxStates
<1>5. "none" \in Gmx!TxStates
  BY DEF Gmx!TxStates
<1> QED BY <1>1, <1>2, <1>3, <1>4, <1>5

LEMMA BinTypes ==
  ASSUME BinTyped, settings' = settings,
         \/ binVars' = binVars \/ Bin!Leave \/ Bin!LegStep
         \/ \E m \in RawMarkets : Bin!Close(m)
         \/ /\ sigs[n] \in Signals
            /\ \E d : Bin!Start(sigs[n].market, BinanceSide(d), sigs[n].notional.usd)
  PROVE  BinTyped'
<1> USE ConfigAssumption
    DEF BinTyped, Bin!TypeOK, Bin!Stages, Bin!Finish, Bin!Proceed, binVars, Bin!venueVars
<1>s. settings'.dry_run \in BOOLEAN /\ settings'.live_binance \in BOOLEAN
  OBVIOUS
<1>n. /\ Bin!NoOrder \in Bin!OrderResult /\ Bin!LocalError \in Bin!OrderResult
      /\ Bin!Requested \in Bin!OrderResult /\ Bin!VenueError \in Bin!OrderResult
      /\ Bin!Accepted \in Bin!OrderResult
      /\ \A g \in {"live_off", "mode"} : Bin!Blocked(g) \in Bin!OrderResult
  BY DEF Bin!NoOrder, Bin!LocalError, Bin!Requested, Bin!VenueError,
         Bin!Accepted, Bin!Blocked, Bin!OrderResult
<1>1. CASE binVars' = binVars
  BY <1>1
<1>2. CASE Bin!Leave
  BY <1>2, <1>n, <1>s DEF Bin!Leave, Bin!Answers
<1>3. CASE Bin!LegStep
  <2>1. CASE Bin!FetchMark
    BY <2>1, <1>s DEF Bin!FetchMark
  <2>2. ASSUME NEW served \in BOOLEAN, Bin!FetchExchangeInfo(served)
        PROVE  BinTyped'
    <3>1. bjob.usd \in Int
      BY DEF Bin!Job, Bin!NoJob
    <3>2. Bin!SizeFor(bjob.usd, bmark) \in Nat
      <4>1. bmark \in Nat \ {0}
        BY <2>2 DEF Bin!FetchExchangeInfo
      <4>2. bjob.usd > 0 => bjob.usd \div bmark \in Nat
        BY <3>1, <4>1
      <4> QED
        BY <3>1, <4>2 DEF Bin!SizeFor, Bin!PassesMinNotional, Bin!Quantity
    <3>3. bqty' \in Nat /\ UNCHANGED <<bjob, bmark, banswer, bord, bpos>>
      BY <2>2, <3>2 DEF Bin!FetchExchangeInfo
    <3>4. /\ bstage' \in {"done", "position_mode"}
          /\ bres' \in Bin!OrderResult
      BY <2>2, <1>n DEF Bin!FetchExchangeInfo, Bin!Gate
    <3> QED BY <1>s, <3>3, <3>4
  <2>3. CASE Bin!CheckPositionMode
    BY <2>3, <1>n, <1>s DEF Bin!CheckPositionMode
  <2>4. CASE Bin!Post
    <3>1. bpos' \in [RawMarkets -> Int]
      <4>1. Bin!Signed(bqty) \in Int
        BY DEF Bin!Signed
      <4> QED BY <2>4, <4>1 DEF Bin!Post
    <3>2. bord' \in [Ids -> Bin!Fates] /\ banswer' \in Bin!Answers
      BY <2>4 DEF Bin!Post, Bin!Fates, Bin!Answers
    <3> QED BY <2>4, <1>s, <3>1, <3>2 DEF Bin!Post
  <2>5. CASE Bin!ReadAnswer
    BY <2>5, <1>n, <1>s DEF Bin!ReadAnswer, Bin!Verdict
  <2> QED BY <1>3, <2>1, <2>2, <2>3, <2>4, <2>5 DEF Bin!LegStep
<1>4. ASSUME NEW m \in RawMarkets, Bin!Close(m) PROVE BinTyped'
  BY <1>4, <1>s DEF Bin!Close, Bin!blegVars
<1>5. ASSUME sigs[n] \in Signals, NEW d,
             Bin!Start(sigs[n].market, BinanceSide(d), sigs[n].notional.usd)
      PROVE  BinTyped'
  <2>1. bjob' \in Bin!Job
    BY <1>5, SignalTypes DEF Bin!Start, Bin!Job, BinanceSide, Bin!Sides
  <2> QED BY <1>5, <1>n, <1>s, <2>1 DEF Bin!Start
<1> QED BY <1>1, <1>2, <1>3, <1>4, <1>5

LEMMA TypeInit == Init => TypeInv
<1> SUFFICES ASSUME Init PROVE TypeInv
  OBVIOUS
<1>1. SelfTypes
  BY ExecutorAssumption DEF Init, SelfTypes, Guard!NoLoss, Ids
<1>2. CheckTypes
  BY DEF Init, CheckTypes, Guard!Stages, Guard!Gates, Guard!Reasons
<1>3. settings \in SettingsSpace
  BY DEF Init
<1>4. Gmx!TypeOK
  BY <1>3, SettingTypes
  DEF Init, Gmx!LegInit, Gmx!TypeOK, Gmx!Stages, Gmx!Errors, Gmx!NoSend,
      Gmx!SendResult, Gmx!TxStates
<1>5. BinTyped
  BY <1>3, SettingTypes
  DEF Init, Bin!LegInit, BinTyped, Bin!TypeOK, Bin!Stages, Bin!Answers,
      Bin!NoOrder, Bin!OrderResult, Bin!Fates
<1>6. MarketsKnown
  BY DEF Init, MarketsKnown, Gmx!LegInit
<1> QED BY <1>1, <1>2, <1>4, <1>5, <1>6 DEF TypeInv

worldVars == <<settings, pc, n, sigs, rec, now, killswitch, lastLoss, owed, gpos>>

LEMMA SelfKept == SelfTypes /\ UNCHANGED worldVars => SelfTypes'
  BY DEF SelfTypes, worldVars

LEMMA TakeSignalTypes ==
  ASSUME NEW s \in Signals, TrailInv, SelfTypes, TakeSignal(s)
  PROVE  SelfTypes'
<1>1. /\ n \in Nat /\ n' = n + 1 /\ n' \in Ids
      /\ UNCHANGED <<settings, rec, owed, gpos, now, killswitch, lastLoss>>
  BY ExecutorAssumption
  DEF TakeSignal, TrailInv, PlaceInv, Ids, guardVars, redisVars, Guard!Begin,
      Guard!envVars
<1>2. sigs' = [sigs EXCEPT ![n'] = s]
  BY <1>1 DEF TakeSignal
<1>3. sigs' \in [Ids -> Signals \cup {NoSig}]
  BY <1>1, <1>2 DEF SelfTypes
<1>4. \A i \in Ids : i <= n' => sigs'[i] \in Signals
  BY <1>1, <1>2 DEF SelfTypes, Ids
<1> QED BY <1>1, <1>3, <1>4 DEF SelfTypes

\* The task's own variables, and those of Redis and the venues, keep their
\* types in every step.
LEMMA SelfStep ==
  ASSUME TrailInv, TrailInv', TypeInv, [Next]_vars
  PROVE  SelfTypes'
<1> USE DEF selfVars, guardVars, redisVars, worldVars
<1>0. SelfTypes
  BY DEF TypeInv
<1>r. pc' = "record" => rec' \in Record
  BY DEF TrailInv, PlaceInv
<1>1. CASE UNCHANGED vars
  BY <1>0, <1>1, SelfKept DEF vars
<1>2. ASSUME NEW s \in Signals, TakeSignal(s) PROVE SelfTypes'
  BY <1>0, <1>2, TakeSignalTypes
<1>3. CASE GuardStep
  <2>1. UNCHANGED worldVars
    BY <1>3 DEF GuardStep, Guard!CheckStep, Guard!ReadKillswitch,
                Guard!ReadDailyPnl, Guard!CountGmx, Guard!CountBinance,
                Guard!ReadCooldown, Guard!LogDenial, Guard!envVars
  <2> QED BY <1>0, <2>1, SelfKept
<1>4. CASE TakeVerdict \/ FetchAndReconcile
  <2>1. /\ UNCHANGED <<settings, n, sigs, now, killswitch, lastLoss, owed, gpos>>
        /\ pc' = "record" \/ rec' = rec
    BY <1>4 DEF TakeVerdict, FetchAndReconcile, WriteRecord
  <2> QED BY <1>0, <1>r, <2>1 DEF SelfTypes
<1>5. CASE LegStep
  BY <1>0, <1>5, SelfKept DEF LegStep
<1>6. CASE Gather
  <2>1. /\ UNCHANGED <<settings, n, sigs, now, killswitch, lastLoss, gpos>>
        /\ pc' = "record" /\ owed' \in {now, owed}
    BY <1>6 DEF Gather, WriteRecord
  <2> QED BY <1>0, <1>r, <2>1 DEF SelfTypes
<1>7. CASE Xadd \/ Return \/ Resubscribe
  <2>1. /\ UNCHANGED <<settings, n, sigs, now, killswitch, lastLoss, owed, gpos>>
        /\ rec' \in {rec, NoRec}
    BY <1>7 DEF Xadd, Return, Resubscribe, Guard!Return, Guard!Forget,
                Guard!envVars
  <2> QED BY <1>0, <2>1 DEF SelfTypes
<1>8. CASE RecordLoss
  <2>1. /\ UNCHANGED <<settings, n, sigs, rec, now, killswitch, gpos>>
        /\ lastLoss' \in {now, lastLoss} /\ owed' \in {owed, lastLoss}
    BY <1>8 DEF RecordLoss, Guard!RecordLoss
  <2> QED BY <1>0, <2>1 DEF SelfTypes
<1>9. CASE Crash
  <2>1. /\ UNCHANGED <<settings, n, sigs, now, killswitch, lastLoss, gpos>>
        /\ rec' = NoRec /\ owed' = lastLoss
    BY <1>9 DEF Crash, Guard!Cancel, Guard!Forget, Guard!envVars
  <2> QED BY <1>0, <2>1 DEF SelfTypes
<1>10. CASE Restart
  BY <1>0, <1>10 DEF Restart, SelfTypes
<1>11. CASE OperatorFlips
  BY <1>0, <1>11 DEF OperatorFlips, Guard!TripKillswitch,
                     Guard!ResetKillswitch, SelfTypes
<1>12. CASE Tick
  BY <1>0, <1>12 DEF Tick, Guard!Tick, SelfTypes
<1>13. ASSUME NEW i \in Ids, Chain(i) PROVE SelfTypes'
  BY <1>0, <1>13, SelfKept DEF Chain
<1>14. ASSUME NEW i \in Ids, NEW t \in Gmx!TxStates, Keeper(i, t)
       PROVE  SelfTypes'
  <2>1. sigs[i].market \in GmxMarkets
    BY <1>14 DEF Keeper, Gmx!Keeper, TypeInv, MarketsKnown
  <2>2. GmxIsLong(sigs[i].direction) \in BOOLEAN
    BY DEF GmxIsLong
  <2>3. gpos' \subseteq GmxMarkets \X BOOLEAN
    BY <1>0, <1>14, <2>1, <2>2 DEF Keeper, SelfTypes
  <2> QED BY <1>0, <1>14, <2>3 DEF Keeper, SelfTypes
<1>15. CASE OperatorCloses
  <2>1. gpos' \subseteq gpos
    BY <1>15 DEF OperatorCloses
  <2> QED BY <1>0, <1>15, <2>1 DEF OperatorCloses, SelfTypes
<1> QED
  BY <1>1, <1>2, <1>3, <1>4, <1>5, <1>6, <1>7, <1>8, <1>9, <1>10, <1>11, <1>12,
     <1>13, <1>14, <1>15 DEF Next, Step, TaskStep

\* So do the legs.
LEMMA LegTypesStep ==
  ASSUME TrailInv, TypeInv, [Next]_vars
  PROVE  Gmx!TypeOK' /\ BinTyped'
<1>0. Gmx!TypeOK /\ BinTyped
  BY DEF TypeInv
<1>1. CASE Restart
  <2>1. settings' \in SettingsSpace /\ UNCHANGED <<gmxVars, binVars>>
    BY <1>1 DEF Restart
  <2>2. /\ settings'.dry_run \in BOOLEAN /\ settings'.live_gmx \in BOOLEAN
        /\ settings'.live_binance \in BOOLEAN /\ settings'.has_key \in BOOLEAN
    BY <2>1, SettingTypes
  <2>3. Gmx!TypeOK'
    BY <1>0, <2>1, <2>2 DEF Gmx!TypeOK, gmxVars
  <2>4. BinTyped'
    BY <1>0, <2>1, <2>2 DEF BinTyped, Bin!TypeOK, binVars
  <2> QED BY <2>3, <2>4
<1>2. CASE \/ UNCHANGED <<settings, gmxVars, binVars>>
           \/ Gather \/ Crash \/ LegStep \/ OperatorCloses
           \/ \E i \in Ids : Chain(i)
           \/ \E i \in Ids, t \in Gmx!TxStates : Keeper(i, t)
  <2>1. settings' = settings
    BY <1>2 DEF Gather, Crash, LegStep, OperatorCloses, Chain, Keeper, selfVars
  <2>2. \/ gmxVars' = gmxVars \/ Gmx!Leave
        \/ \E valid, ours : Gmx!LegStep(valid, ours)
        \/ \E i \in Ids : Gmx!Chain(i)
        \/ \E i \in Ids, t \in Gmx!TxStates : Gmx!Keeper(i, t)
    BY <1>2 DEF Gather, Crash, LegStep, OperatorCloses, Chain, Keeper
  <2>3. \/ binVars' = binVars \/ Bin!Leave \/ Bin!LegStep
        \/ \E m \in RawMarkets : Bin!Close(m)
    BY <1>2 DEF Gather, Crash, LegStep, OperatorCloses, Chain, Keeper
  <2> QED BY <1>0, <2>1, <2>2, <2>3, GmxTypes, BinTypes
<1>3. CASE FetchAndReconcile
  <2>1. /\ settings' = settings /\ pc = "positions"
        /\ \/ UNCHANGED <<gmxVars, binVars>>
           \/ Gmx!Start /\ Bin!Start(sigs[n].market,
                                     BinanceSide(sigs[n].direction),
                                     sigs[n].notional.usd)
    BY <1>3 DEF FetchAndReconcile
  <2>2. sigs[n] \in Signals
    BY <2>1, ExecutorAssumption
    DEF TrailInv, PlaceInv, InHand, Ids, TypeInv, SelfTypes
  <2> QED BY <1>0, <2>1, <2>2, GmxTypes, BinTypes
<1>4. ASSUME \/ UNCHANGED vars
             \/ \E s \in Signals : TakeSignal(s)
             \/ GuardStep \/ TakeVerdict \/ Xadd \/ RecordLoss \/ Return
             \/ Resubscribe \/ OperatorFlips \/ Tick
      PROVE  UNCHANGED <<settings, gmxVars, binVars>>
  BY <1>4 DEF vars, selfVars, TakeSignal, GuardStep, TakeVerdict, Xadd,
              RecordLoss, Return, Resubscribe, OperatorFlips, Tick
<1> QED BY <1>1, <1>2, <1>3, <1>4 DEF Next, Step, TaskStep

\* A transaction is only ever sent for a market the reader knows.
LEMMA MarketsStep ==
  ASSUME TrailInv, SentInv, SelfTypes, MarketsKnown, [Next]_vars
  PROVE  MarketsKnown'
<1>n. pc \in InHand => n \in Ids
  BY ExecutorAssumption DEF TrailInv, PlaceInv, InHand, Ids
<1>g. gtx \in [Ids -> Gmx!TxStates]
  BY DEF SentInv
<1> USE DEF selfVars, gmxVars
<1>1. ASSUME NEW s \in Signals, TakeSignal(s) PROVE MarketsKnown'
  <2>1. /\ n \in Nat /\ n' = n + 1 /\ n' \in Ids /\ gtx' = gtx
        /\ pc' \in {"guard", "raised"} /\ sigs' = [sigs EXCEPT ![n'] = s]
    BY <1>1, ExecutorAssumption DEF TakeSignal, TrailInv, PlaceInv, Ids
  <2>2. gtx[n'] = "none"
    BY <2>1 DEF SentInv, Unsent
  <2>3. \A i \in Ids \ {n'} : sigs'[i] = sigs[i]
    BY <2>1 DEF SelfTypes
  <2> QED BY <2>1, <2>2, <2>3 DEF MarketsKnown
<1>2. ASSUME UNCHANGED <<n, sigs>>,
             \A i \in Ids : gtx'[i] # "none" => gtx[i] # "none",
             pc' \in {"positions", "legs"} =>
                sigs[n].market \in GmxMarkets
      PROVE  MarketsKnown'
  BY <1>2 DEF MarketsKnown
<1>3. CASE TakeVerdict
  <2>1. /\ UNCHANGED <<n, sigs, gtx>>
        /\ pc' = "positions" => Objection(sigs[n]) = "none"
        /\ pc' \in {"positions", "record"}
    BY <1>3 DEF TakeVerdict, WriteRecord
  <2>2. Objection(sigs[n]) = "none" => sigs[n].market \in GmxMarkets
    BY DEF Objection
  <2> QED BY <1>2, <2>1, <2>2
<1>4. CASE FetchAndReconcile
  <2>1. UNCHANGED <<n, sigs, gtx>> /\ pc = "positions"
    BY <1>4 DEF FetchAndReconcile, Gmx!Start
  <2> QED BY <1>2, <2>1 DEF MarketsKnown
<1>5. CASE LegStep
  <2>1. /\ UNCHANGED <<n, sigs, pc>> /\ pc = "legs" /\ n \in Ids
        /\ sigs[n].market \in GmxMarkets
    BY <1>5, <1>n DEF LegStep, InHand, MarketsKnown
  <2>2. gtx' = gtx \/ gtx' = [gtx EXCEPT ![n] = "mempool"]
    BY <1>5 DEF LegStep, Gmx!LegStep, Gmx!FetchNonce, Gmx!FetchGasPrice,
                Gmx!Simulate, Gmx!Send, Gmx!HearSend, Gmx!PollReceipt
  <2>3. \A i \in Ids \ {n} : gtx'[i] = gtx[i]
    BY <1>g, <2>2
  <2> QED BY <2>1, <2>3 DEF MarketsKnown
<1>6. CASE \/ Gather \/ Xadd \/ RecordLoss \/ Return \/ Resubscribe \/ Crash
           \/ Restart
  <2>1. UNCHANGED <<n, sigs, gtx>> /\ pc' \notin {"positions", "legs"}
    BY <1>6 DEF Gather, WriteRecord, Xadd, RecordLoss, Return, Resubscribe,
                Crash, Restart, Gmx!Leave
  <2> QED BY <1>2, <2>1
<1>7. CASE UNCHANGED vars \/ GuardStep \/ OperatorFlips \/ Tick \/ OperatorCloses
  <2>1. UNCHANGED <<n, sigs, gtx, pc>>
    BY <1>7 DEF vars, GuardStep, OperatorFlips, Tick, OperatorCloses
  <2> QED BY <1>2, <2>1 DEF MarketsKnown
<1>8. ASSUME NEW i \in Ids, Chain(i) \/ \E t \in Gmx!TxStates : Keeper(i, t)
      PROVE  MarketsKnown'
  <2>1. /\ UNCHANGED <<n, sigs, pc>> /\ gtx[i] # "none"
        /\ \E t : gtx' = [gtx EXCEPT ![i] = t]
    BY <1>8 DEF Chain, Keeper, Gmx!Chain, Gmx!Keeper
  <2>2. \A j \in Ids : gtx'[j] # "none" => gtx[j] # "none"
    BY <1>g, <2>1
  <2> QED BY <1>2, <2>1, <2>2 DEF MarketsKnown
<1> QED
  BY <1>1, <1>3, <1>4, <1>5, <1>6, <1>7, <1>8 DEF Next, Step, TaskStep

-----------------------------------------------------------------------------
(* The executor as a client of its guard: what its steps do to the guard's *)
(* variables, the counts of open positions among them, is a step of the    *)
(* guard's specification or nothing.                                       *)

\* The check runs while a signal is in hand, and its reasons stand from its
\* start.
Together ==
    /\ stage = "idle" <=> pc \in Looping \cup {"down"}
    /\ pc \notin Looping \cup {"down", "guard"} => stage = "done"

StandInv ==
    /\ Together
    /\ stage = "idle" => standing = {}
    /\ stage # "idle" => standing \subseteq Guard!Holding

ClientInv == TrailInv /\ SentInv /\ TypeInv /\ StandInv

LEMMA StandInit == Init => StandInv
  BY DEF Init, StandInv, Together

LEMMA StandStep == StandInv /\ [Next]_vars => StandInv'
<1> SUFFICES ASSUME StandInv, [Next]_vars PROVE StandInv'
  OBVIOUS
<1> USE DEF guardVars, checkVars, redisVars
<1>1. CASE UNCHANGED vars
  <2>1. /\ UNCHANGED <<pc, stage, standing, gpos, bpos>>
        /\ UNCHANGED redisVars
    BY <1>1 DEF vars, selfVars, binVars
  <2>2. Guard!Holding' = Guard!Holding
    BY <2>1 DEF Guard!Holding, Guard!CoolingDown, Guard!CooldownRemaining
  <2> QED BY <2>1, <2>2 DEF StandInv, Together
<1>2. CASE Next
  <2>1. /\ stage' = "idle" => standing' = {}
        /\ stage' # "idle" => standing' \subseteq Guard!Holding'
    BY <1>2 DEF Next, Guard!Observe
  <2>2. Together'
    <3> USE DEF StandInv, Together
    <3>1. ASSUME NEW s \in Signals, TakeSignal(s) PROVE Together'
      BY <3>1 DEF TakeSignal, Guard!Begin
    <3>2. CASE GuardStep
      BY <3>2 DEF GuardStep, selfVars, Guard!CheckStep, Guard!ReadKillswitch,
                  Guard!ReadDailyPnl, Guard!CountGmx, Guard!CountBinance,
                  Guard!ReadCooldown, Guard!LogDenial, Guard!Deny, Guard!PassTo
    <3>3. CASE TakeVerdict \/ FetchAndReconcile \/ LegStep \/ Gather \/ Xadd
      BY <3>3 DEF TakeVerdict, FetchAndReconcile, LegStep, Gather, Xadd,
                  WriteRecord, selfVars
    <3>4. CASE RecordLoss
      BY <3>4 DEF RecordLoss, Guard!RecordLoss, Guard!checkVars
    <3>5. CASE Return \/ Resubscribe \/ Crash \/ Restart
      BY <3>5 DEF Return, Resubscribe, Crash, Restart, Guard!Return,
                  Guard!Cancel, Guard!Forget
    <3>6. CASE OperatorFlips \/ Tick
      BY <3>6 DEF OperatorFlips, Tick, selfVars, Guard!TripKillswitch,
                  Guard!ResetKillswitch, Guard!Tick, Guard!checkVars
    <3>7. CASE \/ \E i \in Ids : Chain(i)
               \/ \E i \in Ids, t \in Gmx!TxStates : Keeper(i, t)
               \/ OperatorCloses
      BY <3>7 DEF Chain, Keeper, OperatorCloses, selfVars
    <3> QED BY <1>2, <3>1, <3>2, <3>3, <3>4, <3>5, <3>6, <3>7
            DEF Next, Step, TaskStep
  <2> QED BY <2>1, <2>2 DEF StandInv
<1> QED BY <1>1, <1>2

\* What the guard sees of the world, but for the positions.
seenVars == <<guardVars, settings.armed>>

\* Where the guard's variables rest, so do the reasons that stand.
LEMMA GuardRests ==
  ASSUME StandInv, Guard!Observe, UNCHANGED seenVars,
         Cardinality(gpos)' = Cardinality(gpos),
         Cardinality(OpenAtBinance)' = Cardinality(OpenAtBinance)
  PROVE  UNCHANGED Guard!vars
<1>1. Guard!Holding' = Guard!Holding
  BY DEF Guard!Holding, Guard!CoolingDown, Guard!CooldownRemaining, seenVars,
         guardVars, redisVars, checkVars, OpenAtBinance
<1>2. standing' = standing
  BY <1>1 DEF Guard!Observe, StandInv, seenVars, guardVars, checkVars
<1> QED
  BY <1>2 DEF Guard!vars, Guard!envVars, Guard!checkVars, seenVars, guardVars,
              redisVars, checkVars, OpenAtBinance

\* One element more or less.
LEMMA CountMoves ==
  ASSUME NEW S, IsFiniteSet(S), NEW x, NEW T \in {S, S \cup {x}, S \ {x}}
  PROVE  Cardinality(T) \in {Cardinality(S), Cardinality(S) - 1, Cardinality(S) + 1}
  BY FS_AddElement, FS_RemoveElement

\* A position opens or closes on one of the venues.
LEMMA PositionStep ==
  ASSUME StandInv, Guard!Observe, UNCHANGED seenVars,
         gpos \subseteq GmxMarkets \X BOOLEAN,
         gpos' \subseteq GmxMarkets \X BOOLEAN, NEW x,
         \/ /\ gpos' \in {gpos, gpos \cup {x}, gpos \ {x}}
            /\ OpenAtBinance' = OpenAtBinance
         \/ /\ OpenAtBinance' \in {OpenAtBinance, OpenAtBinance \cup {x},
                                   OpenAtBinance \ {x}}
            /\ gpos' = gpos
  PROVE  [Guard!Next]_(Guard!vars)
<1> DEFINE open == Cardinality(OpenAtBinance)
           held == Cardinality(gpos)
<1>1. OpenAtBinance \subseteq RawMarkets /\ OpenAtBinance' \subseteq RawMarkets
  BY DEF OpenAtBinance
<1>2. IsFiniteSet(gpos) /\ IsFiniteSet(OpenAtBinance)
  BY <1>1, OpenAreFinite
<1>3. /\ held' \in 0 .. 2 * Cardinality(RawMarkets)
      /\ open' \in 0 .. 2 * Cardinality(RawMarkets)
  BY <1>1, OpenAreFinite
<1>4. \/ held' \in {held, held - 1, held + 1} /\ open' = open
      \/ open' \in {open, open - 1, open + 1} /\ held' = held
  BY <1>2, CountMoves
<1>5. CASE held' = held /\ open' = open
  BY <1>5, GuardRests
<1>6. CASE ~(held' = held /\ open' = open)
  <2>1. Guard!PositionMoves
    BY <1>3, <1>4, <1>6
    DEF Guard!PositionMoves, Guard!checkVars, seenVars, guardVars, redisVars,
        checkVars, OpenAtBinance
  <2> QED BY <2>1 DEF Guard!Next, Guard!Step
<1> QED BY <1>5, <1>6

\* The market of a Binance order, or of a closed position, is the only one
\* whose balance moves.
LEMMA OneMarket ==
  ASSUME NEW m, bpos \in [RawMarkets -> Int], DOMAIN bpos' = RawMarkets,
         \A k \in RawMarkets : k # m => bpos'[k] = bpos[k]
  PROVE  OpenAtBinance' \in {OpenAtBinance, OpenAtBinance \cup {m},
                             OpenAtBinance \ {m}}
<1>1. CASE m \in RawMarkets /\ bpos'[m] # 0
  <2>1. OpenAtBinance' = OpenAtBinance \cup {m}
    BY <1>1 DEF OpenAtBinance
  <2> QED BY <2>1
<1>2. CASE m \in RawMarkets /\ bpos'[m] = 0
  <2>1. OpenAtBinance' = OpenAtBinance \ {m}
    BY <1>2 DEF OpenAtBinance
  <2> QED BY <2>1
<1>3. CASE m \notin RawMarkets
  <2>1. OpenAtBinance' = OpenAtBinance
    BY <1>3 DEF OpenAtBinance
  <2> QED BY <2>1
<1> QED BY <1>1, <1>2, <1>3

LEMMA GuardClient ==
  ASSUME TrailInv, TypeInv, SelfTypes', StandInv, [Next]_vars
  PROVE  [Guard!Next]_(Guard!vars)
<1> USE DEF seenVars, selfVars
<1>g. gpos \subseteq GmxMarkets \X BOOLEAN /\ gpos' \subseteq GmxMarkets \X BOOLEAN
  BY DEF TypeInv, SelfTypes
<1>b. bpos \in [RawMarkets -> Int]
  BY DEF TypeInv, BinTyped, Bin!TypeOK
<1>1. CASE UNCHANGED vars
  BY <1>1 DEF vars, guardVars, redisVars, checkVars, binVars, Guard!vars,
              Guard!envVars, Guard!checkVars
<1> SUFFICES ASSUME Step, Guard!Observe PROVE [Guard!Next]_(Guard!vars)
  BY <1>1 DEF Next
<1>r. ASSUME UNCHANGED <<seenVars, gpos, bpos>> PROVE [Guard!Next]_(Guard!vars)
  BY <1>r, GuardRests DEF OpenAtBinance
<1>s. ASSUME Guard!Step PROVE [Guard!Next]_(Guard!vars)
  BY <1>s DEF Guard!Next
<1>2. ASSUME NEW s \in Signals, TakeSignal(s) PROVE [Guard!Next]_(Guard!vars)
  <2>1. CASE s.notional.kind = "unreadable"
    BY <1>2, <1>r, <2>1 DEF TakeSignal, binVars
  <2>2. CASE s.notional.kind # "unreadable"
    <3>1. Guard!Begin(s.market, s.notional)
      BY <1>2, <2>2 DEF TakeSignal
    <3>2. /\ s.market \in RawMarkets
          /\ s.notional \in {x.notional : x \in {t \in Signals : t.notional.kind # "unreadable"}}
      BY <2>2, SignalTypes
    <3> QED BY <1>s, <3>1, <3>2 DEF Guard!Step
  <2> QED BY <2>1, <2>2
<1>3. CASE GuardStep
  BY <1>3, <1>s DEF GuardStep, Guard!Step
<1>4. CASE TakeVerdict \/ FetchAndReconcile \/ Gather \/ Xadd \/ Resubscribe
  BY <1>4, <1>r
  DEF TakeVerdict, FetchAndReconcile, Gather, Xadd, Resubscribe, binVars,
      Bin!Start, Bin!Leave, Bin!venueVars
<1>5. CASE LegStep
  <2>1. UNCHANGED <<seenVars, gpos>>
    BY <1>5 DEF LegStep
  <2>2. CASE bpos' = bpos
    BY <1>r, <2>1, <2>2
  <2>3. CASE bpos' = [bpos EXCEPT ![bjob.market] = bpos[bjob.market] + Bin!Signed(bqty)]
    <3>1. OpenAtBinance' \in {OpenAtBinance, OpenAtBinance \cup {bjob.market},
                              OpenAtBinance \ {bjob.market}}
      BY <1>b, <2>3, OneMarket
    <3> QED BY <1>g, <2>1, <3>1, PositionStep
  <2> QED
    BY <1>5, <2>2, <2>3
    DEF LegStep, binVars, Bin!LegStep, Bin!FetchMark, Bin!FetchExchangeInfo,
        Bin!CheckPositionMode, Bin!Post, Bin!ReadAnswer, Bin!venueVars
<1>6. CASE RecordLoss
  <2>1. CASE Guard!RecordLoss
    BY <1>s, <2>1 DEF Guard!Step
  <2>2. CASE UNCHANGED guardVars
    BY <1>6, <1>r, <2>2 DEF RecordLoss, binVars
  <2> QED BY <1>6, <2>1, <2>2 DEF RecordLoss
<1>7. CASE Return
  BY <1>7, <1>s DEF Return, Guard!Step
<1>8. CASE Crash
  <2>1. CASE stage = "idle"
    BY <1>8, <1>r, <2>1 DEF Crash, Bin!Leave, Bin!venueVars
  <2>2. CASE stage # "idle"
    BY <1>8, <1>s, <2>2 DEF Crash, Guard!Step
  <2> QED BY <2>1, <2>2
<1>9. CASE Restart
  <2>1. stage = "idle"
    BY <1>9 DEF Restart, StandInv, Together
  <2>2. settings'.armed \in {s.armed : s \in SettingsSpace}
    BY <1>9 DEF Restart
  <2>3. Guard!Reconfigure
    BY <1>9, <2>1, <2>2
    DEF Restart, Guard!Reconfigure, Guard!checkVars, guardVars, redisVars,
        checkVars, binVars
  <2> QED BY <1>s, <2>3 DEF Guard!Step
<1>10. CASE OperatorFlips \/ Tick
  BY <1>10, <1>s DEF OperatorFlips, Tick, Guard!Step
<1>11. ASSUME NEW i \in Ids, Chain(i) PROVE [Guard!Next]_(Guard!vars)
  BY <1>11, <1>r DEF Chain, binVars
<1>12. ASSUME NEW i \in Ids, NEW t \in Gmx!TxStates, Keeper(i, t)
       PROVE  [Guard!Next]_(Guard!vars)
  <2> DEFINE opened == <<sigs[i].market, GmxIsLong(sigs[i].direction)>>
  <2>1. UNCHANGED seenVars /\ OpenAtBinance' = OpenAtBinance
    BY <1>12 DEF Keeper, binVars, OpenAtBinance
  <2>2. gpos' \in {gpos, gpos \cup {opened}}
    BY <1>12 DEF Keeper
  <2> QED BY <1>g, <2>1, <2>2, PositionStep
<1>13. CASE OperatorCloses
  <2>1. UNCHANGED seenVars
    BY <1>13 DEF OperatorCloses
  <2>2. ASSUME NEW p \in gpos, gpos' = gpos \ {p}, UNCHANGED binVars
        PROVE  [Guard!Next]_(Guard!vars)
    <3>1. OpenAtBinance' = OpenAtBinance
      BY <2>2 DEF binVars, OpenAtBinance
    <3> QED BY <1>g, <2>1, <2>2, <3>1, PositionStep
  <2>3. ASSUME NEW m \in RawMarkets, Bin!Close(m), UNCHANGED gpos
        PROVE  [Guard!Next]_(Guard!vars)
    <3>1. bpos' = [bpos EXCEPT ![m] = 0]
      BY <2>3 DEF Bin!Close
    <3>2. OpenAtBinance' \in {OpenAtBinance, OpenAtBinance \cup {m},
                              OpenAtBinance \ {m}}
      BY <1>b, <3>1, OneMarket
    <3> QED BY <1>g, <2>1, <2>3, <3>2, PositionStep
  <2> QED BY <1>13, <2>2, <2>3 DEF OperatorCloses
<1> QED
  BY <1>2, <1>3, <1>4, <1>5, <1>6, <1>7, <1>8, <1>9, <1>10, <1>11, <1>12, <1>13
  DEF Step, TaskStep

LEMMA GuardInit == Init => Guard!Init
<1> SUFFICES ASSUME Init PROVE Guard!Init
  OBVIOUS
<1>1. Cardinality(gpos) = 0
  BY FS_EmptySet DEF Init
<1>2. OpenAtBinance = {}
  BY DEF Init, Bin!LegInit, OpenAtBinance
<1>3. Cardinality({m \in RawMarkets : bpos[m] # 0}) = 0
  BY <1>2, FS_EmptySet DEF OpenAtBinance
<1>4. settings.armed \in {s.armed : s \in SettingsSpace}
  BY DEF Init
<1> QED BY <1>1, <1>3, <1>4 DEF Init, Guard!Init

\* The variables of the check keep their types in every step of the guard.
LEMMA CheckTypesStep ==
  ASSUME TypeInv, [Guard!Next]_(Guard!vars)
  PROVE  CheckTypes'
<1> DEFINE kept == /\ stage' \in Guard!Stages
                   /\ request' \in Guard!Request \cup {Guard!NoRequest}
                   /\ gmxN' \in Nat
                   /\ gate' \in Guard!Gates
                   /\ blind' \subseteq Guard!Reasons
<1>t. CheckTypes
  BY DEF TypeInv
<1>n. Cardinality(gpos) \in Nat
  <2>1. gpos \subseteq GmxMarkets \X BOOLEAN /\ OpenAtBinance \subseteq RawMarkets
    BY DEF TypeInv, SelfTypes, OpenAtBinance
  <2> QED BY <2>1, OpenAreFinite, FS_CardinalityType
<1>1. CASE UNCHANGED Guard!vars
  BY <1>1, <1>t DEF Guard!vars, Guard!checkVars, CheckTypes
<1> SUFFICES ASSUME Guard!Step, Guard!Observe PROVE CheckTypes'
  BY <1>1 DEF Guard!Next
<1>s. standing' \subseteq Guard!Reasons
  <2>1. standing \subseteq Guard!Reasons
    BY <1>t DEF CheckTypes
  <2> QED BY <2>1 DEF Guard!Observe, Guard!Holding
<1>2. kept
  <2> USE <1>t DEF CheckTypes, Guard!Stages, Guard!Gates, Guard!Deny, Guard!PassTo
  <2>1. ASSUME NEW m \in RawMarkets,
               NEW x \in {s.notional : s \in {t \in Signals : t.notional.kind # "unreadable"}},
               Guard!Begin(m, x)
        PROVE  kept
    BY <2>1 DEF Guard!Begin, Guard!Request
  <2>2. CASE Guard!ReadKillswitch
    BY <2>2 DEF Guard!ReadKillswitch, Guard!Missed, Guard!Reasons
  <2>3. CASE Guard!ReadDailyPnl
    BY <2>3 DEF Guard!ReadDailyPnl, Guard!Missed, Guard!Reasons
  <2>4. CASE Guard!CountGmx
    BY <2>4, <1>n DEF Guard!CountGmx, Guard!Counted, Guard!Missed, Guard!Reasons
  <2>5. CASE Guard!CountBinance
    BY <2>5 DEF Guard!CountBinance, Guard!Missed, Guard!Reasons
  <2>6. CASE Guard!ReadCooldown
    BY <2>6 DEF Guard!ReadCooldown, Guard!Missed, Guard!Reasons
  <2>7. CASE Guard!LogDenial
    BY <2>7 DEF Guard!LogDenial
  <2>8. CASE Guard!Return \/ Guard!Cancel
    BY <2>8 DEF Guard!Return, Guard!Cancel, Guard!Forget
  <2>9. CASE \/ Guard!Reconfigure \/ Guard!TripKillswitch \/ Guard!ResetKillswitch
             \/ Guard!RecordLoss \/ Guard!Tick \/ Guard!PositionMoves
    BY <2>9 DEF Guard!Reconfigure, Guard!TripKillswitch, Guard!ResetKillswitch,
                Guard!RecordLoss, Guard!Tick, Guard!PositionMoves, Guard!checkVars
  <2> QED
    BY <2>1, <2>2, <2>3, <2>4, <2>5, <2>6, <2>7, <2>8, <2>9
    DEF Guard!Step, Guard!CheckStep
<1> QED BY <1>2, <1>s DEF CheckTypes

LEMMA ClientInit == Init => ClientInv
  BY TrailInit, SentInit, TypeInit, StandInit DEF ClientInv

LEMMA ClientStep ==
  ClientInv /\ [Next]_vars => ClientInv' /\ [Guard!Next]_(Guard!vars)
<1> SUFFICES ASSUME ClientInv, [Next]_vars
             PROVE  ClientInv' /\ [Guard!Next]_(Guard!vars)
  OBVIOUS
<1>1. TrailInv /\ SentInv /\ TypeInv /\ StandInv
  BY DEF ClientInv
<1>2. TrailInv' /\ SentInv' /\ StandInv'
  BY <1>1, TrailNext, SentNext, StandStep
<1>3. SelfTypes' /\ Gmx!TypeOK' /\ BinTyped'
  BY <1>1, <1>2, SelfStep, LegTypesStep
<1>4. MarketsKnown'
  BY <1>1, MarketsStep DEF TypeInv
<1>5. [Guard!Next]_(Guard!vars)
  BY <1>1, <1>3, GuardClient
<1>6. CheckTypes'
  BY <1>1, <1>5, CheckTypesStep
<1> QED BY <1>2, <1>3, <1>4, <1>5, <1>6 DEF ClientInv, TypeInv

\* The executor uses its guard as the guard's specification allows: it starts
\* one check at a time with a market and a notional, takes the verdict or
\* abandons the check, and nothing else it, the legs, the venues, the operator
\* or a crash does disturbs the guard's variables in a way the guard's own
\* specification does not foresee.
THEOREM ExecutorUsesGuard == Spec => UsesGuard
<1>1. Spec => []ClientInv
  BY ClientInit, ClientStep, PTL DEF Spec
<1>2. Spec => [][Guard!Next]_(Guard!vars)
  BY <1>1, ClientStep, PTL DEF Spec
<1> QED BY <1>2, GuardInit, PTL DEF Spec, UsesGuard, Guard!Spec

\* Every variable of the executor, of the legs it runs and of the guard it
\* asks keeps its type, for any number of signals and any configuration.
THEOREM ExecutorTypeCorrect == Spec => []TypeOK
<1>1. Spec => []ClientInv
  BY ClientInit, ClientStep, PTL DEF Spec
<1>2. ClientInv => TypeOK
  <2> SUFFICES ASSUME ClientInv PROVE TypeOK
    OBVIOUS
  <2>1. TrailInv /\ TypeInv
    BY DEF ClientInv
  <2>2. /\ settings \in SettingsSpace /\ settings.armed \subseteq RawMarkets
        /\ pc \in Pcs /\ n \in 0..MaxSignals
        /\ sigs \in [Ids -> Signals \cup {NoSig}] /\ rec \in Record \cup {NoRec}
        /\ executions \in Seq(Record) /\ lost \subseteq Ids
        /\ owed \in Nat \cup {Guard!NoLoss}
        /\ gpos \subseteq GmxMarkets \X BOOLEAN
    BY <2>1, SettingTypes, ExecutorAssumption
    DEF TrailInv, PlaceInv, TypeInv, SelfTypes, Pcs, InHand, Settled, Ids
  <2>3. /\ Cardinality(gpos) \in Nat
        /\ Cardinality({m \in RawMarkets : bpos[m] # 0}) \in Nat
    <3>1. {m \in RawMarkets : bpos[m] # 0} \subseteq RawMarkets
      OBVIOUS
    <3> QED BY <2>2, <3>1, OpenAreFinite, FS_CardinalityType
  <2>4. Guard!TypeOK
    BY <2>1, <2>2, <2>3 DEF Guard!TypeOK, TypeInv, SelfTypes, CheckTypes
  <2>5. Gmx!TypeOK /\ Bin!TypeOK
    BY <2>1 DEF TypeInv, BinTyped
  <2> QED BY <2>2, <2>4, <2>5 DEF TypeOK
<1> QED BY <1>1, <1>2, PTL

-----------------------------------------------------------------------------
(* The ladder: what lies behind an order at the very step that places it.  *)

Overlooked(r) == r \in standing => r \in blind

\* What having passed each gate says, as in PilotGuardProofs, here with the
\* gates that compare the signal with the settings.  PnL is always 0.
GateInv ==
    /\ stage \notin {"log", "done"} => gate = "none"
    /\ stage = "log" => gate # "none"
    /\ stage \in {"daily_pnl", "gmx", "binance", "cooldown"} \/ Guard!Allowed =>
          /\ "killswitch" \notin standing
          /\ Strip[request.market] \in settings.armed
          /\ ~Guard!OverCap(request.notional)
    /\ stage = "binance" => Overlooked("gmx_full") \/ gmxN >= MaxConcurrent
    /\ stage = "cooldown" \/ Guard!Allowed =>
          Overlooked("gmx_full") /\ Overlooked("binance_full")
    /\ Guard!Allowed => Overlooked("cooldown")

\* The check is about the signal in hand, and only a verdict in its favour and
\* an order of some size lead to a venue.
VerdictInv ==
    /\ stage # "idle" => /\ request.market = sigs[n].market
                         /\ request.notional = sigs[n].notional
                         /\ request.notional.kind # "unreadable"
    /\ pc \in {"positions", "legs"} => gate = "none" /\ sigs[n].notional.kind = "num"
    /\ gstage = "send" => Encodable(sigs[n])
    /\ bstage \in {"mark", "exchange_info", "position_mode", "post"} =>
          bjob.usd = sigs[n].notional.usd
    /\ bstage \in {"position_mode", "post"} => bjob.usd > 0

\* Except when a check begins, a reason that stands stood before and still
\* holds.
LEMMA ReasonsStand ==
  ASSUME Guard!Observe, ~(stage = "idle" /\ stage' # "idle")
  PROVE  /\ standing' \subseteq standing
         /\ "killswitch" \in standing' => killswitch'
         /\ "gmx_full" \in standing' => Cardinality(gpos)' >= MaxConcurrent
         /\ "binance_full" \in standing' =>
               Cardinality({m \in RawMarkets : bpos[m] # 0})' >= MaxConcurrent
         /\ "cooldown" \in standing' => Guard!CoolingDown'
  BY DEF Guard!Observe, Guard!Holding, Guard!Reasons

LEMMA GateInit == Init => GateInv /\ VerdictInv
  BY DEF Init, GateInv, VerdictInv, Guard!Allowed, Gmx!LegInit, Bin!LegInit

LEMMA GateStep ==
  ASSUME TypeInv, GateInv, [Guard!Next]_(Guard!vars),
         stage # "idle" => settings' = settings
  PROVE  GateInv'
<1>t. CheckTypes
  BY DEF TypeInv
<1>n. /\ Cardinality(gpos) \in Nat /\ MaxConcurrent \in Nat
      /\ Cardinality({m \in RawMarkets : bpos[m] # 0}) \in Nat
  <2>1. /\ gpos \subseteq GmxMarkets \X BOOLEAN
        /\ {m \in RawMarkets : bpos[m] # 0} \subseteq RawMarkets
    BY DEF TypeInv, SelfTypes
  <2> QED BY <2>1, OpenAreFinite, FS_CardinalityType, ConfigAssumption
<1> USE DEF GateInv, Overlooked, Guard!Allowed
<1>1. CASE UNCHANGED Guard!vars
  <2>1. UNCHANGED <<stage, gate, request, standing, blind, gmxN, settings.armed>>
    BY <1>1 DEF Guard!vars, Guard!envVars, Guard!checkVars
  <2> QED BY <2>1 DEF Guard!OverCap
<1> SUFFICES ASSUME Guard!Step, Guard!Observe PROVE GateInv'
  BY <1>1 DEF Guard!Next
<1> USE DEF Guard!Deny, Guard!PassTo
<1>2. ASSUME NEW m \in RawMarkets,
             NEW x \in {s.notional : s \in {t \in Signals : t.notional.kind # "unreadable"}},
             Guard!Begin(m, x)
      PROVE  GateInv'
  BY <1>2 DEF Guard!Begin
<1>3. CASE Guard!ReadKillswitch
  <2>1. /\ standing' \subseteq standing /\ settings' = settings
        /\ "killswitch" \in standing' => killswitch'
    BY <1>3, ReasonsStand DEF Guard!ReadKillswitch
  <2>2. /\ request' = request /\ killswitch' = killswitch
        /\ \/ gate' # "none" /\ stage' = "log"
           \/ /\ gate' = gate /\ stage' = "daily_pnl" /\ ~killswitch
              /\ Strip[request.market] \in settings.armed
              /\ ~Guard!OverCap(request.notional)
    BY <1>3 DEF Guard!ReadKillswitch, Guard!KillswitchIsSet, Guard!envVars
  <2> QED BY <1>3, <2>1, <2>2 DEF Guard!ReadKillswitch, Guard!OverCap
<1>4. CASE Guard!ReadDailyPnl
  <2>1. standing' \subseteq standing /\ settings' = settings
    BY <1>4, ReasonsStand DEF Guard!ReadDailyPnl
  <2> QED
    BY <1>4, <2>1
    DEF Guard!ReadDailyPnl, Guard!Missed, Guard!OverCap
<1>5. CASE Guard!CountGmx
  <2>1. /\ standing' \subseteq standing /\ settings' = settings
        /\ "gmx_full" \in standing' => Cardinality(gpos)' >= MaxConcurrent
    BY <1>5, ReasonsStand DEF Guard!CountGmx
  <2>2. Cardinality(gpos)' = Cardinality(gpos)
    BY <1>5 DEF Guard!CountGmx, Guard!envVars
  <2>3. Overlooked("gmx_full")' \/ gmxN' >= MaxConcurrent
    BY <1>5, <2>1, <2>2 DEF Guard!CountGmx, Guard!Counted, Guard!Missed, Guard!Answer
  <2> QED BY <1>5, <2>1, <2>3 DEF Guard!CountGmx, Guard!OverCap
<1>6. CASE Guard!CountBinance
  <2> DEFINE open == Cardinality({m \in RawMarkets : bpos[m] # 0})
  <2>1. /\ standing' \subseteq standing /\ settings' = settings
        /\ "binance_full" \in standing' => open' >= MaxConcurrent
    BY <1>6, ReasonsStand DEF Guard!CountBinance
  <2>2. open' = open /\ request' = request /\ stage = "binance"
    BY <1>6 DEF Guard!CountBinance, Guard!envVars
  <2>3. PICK ok \in Guard!Answer("binance_full") :
           /\ blind' = IF ok THEN blind ELSE blind \cup {"binance_full"}
           /\ IF gmxN + Guard!Counted(ok, open) >= MaxConcurrent
                THEN gate' = "concurrent" /\ stage' = "log"
                ELSE gate' = gate /\ stage' = "cooldown"
    BY <1>6 DEF Guard!CountBinance, Guard!Missed
  <2>4. CASE stage' = "log"
    BY <2>2, <2>3, <2>4
  <2>5. CASE stage' = "cooldown"
    <3>1. ~(gmxN + Guard!Counted(ok, open) >= MaxConcurrent) /\ gate' = gate
      BY <2>3, <2>5
    <3>2. gmxN \in Nat
      BY <1>t DEF CheckTypes
    <3>3. CASE ok
      <4>1. ~(gmxN + open >= MaxConcurrent) /\ blind' = blind
        BY <2>3, <3>1, <3>3 DEF Guard!Counted
      <4>2. ~(gmxN >= MaxConcurrent) /\ ~(open >= MaxConcurrent)
        BY <1>n, <3>2, <4>1
      <4>3. Overlooked("gmx_full")' /\ Overlooked("binance_full")'
        BY <2>1, <2>2, <4>1, <4>2
      <4> QED BY <2>1, <2>2, <2>5, <3>1, <4>3 DEF Guard!OverCap
    <3>4. CASE ~ok
      <4>1. ~(gmxN >= MaxConcurrent) /\ blind' = blind \cup {"binance_full"}
        BY <1>n, <2>3, <3>1, <3>2, <3>4 DEF Guard!Counted
      <4>2. Overlooked("gmx_full")' /\ Overlooked("binance_full")'
        BY <2>1, <2>2, <4>1
      <4> QED BY <2>1, <2>2, <2>5, <3>1, <4>2 DEF Guard!OverCap
    <3> QED BY <3>3, <3>4
  <2> QED BY <2>3, <2>4, <2>5
<1>7. CASE Guard!ReadCooldown
  <2>1. /\ standing' \subseteq standing /\ settings' = settings
        /\ "cooldown" \in standing' => Guard!CoolingDown'
    BY <1>7, ReasonsStand DEF Guard!ReadCooldown
  <2>2. Guard!CoolingDown' <=> Guard!CoolingDown
    BY <1>7 DEF Guard!ReadCooldown, Guard!envVars, Guard!CoolingDown,
                Guard!CooldownRemaining
  <2>3. /\ request' = request /\ stage = "cooldown" /\ blind \subseteq blind'
        /\ \/ gate' # "none" /\ stage' = "done"
           \/ gate' # "none" /\ stage' = "log"
           \/ /\ gate' = gate /\ stage' = "done"
              /\ Guard!CoolingDown => "cooldown" \in blind'
    BY <1>7 DEF Guard!ReadCooldown, Guard!CooldownActive, Guard!Missed
  <2> QED BY <2>1, <2>2, <2>3 DEF Guard!OverCap
<1>8. CASE Guard!LogDenial
  BY <1>8 DEF Guard!LogDenial
<1>9. CASE Guard!Return \/ Guard!Cancel
  BY <1>9 DEF Guard!Return, Guard!Cancel, Guard!Forget
<1>10. CASE Guard!Reconfigure
  BY <1>10 DEF Guard!Reconfigure, Guard!checkVars
<1>11. CASE \/ Guard!TripKillswitch \/ Guard!ResetKillswitch
            \/ Guard!RecordLoss \/ Guard!Tick \/ Guard!PositionMoves
  <2>1. UNCHANGED <<stage, gate, request, blind, gmxN, settings.armed>>
    BY <1>11 DEF Guard!TripKillswitch, Guard!ResetKillswitch, Guard!RecordLoss,
                 Guard!Tick, Guard!PositionMoves, Guard!checkVars
  <2>2. standing' \subseteq standing
    BY <2>1, ReasonsStand
  <2> QED BY <2>1, <2>2 DEF Guard!OverCap
<1> QED
  BY <1>2, <1>3, <1>4, <1>5, <1>6, <1>7, <1>8, <1>9, <1>10, <1>11
  DEF Guard!Step, Guard!CheckStep

LEMMA SizedOrders ==
  ASSUME NEW usd \in Int, NEW price \in Nat \ {0}, Bin!SizeFor(usd, price) # 0
  PROVE  usd > 0
  BY DEF Bin!SizeFor, Bin!Quantity, Bin!PassesMinNotional

\* The legs are at rest while a signal is not being dispatched.
LEMMA VerdictKept ==
  ASSUME VerdictInv, UNCHANGED <<pc, n, sigs, stage, request, gate, gstage,
                                 bstage, bjob>>
  PROVE  VerdictInv'
  BY DEF VerdictInv, Encodable

LEMMA LegVerdict ==
  ASSUME TypeInv, StandInv, VerdictInv, LegStep
  PROVE  VerdictInv'
<1> USE DEF VerdictInv
<1>1. UNCHANGED <<pc, n, sigs, stage, request, gate>>
  BY DEF LegStep, selfVars, guardVars, checkVars
<1>2. CASE Gmx!LegStep(Encodable(sigs[n]), TRUE) /\ UNCHANGED binVars
  <2>1. gstage' = "send" => gstage = "send" \/ Encodable(sigs[n])
    BY <1>2 DEF Gmx!LegStep, Gmx!FetchNonce, Gmx!FetchGasPrice, Gmx!Simulate,
                Gmx!Send, Gmx!HearSend, Gmx!PollReceipt, Gmx!Finish, Gmx!Proceed
  <2>2. UNCHANGED <<bstage, bjob>>
    BY <1>2 DEF binVars
  <2>3. Encodable(sigs[n])' <=> Encodable(sigs[n])
    BY <1>1 DEF Encodable
  <2> QED BY <1>1, <2>1, <2>2, <2>3
<1>3. CASE Bin!LegStep /\ UNCHANGED gmxVars
  <2>0. bjob' = bjob
    BY <1>3 DEF Bin!LegStep, Bin!FetchMark, Bin!FetchExchangeInfo,
                Bin!CheckPositionMode, Bin!Post, Bin!ReadAnswer
  <2>1. gstage' = gstage /\ (Encodable(sigs[n])' <=> Encodable(sigs[n]))
    BY <1>1, <1>3 DEF Encodable, gmxVars
  <2>2. CASE bstage \in {"mark", "position_mode"} \/ Bin!Post \/ Bin!ReadAnswer
    <3>1. \/ bstage' \in {"done", "ack"}
          \/ bstage = "mark" /\ bstage' = "exchange_info"
          \/ bstage = "position_mode" /\ bstage' = "post"
      BY <1>3, <2>2
      DEF Bin!LegStep, Bin!FetchMark, Bin!FetchExchangeInfo,
          Bin!CheckPositionMode, Bin!Post, Bin!ReadAnswer, Bin!Finish, Bin!Proceed
    <3> QED BY <1>1, <2>0, <2>1, <3>1
  <2>3. ASSUME NEW served \in BOOLEAN, Bin!FetchExchangeInfo(served)
        PROVE  VerdictInv'
    <3>1. bmark \in Nat \ {0} /\ bjob.usd \in Int
      BY <2>3, ExecutorAssumption
      DEF TypeInv, BinTyped, Bin!TypeOK, Bin!FetchExchangeInfo, Bin!Job, Bin!NoJob
    <3>2. bstage' # "done" => bstage' = "position_mode" /\ bstage = "exchange_info"
                              /\ Bin!SizeFor(bjob.usd, bmark) # 0
      BY <2>3 DEF Bin!FetchExchangeInfo, Bin!Gate, Bin!Finish, Bin!Proceed
    <3>3. bstage' # "done" => bjob.usd > 0
      BY <3>1, <3>2, SizedOrders
    <3> QED BY <1>1, <2>0, <2>1, <3>2, <3>3
  <2> QED BY <1>3, <2>2, <2>3 DEF Bin!LegStep, Bin!FetchMark, Bin!CheckPositionMode
<1> QED BY <1>2, <1>3 DEF LegStep

LEMMA VerdictStep ==
  ASSUME TrailInv, SentInv, TypeInv, StandInv, VerdictInv, [Next]_vars
  PROVE  VerdictInv'
<1> USE DEF selfVars, guardVars, checkVars, gmxVars, binVars
<1>i. pc # "legs" => gstage = "idle" /\ bstage = "idle"
  BY DEF SentInv
<1>t. Together
  BY DEF StandInv
<1>1. CASE UNCHANGED vars
  BY <1>1, VerdictKept DEF vars
<1>2. ASSUME NEW s \in Signals, TakeSignal(s) PROVE VerdictInv'
  <2>1. /\ pc = "listen" /\ n \in Nat /\ n' = n + 1 /\ n' \in Ids
        /\ sigs \in [Ids -> Signals \cup {NoSig}]
        /\ sigs' = [sigs EXCEPT ![n + 1] = s]
    BY <1>2, ExecutorAssumption
    DEF TakeSignal, TrailInv, PlaceInv, Ids, TypeInv, SelfTypes
  <2>2. sigs'[n'] = s
    BY <2>1
  <2>3. gstage' = "idle" /\ bstage' = "idle" /\ pc' \in {"guard", "raised"}
    BY <1>2, <1>i, <2>1 DEF TakeSignal
  <2>4. stage' # "idle" => /\ s.notional.kind # "unreadable"
                           /\ request' = [market |-> s.market, notional |-> s.notional]
    BY <1>2, <1>t, <2>1 DEF TakeSignal, Guard!Begin, Together
  <2> QED BY <2>2, <2>3, <2>4 DEF VerdictInv
<1>3. CASE GuardStep
  <2>1. UNCHANGED <<pc, n, sigs, gstage, bstage, bjob, request>> /\ pc = "guard"
        /\ stage # "idle"
    BY <1>3, <1>t DEF GuardStep, Together, Guard!CheckStep, Guard!ReadKillswitch,
                Guard!ReadDailyPnl, Guard!CountGmx, Guard!CountBinance,
                Guard!ReadCooldown, Guard!LogDenial
  <2> QED BY <2>1 DEF VerdictInv, Encodable
<1>4. CASE TakeVerdict
  <2>1. /\ UNCHANGED <<n, sigs, gstage, bstage, bjob, stage, request, gate>>
        /\ stage = "done"
        /\ pc' = "record" \/ (pc' = "positions" /\ Objection(sigs[n]) = "none")
    BY <1>4 DEF TakeVerdict, WriteRecord
  <2>2. sigs[n].notional.kind # "unreadable"
    BY <2>1 DEF VerdictInv
  <2>3. pc' = "positions" => gate = "none" /\ sigs[n].notional.kind # "nan"
    BY <2>1 DEF Objection
  <2>4. pc' = "positions" => sigs[n].notional.kind = "num"
    <3>1. n \in Ids
      BY <1>4, ExecutorAssumption DEF TakeVerdict, TrailInv, PlaceInv, InHand, Ids
    <3>2. sigs[n] \in Signals
      BY <3>1 DEF TypeInv, SelfTypes, TrailInv, PlaceInv, Ids
    <3> QED BY <2>2, <2>3, <3>2, SignalTypes
  <2> QED BY <2>1, <2>3, <2>4 DEF VerdictInv, Encodable
<1>5. CASE FetchAndReconcile
  <2>1. /\ UNCHANGED <<n, sigs, stage, request, gate>> /\ pc = "positions"
        /\ pc' \in {"record", "legs"}
        /\ \/ UNCHANGED <<gstage, bstage, bjob>>
           \/ Gmx!Start /\ Bin!Start(sigs[n].market,
                                     BinanceSide(sigs[n].direction),
                                     sigs[n].notional.usd)
    BY <1>5 DEF FetchAndReconcile, WriteRecord
  <2>2. /\ gstage' \in {"idle", "nonce", "done"}
        /\ \/ bstage' \in {"idle", "done"}
           \/ bstage' = "mark" /\ bjob'.usd = sigs[n].notional.usd
    BY <1>i, <2>1 DEF Gmx!Start, Gmx!Finish, Gmx!Proceed, Bin!Start, Bin!Finish,
                      Bin!Proceed
  <2> QED BY <2>1, <2>2 DEF VerdictInv, Encodable
<1>6. CASE LegStep
  BY <1>6, LegVerdict
<1>7. CASE Gather \/ Crash
  <2>1. /\ gstage' = "idle" /\ bstage' = "idle" /\ pc' \in {"record", "down"}
        /\ UNCHANGED <<n, sigs>>
        /\ stage' = "idle" \/ UNCHANGED <<stage, request>>
    BY <1>7 DEF Gather, Crash, WriteRecord, Gmx!Leave, Bin!Leave, Guard!Cancel,
                Guard!Forget
  <2> QED BY <2>1 DEF VerdictInv
<1>8. CASE Xadd \/ RecordLoss \/ Return \/ Resubscribe \/ Restart
  <2>1. /\ UNCHANGED <<n, sigs, gstage, bstage, bjob>>
        /\ pc' \in Looping \cup {"loss", "return"}
        /\ stage' = "idle" \/ UNCHANGED <<stage, request>>
    BY <1>8 DEF Xadd, RecordLoss, Return, Resubscribe, Restart, Guard!RecordLoss,
                Guard!Return, Guard!Forget, Guard!checkVars
  <2> QED BY <2>1 DEF VerdictInv, Encodable
<1>9. CASE \/ OperatorFlips \/ Tick \/ OperatorCloses
           \/ \E i \in Ids : Chain(i)
           \/ \E i \in Ids, t \in Gmx!TxStates : Keeper(i, t)
  <2>1. UNCHANGED <<pc, n, sigs, stage, request, gate, gstage, bstage, bjob>>
    BY <1>9 DEF OperatorFlips, Tick, OperatorCloses, Chain, Keeper,
                Guard!TripKillswitch, Guard!ResetKillswitch, Guard!Tick,
                Guard!checkVars, Gmx!Chain, Gmx!Keeper, Gmx!glegVars, Bin!Close,
                Bin!blegVars
  <2> QED BY <2>1, VerdictKept
<1> QED
  BY <1>1, <1>2, <1>3, <1>4, <1>5, <1>6, <1>7, <1>8, <1>9 DEF Next, Step, TaskStep

\* A step that sends nothing but the order of the signal being dispatched.
LEMMA Placing ==
  ASSUME TrailInv, SentInv, [Next]_vars, GmxPlaced \/ BinPlaced
  PROVE  /\ LegStep /\ pc = "legs" /\ n \in Ids
         /\ GmxPlaced => gstage = "send"
         /\ BinPlaced => bstage = "post"
<1> USE DEF selfVars, gmxVars, binVars
<1>0. gtx \in [Ids -> Gmx!TxStates]
  BY DEF SentInv
<1>1. UNCHANGED <<gtx, bord>> => FALSE
  BY DEF GmxPlaced, BinPlaced, GmxSent, BinSent
<1>2. ~UNCHANGED vars
  BY <1>1 DEF vars
<1>3. ~\E s \in Signals : TakeSignal(s)
  BY <1>1 DEF TakeSignal
<1>4. ~(GuardStep \/ TakeVerdict \/ FetchAndReconcile \/ Gather \/ Xadd
          \/ RecordLoss \/ Return \/ Resubscribe)
  BY <1>1 DEF GuardStep, TakeVerdict, FetchAndReconcile, Gather, Xadd,
              RecordLoss, Return, Resubscribe, Gmx!Start, Gmx!Leave, Bin!Start,
              Bin!Leave, Bin!venueVars
<1>5. ~(Crash \/ Restart \/ OperatorFlips \/ Tick \/ OperatorCloses)
  BY <1>1 DEF Crash, Restart, OperatorFlips, Tick, OperatorCloses, Gmx!Leave,
              Bin!Leave, Bin!venueVars, Bin!Close
<1>6. ASSUME NEW i \in Ids, Chain(i) \/ \E t \in Gmx!TxStates : Keeper(i, t)
      PROVE  FALSE
  <2>1. /\ bord' = bord /\ gtx[i] # "none"
        /\ \E t : t # "none" /\ gtx' = [gtx EXCEPT ![i] = t]
    BY <1>6 DEF Chain, Keeper, Gmx!Chain, Gmx!Keeper
  <2>2. GmxSent' = GmxSent /\ BinSent' = BinSent
    BY <1>0, <2>1 DEF GmxSent, BinSent
  <2> QED BY <2>2 DEF GmxPlaced, BinPlaced
<1>7. LegStep
  BY <1>2, <1>3, <1>4, <1>5, <1>6 DEF Next, Step, TaskStep
<1>8. pc = "legs" /\ n \in Ids
  BY <1>7, ExecutorAssumption DEF LegStep, TrailInv, PlaceInv, InHand, Ids
<1>9. gtx' = gtx \/ gstage = "send"
  BY <1>7 DEF LegStep, Gmx!LegStep, Gmx!FetchNonce, Gmx!FetchGasPrice,
              Gmx!Simulate, Gmx!Send, Gmx!HearSend, Gmx!PollReceipt
<1>10. bord' = bord \/ bstage = "post"
  BY <1>7 DEF LegStep, Bin!LegStep, Bin!FetchMark, Bin!FetchExchangeInfo,
              Bin!CheckPositionMode, Bin!Post, Bin!ReadAnswer, Bin!venueVars
<1> QED BY <1>7, <1>8, <1>9, <1>10 DEF GmxPlaced, BinPlaced, GmxSent, BinSent

\* A step places no order for a signal other than the one being dispatched.
LEMMA OnlyInHandPlaced ==
  ASSUME TrailInv, SentInv, [Next]_vars,
         NEW i \in Ids, i \notin GmxSent, i \notin BinSent, pc = "legs" => i # n
  PROVE  i \notin GmxSent' /\ i \notin BinSent'
<1>1. CASE ~(GmxPlaced \/ BinPlaced)
  BY <1>1 DEF GmxPlaced, BinPlaced
<1>2. CASE LegStep
  <2>1. i # n /\ gtx[i] = "none" /\ bord[i] = "none"
    BY <1>2 DEF LegStep, GmxSent, BinSent
  <2>2. gtx'[i] = gtx[i]
    BY <1>2, <2>1 DEF LegStep, gmxVars, Gmx!LegStep, Gmx!FetchNonce,
       Gmx!FetchGasPrice, Gmx!Simulate, Gmx!Send, Gmx!HearSend, Gmx!PollReceipt,
       SentInv
  <2>3. bord'[i] = bord[i]
    BY <1>2, <2>1 DEF LegStep, binVars, Bin!LegStep, Bin!FetchMark,
       Bin!FetchExchangeInfo, Bin!CheckPositionMode, Bin!Post, Bin!ReadAnswer,
       Bin!venueVars, SentInv
  <2> QED BY <2>1, <2>2, <2>3 DEF GmxSent, BinSent
<1>3. GmxPlaced \/ BinPlaced => LegStep
  BY Placing
<1> QED BY <1>1, <1>2, <1>3

\* The reasons that can stand here: no PnL is ever booked.
LEMMA StandingKinds ==
  ASSUME StandInv, stage # "idle"
  PROVE  standing \subseteq {"killswitch", "gmx_full", "binance_full", "cooldown"}
<1>1. ~(0 < 0)
  OBVIOUS
<1>2. \A r \in Guard!Holding : r \in Guard!Reasons /\ r # "daily_pnl"
  BY <1>1 DEF Guard!Holding
<1> QED
  BY <1>2 DEF Guard!Reasons, StandInv

LadderInv == ClientInv /\ GateInv /\ VerdictInv

LEMMA LadderNext == LadderInv /\ [Next]_vars => LadderInv'
<1> SUFFICES ASSUME LadderInv, [Next]_vars PROVE LadderInv'
  OBVIOUS
<1>1. ClientInv' /\ [Guard!Next]_(Guard!vars)
  BY ClientStep DEF LadderInv
<1>2. TrailInv /\ SentInv /\ TypeInv /\ StandInv
  BY DEF LadderInv, ClientInv
<1>3. stage # "idle" => settings' = settings
  <2>1. Restart => stage = "idle"
    BY <1>2 DEF Restart, StandInv, Together
  <2>2. Restart \/ settings' = settings
    BY DEF Next, Step, TaskStep, vars, selfVars, TakeSignal, GuardStep,
           TakeVerdict, FetchAndReconcile, LegStep, Gather, Xadd, RecordLoss,
           Return, Resubscribe, Crash, OperatorFlips, Tick, Chain, Keeper,
           OperatorCloses
  <2> QED BY <2>1, <2>2
<1>4. GateInv' /\ VerdictInv'
  BY <1>1, <1>2, <1>3, GateStep, VerdictStep DEF LadderInv
<1> QED BY <1>1, <1>4 DEF LadderInv

LEMMA LadderAtStep == LadderInv /\ [Next]_vars => Ladder
<1> SUFFICES ASSUME LadderInv, [Next]_vars, GmxPlaced \/ BinPlaced
             PROVE  /\ ~settings.dry_run
                    /\ GmxPlaced => settings.live_gmx /\ settings.has_key
                    /\ BinPlaced => settings.live_binance
                    /\ sigs[n].market \in settings.armed
                    /\ sigs[n].notional.usd \in 1..Cap
                    /\ standing \subseteq blind \ {"killswitch"}
  BY DEF Ladder
<1>1. TrailInv /\ SentInv /\ TypeInv /\ StandInv /\ GateInv /\ VerdictInv
  BY DEF LadderInv, ClientInv
<1>2. /\ pc = "legs" /\ n \in Ids
      /\ GmxPlaced => gstage = "send"
      /\ BinPlaced => bstage = "post"
  BY <1>1, Placing
<1>3. /\ ~settings.dry_run
      /\ GmxPlaced => settings.live_gmx /\ settings.has_key
      /\ BinPlaced => settings.live_binance
  BY <1>1, <1>2 DEF SentInv, GmxLegSent, BinLegSent
<1>4. Guard!Allowed /\ stage # "idle"
  BY <1>1, <1>2 DEF StandInv, Together, VerdictInv, Guard!Allowed
<1>5. sigs[n].market \in settings.armed
  <2>1. sigs[n].market \in GmxMarkets
    BY <1>1, <1>2 DEF TypeInv, MarketsKnown
  <2>2. Strip[sigs[n].market] = sigs[n].market
    BY <2>1, ConfigAssumption
  <2> QED BY <1>1, <1>4, <2>2 DEF GateInv, VerdictInv
<1>6. sigs[n].notional.usd \in 1..Cap
  <2>1. sigs[n].notional.usd \in Int
    <3>1. sigs[n] \in Signals
      BY <1>1, <1>2 DEF TypeInv, SelfTypes, TrailInv, PlaceInv, Ids
    <3> QED BY <3>1, SignalTypes
  <2>2. ~(sigs[n].notional.usd > Cap)
    BY <1>1, <1>2, <1>4 DEF GateInv, VerdictInv, Guard!OverCap
  <2>3. sigs[n].notional.usd > 0
    BY <1>1, <1>2 DEF VerdictInv, Encodable
  <2> QED BY <2>1, <2>2, <2>3, ConfigAssumption
<1>7. standing \subseteq blind \ {"killswitch"}
  BY <1>1, <1>4, StandingKinds DEF GateInv, Overlooked
<1> QED BY <1>3, <1>5, <1>6, <1>7

\* The ladder holds for any number of signals, any markets and any settings:
\* no order is placed, on either venue, in a dry run, with the venue's flag
\* off, in a market that is not armed, above the cap, or with a reason to deny
\* that stood from the start of the check to this very step, unless the read
\* that looks for it failed; the killswitch is never overlooked.
THEOREM LadderAlwaysHolds == Spec => LadderHolds
<1>1. Init => LadderInv
  BY ClientInit, GateInit DEF LadderInv
<1>2. Spec => []LadderInv
  BY <1>1, LadderNext, PTL DEF Spec
<1>3. LadderInv /\ [Next]_vars => [Ladder]_vars
  BY LadderAtStep
<1> QED BY <1>2, <1>3, PTL DEF Spec, LadderHolds

-----------------------------------------------------------------------------
(* The cooldown across records, retries of the loss and restarts.          *)

\* The loss that is owed has not been written down yet.
LossPending == pc = "loss" \/ (pc = "record" /\ rec.loss)

LossInv ==
    /\ lastLoss <= now /\ owed <= now
    /\ ~LossPending => owed <= lastLoss
    /\ pc \in {"guard", "positions", "legs"} /\ Guard!Allowed =>
          "cooldown" \in blind \/ ~Guard!CoolingDown

LEMMA LossInit == Init => LossInv
  BY DEF Init, LossInv, Guard!NoLoss, Guard!Allowed

LEMMA TimePasses ==
  ASSUME NEW c \in Nat, NEW t \in Nat, NEW now1 \in Nat, NEW now2 \in Nat,
         now2 >= now1, ~(c - (now1 - t) > 0)
  PROVE  ~(c - (now2 - t) > 0)
  OBVIOUS

\* What was not cooling down does not start to by itself.
LEMMA StaysCool ==
  ASSUME SelfTypes, lastLoss' = lastLoss, now' \in {now, now + 1},
         ~Guard!CoolingDown
  PROVE  ~Guard!CoolingDown'
<1>1. now \in Nat /\ lastLoss \in Nat \cup {Guard!NoLoss} /\ CooldownWindow \in Nat
  BY ConfigAssumption DEF SelfTypes
<1>2. CASE lastLoss = Guard!NoLoss
  BY <1>2 DEF Guard!CoolingDown
<1>3. CASE lastLoss \in Nat
  <2>1. ~(CooldownWindow - (now - lastLoss) > 0) \/ lastLoss = Guard!NoLoss
    BY <1>1, <1>3 DEF Guard!CoolingDown, Guard!CooldownRemaining
  <2>2. CASE ~(CooldownWindow - (now - lastLoss) > 0)
    <3>0. now' \in Nat /\ now' >= now /\ lastLoss' = lastLoss
      BY <1>1
    <3>1. ~(CooldownWindow - (now' - lastLoss') > 0)
      BY <1>1, <1>3, <2>2, <3>0, TimePasses
    <3>2. ~(Guard!CooldownRemaining(lastLoss)' > 0)
      BY <1>1, <1>3, <3>0, <3>1 DEF Guard!CooldownRemaining
    <3> QED BY <3>2 DEF Guard!CoolingDown
  <2> QED BY <1>2, <2>1, <2>2
<1> QED BY <1>1, <1>2, <1>3

LEMMA LossKept ==
  ASSUME SelfTypes, LossInv, UNCHANGED <<pc, rec, lastLoss, owed, checkVars>>,
         now' \in {now, now + 1}
  PROVE  LossInv'
<1>1. lastLoss' <= now' /\ owed' <= now'
  BY DEF SelfTypes, LossInv, Guard!NoLoss
<1>2. ~LossPending' => owed' <= lastLoss'
  BY DEF LossInv, LossPending
<1>3. Guard!Allowed' <=> Guard!Allowed
  BY DEF Guard!Allowed, checkVars
<1>4. ~Guard!CoolingDown => ~Guard!CoolingDown'
  BY StaysCool
<1> QED BY <1>1, <1>2, <1>3, <1>4 DEF LossInv, checkVars

LEMMA LossStep ==
  ASSUME TypeInv, StandInv, GateInv, LossInv, [Next]_vars
  PROVE  LossInv'
<1> USE DEF selfVars, guardVars, redisVars, checkVars
<1>t. /\ SelfTypes /\ now \in Nat
      /\ lastLoss \in Nat \cup {Guard!NoLoss} /\ owed \in Nat \cup {Guard!NoLoss}
  BY DEF TypeInv, SelfTypes
<1>1. CASE UNCHANGED vars
  BY <1>1, <1>t, LossKept DEF vars
<1>2. ASSUME NEW s \in Signals, TakeSignal(s) PROVE LossInv'
  <2>1. /\ UNCHANGED <<rec, owed, now, lastLoss>> /\ pc = "listen"
        /\ pc' \in {"guard", "raised"} /\ (pc' = "guard" => stage' = "killswitch")
    BY <1>2 DEF TakeSignal, Guard!Begin, Guard!envVars
  <2> QED BY <2>1 DEF LossInv, LossPending, Guard!Allowed
<1>3. CASE GuardStep
  <2>1. UNCHANGED <<pc, rec, owed, now, lastLoss>> /\ pc = "guard"
    BY <1>3 DEF GuardStep, Guard!CheckStep, Guard!ReadKillswitch,
                Guard!ReadDailyPnl, Guard!CountGmx, Guard!CountBinance,
                Guard!ReadCooldown, Guard!LogDenial, Guard!envVars
  <2>2. Guard!Allowed' => "cooldown" \in blind' \/ ~Guard!CoolingDown
    <3>1. CASE Guard!ReadCooldown
      BY <3>1 DEF Guard!ReadCooldown, Guard!Allowed, Guard!CooldownActive,
                  Guard!Missed, Guard!Deny
    <3>2. CASE Guard!LogDenial
      BY <3>2 DEF Guard!LogDenial, Guard!Allowed, Guard!PassTo, GateInv
    <3>3. CASE \/ Guard!ReadKillswitch \/ Guard!ReadDailyPnl \/ Guard!CountGmx
               \/ Guard!CountBinance
      BY <3>3 DEF Guard!ReadKillswitch, Guard!ReadDailyPnl, Guard!CountGmx,
                  Guard!CountBinance, Guard!Allowed, Guard!PassTo, Guard!Deny
    <3> QED BY <1>3, <3>1, <3>2, <3>3 DEF GuardStep, Guard!CheckStep
  <2>3. ~Guard!CoolingDown => ~Guard!CoolingDown'
    BY <1>t, <2>1, StaysCool
  <2> QED BY <2>1, <2>2, <2>3 DEF LossInv, LossPending
<1>4. CASE TakeVerdict \/ FetchAndReconcile
  <2>1. /\ UNCHANGED <<owed, redisVars, checkVars>>
        /\ pc \in {"guard", "positions"}
        /\ \/ pc' \in {"positions", "legs"}
           \/ pc' = "record" /\ \E o : rec' = Refused(o)
    BY <1>4 DEF TakeVerdict, FetchAndReconcile, WriteRecord
  <2>2. Guard!Allowed' <=> Guard!Allowed
    BY <2>1 DEF Guard!Allowed
  <2>3. ~Guard!CoolingDown => ~Guard!CoolingDown'
    BY <1>t, <2>1, StaysCool
  <2>4. ~LossPending /\ ~LossPending'
    BY <2>1 DEF LossPending, Refused
  <2> QED BY <2>1, <2>2, <2>3, <2>4 DEF LossInv
<1>5. CASE LegStep
  BY <1>5, <1>t, LossKept DEF LegStep
<1>6. CASE Gather
  <2>1. /\ UNCHANGED redisVars /\ pc = "legs" /\ pc' = "record"
        /\ \/ rec'.loss /\ owed' = now
           \/ owed' = owed
    BY <1>6 DEF Gather, WriteRecord
  <2> QED BY <1>t, <2>1 DEF LossInv, LossPending
<1>7. CASE Xadd
  <2>1. /\ UNCHANGED <<owed, redisVars>> /\ pc = "record"
        /\ \/ pc' = "loss" /\ rec.loss
           \/ pc' = "return" /\ ~rec.loss
    BY <1>7 DEF Xadd
  <2> QED BY <2>1 DEF LossInv, LossPending
<1>8. CASE RecordLoss
  <2>1. /\ pc' = "return" /\ now' = now
        /\ \/ lastLoss' = now /\ owed' = owed
           \/ lastLoss' = lastLoss /\ owed' = lastLoss
    BY <1>8 DEF RecordLoss, Guard!RecordLoss
  <2> QED BY <1>t, <2>1 DEF LossInv, LossPending, Guard!NoLoss
<1>9. CASE Return \/ Resubscribe \/ Restart
  <2>1. /\ pc \in Looping \cup {"return", "down"} /\ pc' \in Looping
        /\ UNCHANGED <<owed, now, lastLoss>>
    BY <1>9 DEF Return, Resubscribe, Restart, Guard!Return, Guard!Forget,
                Guard!envVars
  <2> QED BY <2>1 DEF LossInv, LossPending
<1>10. CASE Crash
  <2>1. pc' = "down" /\ owed' = lastLoss /\ UNCHANGED <<now, lastLoss>>
    BY <1>10 DEF Crash, Guard!Cancel, Guard!Forget, Guard!envVars
  <2> QED BY <1>t, <2>1 DEF LossInv, LossPending, Guard!NoLoss
<1>11. CASE OperatorFlips \/ Tick
  <2>1. /\ UNCHANGED <<pc, rec, lastLoss, owed, checkVars>>
        /\ now' \in {now, now + 1}
    BY <1>11 DEF OperatorFlips, Tick, Guard!TripKillswitch,
                 Guard!ResetKillswitch, Guard!Tick, Guard!checkVars
  <2> QED BY <1>t, <2>1, LossKept
<1>12. CASE \/ \E i \in Ids : Chain(i)
            \/ \E i \in Ids, t \in Gmx!TxStates : Keeper(i, t)
            \/ OperatorCloses
  BY <1>12, <1>t, LossKept DEF Chain, Keeper, OperatorCloses
<1> QED
  BY <1>1, <1>2, <1>3, <1>4, <1>5, <1>6, <1>7, <1>8, <1>9, <1>10, <1>11, <1>12
  DEF Next, Step, TaskStep

\* No order is placed within the cooldown of a loss that was seen and could be
\* written down, whatever lies between the two, unless the cooldown read
\* failed; for any number of signals and any length of the cooldown.
THEOREM LossAlwaysCoolsDown == Spec => LossCoolsDown
<1> DEFINE Cooled == GmxPlaced \/ BinPlaced =>
                       \/ owed = Guard!NoLoss
                       \/ now - owed >= CooldownWindow
                       \/ "cooldown" \in blind
<1>1. Init => LadderInv /\ LossInv
  BY ClientInit, GateInit, LossInit DEF LadderInv
<1>2. LadderInv /\ LossInv /\ [Next]_vars => (LadderInv /\ LossInv)'
  BY LadderNext, LossStep DEF LadderInv, ClientInv
<1>3. ASSUME LadderInv, LossInv, [Next]_vars, GmxPlaced \/ BinPlaced,
             owed # Guard!NoLoss, "cooldown" \notin blind
      PROVE  now - owed >= CooldownWindow
  <2>1. TrailInv /\ SentInv /\ TypeInv /\ StandInv /\ VerdictInv
    BY <1>3 DEF LadderInv, ClientInv
  <2>2. pc = "legs"
    BY <1>3, <2>1, Placing
  <2>3. Guard!Allowed
    BY <2>1, <2>2 DEF StandInv, Together, VerdictInv, Guard!Allowed
  <2>4. ~Guard!CoolingDown /\ owed <= lastLoss
    BY <1>3, <2>2, <2>3 DEF LossInv, LossPending
  <2>5. /\ now \in Nat /\ lastLoss \in Nat \cup {Guard!NoLoss} /\ owed \in Nat
    BY <1>3, <2>1 DEF TypeInv, SelfTypes
  <2> QED BY <2>4, <2>5, ConfigAssumption
          DEF Guard!CoolingDown, Guard!CooldownRemaining, Guard!NoLoss
<1>4. LadderInv /\ LossInv /\ [Next]_vars => [Cooled]_vars
  BY <1>3
<1> QED BY <1>1, <1>2, <1>4, PTL DEF Spec, LossCoolsDown

-----------------------------------------------------------------------------
(* Liveness: the work left on the signal in hand only ever gets less.      *)

\* The awaits the check, and each leg, has at most before it.
GuardLeft == CASE stage = "killswitch" -> 6
               [] stage = "daily_pnl"  -> 5
               [] stage = "gmx"        -> 4
               [] stage = "binance"    -> 3
               [] stage = "cooldown"   -> 2
               [] stage = "log"        -> 1
               [] OTHER                -> 0
GmxLeft == CASE gstage = "nonce"     -> 6
             [] gstage = "gas_price" -> 5
             [] gstage = "send"      -> 4
             [] gstage = "ack"       -> 3
             [] gstage = "receipt"   -> 2
             [] gstage = "simulate"  -> 1
             [] OTHER                -> 0
BinLeft == CASE bstage = "mark"          -> 5
             [] bstage = "exchange_info" -> 4
             [] bstage = "position_mode" -> 3
             [] bstage = "post"          -> 2
             [] bstage = "ack"           -> 1
             [] OTHER                    -> 0

\* What is left of the signal in hand.
Work == CASE pc = "guard"     -> 17 + GuardLeft
          [] pc = "positions" -> 16
          [] pc = "legs"      -> 4 + GmxLeft + BinLeft
          [] pc = "record"    -> 3
          [] pc = "loss"      -> 2
          [] pc = "return"    -> 1
          [] OTHER -> 0

MaxWork == 23

LEMMA WorkBounds ==
    /\ GuardLeft \in 0..6 /\ GmxLeft \in 0..6 /\ BinLeft \in 0..5
    /\ Work \in 0..MaxWork
<1>1. GuardLeft \in 0..6
  BY DEF GuardLeft
<1>2. GmxLeft \in 0..6
  BY DEF GmxLeft
<1>3. BinLeft \in 0..5
  BY DEF BinLeft
<1> QED
  BY <1>1, <1>2, <1>3 DEF Work, MaxWork

LEMMA WorkBoundsNext ==
    /\ GuardLeft' \in 0..6 /\ GmxLeft' \in 0..6 /\ BinLeft' \in 0..5
    /\ Work' \in 0..MaxWork
<1>1. GuardLeft' \in 0..6
  BY DEF GuardLeft
<1>2. GmxLeft' \in 0..6
  BY DEF GmxLeft
<1>3. BinLeft' \in 0..5
  BY DEF BinLeft
<1> QED
  BY <1>1, <1>2, <1>3 DEF Work, MaxWork

\* An await of the task that ends leaves less to do.
LEMMA TaskWorks == TaskStep => Work' < Work
<1> SUFFICES ASSUME TaskStep PROVE Work' < Work
  OBVIOUS
<1>b. /\ GuardLeft \in 0..6 /\ GmxLeft \in 0..6 /\ BinLeft \in 0..5
      /\ GuardLeft' \in 0..6 /\ GmxLeft' \in 0..6 /\ BinLeft' \in 0..5
  BY WorkBounds, WorkBoundsNext
<1>1. CASE GuardStep
  <2>1. pc = "guard" /\ pc' = "guard" /\ Guard!CheckStep
    BY <1>1 DEF GuardStep, selfVars
  <2>2. \/ stage = "killswitch" /\ stage' \in {"daily_pnl", "log"}
        \/ stage = "daily_pnl"  /\ stage' \in {"gmx", "log"}
        \/ stage = "gmx"        /\ stage' = "binance"
        \/ stage = "binance"    /\ stage' \in {"cooldown", "log"}
        \/ stage = "cooldown"   /\ stage' \in {"done", "log"}
        \/ stage = "log"        /\ stage' = "done"
    BY <2>1 DEF Guard!CheckStep, Guard!ReadKillswitch, Guard!ReadDailyPnl,
       Guard!CountGmx, Guard!CountBinance, Guard!ReadCooldown,
       Guard!LogDenial, Guard!Deny, Guard!PassTo
  <2>3. GuardLeft' < GuardLeft
    BY <2>2 DEF GuardLeft
  <2> QED
    BY <1>b, <2>1, <2>3 DEF Work
<1>2. CASE TakeVerdict
  <2>1. pc = "guard" /\ pc' \in {"positions", "record"}
    BY <1>2 DEF TakeVerdict, WriteRecord
  <2> QED
    BY <1>b, <2>1 DEF Work
<1>3. CASE FetchAndReconcile
  <2>1. pc = "positions" /\ pc' \in {"legs", "record"}
    BY <1>3 DEF FetchAndReconcile, WriteRecord
  <2> QED
    BY <1>b, <2>1 DEF Work
<1>4. CASE LegStep
  <2>1. pc = "legs" /\ pc' = "legs"
    BY <1>4 DEF LegStep, selfVars
  <2>2. CASE Gmx!LegStep(Encodable(sigs[n]), TRUE) /\ UNCHANGED binVars
    <3>1. \/ gstage = "nonce"     /\ gstage' \in {"gas_price", "done"}
          \/ gstage = "gas_price" /\ gstage' \in {"simulate", "send", "done"}
          \/ gstage = "simulate"  /\ gstage' = "done"
          \/ gstage = "send"      /\ gstage' = "ack"
          \/ gstage = "ack"       /\ gstage' \in {"receipt", "done"}
          \/ gstage = "receipt"   /\ gstage' = "done"
      BY <2>2 DEF Gmx!LegStep, Gmx!FetchNonce, Gmx!FetchGasPrice, Gmx!Simulate,
         Gmx!Send, Gmx!HearSend, Gmx!PollReceipt, Gmx!Proceed, Gmx!Finish
    <3>2. GmxLeft' < GmxLeft
      BY <3>1 DEF GmxLeft
    <3>3. BinLeft' = BinLeft
      BY <2>2 DEF BinLeft, binVars
    <3> QED
      BY <1>b, <2>1, <3>2, <3>3 DEF Work
  <2>3. CASE Bin!LegStep /\ UNCHANGED gmxVars
    <3>1. BinLeft' < BinLeft
      BY <2>3 DEF BinLeft, Bin!LegStep, Bin!FetchMark, Bin!FetchExchangeInfo,
         Bin!Gate, Bin!CheckPositionMode, Bin!Post, Bin!ReadAnswer,
         Bin!Proceed, Bin!Finish
    <3>2. GmxLeft' = GmxLeft
      BY <2>3 DEF GmxLeft, gmxVars
    <3> QED
      BY <1>b, <2>1, <3>1, <3>2 DEF Work
  <2> QED
    BY <1>4, <2>2, <2>3 DEF LegStep
<1>5. CASE Gather \/ Xadd \/ RecordLoss \/ Return
  <2>1. \/ pc = "legs" /\ pc' = "record"
        \/ pc = "record" /\ pc' \in {"loss", "return"}
        \/ pc = "loss" /\ pc' = "return"
        \/ pc = "return" /\ pc' = "listen"
    BY <1>5 DEF Gather, Xadd, RecordLoss, Return, WriteRecord
  <2> QED
    BY <1>b, <2>1 DEF Work
<1> QED
  BY <1>1, <1>2, <1>3, <1>4, <1>5 DEF TaskStep

\* Nothing the operator, the keepers, the chain, the clock or a crash does adds
\* to the work in hand.
LEMMA WorkNeverGrows == [Next]_vars => Work = 0 \/ Work' <= Work
<1> SUFFICES ASSUME [Next]_vars, Work # 0 PROVE Work' <= Work
  OBVIOUS
<1>w. Work \in 0..MaxWork
  BY WorkBounds
<1>v. Work' \in 0..MaxWork
  BY WorkBoundsNext
<1>p. pc \notin Looping \cup {"down"}
  BY DEF Work
<1>k. ASSUME UNCHANGED <<pc, stage, gstage, bstage>> PROVE Work' <= Work
  <2>1. Work' = Work
    BY <1>k DEF Work, GuardLeft, GmxLeft, BinLeft
  <2> QED
    BY <1>w, <2>1 DEF MaxWork
<1>1. CASE TaskStep
  BY <1>1, <1>w, <1>v, TaskWorks DEF MaxWork
<1>2. CASE Crash
  <2>1. Work' = 0
    BY <1>2 DEF Crash, Work
  <2> QED
    BY <1>w, <2>1 DEF MaxWork
<1>3. CASE (\E s \in Signals : TakeSignal(s)) \/ Restart \/ Resubscribe
  BY <1>3, <1>p DEF TakeSignal, Restart, Resubscribe
<1>4. CASE OperatorFlips \/ Tick
  BY <1>4, <1>k DEF OperatorFlips, Tick, selfVars, gmxVars, binVars,
     Guard!TripKillswitch, Guard!ResetKillswitch, Guard!Tick, Guard!checkVars
<1>5. CASE \/ \E i \in Ids : Chain(i)
           \/ \E i \in Ids, t \in Gmx!TxStates : Keeper(i, t)
  BY <1>5, <1>k DEF Chain, Keeper, selfVars, guardVars, checkVars, binVars,
     Gmx!Chain, Gmx!Keeper, Gmx!glegVars
<1>6. CASE OperatorCloses
  BY <1>6, <1>k DEF OperatorCloses, selfVars, guardVars, checkVars, gmxVars,
     binVars, Bin!Close, Bin!blegVars
<1>7. CASE UNCHANGED vars
  BY <1>7, <1>k DEF vars, selfVars, guardVars, checkVars, gmxVars, binVars
<1> QED
  BY <1>1, <1>2, <1>3, <1>4, <1>5, <1>6, <1>7 DEF Next, Step

\* A signal in hand leaves it for the listening loop, or with its process.
LEMMA HandEnds ==
  ASSUME TypeOK', [Next]_vars, Work # 0, Work' = 0
  PROVE  pc' \in {"listen", "down"}
<1>b. GuardLeft' \in 0..6 /\ GmxLeft' \in 0..6 /\ BinLeft' \in 0..5
  BY WorkBoundsNext
<1>p. pc \notin Looping \cup {"down"}
  BY DEF Work
<1>1. pc' \in Looping \cup {"down"}
  BY <1>b DEF Work, TypeOK, Pcs
<1>2. pc' \notin {"subscribe", "raised", "backoff"}
  BY <1>p DEF Next, Step, TaskStep, vars, selfVars, TakeSignal, GuardStep,
     TakeVerdict, FetchAndReconcile, LegStep, Gather, Xadd, RecordLoss, Return,
     WriteRecord, Resubscribe, Crash, Restart, OperatorFlips, Tick, Chain, Keeper,
     OperatorCloses
<1> QED
  BY <1>1, <1>2

\* At most so much is left, but something; and what a step makes of that.
Left(most) == Work \in 1..most
Rested     == pc \in {"listen", "down"}

WorkRules(most, less) ==
    /\ TypeOK' /\ Left(most) /\ [Next]_vars => Left(most)' \/ Rested'
    /\ TypeOK' /\ Left(most) /\ [Next]_vars /\ <<TaskStep /\ Guard!Observe>>_vars
         => Left(less)' \/ Rested'
    /\ Left(most) => TaskAwaits

LEMMA WorkRule ==
  ASSUME NEW most \in Nat, NEW less \in Nat, less = most - 1
  PROVE  WorkRules(most, less)
<1>1. Work \in 0..MaxWork
  BY WorkBounds
<1>2. Work' \in 0..MaxWork
  BY WorkBoundsNext
<1>3. Work # 0 => TaskAwaits
  BY DEF Work, TaskAwaits
<1>4. TypeOK' /\ [Next]_vars /\ Work # 0 /\ Work' = 0 => Rested'
  BY HandEnds DEF Rested
<1> QED
  BY <1>1, <1>2, <1>3, <1>4, TaskWorks, WorkNeverGrows
  DEF WorkRules, Left, MaxWork

LEMMA WorkEnds == Spec /\ TaskRuns => (Left(MaxWork) ~> Rested)
<1>1. /\ WorkRules(1, 0) /\ WorkRules(2, 1) /\ WorkRules(3, 2) /\ WorkRules(4, 3)
      /\ WorkRules(5, 4) /\ WorkRules(6, 5) /\ WorkRules(7, 6) /\ WorkRules(8, 7)
      /\ WorkRules(9, 8) /\ WorkRules(10, 9) /\ WorkRules(11, 10) /\ WorkRules(12, 11)
      /\ WorkRules(13, 12) /\ WorkRules(14, 13) /\ WorkRules(15, 14)
      /\ WorkRules(16, 15) /\ WorkRules(17, 16) /\ WorkRules(18, 17)
      /\ WorkRules(19, 18) /\ WorkRules(20, 19) /\ WorkRules(21, 20)
      /\ WorkRules(22, 21) /\ WorkRules(23, 22)
  BY WorkRule
<1>2. ~Left(0) /\ (Left(MaxWork) => Left(23))
  BY DEF Left, MaxWork
<1> QED
  BY <1>1, <1>2, ExecutorTypeCorrect, PTL DEF WorkRules, TaskRuns, Spec

\* Without any fairness: a signal costs the task at most MaxWork of its steps.
\* Each of them leaves less to do, and nothing that happens around the task puts
\* anything back before all of it is done
\* (funding_arb_executor.py handle_signal).
THEOREM SignalsCostBounded ==
  Spec => /\ [](Work \in 0..MaxWork)
          /\ [][/\ TaskStep => Work' < Work
                /\ Work = 0 \/ Work' <= Work]_vars
<1>1. [Next]_vars => [TaskStep => Work' < Work]_vars
  BY TaskWorks
<1>2. [Next]_vars => [Work = 0 \/ Work' <= Work]_vars
  BY WorkNeverGrows
<1> QED
  BY <1>1, <1>2, WorkBounds, PTL DEF Spec

\* Every signal taken is settled, and the loop listens again, however the
\* operator, the keepers, the chain and the clock interleave with it, for any
\* number of signals and any configuration, as long as the task's awaits end
\* (funding_arb_executor.py handle_signal).
THEOREM SignalsSettle == Spec /\ TaskRuns => SignalSettles
<1>1. pc = "guard" => Left(MaxWork)
  BY WorkBounds DEF Left, Work, MaxWork
<1>2. Rested => pc \in {"listen", "down"}
  BY DEF Rested
<1> QED
  BY <1>1, <1>2, WorkEnds, PTL DEF SignalSettles

\* TaskRuns is no more than the weak fairness of FairSpec says, wherever a task
\* that stands at an await can always go on, which is TaskNeverStuck.
LEMMA FairTasksRun ==
  []TaskNeverStuck /\ WF_vars(TaskStep /\ Guard!Observe) => TaskRuns
BY PTL DEF TaskNeverStuck, TaskRuns

\* So it holds under the fairness the runs assume as well, as long as nothing
\* leaves the task waiting for what nobody does: the one part of the argument
\* that is model-checked only (funding_arb_executor.py handle_signal).
THEOREM FairSignalsSettle == FairSpec /\ []TaskNeverStuck => SignalSettles
BY FairTasksRun, SignalsSettle, PTL DEF FairSpec

\* What the task's awaits wait for is there: a check that has begun while the
\* guard is asked, legs at rest before they are started, two legs that have been
\* started and so have an await of their own or an end, and until the signal is
\* done with the verdict that Return takes back.
LegsBegun == pc = "legs" => gstage # "idle" /\ bstage # "idle"

TaskReady ==
    /\ pc = "guard" =>
         stage \in {"killswitch", "daily_pnl", "gmx", "binance", "cooldown",
                    "log", "done"}
    /\ pc = "positions" => gstage = "idle" /\ bstage = "idle"
    /\ pc = "legs" =>
         /\ gstage \in {"nonce", "gas_price", "simulate", "send", "ack",
                        "receipt", "done"}
         /\ bstage \in {"mark", "exchange_info", "position_mode", "post", "ack",
                        "done"}
    /\ pc \in {"positions", "legs", "record", "loss", "return"} => stage = "done"

LEMMA LegsBegunStep == LegsBegun /\ [Next]_vars => LegsBegun'
<1> SUFFICES ASSUME LegsBegun, [Next]_vars PROVE LegsBegun'
  OBVIOUS
<1>k. ASSUME UNCHANGED <<pc, gstage, bstage>> PROVE LegsBegun'
  BY <1>k DEF LegsBegun
<1>1. CASE FetchAndReconcile
  <2>1. Gmx!Start => gstage' # "idle"
    BY DEF Gmx!Start, Gmx!Proceed, Gmx!Finish
  <2>2. ASSUME NEW m, NEW side, NEW usd, Bin!Start(m, side, usd)
        PROVE  bstage' # "idle"
    BY <2>2 DEF Bin!Start, Bin!Proceed, Bin!Finish
  <2> QED
    BY <1>1, <2>1, <2>2 DEF FetchAndReconcile, WriteRecord, LegsBegun
<1>2. CASE LegStep
  <2>1. Gmx!LegStep(Encodable(sigs[n]), TRUE) => gstage' # "idle"
    BY DEF Gmx!LegStep, Gmx!FetchNonce, Gmx!FetchGasPrice, Gmx!Simulate,
       Gmx!Send, Gmx!HearSend, Gmx!PollReceipt, Gmx!Proceed, Gmx!Finish
  <2>2. Bin!LegStep => bstage' # "idle"
    BY DEF Bin!LegStep, Bin!FetchMark, Bin!FetchExchangeInfo, Bin!Gate,
       Bin!CheckPositionMode, Bin!Post, Bin!ReadAnswer, Bin!Proceed, Bin!Finish
  <2> QED
    BY <1>2, <2>1, <2>2 DEF LegStep, selfVars, gmxVars, binVars, LegsBegun
<1>3. CASE GuardStep
  BY <1>3, <1>k DEF GuardStep, selfVars, gmxVars, binVars
<1>4. CASE \/ \E s \in Signals : TakeSignal(s)
           \/ TakeVerdict \/ Gather \/ Xadd \/ RecordLoss \/ Return \/ Resubscribe
           \/ Crash \/ Restart
  BY <1>4 DEF TakeSignal, TakeVerdict, Gather, Xadd, RecordLoss, Return,
     Resubscribe, Crash, Restart, WriteRecord, LegsBegun
<1>5. CASE OperatorFlips \/ Tick
  BY <1>5, <1>k DEF OperatorFlips, Tick, selfVars, gmxVars, binVars
<1>6. CASE \/ \E i \in Ids : Chain(i)
           \/ \E i \in Ids, t \in Gmx!TxStates : Keeper(i, t)
  BY <1>6, <1>k DEF Chain, Keeper, selfVars, binVars, Gmx!Chain, Gmx!Keeper,
     Gmx!glegVars
<1>7. CASE OperatorCloses
  BY <1>7, <1>k DEF OperatorCloses, selfVars, gmxVars, binVars, Bin!Close,
     Bin!blegVars
<1>8. CASE UNCHANGED vars
  BY <1>8, <1>k DEF vars, selfVars, gmxVars, binVars
<1> QED
  BY <1>1, <1>2, <1>3, <1>4, <1>5, <1>6, <1>7, <1>8 DEF Next, Step, TaskStep

\* Wherever the task stands, what it waits for is there, whichever reads, writes,
\* answers and processes fail and however often it starts again: no leg is
\* gathered that was never started, and no check asked that was never begun
\* (funding_arb_executor.py handle_signal).  This is what TaskNeverStuck says,
\* but for the step from an action's guard to ENABLED.
THEOREM TaskAlwaysReady == Spec => []TaskReady
<1>1. Init => LegsBegun
  BY DEF Init, LegsBegun
<1>2. ClientInv /\ LegsBegun => TaskReady
  BY DEF ClientInv, SentInv, TypeInv, CheckTypes, Guard!Stages, StandInv,
     Together, LegsBegun, TaskReady, Gmx!TypeOK, Gmx!Stages, BinTyped,
     Bin!TypeOK, Bin!Stages
<1> QED
  BY <1>1, <1>2, ClientInit, ClientStep, LegsBegunStep, PTL DEF Spec

-----------------------------------------------------------------------------
(* The guard and the legs, as parts of the executor, keep the promises     *)
(* that their own modules' theorems make for them alone.                   *)

\* An order that leaves the checks of its size is one the exchange takes.
LEMMA ExecutorSizes ==
  ASSUME NEW usd \in Int, NEW price \in Nat \ {0}, Bin!SizeFor(usd, price) # 0
  PROVE  /\ Bin!SizeFor(usd, price) >= LotMin
         /\ Bin!SizeFor(usd, price) * price \in MinNotional .. usd
<1> DEFINE q == Bin!Quantity(usd, price)
<1>1. Bin!SizeFor(usd, price) = q /\ q # 0 /\ q * price >= MinNotional
  BY DEF Bin!SizeFor, Bin!PassesMinNotional
<1>2. q = 0 \/ (usd > 0 /\ q = usd \div price /\ q >= LotMin)
  BY ConfigAssumption DEF Bin!Quantity
<1>3. usd > 0 => usd \div price \in Nat /\ (usd \div price) * price <= usd
  OBVIOUS
<1>4. q * price \in Int /\ q * price <= usd /\ q >= LotMin
  BY <1>1, <1>2, <1>3
<1> HIDE DEF q
<1> QED
  BY <1>1, <1>4, ConfigAssumption

\* What the venue has made of an order whose answer is on its way.
AnswerAgrees ==
    /\ banswer \in {"fill", "expired"} => bord[n] \in {"filled", "expired"}
    /\ banswer = "error_200" => bord[n] = "rejected"

\* The promises of both legs, strengthened by what an answer on its way says.
LegTruth ==
    /\ Gmx!ResultTruthful
    /\ Bin!VerdictTruthful
    /\ Bin!SizeAcceptable
    /\ bstage = "ack" => AnswerAgrees

LEMMA LegTruthInit == Init => LegTruth
  BY DEF Init, LegTruth, Gmx!LegInit, Bin!LegInit, Gmx!ResultTruthful,
         Bin!VerdictTruthful, Bin!SizeAcceptable

\* Legs at rest claim nothing.
LEMMA LegsAtRest ==
  ASSUME gstage = "idle", bstage = "idle" PROVE LegTruth
BY DEF LegTruth, Gmx!ResultTruthful, Bin!VerdictTruthful, Bin!SizeAcceptable

\* Neither do steps that leave the legs alone and move no order back.
LEMMA LegsLeftAlone ==
  ASSUME LegTruth,
         UNCHANGED <<n, gstage, gres, bstage, bmark, bqty, bjob, banswer, bres, bord>>,
         \/ gtx'[n] = gtx[n]
         \/ gtx[n] = "mempool" /\ gtx'[n] # "none"
         \/ gtx[n] = "mined" /\ gtx'[n] \in {"executed", "cancelled"}
  PROVE  LegTruth'
BY DEF LegTruth, AnswerAgrees, Gmx!ResultTruthful, Bin!VerdictTruthful,
       Bin!SizeAcceptable

LEMMA GmxStepTruth ==
  ASSUME SentInv, TypeInv, LegTruth, n \in Ids, pc = "legs", n' = n,
         Gmx!LegStep(Encodable(sigs[n]), TRUE)
  PROVE  Gmx!ResultTruthful'
<1>1. gtx \in [Ids -> Gmx!TxStates] /\ GmxLegSent /\ gres \in Gmx!SendResult
  BY DEF SentInv, TypeInv, Gmx!TypeOK
<1> USE DEF Gmx!ResultTruthful, Gmx!Finish, Gmx!Proceed
<1>2. /\ ~Gmx!NoSend.submitted /\ Gmx!NoSend.status = "none"
      /\ Gmx!NoSend.sim = "none"
  BY DEF Gmx!NoSend
<1>3. CASE Gmx!FetchNonce
  BY <1>2, <1>3 DEF Gmx!FetchNonce
<1>4. CASE Gmx!FetchGasPrice(Encodable(sigs[n]), TRUE)
  BY <1>2, <1>4 DEF Gmx!FetchGasPrice
<1>5. CASE Gmx!Simulate
  BY <1>1, <1>5 DEF Gmx!Simulate, Gmx!Simulated, Gmx!NoSend, GmxLegSent
<1>6. CASE Gmx!Send
  BY <1>6 DEF Gmx!Send
<1>7. CASE Gmx!HearSend
  BY <1>7 DEF Gmx!HearSend, Gmx!SendFailed, Gmx!NoSend
<1>8. CASE Gmx!PollReceipt
  BY <1>1, <1>8 DEF Gmx!PollReceipt, Gmx!Submitted, Gmx!NoSend, Gmx!OnChain,
     GmxLegSent
<1> QED
  BY <1>3, <1>4, <1>5, <1>6, <1>7, <1>8 DEF Gmx!LegStep

LEMMA BinStepTruth ==
  ASSUME SentInv, TypeInv, LegTruth, n \in Ids, pc = "legs", n' = n, Bin!LegStep
  PROVE  /\ Bin!VerdictTruthful' /\ Bin!SizeAcceptable'
         /\ bstage' = "ack" => AnswerAgrees'
<1>1. bord \in [Ids -> Bin!Fates] /\ BinLegSent /\ BinTyped
  BY DEF SentInv, TypeInv
<1> USE DEF Bin!VerdictTruthful, Bin!SizeAcceptable, AnswerAgrees, Bin!Finish,
            Bin!Proceed, LegTruth
<1>2. CASE Bin!FetchMark
  BY <1>2 DEF Bin!FetchMark
<1>3. ASSUME NEW served \in BOOLEAN, Bin!FetchExchangeInfo(served)
      PROVE  /\ Bin!VerdictTruthful' /\ Bin!SizeAcceptable'
             /\ bstage' = "ack" => AnswerAgrees'
  <2>1. bord' = bord /\ bord[n] = "none" /\ bmark' = bmark /\ bjob' = bjob
    BY <1>1, <1>3 DEF Bin!FetchExchangeInfo, Bin!venueVars, BinLegSent
  <2>2. CASE bstage' = "done" /\ bres'.submitted = FALSE
    BY <2>1, <2>2
  <2>3. CASE bstage' = "position_mode" /\ bqty' = Bin!SizeFor(bjob.usd, bmark)
             /\ bqty' # 0
    <3>1. bjob.usd \in Int /\ bmark \in Nat \ {0}
      BY <1>1, <1>3, ExecutorAssumption DEF Bin!FetchExchangeInfo, BinTyped,
         Bin!TypeOK, Bin!Job, Bin!NoJob
    <3>2. bqty' >= LotMin /\ bqty' * bmark \in MinNotional .. bjob.usd
      BY <2>3, <3>1, ExecutorSizes
    <3> QED
      BY <2>1, <2>3, <3>2
  <2> QED
    BY <1>3, <2>2, <2>3 DEF Bin!FetchExchangeInfo, Bin!Gate, Bin!LocalError,
       Bin!Requested, Bin!Blocked, Bin!NoOrder
<1>4. CASE Bin!CheckPositionMode
  BY <1>1, <1>4 DEF Bin!CheckPositionMode, Bin!venueVars, BinLegSent,
     Bin!Blocked, Bin!Requested, Bin!NoOrder
<1>5. CASE Bin!Post
  BY <1>1, <1>5 DEF Bin!Post, Bin!venueVars
<1>6. CASE Bin!ReadAnswer
  BY <1>1, <1>6 DEF Bin!ReadAnswer, Bin!venueVars, Bin!Verdict, Bin!Accepted,
     Bin!VenueError, Bin!Requested, Bin!NoOrder, BinLegSent
<1> QED
  BY <1>2, <1>3, <1>4, <1>5, <1>6 DEF Bin!LegStep

\* A leg that starts has claimed nothing.
LEMMA StartTruth ==
  ASSUME LegTruth, SentInv, FetchAndReconcile
  PROVE  LegTruth'
<1>1. gstage = "idle" /\ bstage = "idle" /\ n' = n
  BY DEF SentInv, FetchAndReconcile
<1>2. CASE UNCHANGED <<gmxVars, binVars>>
  BY <1>1, <1>2, LegsAtRest
  DEF gmxVars, binVars, LegTruth, Gmx!ResultTruthful, Bin!VerdictTruthful,
      Bin!SizeAcceptable
<1>3. ASSUME Gmx!Start, Bin!Start(sigs[n].market, BinanceSide(sigs[n].direction),
                                  sigs[n].notional.usd)
      PROVE  LegTruth'
  <2>1. Gmx!ResultTruthful'
    BY <1>3
    DEF Gmx!Start, Gmx!Proceed, Gmx!Finish, Gmx!ResultTruthful, Gmx!NoSend
  <2>2. Bin!VerdictTruthful' /\ Bin!SizeAcceptable' /\ bstage' # "ack"
    BY <1>3
    DEF Bin!Start, Bin!Proceed, Bin!Finish, Bin!VerdictTruthful,
        Bin!SizeAcceptable, Bin!NoOrder
  <2> QED
    BY <2>1, <2>2 DEF LegTruth
<1> QED
  BY <1>2, <1>3 DEF FetchAndReconcile

\* A step of one leg says nothing of the other.
LEMMA LegStepTruth ==
  ASSUME TrailInv, SentInv, TypeInv, LegTruth, LegStep
  PROVE  LegTruth'
<1>1. pc = "legs" /\ n' = n /\ n \in Ids
  BY ExecutorAssumption DEF LegStep, selfVars, TrailInv, PlaceInv, InHand, Ids
<1>2. CASE Gmx!LegStep(Encodable(sigs[n]), TRUE) /\ UNCHANGED binVars
  <2>1. Gmx!ResultTruthful'
    BY <1>1, <1>2, GmxStepTruth
  <2> QED
    BY <1>1, <1>2, <2>1
    DEF binVars, LegTruth, Bin!VerdictTruthful, Bin!SizeAcceptable, AnswerAgrees
<1>3. CASE Bin!LegStep /\ UNCHANGED gmxVars
  <2>1. /\ Bin!VerdictTruthful' /\ Bin!SizeAcceptable'
        /\ bstage' = "ack" => AnswerAgrees'
    BY <1>1, <1>3, BinStepTruth
  <2> QED
    BY <1>1, <1>3, <2>1 DEF gmxVars, LegTruth, Gmx!ResultTruthful
<1> QED
  BY <1>2, <1>3 DEF LegStep

\* What happens around the task moves no order back.
LEMMA WorldTruth ==
  ASSUME SentInv, LegTruth, n \in Ids,
         \/ OperatorFlips \/ Tick \/ OperatorCloses \/ UNCHANGED vars
         \/ \E i \in Ids : Chain(i)
         \/ \E i \in Ids, t \in Gmx!TxStates : Keeper(i, t)
  PROVE  LegTruth'
<1>1. gtx \in [Ids -> Gmx!TxStates]
  BY DEF SentInv
<1>2. CASE OperatorFlips \/ Tick \/ OperatorCloses \/ UNCHANGED vars
  <2>1. /\ UNCHANGED <<n, gstage, gres, bstage, bmark, bqty, bjob, banswer, bres, bord>>
        /\ gtx' = gtx
    BY <1>2 DEF OperatorFlips, Tick, OperatorCloses, vars, selfVars, gmxVars,
                binVars, Bin!Close, Bin!blegVars
  <2> QED
    BY <2>1, LegsLeftAlone
<1>3. ASSUME NEW i \in Ids, Chain(i)
      PROVE  LegTruth'
  <2>1. UNCHANGED <<n, gstage, gres, bstage, bmark, bqty, bjob, banswer, bres, bord>>
    BY <1>3 DEF Chain, selfVars, binVars, Gmx!Chain, Gmx!glegVars
  <2>2. /\ gtx[i] = "mempool"
        /\ \E t \in {"dropped", "reverted", "mined"} : gtx' = [gtx EXCEPT ![i] = t]
    BY <1>3 DEF Chain, Gmx!Chain
  <2>3. gtx'[n] = gtx[n] \/ (gtx[n] = "mempool" /\ gtx'[n] # "none")
    BY <1>1, <2>2
  <2> QED
    BY <2>1, <2>3, LegsLeftAlone
<1>4. ASSUME NEW i \in Ids, NEW t \in Gmx!TxStates, Keeper(i, t)
      PROVE  LegTruth'
  <2>1. UNCHANGED <<n, gstage, gres, bstage, bmark, bqty, bjob, banswer, bres, bord>>
    BY <1>4 DEF Keeper, selfVars, binVars, Gmx!Keeper, Gmx!glegVars
  <2>2. gtx[i] = "mined" /\ t \in {"executed", "cancelled"}
        /\ gtx' = [gtx EXCEPT ![i] = t]
    BY <1>4 DEF Keeper, Gmx!Keeper
  <2>3. gtx'[n] = gtx[n] \/ (gtx[n] = "mined" /\ gtx'[n] \in {"executed", "cancelled"})
    BY <1>1, <2>2
  <2> QED
    BY <2>1, <2>3, LegsLeftAlone
<1> QED
  BY <1>2, <1>3, <1>4

LEMMA LegTruthNext == ClientInv /\ LegTruth /\ [Next]_vars => LegTruth'
<1> SUFFICES ASSUME ClientInv, LegTruth, [Next]_vars PROVE LegTruth'
  OBVIOUS
<1>1. TrailInv /\ SentInv /\ TypeInv /\ SentInv'
  BY ClientStep DEF ClientInv
<1>2. CASE pc' # "legs"
  <2>1. gstage' = "idle" /\ bstage' = "idle"
    BY <1>1, <1>2 DEF SentInv
  <2> QED
    BY <2>1 DEF LegTruth, Gmx!ResultTruthful, Bin!VerdictTruthful,
                Bin!SizeAcceptable
<1>3. CASE pc' = "legs"
  <2>1. CASE FetchAndReconcile
    BY <1>1, <2>1, StartTruth
  <2>2. CASE LegStep
    BY <1>1, <2>2, LegStepTruth
  <2>3. CASE \/ OperatorFlips \/ Tick \/ OperatorCloses \/ UNCHANGED vars
             \/ \E i \in Ids : Chain(i)
             \/ \E i \in Ids, t \in Gmx!TxStates : Keeper(i, t)
    <3>1. pc = "legs"
      BY <1>3, <2>3 DEF OperatorFlips, Tick, OperatorCloses, Chain, Keeper, vars,
                        selfVars
    <3>2. n \in Ids
      BY <1>1, <3>1, ExecutorAssumption DEF TrailInv, PlaceInv, InHand, Ids
    <3> QED
      BY <1>1, <2>3, <3>2, WorldTruth
  <2>4. \/ FetchAndReconcile \/ LegStep
        \/ OperatorFlips \/ Tick \/ OperatorCloses \/ UNCHANGED vars
        \/ \E i \in Ids : Chain(i)
        \/ \E i \in Ids, t \in Gmx!TxStates : Keeper(i, t)
    BY <1>3 DEF Next, Step, TaskStep, TakeSignal, GuardStep, TakeVerdict,
                WriteRecord, Gather, Xadd, RecordLoss, Return, Resubscribe,
                Crash, Restart, selfVars
  <2> QED
    BY <2>1, <2>2, <2>3, <2>4
<1> QED
  BY <1>2, <1>3

LEMMA LegTruthHolds == Spec => []LegTruth
<1>1. Spec => []ClientInv
  BY ClientInit, ClientStep, PTL DEF Spec
<1> QED
  BY <1>1, LegTruthInit, LegTruthNext, PTL DEF Spec

\* Within the executor too, whatever else happens on the chain meanwhile, the
\* result of submit_signed never claims more than the chain bears out.
THEOREM GmxResultsStayTrue == Spec => []Gmx!ResultTruthful
<1>1. LegTruth => Gmx!ResultTruthful
  BY DEF LegTruth
<1> QED
  BY <1>1, LegTruthHolds, PTL

\* Within the executor too, an OrderResult never claims an order the venue has
\* not taken, nor denies one that is open there.
THEOREM BinanceVerdictsStayTrue == Spec => []Bin!VerdictTruthful
<1>1. LegTruth => Bin!VerdictTruthful
  BY DEF LegTruth
<1> QED
  BY <1>1, LegTruthHolds, PTL

\* Within the executor too, whatever notional a signal carries, an order on its
\* way to Binance is one the exchange takes, and no larger than the signal asks.
THEOREM BinanceSizesStayAcceptable == Spec => []Bin!SizeAcceptable
<1>1. LegTruth => Bin!SizeAcceptable
  BY DEF LegTruth
<1> QED
  BY <1>1, LegTruthHolds, PTL

\* The guard's verdict within the executor: with the positions those the venues
\* really hold, changed by keepers, orders and the operator, no standing reason
\* is overlooked unless its own read failed, and the killswitch never is.
THEOREM GuardStandsInExecutor ==
  Spec => [](Guard!TripStands /\ Guard!StandingReasonDenies)
<1>1. LadderInv => Guard!TripStands /\ Guard!StandingReasonDenies
  <2> SUFFICES ASSUME LadderInv, Guard!Allowed
               PROVE  "killswitch" \notin standing /\ standing \subseteq blind
    BY DEF Guard!TripStands, Guard!StandingReasonDenies
  <2>1. GateInv /\ StandInv /\ stage # "idle"
    BY DEF LadderInv, ClientInv, Guard!Allowed
  <2> QED
    BY <2>1, StandingKinds DEF GateInv, Overlooked
<1>2. Init => LadderInv
  BY ClientInit, GateInit DEF LadderInv
<1> QED
  BY <1>1, <1>2, LadderNext, PTL DEF Spec

-----------------------------------------------------------------------------
(* What reconciliation lets through.                                       *)

\* The list that is read of a finite set holds its members and nothing else.
LEMMA ListsExactly ==
  ASSUME NEW S, IsFiniteSet(S)
  PROVE  \A x : x \in S <=> \E i \in DOMAIN AsList(S) : AsList(S)[i] = x
<1> DEFINE K == 1..Cardinality(S)
<1>1. ExistsBijection(K, S)
  BY FS_CardinalityType
<1>2. PICK f : f \in Bijection(K, S)
  BY <1>1 DEF ExistsBijection
<1>3. f \in [K -> S] /\ \A x \in S : \E i \in K : f[i] = x
  BY <1>2 DEF Bijection, Surjection
<1>4. f \in [K -> S] /\ \A x \in S : \E i \in DOMAIN f : f[i] = x
  BY <1>3
<1>5. /\ AsList(S) \in [K -> S]
      /\ \A x \in S : \E i \in DOMAIN AsList(S) : AsList(S)[i] = x
  BY <1>4 DEF AsList
<1> HIDE DEF K
<1> QED
  BY <1>5

\* A market of the table is found again by its address.
LEMMA MarketsDecode ==
  ASSUME NEW m \in GmxMarkets, NEW long
  PROVE  Rec!Decoded(m, "usdc", long) =
           [alias |-> m, address |-> m, collateral |-> "usdc", is_long |-> long]
BY DEF Rec!Decoded, Rec!AliasOf

\* A side of the market in hand matches just when the account holds it.
LEMMA MatchesAreHeld ==
  ASSUME gpos \subseteq GmxMarkets \X BOOLEAN,
         NEW s, s.market \in GmxMarkets, NEW long \in BOOLEAN
  PROVE  Rec!HasMatch(Intent(s), OpenPositions, long) <=>
           <<s.market, long>> \in gpos
<1> DEFINE Props == {Rec!Decoded(p[1], "usdc", p[2]) : p \in gpos}
           props == [p \in gpos |-> Rec!Decoded(p[1], "usdc", p[2])]
           held  == [alias |-> s.market, address |-> s.market,
                     collateral |-> "usdc", is_long |-> long]
<1>1. IsFiniteSet(Props)
  <2>1. IsFiniteSet(gpos)
    BY OpenAreFinite
  <2>2. props \in Surjection(gpos, Props)
    BY DEF Surjection
  <2> QED
    BY <2>1, <2>2, FS_Surjection
<1>2. \A x : x \in Props <=>
           \E i \in DOMAIN OpenPositions : OpenPositions[i] = x
  BY <1>1, ListsExactly DEF OpenPositions
<1>3. \A p \in gpos : /\ p[1] \in GmxMarkets /\ p[2] \in BOOLEAN
                       /\ p = <<p[1], p[2]>>
  OBVIOUS
<1>4. \A p \in gpos : Rec!Decoded(p[1], "usdc", p[2]) =
           [alias |-> p[1], address |-> p[1], collateral |-> "usdc",
            is_long |-> p[2]]
  BY <1>3, MarketsDecode
<1>5. held \in Props <=> <<s.market, long>> \in gpos
  <2>1. ASSUME held \in Props PROVE <<s.market, long>> \in gpos
    <3>1. PICK p \in gpos : held = Rec!Decoded(p[1], "usdc", p[2])
      BY <2>1
    <3>2. held = [alias |-> p[1], address |-> p[1], collateral |-> "usdc",
                  is_long |-> p[2]]
      BY <1>4, <3>1
    <3>3. held.alias = p[1] /\ held.is_long = p[2]
      BY <3>2
    <3>4. p[1] = s.market /\ p[2] = long
      BY <3>3
    <3> QED
      BY <1>3, <3>4
  <2>2. ASSUME <<s.market, long>> \in gpos PROVE held \in Props
    <3>1. held = Rec!Decoded(s.market, "usdc", long)
      BY MarketsDecode
    <3> QED
      BY <2>2, <3>1
  <2> QED
    BY <2>1, <2>2
<1>6. ASSUME NEW x \in Props
      PROVE  Rec!Matches(Intent(s), x) /\ x.is_long = long <=> x = held
  <2>1. PICK p \in gpos : x = [alias |-> p[1], address |-> p[1],
                              collateral |-> "usdc", is_long |-> p[2]]
    BY <1>4
  <2>2. Rec!Matches(Intent(s), x) <=> p[1] = s.market
    BY <2>1 DEF Rec!Matches, Rec!ResolvedAddress, Intent
  <2> QED
    BY <1>3, <2>1, <2>2
<1> HIDE DEF Props, props, held
<1> QED
  BY <1>2, <1>5, <1>6 DEF Rec!HasMatch

\* The account holds the other side of the signal's market, and not its own.
Contradicted ==
    LET m == sigs[n].market  long == GmxIsLong(sigs[n].direction)
    IN  <<m, ~long>> \in gpos /\ <<m, long>> \notin gpos

LEMMA AbortsOnContradiction ==
  ASSUME gpos \subseteq GmxMarkets \X BOOLEAN, sigs[n].market \in GmxMarkets
  PROVE  Rec!ReconcileAction(Intent(sigs[n]), OpenPositions) = "ABORT" <=>
           Contradicted
<1> DEFINE s == sigs[n]  long == GmxIsLong(s.direction)
<1>1. long \in BOOLEAN /\ (~long) \in BOOLEAN
  BY DEF GmxIsLong
<1>2. Intent(s).is_long = long /\ Intent(s).is_increase = TRUE
  BY DEF Intent
<1>3. /\ Rec!HasMatch(Intent(s), OpenPositions, long) <=> <<s.market, long>> \in gpos
      /\ Rec!HasMatch(Intent(s), OpenPositions, ~long) <=>
           <<s.market, ~long>> \in gpos
  BY <1>1, MatchesAreHeld
<1> QED
  BY <1>2, <1>3 DEF Rec!ReconcileAction, Contradicted

\* An empty list, and so a failed read, never aborts.
LEMMA NothingHeldNeverAborts ==
  ASSUME NEW s PROVE Rec!ReconcileAction(Intent(s), <<>>) # "ABORT"
BY DEF Rec!ReconcileAction, Rec!HasMatch, Intent

\* What reconciliation decides is what the account held when it was asked: it
\* refuses a signal only if the other side of its market is open and its own
\* side is not, and, where the read of the positions does not fail, it refuses
\* every such signal; any number of markets and positions, in any order
\* (gmx_position_reader.py reconcile_intent, funding_arb_executor.py
\* handle_signal).  It says nothing of what opens afterwards.
ReconcileTells ==
    /\ pc = "positions" /\ pc' = "record" => Contradicted
    /\ pc = "positions" /\ pc' = "legs" /\ "positions" \notin FailingReads =>
         ~Contradicted

THEOREM ReconcileFollowsPositions == Spec => [][ReconcileTells]_vars
<1>1. ClientInv /\ [Next]_vars => [ReconcileTells]_vars
  <2> SUFFICES ASSUME ClientInv, Next, pc = "positions", pc' \in {"record", "legs"}
               PROVE  ReconcileTells
    BY DEF ReconcileTells
  <2>1. gpos \subseteq GmxMarkets \X BOOLEAN /\ sigs[n].market \in GmxMarkets
    BY DEF ClientInv, TypeInv, SelfTypes, MarketsKnown
  <2>2. FetchAndReconcile
    BY DEF Next, Step, TaskStep, TakeSignal, GuardStep, TakeVerdict, LegStep,
       Gather, Xadd, RecordLoss, Return, Resubscribe, Crash, Restart,
       OperatorFlips, Tick, Chain, Keeper, OperatorCloses, selfVars
  <2>3. PICK ok \in IF "positions" \in FailingReads THEN BOOLEAN ELSE {TRUE} :
          IF Rec!ReconcileAction(Intent(sigs[n]),
                                 IF ok THEN OpenPositions ELSE <<>>) = "ABORT"
            THEN pc' = "record" ELSE pc' = "legs"
    BY <2>2 DEF FetchAndReconcile, WriteRecord
  <2>4. CASE ok
    BY <2>1, <2>3, <2>4, AbortsOnContradiction DEF ReconcileTells
  <2>5. CASE ~ok
    <3>1. Rec!ReconcileAction(Intent(sigs[n]), <<>>) # "ABORT"
      BY NothingHeldNeverAborts
    <3>2. pc' = "legs" /\ "positions" \in FailingReads
      BY <2>3, <2>5, <3>1
    <3> QED
      BY <3>2 DEF ReconcileTells
  <2> QED
    BY <2>4, <2>5
<1> QED
  BY <1>1, ClientInit, ClientStep, PTL DEF Spec

-----------------------------------------------------------------------------
(* What becomes of an order, and how far the documented claims that the    *)
(* code does not keep do hold.                                             *)

\* An order that is with a venue takes only the venue's own next step.
OrderFate(i) ==
    /\ gtx[i] = "mempool" => gtx'[i] \in {"mempool", "dropped", "reverted", "mined"}
    /\ gtx[i] = "mined" => gtx'[i] \in {"mined", "executed", "cancelled"}
    /\ gtx[i] \in {"dropped", "reverted", "executed", "cancelled"} => gtx'[i] = gtx[i]
    /\ bord[i] # "none" => bord'[i] = bord[i]

LEMMA FatesFollow ==
  ASSUME TrailInv, SentInv, [Next]_vars, NEW i \in Ids
  PROVE  OrderFate(i)
<1> USE DEF OrderFate
<1>0. gtx \in [Ids -> Gmx!TxStates] /\ bord \in [Ids -> Bin!Fates]
  BY DEF SentInv
<1>1. CASE UNCHANGED <<gtx, bord>>
  BY <1>1
<1>2. CASE LegStep
  <2>1. pc = "legs" /\ GmxLegSent /\ BinLegSent
    BY <1>2 DEF LegStep, SentInv
  <2>2. ASSUME Gmx!LegStep(Encodable(sigs[n]), TRUE), UNCHANGED binVars
        PROVE  OrderFate(i)
    <3>1. \/ gtx' = gtx
          \/ gtx[n] = "none" /\ gtx' = [gtx EXCEPT ![n] = "mempool"]
      BY <2>1, <2>2
      DEF Gmx!LegStep, Gmx!FetchNonce, Gmx!FetchGasPrice, Gmx!Simulate,
          Gmx!Send, Gmx!HearSend, Gmx!PollReceipt, GmxLegSent
    <3>2. bord' = bord
      BY <2>2 DEF binVars
    <3> QED
      BY <1>0, <3>1, <3>2
  <2>3. ASSUME Bin!LegStep, UNCHANGED gmxVars
        PROVE  OrderFate(i)
    <3>1. \/ bord' = bord
          \/ bord[n] = "none" /\ \E f : bord' = [bord EXCEPT ![n] = f]
      BY <2>1, <2>3
      DEF Bin!LegStep, Bin!FetchMark, Bin!FetchExchangeInfo,
          Bin!CheckPositionMode, Bin!Post, Bin!ReadAnswer, Bin!venueVars,
          BinLegSent
    <3>2. gtx' = gtx
      BY <2>3 DEF gmxVars
    <3> QED
      BY <1>0, <3>1, <3>2
  <2> QED
    BY <1>2, <2>2, <2>3 DEF LegStep
<1>3. ASSUME NEW j \in Ids, Chain(j)
      PROVE  OrderFate(i)
  <2>1. /\ gtx[j] = "mempool" /\ bord' = bord
        /\ \E t \in {"dropped", "reverted", "mined"} : gtx' = [gtx EXCEPT ![j] = t]
    BY <1>3 DEF Chain, Gmx!Chain, binVars
  <2> QED
    BY <1>0, <2>1
<1>4. ASSUME NEW j \in Ids, NEW t, Keeper(j, t)
      PROVE  OrderFate(i)
  <2>1. /\ gtx[j] = "mined" /\ bord' = bord /\ t \in {"executed", "cancelled"}
        /\ gtx' = [gtx EXCEPT ![j] = t]
    BY <1>4 DEF Keeper, Gmx!Keeper, binVars
  <2> QED
    BY <1>0, <2>1
<1>5. CASE \/ \E s \in Signals : TakeSignal(s)
           \/ GuardStep \/ TakeVerdict \/ FetchAndReconcile \/ Gather \/ Xadd
           \/ RecordLoss \/ Return \/ Resubscribe
  BY <1>1, <1>5
  DEF TakeSignal, GuardStep, TakeVerdict, FetchAndReconcile, Gather, Xadd,
      RecordLoss, Return, Resubscribe, Gmx!Start, Gmx!Leave, Bin!Start, Bin!Leave,
      Bin!venueVars, gmxVars, binVars
<1>6. CASE \/ Crash \/ Restart \/ OperatorFlips \/ Tick \/ OperatorCloses
           \/ UNCHANGED vars
  BY <1>1, <1>6
  DEF Crash, Restart, OperatorFlips, Tick, OperatorCloses, Gmx!Leave, Bin!Leave,
      Bin!venueVars, Bin!Close, gmxVars, binVars, vars
<1> QED
  BY <1>2, <1>3, <1>4, <1>5, <1>6 DEF Next, Step, TaskStep

\* No order is sent twice and none is taken back: once a venue has a signal's
\* order, what this process does next, a restart with other settings included,
\* leaves it where the chain, the keepers or the exchange have put it
\* (funding_arb_executor.py handle_signal).
THEOREM OrdersAreFinal == Spec => [][\A i \in Ids : OrderFate(i)]_vars
<1>1. ClientInv /\ [Next]_vars => [\A i \in Ids : OrderFate(i)]_vars
  BY FatesFollow DEF ClientInv
<1> QED
  BY <1>1, ClientInit, ClientStep, PTL DEF Spec

\* What may move the legs, and the settings they run under.
LEMMA LegsMove ==
  ASSUME [Next]_vars
  PROVE  /\ \/ FetchAndReconcile \/ LegStep \/ Gather \/ Crash
            \/ /\ UNCHANGED <<gstage, grefusal, gres, bjob, bstage, bmark, bqty,
                              banswer, bres>>
               /\ pc' = "legs" => pc = "legs"
         /\ settings' = settings \/ Restart
         /\ UNCHANGED <<n, sigs>> \/ \E s \in Signals : TakeSignal(s)
<1>1. ASSUME NEW s \in Signals, TakeSignal(s)
      PROVE  UNCHANGED <<settings, gmxVars, binVars>> /\ pc' # "legs"
  BY <1>1 DEF TakeSignal
<1>2. CASE GuardStep \/ TakeVerdict \/ Xadd \/ RecordLoss \/ Return \/ Resubscribe
  BY <1>2
  DEF GuardStep, TakeVerdict, Xadd, RecordLoss, Return, Resubscribe, WriteRecord,
      gmxVars, binVars, selfVars
<1>3. CASE FetchAndReconcile \/ LegStep \/ Gather \/ Crash
  BY <1>3 DEF FetchAndReconcile, LegStep, Gather, Crash, selfVars
<1>4. CASE Restart
  BY <1>4 DEF Restart, gmxVars, binVars
<1>5. CASE OperatorFlips \/ Tick \/ OperatorCloses \/ UNCHANGED vars
  BY <1>5
  DEF OperatorFlips, Tick, OperatorCloses, Bin!Close, Bin!blegVars, gmxVars,
      binVars, selfVars, vars
<1>6. CASE \/ \E i \in Ids : Chain(i)
           \/ \E i \in Ids, t \in Gmx!TxStates : Keeper(i, t)
  BY <1>6
  DEF Chain, Keeper, Gmx!Chain, Gmx!Keeper, Gmx!glegVars, binVars, selfVars
<1> QED
  BY <1>1, <1>2, <1>3, <1>4, <1>5, <1>6 DEF Next, Step, TaskStep, gmxVars, binVars

\* Every open position was asked for: by a signal of its market and side whose
\* order the keepers have executed.
AskedFor(p) ==
    \E i \in 1..n : /\ gtx[i] = "executed"
                    /\ p = <<sigs[i].market, GmxIsLong(sigs[i].direction)>>

PositionsAskedFor == \A p \in gpos : AskedFor(p)

LEMMA AskedForStays ==
  ASSUME ClientInv, [Next]_vars, NEW p, AskedFor(p)
  PROVE  AskedFor(p)'
<1>1. /\ TrailInv /\ SentInv /\ n \in Nat /\ n <= MaxSignals /\ MaxSignals \in Nat
      /\ sigs \in [Ids -> Signals \cup {NoSig}]
  BY ExecutorAssumption
  DEF ClientInv, TrailInv, PlaceInv, TypeInv, SelfTypes
<1>2. PICK i \in 1..n : /\ gtx[i] = "executed"
                        /\ p = <<sigs[i].market, GmxIsLong(sigs[i].direction)>>
  BY DEF AskedFor
<1>3. i \in Ids
  BY <1>1, <1>2 DEF Ids
<1>4. gtx'[i] = "executed"
  BY <1>1, <1>2, <1>3, FatesFollow DEF OrderFate
<1>5. i \in 1..n' /\ sigs'[i] = sigs[i]
  BY <1>1, <1>3, LegsMove DEF TakeSignal
<1> QED
  BY <1>2, <1>4, <1>5 DEF AskedFor

\* No position is opened that no signal asked for: what an account starts without
\* and holds later, some executed order of a signal of that market and direction
\* put there, however often the process started again in between
\* (funding_arb_executor.py _build_intent, _direction_to_gmx_is_long).
THEOREM PositionsComeFromSignals == Spec => []PositionsAskedFor
<1>1. Init => PositionsAskedFor
  BY DEF Init, PositionsAskedFor
<1>2. ClientInv /\ PositionsAskedFor /\ [Next]_vars => PositionsAskedFor'
  <2> SUFFICES ASSUME ClientInv, PositionsAskedFor, [Next]_vars, NEW p \in gpos'
               PROVE  AskedFor(p)'
    BY DEF PositionsAskedFor
  <2>1. CASE p \in gpos
    BY <2>1, AskedForStays DEF PositionsAskedFor
  <2>2. CASE p \notin gpos
    <3>1. PICK i \in Ids, t \in Gmx!TxStates : Keeper(i, t)
      BY <2>2 DEF Next, Step, TaskStep, TakeSignal, GuardStep, TakeVerdict,
         FetchAndReconcile, LegStep, Gather, Xadd, RecordLoss, Return,
         Resubscribe, Crash, Restart, OperatorFlips, Tick, Chain,
         OperatorCloses, vars
    <3>2. /\ gtx[i] = "mined" /\ UNCHANGED <<n, sigs>>
          /\ gtx' = [gtx EXCEPT ![i] = "executed"]
          /\ p = <<sigs[i].market, GmxIsLong(sigs[i].direction)>>
      BY <2>2, <3>1 DEF Keeper, Gmx!Keeper, selfVars
    <3>3. /\ gtx \in [Ids -> Gmx!TxStates] /\ n \in Nat
          /\ \A j \in Ids : j > n => gtx[j] = "none"
      BY ExecutorAssumption
      DEF ClientInv, TrailInv, PlaceInv, SentInv, Unsent
    <3>4. i \in 1..n /\ gtx'[i] = "executed"
      BY <3>1, <3>2, <3>3, ExecutorAssumption DEF Ids
    <3> QED
      BY <3>2, <3>4 DEF AskedFor
  <2> QED
    BY <2>1, <2>2
<1> QED
  BY <1>1, <1>2, ClientInit, ClientStep, PTL DEF Spec

\* A dry run never comes to a refusal or a broadcast at GMX, and a leg at rest
\* has no result.
DryInv ==
    /\ settings.dry_run => /\ grefusal = "none" /\ gres.error = "none"
                           /\ ~gres.submitted
                           /\ gstage \notin {"send", "ack", "receipt"}
    /\ pc # "legs" => grefusal = "none" /\ gres = Gmx!NoSend

LEMMA DryStep == ClientInv /\ DryInv /\ [Next]_vars => DryInv'
<1> SUFFICES ASSUME ClientInv, DryInv, [Next]_vars PROVE DryInv'
  OBVIOUS
<1> USE DEF DryInv, Gmx!NoSend
<1>1. /\ pc # "legs" => gstage = "idle"
      /\ pc' # "legs" => gstage' = "idle"
  BY ClientStep DEF ClientInv, SentInv
<1>2. CASE FetchAndReconcile
  BY <1>1, <1>2
  DEF FetchAndReconcile, WriteRecord, Gmx!Start, Gmx!Proceed, Gmx!Finish, gmxVars
<1>3. CASE LegStep
  <2>1. pc = "legs" /\ UNCHANGED <<pc, settings>>
    BY <1>3 DEF LegStep, selfVars
  <2>2. CASE UNCHANGED gmxVars
    BY <2>1, <2>2 DEF gmxVars
  <2>3. CASE Gmx!LegStep(Encodable(sigs[n]), TRUE)
    <3>1. CASE Gmx!Simulate
      <4>1. \E c : gres' = Gmx!Simulated(c, grefusal)
        BY <3>1 DEF Gmx!Simulate, Gmx!Finish
      <4>2. gres'.error = grefusal /\ ~gres'.submitted
        BY <4>1 DEF Gmx!Simulated
      <4> QED
        BY <2>1, <3>1, <4>2 DEF Gmx!Simulate, Gmx!Finish
    <3>2. CASE Gmx!FetchNonce
      BY <2>1, <3>2 DEF Gmx!FetchNonce, Gmx!Finish, Gmx!Proceed
    <3>3. CASE Gmx!FetchGasPrice(Encodable(sigs[n]), TRUE)
      <4>1. \/ gres' = Gmx!NoSend /\ grefusal' = "none" /\ gstage' = "done"
            \/ /\ gres' = gres
               /\ settings.dry_run => grefusal' = "none" /\ gstage' = "simulate"
        BY <3>3 DEF Gmx!FetchGasPrice, Gmx!Finish
      <4> QED
        BY <2>1, <4>1
    <3>4. CASE Gmx!Send \/ Gmx!HearSend \/ Gmx!PollReceipt
      BY <2>1, <3>4 DEF Gmx!Send, Gmx!HearSend, Gmx!PollReceipt
    <3> QED
      BY <2>3, <3>1, <3>2, <3>3, <3>4 DEF Gmx!LegStep
  <2> QED
    BY <1>3, <2>2, <2>3 DEF LegStep
<1>4. CASE Gather \/ Crash
  BY <1>4 DEF Gather, Crash, WriteRecord, Gmx!Leave
<1>5. CASE /\ UNCHANGED <<gstage, grefusal, gres>>
           /\ pc' = "legs" => pc = "legs"
           /\ settings' = settings \/ Restart
  <2>1. CASE Restart
    <3>1. pc = "down" /\ pc' = "subscribe"
      BY <2>1 DEF Restart
    <3> QED
      BY <1>1, <1>5, <3>1
  <2>2. CASE settings' = settings /\ pc = "legs" /\ pc' # "legs"
    <3>1. Gather \/ Crash
      BY <2>2 DEF Next, Step, TaskStep, TakeSignal, GuardStep, TakeVerdict,
         FetchAndReconcile, LegStep, Xadd, RecordLoss, Return, Resubscribe,
         Restart, OperatorFlips, Tick, Chain, Keeper, OperatorCloses, selfVars,
         vars
    <3> QED
      BY <1>4, <3>1
  <2> QED
    BY <1>5, <2>1, <2>2
<1> QED
  BY <1>2, <1>3, <1>4, <1>5, LegsMove

\* Reverted on chain, and with Binance all the same.
HalfDone(i) == gtx[i] = "reverted" /\ bord[i] \in {"filled", "expired"}

\* Of all signals, only those are recorded as a success and as a loss.
SuccessInLoss == \A r \in Recorded : r.success /\ r.loss => HalfDone(r.id)

LossOnlyInv ==
    /\ pc = "record" => (rec.success /\ rec.loss => HalfDone(n))
    /\ SuccessInLoss

LEMMA GatheredLoss ==
  ASSUME ClientInv, LegTruth, DryInv, Gather
  PROVE  rec'.success /\ rec'.loss => HalfDone(n)
<1>1. /\ pc = "legs" /\ gstage = "done" /\ bstage = "done"
      /\ rec'.success = IsSuccess /\ rec'.loss = (GmxLoss \/ BinanceLoss)
  BY DEF Gather, WriteRecord
<1>2. GmxLegSent /\ BinLegSent
  BY <1>1 DEF ClientInv, SentInv
<1>3. SUFFICES ASSUME IsSuccess, GmxLoss \/ BinanceLoss PROVE HalfDone(n)
  BY <1>1
<1>4. bres.code = "none" /\ ~BinanceLoss /\ GmxLoss
  BY <1>3 DEF IsSuccess, BinanceLoss
<1>5. CASE gres.submitted /\ bres.submitted
  BY <1>1, <1>4, <1>5
  DEF GmxLoss, LegTruth, Gmx!ResultTruthful, Bin!VerdictTruthful, HalfDone
<1>6. CASE ~(gres.submitted /\ bres.submitted)
  <2>1. settings.dry_run /\ gres.sim # "none" /\ gres.error = "none"
    BY <1>3, <1>6 DEF IsSuccess, DryInv
  <2>2. gres.submitted
    BY <1>4, <2>1 DEF GmxLoss
  <2> QED
    BY <1>1, <1>2, <2>1, <2>2 DEF GmxLegSent
<1> QED
  BY <1>5, <1>6

LEMMA HalfDoneStays ==
  ASSUME TrailInv, SentInv, [Next]_vars, NEW i \in Ids, HalfDone(i)
  PROVE  HalfDone(i)'
BY FatesFollow DEF OrderFate, HalfDone

LEMMA LossOnlyStep ==
  ClientInv /\ LegTruth /\ DryInv /\ LossOnlyInv /\ [Next]_vars => LossOnlyInv'
<1> SUFFICES ASSUME ClientInv, LegTruth, DryInv, LossOnlyInv, [Next]_vars
             PROVE  LossOnlyInv'
  OBVIOUS
<1>1. TrailInv /\ SentInv
  BY DEF ClientInv
<1>2. pc = "record" => n \in Ids /\ rec.id = n
  BY <1>1, ExecutorAssumption DEF TrailInv, PlaceInv, InHand, Ids
<1>3. \A r \in Recorded : r.success /\ r.loss => HalfDone(r.id)'
  BY <1>1, RecordedOld, HalfDoneStays DEF LossOnlyInv, SuccessInLoss
<1>4. SuccessInLoss'
  <2>1. CASE executions' = executions
    BY <1>3, <2>1 DEF SuccessInLoss, Recorded
  <2>2. CASE Xadd
    <3>1. pc = "record" /\ executions \in Seq(Record) /\ rec \in Record
      BY <1>1, <2>2 DEF Xadd, TrailInv, PlaceInv
    <3>2. \A r \in Recorded' : r \in Recorded \/ r = rec
      BY <2>2, <3>1 DEF Xadd, Recorded
    <3>3. ASSUME NEW r, r = rec, r.success, r.loss PROVE HalfDone(r.id)'
      BY <1>1, <1>2, <3>1, <3>3, HalfDoneStays DEF LossOnlyInv
    <3> QED
      BY <1>3, <3>2, <3>3 DEF SuccessInLoss
  <2>3. executions' = executions \/ Xadd
    BY DEF Next, Step, TaskStep, TakeSignal, GuardStep, TakeVerdict,
       FetchAndReconcile, LegStep, Gather, RecordLoss, Return, Resubscribe, Crash,
       Restart, OperatorFlips, Tick, Chain, Keeper, OperatorCloses, selfVars, vars
  <2> QED
    BY <2>1, <2>2, <2>3
<1>5. pc' = "record" => (rec.success /\ rec.loss => HalfDone(n))'
  <2> SUFFICES ASSUME pc' = "record"
               PROVE  rec'.success /\ rec'.loss => HalfDone(n)'
    OBVIOUS
  <2>1. CASE Gather
    <3>1. n' = n /\ UNCHANGED <<gtx, bord>>
      BY <2>1 DEF Gather, Gmx!Leave, Bin!Leave, Bin!venueVars
    <3> QED
      BY <2>1, <3>1, GatheredLoss DEF HalfDone
  <2>2. CASE \E o \in Outcomes : rec' = Refused(o)
    BY <2>2 DEF Refused
  <2>3. CASE pc = "record" /\ UNCHANGED <<n, rec>>
    BY <1>1, <1>2, <2>3, HalfDoneStays DEF LossOnlyInv
  <2>4. CASE TakeVerdict \/ FetchAndReconcile
    <3>1. Objection(sigs[n]) \in Outcomes \cup {"none"} /\ "reconcile" \in Outcomes
      BY DEF Objection, Outcomes
    <3> QED
      BY <2>2, <2>4, <3>1 DEF TakeVerdict, FetchAndReconcile, WriteRecord
  <2>5. Gather \/ TakeVerdict \/ FetchAndReconcile
          \/ (pc = "record" /\ UNCHANGED <<n, rec>>)
    BY DEF Next, Step, TaskStep, TakeSignal, GuardStep, LegStep, Xadd,
       RecordLoss, Return, Resubscribe, Crash, Restart, OperatorFlips, Tick,
       Chain, Keeper, OperatorCloses, selfVars, vars
  <2> QED
    BY <2>1, <2>3, <2>4, <2>5
<1> QED
  BY <1>4, <1>5 DEF LossOnlyInv

\* RevertIsNotSuccess fails in one way only: a signal recorded as a success and
\* as a loss is one whose GMX transaction was reverted on chain while Binance took
\* its order, and remains one (funding_arb_executor.py _is_success and
\* _is_loss_shaped_gmx_result).  A dry run is never both.
THEOREM SuccessInLossIsRevert == Spec => []SuccessInLoss
<1>1. Init => DryInv /\ LossOnlyInv
  BY DEF Init, DryInv, LossOnlyInv, SuccessInLoss, Recorded, Gmx!LegInit, Gmx!NoSend
<1>2. LossOnlyInv => SuccessInLoss
  BY DEF LossOnlyInv
<1>3. Spec => [](ClientInv /\ LegTruth)
  BY ClientInit, ClientStep, LegTruthHolds, PTL DEF Spec
<1> QED
  BY <1>1, <1>2, <1>3, DryStep, LossOnlyStep, PTL DEF Spec

\* A signal whose notional float() could not read.
Unreadable(i) == i \in 1..n /\ sigs[i].notional.kind = "unreadable"

InertInv ==
    /\ pc = "raised" => Unreadable(n)
    /\ \A i \in Ids : Unreadable(i) => i \in lost /\ Unsent(i)

LEMMA InertStep ==
  ASSUME ClientInv, VerdictInv, InertInv, [Next]_vars
  PROVE  InertInv'
<1>0. /\ TrailInv /\ SentInv /\ SelfTypes /\ n \in 0..MaxSignals
      /\ gtx \in [Ids -> Gmx!TxStates] /\ bord \in [Ids -> Bin!Fates]
  BY DEF ClientInv, TypeInv, TrailInv, PlaceInv, SentInv
<1>1. CASE \E s \in Signals : TakeSignal(s)
  <2>1. PICK s \in Signals : TakeSignal(s)
    BY <1>1
  <2>2. /\ n \in Nat /\ n' = n + 1 /\ n' \in Ids /\ n \in 0..MaxSignals
        /\ sigs' = [sigs EXCEPT ![n'] = s] /\ UNCHANGED <<gtx, bord>>
        /\ \/ /\ s.notional.kind = "unreadable"
              /\ pc' = "raised" /\ lost' = lost \cup {n'}
           \/ /\ s.notional.kind # "unreadable"
              /\ pc' = "guard" /\ lost' = lost
    BY <1>0, <2>1, ExecutorAssumption DEF TakeSignal, Ids, gmxVars, binVars
  <2>3. /\ sigs'[n'] = s /\ \A i \in Ids \ {n'} : sigs'[i] = sigs[i]
    BY <1>0, <2>2 DEF SelfTypes
  <2>4. \A i \in Ids : i = n' => Unsent(i)'
    BY <1>0, <2>2 DEF SentInv, Unsent
  <2>5. pc' = "raised" => Unreadable(n)'
    BY <2>2, <2>3 DEF Unreadable
  <2>6. ASSUME NEW i \in Ids, Unreadable(i)' PROVE i \in lost' /\ Unsent(i)'
    <3>1. CASE i = n'
      <4>1. s.notional.kind = "unreadable"
        BY <2>3, <2>6, <3>1 DEF Unreadable
      <4> QED BY <2>2, <2>4, <3>1, <4>1
    <3>2. CASE i # n'
      <4>1. Unreadable(i)
        BY <2>2, <2>3, <2>6, <3>2 DEF Unreadable, Ids
      <4> QED BY <2>2, <4>1 DEF InertInv, Unsent
    <3> QED BY <3>1, <3>2
  <2> QED BY <2>5, <2>6 DEF InertInv
<1>2. CASE ~\E s \in Signals : TakeSignal(s)
  <2>1. /\ UNCHANGED <<n, sigs>> /\ lost \subseteq lost'
        /\ pc' = "raised" => pc = "raised"
    BY <1>2 DEF Next, Step, TaskStep, vars, selfVars, GuardStep, TakeVerdict,
       FetchAndReconcile, LegStep, Gather, Xadd, RecordLoss, Return, WriteRecord,
       Resubscribe, Crash, Restart, OperatorFlips, Tick, Chain, Keeper,
       OperatorCloses
  <2>2. \A i \in Ids : Unreadable(i)' <=> Unreadable(i)
    BY <2>1 DEF Unreadable
  <2>3. pc' = "raised" => Unreadable(n)'
    BY <2>1 DEF Unreadable, InertInv
  <2>4. ASSUME NEW i \in Ids, Unreadable(i) PROVE Unsent(i)'
    <3>1. i \notin GmxSent /\ i \notin BinSent
      BY <2>4 DEF InertInv, Unsent, GmxSent, BinSent
    <3>2. pc = "legs" => i # n
      BY <2>4 DEF VerdictInv, Unreadable, ClientInv, StandInv, Together
    <3>3. i \notin GmxSent' /\ i \notin BinSent'
      BY <1>0, <3>1, <3>2, OnlyInHandPlaced
    <3> QED BY <3>3 DEF Unsent, GmxSent, BinSent
  <2> QED BY <2>1, <2>2, <2>3, <2>4 DEF InertInv
<1> QED BY <1>1, <1>2

\* HandleSignalNeverRaises fails in one way only, and harmlessly so: when the
\* consumer raises it is over a notional float() cannot read, and such a signal
\* has no order on either venue and no record in the stream, then or ever after,
\* whatever restarts and crashes follow (funding_arb_executor.py handle_signal).
THEOREM RaisedSignalsAreInert ==
  Spec => [](/\ pc = "raised" => Unreadable(n)
             /\ \A i \in Ids : Unreadable(i) =>
                   /\ i \notin GmxSent \cup BinSent
                   /\ \A r \in Recorded : r.id # i)
<1>1. Init => InertInv
  BY ExecutorAssumption DEF Init, InertInv, Unreadable
<1>2. InertInv /\ LadderInv => /\ pc = "raised" => Unreadable(n)
                              /\ \A i \in Ids : Unreadable(i) =>
                                    /\ i \notin GmxSent \cup BinSent
                                    /\ \A r \in Recorded : r.id # i
  <2> SUFFICES ASSUME InertInv, LadderInv, NEW i \in Ids, Unreadable(i)
               PROVE  /\ i \notin GmxSent \cup BinSent
                      /\ \A r \in Recorded : r.id # i
    BY DEF InertInv
  <2>1. i \in lost /\ i \notin GmxSent \cup BinSent
    BY DEF InertInv, Unsent, GmxSent, BinSent
  <2>2. ~\E k \in DOMAIN executions : executions[k].id = i
    BY <2>1 DEF LadderInv, ClientInv, TrailInv, OneEntryEach
  <2> QED BY <2>1, <2>2 DEF Recorded
<1>3. Init => LadderInv
  BY ClientInit, GateInit DEF LadderInv
<1>4. InertInv /\ LadderInv /\ [Next]_vars => InertInv'
  BY InertStep DEF LadderInv
<1> QED
  BY <1>1, <1>2, <1>3, <1>4, LadderNext, PTL DEF Spec

\* The mark the hedge is sized with, and the notional it is sized for.
MarkInv ==
    /\ bstage \in {"exchange_info", "position_mode", "post", "ack"} =>
         bmark >= TruePrice
    /\ bstage \in {"mark", "exchange_info", "position_mode", "post", "ack"} =>
         bjob.usd = sigs[n].notional.usd

LEMMA MarkStep ==
  ASSUME \A p \in MarkPrices : p >= TruePrice,
         ClientInv, MarkInv, [Next]_vars
  PROVE  MarkInv'
<1> USE DEF MarkInv
<1>1. /\ pc # "legs" => bstage = "idle"
      /\ pc' # "legs" => bstage' = "idle"
  BY ClientStep DEF ClientInv, SentInv
<1>2. CASE pc' # "legs"
  BY <1>1, <1>2
<1>3. CASE pc' = "legs" /\ UNCHANGED <<n, sigs>>
  <2>1. CASE FetchAndReconcile
    <3>1. Bin!Start(sigs[n].market, BinanceSide(sigs[n].direction),
                    sigs[n].notional.usd)
      BY <1>3, <2>1 DEF FetchAndReconcile, WriteRecord
    <3>2. bjob'.usd = sigs[n].notional.usd /\ bstage' \in {"mark", "done"}
      BY <3>1 DEF Bin!Start, Bin!Proceed, Bin!Finish
    <3> QED
      BY <1>3, <3>2
  <2>2. CASE LegStep
    <3>1. CASE UNCHANGED binVars
      BY <1>3, <3>1 DEF binVars
    <3>2. CASE Bin!FetchMark
      <4>1. /\ bstage = "mark" /\ bstage' = "exchange_info" /\ bjob' = bjob
            /\ \E p \in MarkPrices : bmark' = IF p = 0 THEN 1 ELSE p
        BY <3>2 DEF Bin!FetchMark, Bin!Proceed
      <4>2. \A p \in MarkPrices : p # 0
        BY ConfigAssumption
      <4> QED
        BY <1>3, <4>1, <4>2
    <3>3. ASSUME NEW served \in BOOLEAN, Bin!FetchExchangeInfo(served)
          PROVE  MarkInv'
      BY <1>3, <3>3 DEF Bin!FetchExchangeInfo, Bin!Gate, Bin!Finish, Bin!Proceed
    <3>4. CASE Bin!CheckPositionMode \/ Bin!Post \/ Bin!ReadAnswer
      BY <1>3, <3>4
      DEF Bin!CheckPositionMode, Bin!Post, Bin!ReadAnswer, Bin!Finish, Bin!Proceed
    <3> QED
      BY <2>2, <3>1, <3>2, <3>3, <3>4 DEF LegStep, Bin!LegStep
  <2>3. CASE UNCHANGED <<bstage, bmark, bjob>>
    BY <1>3, <2>3
  <2> QED
    BY <1>1, <1>3, <2>1, <2>2, <2>3, LegsMove DEF Gather, Crash, WriteRecord
<1>4. CASE \E s \in Signals : TakeSignal(s)
  BY <1>2, <1>4 DEF TakeSignal
<1> QED
  BY <1>2, <1>3, <1>4, LegsMove

\* HedgeWorthItsNotional fails in one way only: where a mark price is always
\* there and never below what the instrument costs, a filled hedge costs no more
\* than the signal's notional, for any notional, lot and minimum
\* (funding_arb_executor.py _run_binance_leg, binance_order.py
\* place_market_order).  It is the $1.00 taken for a missing price that breaks it.
THEOREM OnlyLowMarksOverhedge ==
  ASSUME \A p \in MarkPrices : p >= TruePrice
  PROVE  Spec => []HedgeWorthItsNotional
<1>1. Init => MarkInv
  BY DEF Init, MarkInv, Bin!LegInit
<1>2. ClientInv /\ LegTruth /\ MarkInv => HedgeWorthItsNotional
  <2> SUFFICES ASSUME ClientInv, LegTruth, MarkInv, bstage = "ack"
               PROVE  bqty * TruePrice <= sigs[n].notional.usd
    BY DEF HedgeWorthItsNotional
  <2>1. bqty \in Nat /\ bmark \in Nat /\ bjob.usd \in Int
    BY ExecutorAssumption
    DEF ClientInv, TypeInv, BinTyped, Bin!TypeOK, Bin!Job, Bin!NoJob
  <2>2. bmark >= TruePrice /\ bjob.usd = sigs[n].notional.usd
    BY DEF MarkInv
  <2>3. bqty * bmark <= bjob.usd
    BY <2>1, ConfigAssumption DEF LegTruth, Bin!SizeAcceptable
  <2>4. bqty * TruePrice <= bqty * bmark
    BY <2>1, <2>2, ConfigAssumption
  <2>5. bqty * TruePrice \in Int /\ bqty * bmark \in Int
    BY <2>1, ConfigAssumption
  <2> QED
    BY <2>1, <2>2, <2>3, <2>4, <2>5
<1>3. Spec => [](ClientInv /\ LegTruth)
  BY ClientInit, ClientStep, LegTruthHolds, PTL DEF Spec
<1>4. ClientInv /\ MarkInv /\ [Next]_vars => MarkInv'
  BY MarkStep
<1> QED
  BY <1>1, <1>2, <1>3, <1>4, PTL DEF Spec

\* Nor does a dry run come to an answer of Binance's.
DryBinInv ==
    /\ settings.dry_run => bres.code # "venue" /\ bstage # "ack"
    /\ pc # "legs" => bres = Bin!NoOrder

LEMMA DryBinStep == ClientInv /\ DryBinInv /\ [Next]_vars => DryBinInv'
<1> SUFFICES ASSUME ClientInv, DryBinInv, [Next]_vars PROVE DryBinInv'
  OBVIOUS
<1> USE DEF DryBinInv, Bin!NoOrder
<1>1. /\ pc # "legs" => bstage = "idle"
      /\ pc' # "legs" => bstage' = "idle"
      /\ pc = "legs" /\ settings.dry_run => bstage # "post"
  BY ClientStep DEF ClientInv, SentInv, BinLegSent
<1>2. CASE FetchAndReconcile
  BY <1>1, <1>2
  DEF FetchAndReconcile, WriteRecord, Bin!Start, Bin!Proceed, Bin!Finish, binVars
<1>3. CASE LegStep
  <2>1. pc = "legs" /\ UNCHANGED <<pc, settings>>
    BY <1>3 DEF LegStep, selfVars
  <2>2. CASE UNCHANGED binVars
    BY <2>1, <2>2 DEF binVars
  <2>3. CASE Bin!FetchMark \/ Bin!CheckPositionMode \/ Bin!Post \/ Bin!ReadAnswer
    BY <1>1, <2>1, <2>3
    DEF Bin!FetchMark, Bin!CheckPositionMode, Bin!Post, Bin!ReadAnswer,
        Bin!Proceed, Bin!Finish, Bin!Blocked, Bin!Requested
  <2>4. ASSUME NEW served \in BOOLEAN, Bin!FetchExchangeInfo(served)
        PROVE  DryBinInv'
    BY <2>1, <2>4
    DEF Bin!FetchExchangeInfo, Bin!Gate, Bin!Proceed, Bin!Finish, Bin!Blocked,
        Bin!Requested, Bin!LocalError
  <2> QED
    BY <1>3, <2>2, <2>3, <2>4 DEF LegStep, Bin!LegStep
<1>4. CASE Gather \/ Crash
  BY <1>4 DEF Gather, Crash, WriteRecord, Bin!Leave
<1>5. CASE UNCHANGED <<bstage, bres>> /\ ~Gather /\ ~Crash
  <2>1. CASE Restart
    <3>1. pc = "down" /\ pc' = "subscribe"
      BY <2>1 DEF Restart
    <3> QED
      BY <1>1, <1>5, <3>1
  <2>2. CASE settings' = settings
    <3>1. pc = "legs" => pc' = "legs"
      BY <1>5 DEF Next, Step, TaskStep, TakeSignal, GuardStep, TakeVerdict,
         FetchAndReconcile, LegStep, Xadd, RecordLoss, Return, Resubscribe,
         Restart, OperatorFlips, Tick, Chain, Keeper, OperatorCloses, selfVars,
         vars
    <3> QED
      BY <1>5, <2>2, <3>1
  <2> QED
    BY <2>1, <2>2, LegsMove
<1> QED
  BY <1>2, <1>3, <1>4, <1>5, LegsMove

\* Until a recorded loss has been dealt with, it is one of a process that trades.
LossLive ==
    /\ pc = "record" /\ rec.loss => ~settings.dry_run
    /\ pc = "loss" => ~settings.dry_run

LEMMA LossLiveStep ==
  ClientInv /\ DryInv /\ DryBinInv /\ LossLive /\ [Next]_vars => LossLive'
<1> SUFFICES ASSUME ClientInv, DryInv, DryBinInv, LossLive, [Next]_vars
             PROVE  LossLive'
  OBVIOUS
<1> USE DEF LossLive
<1>1. CASE Gather
  <2>1. settings' = settings /\ pc' = "record" /\ rec'.loss = (GmxLoss \/ BinanceLoss)
    BY <1>1 DEF Gather, WriteRecord
  <2>2. settings.dry_run => ~GmxLoss /\ ~BinanceLoss
    BY DEF DryInv, DryBinInv, GmxLoss, BinanceLoss
  <2> QED
    BY <2>1, <2>2
<1>2. CASE TakeVerdict \/ FetchAndReconcile
  <2>1. \A o : Refused(o).loss = FALSE
    BY DEF Refused
  <2>2. pc' # "loss" /\ (pc' = "record" => \E o : rec' = Refused(o))
    BY <1>2 DEF TakeVerdict, FetchAndReconcile, WriteRecord
  <2> QED
    BY <2>1, <2>2
<1>3. CASE Xadd
  BY <1>3 DEF Xadd
<1>4. CASE \/ \E s \in Signals : TakeSignal(s)
           \/ RecordLoss \/ Return \/ Resubscribe \/ Crash \/ Restart
  BY <1>4 DEF TakeSignal, RecordLoss, Return, Resubscribe, Crash, Restart
<1>5. CASE UNCHANGED <<pc, rec, settings>>
  BY <1>5
<1>6. CASE \/ GuardStep \/ LegStep \/ OperatorFlips \/ Tick \/ OperatorCloses
           \/ \E i \in Ids : Chain(i)
           \/ \E i \in Ids, t \in Gmx!TxStates : Keeper(i, t)
           \/ UNCHANGED vars
  BY <1>5, <1>6 DEF GuardStep, LegStep, OperatorFlips, Tick, OperatorCloses,
     Chain, Keeper, selfVars, vars
<1> QED
  BY <1>1, <1>2, <1>3, <1>4, <1>6 DEF Next, Step, TaskStep

\* A dry run never books a loss, and so never puts the live process that comes
\* after it into a cooldown, whatever its reads and simulations come back with:
\* that a switched-off GMX counts as a loss, although the comments say it does not
\* (RefusalIsNotLoss), is felt by processes with dry_run off only
\* (funding_arb_executor.py _is_loss_shaped_gmx_result and handle_signal).
THEOREM DryRunsNeverLose == Spec => DryRunsBookNoLoss
<1>1. Init => DryInv /\ DryBinInv /\ LossLive
  BY DEF Init, DryInv, DryBinInv, LossLive, Gmx!LegInit, Gmx!NoSend, Bin!LegInit,
     Bin!NoOrder
<1>2. Spec => [](ClientInv /\ DryInv /\ DryBinInv /\ LossLive)
  BY <1>1, ClientInit, ClientStep, DryStep, DryBinStep, LossLiveStep, PTL DEF Spec
<1>3. LossLive /\ [Next]_vars => [lastLoss' # lastLoss => ~settings.dry_run]_vars
  <2> SUFFICES ASSUME LossLive, Next, lastLoss' # lastLoss
               PROVE  ~settings.dry_run
    OBVIOUS
  <2>1. RecordLoss
    BY DEF Next, Step, TaskStep, TakeSignal, GuardStep, TakeVerdict,
       FetchAndReconcile, LegStep, Gather, Xadd, Return, Resubscribe, Crash,
       Restart, OperatorFlips, Tick, Chain, Keeper, OperatorCloses, guardVars,
       redisVars, Guard!Begin, Guard!CheckStep, Guard!ReadKillswitch,
       Guard!ReadDailyPnl, Guard!CountGmx, Guard!CountBinance,
       Guard!ReadCooldown, Guard!LogDenial, Guard!Deny, Guard!PassTo,
       Guard!Return, Guard!Cancel, Guard!Forget, Guard!TripKillswitch,
       Guard!ResetKillswitch, Guard!Tick, Guard!envVars, vars, selfVars
  <2> QED
    BY <2>1 DEF RecordLoss, LossLive
<1> QED
  BY <1>2, <1>3, PTL DEF Spec, DryRunsBookNoLoss

\* An order that may still come to open its side: broadcast and not yet final,
\* or of the legs that run.
InFlight(i) == gtx[i] \in {"mempool", "mined"}
Underway(i) == InFlight(i) \/ (i = n /\ pc = "legs")
Side(i)     == <<sigs[i].market, GmxIsLong(sigs[i].direction)>>
OtherSide(i) == <<sigs[i].market, ~GmxIsLong(sigs[i].direction)>>

\* When the positions are read, every order sent before is final.
NothingInFlight == pc = "positions" => \A i \in Ids : ~InFlight(i)

NotOpposed == \A q \in gpos : <<q[1], ~q[2]>> \notin gpos

\* At most one order is underway, and its other side is not open.
SidesInv ==
    /\ NotOpposed
    /\ \A i \in Ids : Underway(i) =>
          OtherSide(i) \notin gpos /\ \A j \in Ids : Underway(j) => i = j

LEMMA SentByLeg ==
  ASSUME TrailInv, SentInv, [Next]_vars, NEW i \in Ids,
         gtx[i] = "none", gtx'[i] # "none"
  PROVE  pc = "legs" /\ i = n
<1>1. gtx \in [Ids -> Gmx!TxStates]
  BY DEF SentInv
<1>2. \/ LegStep \/ \E j \in Ids : Chain(j)
      \/ \E j \in Ids, t \in Gmx!TxStates : Keeper(j, t)
  BY DEF Next, Step, TaskStep, TakeSignal, GuardStep, TakeVerdict,
     FetchAndReconcile, Gather, Xadd, RecordLoss, Return, Resubscribe, Crash,
     Restart, OperatorFlips, Tick, OperatorCloses, Gmx!Start, Gmx!Leave, gmxVars,
     vars
<1>3. CASE LegStep
  <2>1. pc = "legs"
    BY <1>3 DEF LegStep
  <2>2. gtx' = [gtx EXCEPT ![n] = "mempool"]
    BY <1>3 DEF LegStep, Gmx!LegStep, Gmx!FetchNonce, Gmx!FetchGasPrice,
       Gmx!Simulate, Gmx!Send, Gmx!HearSend, Gmx!PollReceipt, gmxVars
  <2> QED
    BY <1>1, <2>1, <2>2
<1>4. ASSUME NEW j \in Ids, Chain(j) PROVE FALSE
  <2>1. gtx[j] = "mempool" /\ \E t : gtx' = [gtx EXCEPT ![j] = t]
    BY <1>4 DEF Chain, Gmx!Chain
  <2> QED
    BY <1>1, <2>1
<1>5. ASSUME NEW j \in Ids, NEW t, Keeper(j, t) PROVE FALSE
  <2>1. gtx[j] = "mined" /\ gtx' = [gtx EXCEPT ![j] = t]
    BY <1>5 DEF Keeper, Gmx!Keeper
  <2> QED
    BY <1>1, <2>1
<1> QED
  BY <1>2, <1>3, <1>4, <1>5

\* But for reconciliation, no step puts an order underway, or changes its signal.
LEMMA UnderwayBefore ==
  ASSUME ClientInv, [Next]_vars, ~FetchAndReconcile, NEW i \in Ids, Underway(i)'
  PROVE  Underway(i) /\ sigs'[i] = sigs[i]
<1>1. TrailInv /\ SentInv /\ n \in Nat
  BY ExecutorAssumption DEF ClientInv, TrailInv, PlaceInv
<1>2. CASE i = n' /\ pc' = "legs"
  <2>1. ~\E s \in Signals : TakeSignal(s)
    BY <1>2 DEF TakeSignal
  <2>2. pc = "legs"
    BY <1>2, LegsMove DEF LegStep, Gather, Crash, WriteRecord
  <2>3. n' = n /\ sigs' = sigs
    BY <2>1, LegsMove
  <2> QED
    BY <1>2, <2>2, <2>3 DEF Underway
<1>3. CASE InFlight(i)'
  <2>1. Underway(i)
    <3>1. CASE gtx[i] = "none"
      BY <1>1, <1>3, <3>1, SentByLeg DEF InFlight, Underway
    <3>2. CASE gtx[i] # "none"
      <4>1. gtx[i] \in Gmx!TxStates
        BY <1>1 DEF SentInv
      <4>2. OrderFate(i)
        BY <1>1, FatesFollow
      <4> QED
        BY <1>3, <3>2, <4>1, <4>2
        DEF InFlight, Underway, OrderFate, Gmx!TxStates
    <3> QED
      BY <3>1, <3>2
  <2>2. i <= n
    BY <1>1, <2>1 DEF Underway, InFlight, SentInv, Unsent, Ids
  <2>3. sigs'[i] = sigs[i]
    <3>1. ASSUME NEW s \in Signals, TakeSignal(s) PROVE sigs'[i] = sigs[i]
      <4>1. sigs' = [sigs EXCEPT ![n + 1] = s] /\ i # n + 1
        BY <1>1, <2>2, <3>1 DEF TakeSignal, Ids
      <4> QED
        BY <4>1 DEF ClientInv, TypeInv, SelfTypes
    <3> QED
      BY <3>1, LegsMove
  <2> QED
    BY <2>1, <2>3
<1> QED
  BY <1>2, <1>3 DEF Underway

LEMMA SidesStep ==
  ASSUME ClientInv, SidesInv, NothingInFlight, [Next]_vars,
         "positions" \notin FailingReads
  PROVE  SidesInv'
<1>1. TrailInv /\ SentInv /\ n \in Nat /\ gpos \subseteq GmxMarkets \X BOOLEAN
  BY ExecutorAssumption DEF ClientInv, TrailInv, PlaceInv, TypeInv, SelfTypes
<1>2. CASE FetchAndReconcile
  <2>1. pc = "positions" /\ UNCHANGED <<n, sigs, gpos, gtx>>
    BY <1>2 DEF FetchAndReconcile, Gmx!Start, gmxVars
  <2>2. NotOpposed'
    BY <2>1 DEF SidesInv, NotOpposed
  <2>3. ASSUME NEW i \in Ids, Underway(i)'
        PROVE  i = n /\ pc' = "legs"
    BY <2>1, <2>3 DEF Underway, InFlight, NothingInFlight
  <2>4. pc' = "legs" => ~Contradicted
    <3>1. sigs[n].market \in GmxMarkets
      BY <2>1 DEF ClientInv, TypeInv, MarketsKnown
    <3>2. PICK ok \in {TRUE} :
            IF Rec!ReconcileAction(Intent(sigs[n]),
                                   IF ok THEN OpenPositions ELSE <<>>) = "ABORT"
              THEN pc' = "record" ELSE pc' = "legs"
      BY <1>2 DEF FetchAndReconcile, WriteRecord
    <3> QED
      BY <1>1, <3>1, <3>2, AbortsOnContradiction
  <2>5. pc' = "legs" => OtherSide(n) \notin gpos
    <3>1. ASSUME Side(n) \in gpos PROVE OtherSide(n) \notin gpos
      BY <3>1 DEF SidesInv, NotOpposed, Side, OtherSide
    <3> QED
      BY <2>4, <3>1 DEF Contradicted, Side, OtherSide
  <2>6. OtherSide(n)' = OtherSide(n) /\ gpos' = gpos
    BY <2>1 DEF OtherSide
  <2> QED
    BY <2>1, <2>2, <2>3, <2>5, <2>6 DEF SidesInv, OtherSide
<1>3. CASE ~FetchAndReconcile /\ gpos' \subseteq gpos
  <2>1. NotOpposed'
    BY <1>3 DEF SidesInv, NotOpposed
  <2>2. ASSUME NEW i \in Ids, Underway(i)'
        PROVE  OtherSide(i)' \notin gpos' /\ \A j \in Ids : Underway(j)' => i = j
    BY <1>3, <2>2, UnderwayBefore DEF SidesInv, OtherSide
  <2> QED
    BY <2>1, <2>2 DEF SidesInv
<1>4. ASSUME NEW i \in Ids, NEW t \in Gmx!TxStates, Keeper(i, t), t = "executed"
      PROVE  SidesInv'
  <2>1. /\ gtx[i] = "mined" /\ UNCHANGED <<n, sigs, pc>>
        /\ gpos' = gpos \cup {Side(i)}
    BY <1>4 DEF Keeper, Gmx!Keeper, selfVars, Side
  <2>2. Underway(i) /\ OtherSide(i) \notin gpos
    BY <2>1 DEF Underway, InFlight, SidesInv
  <2>3. ~FetchAndReconcile
    BY <2>1 DEF FetchAndReconcile, WriteRecord
  <2>4. /\ Side(i)[1] = sigs[i].market /\ Side(i)[2] = GmxIsLong(sigs[i].direction)
        /\ Side(i)[2] \in BOOLEAN /\ OtherSide(i) = <<Side(i)[1], ~Side(i)[2]>>
    BY DEF Side, OtherSide, GmxIsLong
  <2>5. ASSUME NEW q \in gpos' PROVE <<q[1], ~q[2]>> \notin gpos'
    <3>1. CASE q \in gpos
      <4>1. q[2] \in BOOLEAN /\ q = <<q[1], q[2]>>
        BY <1>1, <3>1
      <4>2. <<q[1], ~q[2]>> \notin gpos
        BY <3>1 DEF SidesInv, NotOpposed
      <4>3. <<q[1], ~q[2]>> # Side(i)
        BY <2>2, <2>4, <3>1, <4>1
      <4> QED
        BY <2>1, <4>2, <4>3
    <3>2. CASE q = Side(i)
      <4>1. <<q[1], ~q[2]>> = OtherSide(i) /\ OtherSide(i) # Side(i)
        BY <2>4, <3>2
      <4> QED
        BY <2>1, <2>2, <4>1
    <3> QED
      BY <2>1, <3>1, <3>2
  <2>6. ASSUME NEW k \in Ids, Underway(k)'
        PROVE  OtherSide(k)' \notin gpos' /\ \A j \in Ids : Underway(j)' => k = j
    <3>1. Underway(k) /\ \A j \in Ids : Underway(j)' => Underway(j)
      BY <2>3, <2>6, UnderwayBefore
    <3>2. k = i /\ \A j \in Ids : Underway(j)' => k = j
      BY <2>2, <3>1 DEF SidesInv
    <3>3. OtherSide(k)' = OtherSide(i)
      BY <2>1, <3>2 DEF OtherSide
    <3>4. OtherSide(i) # Side(i)
      BY <2>4
    <3> QED
      BY <2>1, <2>2, <3>2, <3>3, <3>4
  <2> QED
    BY <2>5, <2>6 DEF SidesInv, NotOpposed
<1>5. \/ FetchAndReconcile \/ gpos' \subseteq gpos
      \/ \E i \in Ids, t \in Gmx!TxStates : Keeper(i, t) /\ t = "executed"
  BY DEF Next, Step, TaskStep, TakeSignal, GuardStep, TakeVerdict,
     LegStep, Gather, Xadd, RecordLoss, Return,
     Resubscribe, Crash, Restart, OperatorFlips, Tick, Chain, Keeper,
     OperatorCloses, vars
<1> QED
  BY <1>2, <1>3, <1>4, <1>5

\* OneSidePerMarket fails in two ways only: where the read of the positions does
\* not fail, and every order sent before is final when the next signal's
\* positions are read, the account never holds both sides of a market, however
\* its orders are dropped, reverted, cancelled or executed after that and
\* however often the process starts again (funding_arb_executor.py
\* handle_signal, gmx_position_reader.py reconcile_intent).
THEOREM OnlyLateOrdersOppose ==
  ASSUME "positions" \notin FailingReads
  PROVE  Spec /\ []NothingInFlight => []OneSidePerMarket
<1>1. Init => SidesInv
  BY DEF Init, SidesInv, NotOpposed, Underway, InFlight, Gmx!LegInit
<1>2. ClientInv /\ SidesInv /\ NothingInFlight /\ [Next]_vars => SidesInv'
  BY SidesStep
<1>3. SidesInv => OneSidePerMarket
  <2> SUFFICES ASSUME NotOpposed, NEW m \in GmxMarkets,
                      <<m, TRUE>> \in gpos, <<m, FALSE>> \in gpos
               PROVE  FALSE
    BY DEF SidesInv, OneSidePerMarket
  <2>1. <<m, ~TRUE>> = <<m, FALSE>>
    OBVIOUS
  <2> QED
    BY <2>1 DEF NotOpposed
<1> QED
  BY <1>1, <1>2, <1>3, ClientInit, ClientStep, PTL DEF Spec
=============================================================================
