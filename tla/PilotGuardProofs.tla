-------------------------- MODULE PilotGuardProofs --------------------------
(***************************************************************************)
(* The safety of PilotGuard.check for every value of its constants.        *)
(*                                                                         *)
(* StandingReasonDenies is not inductive: at the verdict nothing is left   *)
(* of what the reads returned.  GuardInv adds, gate by gate, what having   *)
(* passed that gate says about the reasons that still stand.               *)
(***************************************************************************)
EXTENDS PilotGuard, TLAPS

\* The check has got past the killswitch, the PnL, the position counts.
PastKillswitch == stage \in {"daily_pnl", "gmx", "binance", "cooldown"} \/ Allowed
PastPnl        == stage \in {"gmx", "binance", "cooldown"} \/ Allowed
PastCounts     == stage = "cooldown" \/ Allowed

Overlooked(r) == r \in standing => r \in blind

\* The guard is blamed by name before it reports, and only then.
GateNamed ==
    /\ stage \notin {"log", "done"} => gate = "none"
    /\ stage = "log" => gate # "none"

\* Until G4 reads the stream, a day below its floor has not rolled over, so
\* the window still is the day.
WindowIsToday ==
    stage = "daily_pnl" /\ "daily_pnl" \in standing => pnlWindow = pnlToday

GuardInv ==
    /\ TypeOK
    /\ GateNamed
    /\ WindowIsToday
    /\ PastKillswitch => "killswitch" \notin standing
    /\ PastPnl => Overlooked("daily_pnl")
    /\ stage = "binance" => Overlooked("gmx_full") \/ gmxN >= MaxConcurrent
    /\ PastCounts => Overlooked("gmx_full") /\ Overlooked("binance_full")
    /\ Allowed => Overlooked("cooldown")

-----------------------------------------------------------------------------
\* Initially nothing has been asked.
LEMMA InitGuardInv == Init => GuardInv
  BY GuardAssumption, FloorAssumption
  DEF Init, GuardInv, TypeOK, GateNamed, WindowIsToday, PastKillswitch, PastPnl,
      PastCounts, Allowed, Overlooked, Stages, Gates, Reasons, NoLoss

\* Every step keeps the variables in their types.
LEMMA TypeStep == TypeOK /\ [Next]_vars => TypeOK'
<1> SUFFICES ASSUME TypeOK, [Next]_vars PROVE TypeOK'
  OBVIOUS
<1> USE GuardAssumption, FloorAssumption
    DEF TypeOK, Stages, Gates, Request, NoLoss, envVars, checkVars
<1>o. ASSUME Next PROVE standing' \subseteq Reasons
  BY <1>o DEF Next, Observe, Holding, Reasons
<1>1. CASE UNCHANGED vars
  BY <1>1 DEF vars
<1>2. ASSUME Next, NEW m \in RawMarkets, NEW x \in Notionals, Begin(m, x)
      PROVE  TypeOK'
  BY <1>2, <1>o DEF Begin
<1>3. ASSUME Next, ReadKillswitch PROVE TypeOK'
  BY <1>3, <1>o DEF ReadKillswitch, Missed, Answer, Deny, PassTo, Reasons
<1>4. ASSUME Next, ReadDailyPnl PROVE TypeOK'
  BY <1>4, <1>o DEF ReadDailyPnl, Missed, Answer, Deny, PassTo, Reasons
<1>5. ASSUME Next, CountGmx PROVE TypeOK'
  BY <1>5, <1>o DEF CountGmx, Missed, Answer, Counted, PassTo, Reasons
<1>6. ASSUME Next, CountBinance PROVE TypeOK'
  BY <1>6, <1>o DEF CountBinance, Missed, Answer, Deny, PassTo, Reasons
<1>7. ASSUME Next, ReadCooldown PROVE TypeOK'
  BY <1>7, <1>o DEF ReadCooldown, Missed, Answer, Deny, PassTo, Reasons
<1>8. ASSUME Next, LogDenial \/ Return \/ Cancel PROVE TypeOK'
  BY <1>8, <1>o DEF LogDenial, Return, Cancel, Forget, PassTo
<1>9. ASSUME Next, TripKillswitch \/ ResetKillswitch \/ RecordLoss
                    \/ Reconfigure
      PROVE  TypeOK'
  BY <1>9, <1>o DEF TripKillswitch, ResetKillswitch, RecordLoss, Reconfigure
<1>10. ASSUME Next, Tick PROVE TypeOK'
  BY <1>10, <1>o DEF Tick
<1>11. ASSUME Next, NEW d \in PnlSteps, Settle(d) PROVE TypeOK'
  BY <1>11, <1>o DEF Settle
<1>12. ASSUME Next, PositionMoves PROVE TypeOK'
  BY <1>12, <1>o DEF PositionMoves
<1>13. QED
  BY <1>1, <1>2, <1>3, <1>4, <1>5, <1>6, <1>7, <1>8, <1>9, <1>10, <1>11, <1>12
  DEF Next, Step, CheckStep

\* Except when a check begins, a reason that stands stood before and still
\* holds in the new state.
LEMMA StandingShrinks ==
  ASSUME Next, ~(stage = "idle" /\ stage' # "idle")
  PROVE  /\ standing' \subseteq standing
         /\ "killswitch" \in standing' => killswitch'
         /\ "daily_pnl" \in standing' => pnlToday' < PnlFloor
         /\ "gmx_full" \in standing' => gmxOpen' >= MaxConcurrent
         /\ "binance_full" \in standing' => binOpen' >= MaxConcurrent
         /\ "cooldown" \in standing' => CoolingDown'
  BY DEF Next, Observe, Holding, Reasons

\* The gates' part of the invariant is kept by every step.
LEMMA GuardStep == GuardInv /\ [Next]_vars => GuardInv'
<1> SUFFICES ASSUME GuardInv, [Next]_vars PROVE GuardInv'
  OBVIOUS
<1>t. TypeOK /\ TypeOK'
  BY TypeStep DEF GuardInv
<1> USE GuardAssumption, FloorAssumption
    DEF GuardInv, GateNamed, WindowIsToday, PastKillswitch, PastPnl, PastCounts,
        Overlooked, Allowed
<1>1. CASE UNCHANGED vars
  BY <1>1, <1>t DEF vars, envVars, checkVars
<1>2. ASSUME Next, NEW m \in RawMarkets, NEW x \in Notionals, Begin(m, x)
      PROVE  GuardInv'
  BY <1>2, <1>t DEF Begin, envVars, checkVars
<1>3. ASSUME Next, ReadKillswitch PROVE GuardInv'
  BY <1>3, <1>t, StandingShrinks
  DEF ReadKillswitch, KillswitchIsSet, Missed, Answer, Deny, PassTo, envVars, TypeOK
<1>4. ASSUME Next, ReadDailyPnl PROVE GuardInv'
  BY <1>4, <1>t, StandingShrinks
  DEF ReadDailyPnl, RealizedPnl, Missed, Answer, Deny, PassTo, envVars, TypeOK
<1>5. ASSUME Next, CountGmx PROVE GuardInv'
  BY <1>5, <1>t, StandingShrinks
  DEF CountGmx, Counted, Missed, Answer, PassTo, envVars, TypeOK
<1>6. ASSUME Next, CountBinance PROVE GuardInv'
  BY <1>6, <1>t, StandingShrinks
  DEF CountBinance, Counted, Missed, Answer, Deny, PassTo, envVars, TypeOK
<1>7. ASSUME Next, ReadCooldown PROVE GuardInv'
  BY <1>7, <1>t, StandingShrinks
  DEF ReadCooldown, CooldownActive, CoolingDown, CooldownRemaining, Missed, Answer, Deny,
      PassTo, envVars, TypeOK
<1>8. ASSUME Next, LogDenial \/ Return \/ Cancel PROVE GuardInv'
  BY <1>8, <1>t, StandingShrinks DEF LogDenial, Return, Cancel, Forget, PassTo
<1>9. ASSUME Next, TripKillswitch \/ ResetKillswitch \/ RecordLoss \/ PositionMoves
                    \/ Reconfigure
      PROVE  GuardInv'
  BY <1>9, <1>t, StandingShrinks
  DEF TripKillswitch, ResetKillswitch, RecordLoss, PositionMoves, Reconfigure,
      checkVars
<1>10. ASSUME Next, Tick PROVE GuardInv'
  BY <1>10, <1>t, StandingShrinks DEF Tick, checkVars, TypeOK
<1>11. ASSUME Next, NEW d \in PnlSteps, Settle(d) PROVE GuardInv'
  BY <1>11, <1>t, StandingShrinks DEF Settle, checkVars, TypeOK
<1>12. QED
  BY <1>1, <1>2, <1>3, <1>4, <1>5, <1>6, <1>7, <1>8, <1>9, <1>10, <1>11
  DEF Next, Step, CheckStep

\* GuardInv holds in every reachable state.
LEMMA GuardInvariance == Spec => []GuardInv
  BY InitGuardInv, GuardStep, PTL DEF Spec

-----------------------------------------------------------------------------
\* The variables of a check keep their types.
THEOREM GuardTypeCorrect == Spec => []TypeOK
<1>1. GuardInv => TypeOK
  BY DEF GuardInv
<1>2. QED
  BY <1>1, GuardInvariance, PTL

\* A tripped killswitch that stays set denies every check that begins under
\* it, whichever reads fail.
THEOREM TrippedMeansDenied == Spec => []TripStands
<1>1. GuardInv => TripStands
  BY DEF GuardInv, PastKillswitch, TripStands
<1>2. QED
  BY <1>1, GuardInvariance, PTL

\* A reason to deny that holds throughout a check is overlooked only by a
\* failed read of that very reason.
THEOREM StandingReasonsDeny == Spec => []StandingReasonDenies
<1>1. GuardInv => StandingReasonDenies
  BY DEF GuardInv, PastKillswitch, PastPnl, PastCounts, Overlooked, Allowed,
         StandingReasonDenies, TypeOK, Reasons
<1>2. QED
  BY <1>1, GuardInvariance, PTL

-----------------------------------------------------------------------------
(* Liveness: a check moves on through its awaits and never back.           *)

\* Whatever happens at an await leaves the check there, ends it, or takes it
\* to one of the awaits behind it.
LEMMA AwaitsAdvance ==
  ASSUME [Next]_vars
  PROVE  /\ stage = "killswitch" =>
              stage' \in {"killswitch", "daily_pnl", "log", "idle"}
         /\ stage = "daily_pnl"  => stage' \in {"daily_pnl", "gmx", "log", "idle"}
         /\ stage = "gmx"        => stage' \in {"gmx", "binance", "idle"}
         /\ stage = "binance"    => stage' \in {"binance", "cooldown", "log", "idle"}
         /\ stage = "cooldown"   => stage' \in {"cooldown", "done", "log", "idle"}
         /\ stage = "log"        => stage' \in {"log", "done", "idle"}
<1> USE DEF vars, envVars, checkVars
<1>1. CASE CheckStep
  BY <1>1 DEF CheckStep, ReadKillswitch, ReadDailyPnl, CountGmx, CountBinance,
     ReadCooldown, LogDenial, Deny, PassTo
<1>2. CASE (\E m \in RawMarkets, x \in Notionals : Begin(m, x)) \/ Return \/ Cancel
  BY <1>2 DEF Begin, Return, Cancel, Forget
<1>3. CASE stage' = stage
  BY <1>3
<1> QED
  BY <1>1, <1>2, <1>3 DEF Next, Step, TripKillswitch, ResetKillswitch, RecordLoss,
     Tick, Settle, PositionMoves, Reconfigure

\* An await that ends is left.
LEMMA AwaitsEndForward ==
  ASSUME CheckStep
  PROVE  /\ stage = "killswitch" => stage' \in {"daily_pnl", "log"}
         /\ stage = "daily_pnl"  => stage' \in {"gmx", "log"}
         /\ stage = "gmx"        => stage' = "binance"
         /\ stage = "binance"    => stage' \in {"cooldown", "log"}
         /\ stage = "cooldown"   => stage' \in {"done", "log"}
         /\ stage = "log"        => stage' = "done"
BY DEF CheckStep, ReadKillswitch, ReadDailyPnl, CountGmx, CountBinance,
   ReadCooldown, LogDenial, Deny, PassTo

\* Every check comes to a verdict unless it is cancelled, however the operator,
\* the venues and the clock interleave with it, as long as its awaits end.
THEOREM ChecksDecide == Spec /\ AwaitsEnd => CheckDecides
<1> DEFINE Killed   == stage = "killswitch"
           Pnl      == stage = "daily_pnl"
           Gmx      == stage = "gmx"
           Binance  == stage = "binance"
           Cooldown == stage = "cooldown"
           Log      == stage = "log"
           Over     == stage \in {"done", "idle"}
           Await    == stage \in Awaits
           Ends     == CheckStep /\ Observe
<1>1. /\ Killed /\ [Next]_vars => Killed' \/ Pnl' \/ Log' \/ Over'
      /\ Killed /\ <<Ends>>_vars => Pnl' \/ Log'
  BY AwaitsAdvance, AwaitsEndForward
<1>2. /\ Pnl /\ [Next]_vars => Pnl' \/ Gmx' \/ Log' \/ Over'
      /\ Pnl /\ <<Ends>>_vars => Gmx' \/ Log'
  BY AwaitsAdvance, AwaitsEndForward
<1>3. /\ Gmx /\ [Next]_vars => Gmx' \/ Binance' \/ Over'
      /\ Gmx /\ <<Ends>>_vars => Binance'
  BY AwaitsAdvance, AwaitsEndForward
<1>4. /\ Binance /\ [Next]_vars => Binance' \/ Cooldown' \/ Log' \/ Over'
      /\ Binance /\ <<Ends>>_vars => Cooldown' \/ Log'
  BY AwaitsAdvance, AwaitsEndForward
<1>5. /\ Cooldown /\ [Next]_vars => Cooldown' \/ Log' \/ Over'
      /\ Cooldown /\ <<Ends>>_vars => Log' \/ Over'
  BY AwaitsAdvance, AwaitsEndForward
<1>6. /\ Log /\ [Next]_vars => Log' \/ Over'
      /\ Log /\ <<Ends>>_vars => Over'
  BY AwaitsAdvance, AwaitsEndForward
<1>7. Killed \/ Pnl \/ Gmx \/ Binance \/ Cooldown \/ Log => Await
  BY DEF Awaits, Stages
<1>8. Spec /\ ([]<>~Await \/ []<><<Ends>>_vars) => (Killed ~> Over)
  <2> HIDE DEF Killed, Pnl, Gmx, Binance, Cooldown, Log, Over, Await, Ends
  <2>1. Spec /\ ([]<>~Await \/ []<><<Ends>>_vars) => (Log ~> Over)
    BY <1>6, <1>7, PTL DEF Spec
  <2>2. Spec /\ ([]<>~Await \/ []<><<Ends>>_vars) => (Cooldown ~> Over)
    BY <1>5, <1>7, <2>1, PTL DEF Spec
  <2>3. Spec /\ ([]<>~Await \/ []<><<Ends>>_vars) => (Binance ~> Over)
    BY <1>4, <1>7, <2>1, <2>2, PTL DEF Spec
  <2>4. Spec /\ ([]<>~Await \/ []<><<Ends>>_vars) => (Gmx ~> Over)
    BY <1>3, <1>7, <2>3, PTL DEF Spec
  <2>5. Spec /\ ([]<>~Await \/ []<><<Ends>>_vars) => (Pnl ~> Over)
    BY <1>2, <1>7, <2>1, <2>4, PTL DEF Spec
  <2> QED
    BY <1>1, <1>7, <2>1, <2>5, PTL DEF Spec
<1> QED
  BY <1>8 DEF AwaitsEnd, CheckDecides
=============================================================================
