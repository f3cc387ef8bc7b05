----------------------------- MODULE PilotGuard -----------------------------
(***************************************************************************)
(* PilotGuard.check (pilot_guard.py): the six gates in front of every      *)
(* order, as the sequence of awaits it is.  Between two reads the operator *)
(* may trip or reset the killswitch, positions open and close, PnL is      *)
(* booked, midnight UTC passes; every read may also fail on its own.       *)
(*                                                                         *)
(* The guard itself writes nothing but its denial log, which no code       *)
(* reads, so that stream is not a variable.  Time is in ticks of whatever  *)
(* length the reader prefers: the code divides milliseconds by 1000 before *)
(* comparing with whole seconds, which leaves the comparison unchanged.    *)
(***************************************************************************)
EXTENDS Integers, FiniteSets

CONSTANTS
    RawMarkets,      \* market strings as a signal may carry them
    Strip,           \* Strip[m]: m without surrounding blanks
    Notionals,       \* notionals asked for: [kind : {"num", "nan"}, usd : Int]
    Cap,             \* funding_arb_pilot_position_cap_usd
    PnlFloor,        \* funding_arb_pilot_daily_pnl_floor_usd
    MaxConcurrent,   \* funding_arb_pilot_max_concurrent
    CooldownWindow,  \* funding_arb_pilot_loss_cooldown_s
    DayLength,       \* ticks in a UTC day
    ArmedSets,       \* the CSVs an operator may have configured, as sets
    MaxTime,         \* bound: the clock stops here
    MaxOpen,         \* bound: open positions per venue
    PnlSteps,        \* bound: amounts a settlement may book
    PnlBound,        \* bound: |PnL| booked in a day
    FailingReads     \* bound: the reads that may fail, by what they look for

NoLoss == -1         \* funding_arb:last_loss_ts_ms absent

ASSUME GuardAssumption ==
    /\ Strip \in [RawMarkets -> RawMarkets]
    /\ ArmedSets \subseteq SUBSET RawMarkets
    /\ \A x \in Notionals : x.kind \in {"num", "nan"} /\ x.usd \in Int
    /\ Cap \in Int
    /\ MaxConcurrent \in Nat \ {0}
    /\ CooldownWindow \in Nat
    /\ DayLength \in Nat \ {0}
    /\ MaxTime \in Nat /\ MaxOpen \in Nat /\ PnlBound \in Nat
    /\ PnlSteps \subseteq Int

\* "The G4 floor check then depends on the floor being NEGATIVE": a day that
\* has booked nothing passes it.
ASSUME FloorAssumption == PnlFloor \in Int /\ PnlFloor <= 0

VARIABLES
    now,          \* the clock
    killswitch,   \* funding_arb:killswitch holds a truthy value
    lastLoss,     \* funding_arb:last_loss_ts_ms
    pnlToday,     \* realized_pnl_usd booked since midnight UTC
    pnlWindow,    \* during G4: what XRANGE from its day start returns
    gmxOpen,      \* positions really open on GMX
    binOpen,      \* positions really open on Binance
    armed,        \* the markets of funding_arb_armed_markets_csv
    stage,        \* the await the check stands at
    request,      \* its arguments
    gmxN,         \* the GMX count it has read
    gate,         \* the gate that denied, or "none"
    blind,        \* the reasons whose read failed in this check
    standing      \* history: reasons to deny that held ever since it began

envVars   == <<now, killswitch, lastLoss, pnlToday, gmxOpen, binOpen, armed>>
checkVars == <<stage, request, gmxN, gate, blind>>
vars      == <<envVars, pnlWindow, checkVars, standing>>

-----------------------------------------------------------------------------
Stages  == {"idle", "killswitch", "daily_pnl", "gmx", "binance", "cooldown",
            "log", "done"}
Gates   == {"none", "killswitch", "not_armed", "size_cap", "daily_pnl",
            "concurrent", "cooldown"}
Reasons == {"killswitch", "daily_pnl", "gmx_full", "binance_full", "cooldown"}

Request   == [market : RawMarkets, notional : Notionals]
NoRequest == [market |-> "none"]

CooldownRemaining(ts) ==
    LET left == CooldownWindow - (now - ts) IN IF left > 0 THEN left ELSE 0

CoolingDown == lastLoss # NoLoss /\ CooldownRemaining(lastLoss) > 0

\* The reasons to deny that hold in the world, whatever the check has read.
Holding ==
    {r \in Reasons :
        \/ r = "killswitch"   /\ killswitch
        \/ r = "daily_pnl"    /\ pnlToday < PnlFloor
        \/ r = "gmx_full"     /\ gmxOpen >= MaxConcurrent
        \/ r = "binance_full" /\ binOpen >= MaxConcurrent
        \/ r = "cooldown"     /\ CoolingDown}

\* A NaN notional compares False with the cap.
OverCap(x) == x.kind = "num" /\ x.usd > Cap

\* FAULTY variants, here and below, are never part of Next: each is one
\* definition with one plausible bug, listed under "mutants" in PROJECT.json
\* to show that a property notices that bug.

FAULTY_KillswitchIsSet(ok) == ok /\ killswitch       \* fails open

\* Redis unreachable counts as tripped.
KillswitchIsSet(ok) == ~ok \/ killswitch

\* Redis unreachable counts as a flat day.
RealizedPnl(ok) == IF ok THEN pnlWindow ELSE 0

FAULTY_Counted(ok, n) == IF ok THEN n ELSE -1        \* a sentinel leaks out

\* A failed position read counts as no position.
Counted(ok, n) == IF ok THEN n ELSE 0

FAULTY_CooldownActive(ok) ==                         \* ends one tick early
    ok /\ lastLoss # NoLoss /\ CooldownRemaining(lastLoss) > 1

\* Redis unreachable, or an unparseable timestamp, counts as no loss.
CooldownActive(ok) == ok /\ CoolingDown

-----------------------------------------------------------------------------
TypeOK ==
    /\ now \in Nat
    /\ killswitch \in BOOLEAN
    /\ lastLoss \in Nat \cup {NoLoss}
    /\ pnlToday \in Int /\ pnlWindow \in Int
    /\ gmxOpen \in Nat /\ binOpen \in Nat
    /\ armed \subseteq RawMarkets
    /\ stage \in Stages
    /\ request \in Request \cup {NoRequest}
    /\ gmxN \in Nat
    /\ gate \in Gates
    /\ blind \subseteq Reasons
    /\ standing \subseteq Reasons

Init ==
    /\ now = 0
    /\ killswitch \in BOOLEAN
    /\ lastLoss = NoLoss
    /\ pnlToday = 0 /\ pnlWindow = 0
    /\ gmxOpen = 0 /\ binOpen = 0
    /\ armed \in ArmedSets
    /\ stage = "idle"
    /\ request = NoRequest
    /\ gmxN = 0
    /\ gate = "none"
    /\ blind = {}
    /\ standing = {}

-----------------------------------------------------------------------------
(* The check, one action per await.                                        *)

Begin(m, x) ==
    /\ stage = "idle"
    /\ stage' = "killswitch"
    /\ request' = [market |-> m, notional |-> x]
    /\ UNCHANGED <<envVars, pnlWindow, gmxN, gate, blind>>

Deny(g) ==
    /\ gate' = g
    /\ stage' = "log"

PassTo(next) ==
    /\ stage' = next
    /\ UNCHANGED gate

\* Whether a read succeeds.
Answer(r) == IF r \in FailingReads THEN BOOLEAN ELSE {TRUE}

Missed(ok, r) == blind' = IF ok THEN blind ELSE blind \cup {r}

\* G1, then G2 and G3, which await nothing; then the day start of G4.
ReadKillswitch ==
    /\ stage = "killswitch"
    /\ \E ok \in Answer("killswitch") :
        /\ Missed(ok, "killswitch")
        /\ IF KillswitchIsSet(ok)
             THEN Deny("killswitch")
           ELSE IF Strip[request.market] \notin armed
             THEN Deny("not_armed")
           ELSE IF OverCap(request.notional)
             THEN Deny("size_cap")
           ELSE PassTo("daily_pnl")
    /\ pnlWindow' = IF stage' = "daily_pnl" THEN pnlToday ELSE 0
    /\ UNCHANGED <<envVars, request, gmxN>>

\* G4.
ReadDailyPnl ==
    /\ stage = "daily_pnl"
    /\ \E ok \in Answer("daily_pnl") :
        /\ Missed(ok, "daily_pnl")
        /\ IF RealizedPnl(ok) < PnlFloor
             THEN Deny("daily_pnl")
             ELSE PassTo("gmx")
    /\ pnlWindow' = 0
    /\ UNCHANGED <<envVars, request, gmxN>>

\* G5 reads the two venues one after the other.
CountGmx ==
    /\ stage = "gmx"
    /\ \E ok \in Answer("gmx_full") :
        /\ Missed(ok, "gmx_full")
        /\ gmxN' = Counted(ok, gmxOpen)
    /\ PassTo("binance")
    /\ UNCHANGED <<envVars, pnlWindow, request>>

CountBinance ==
    /\ stage = "binance"
    /\ \E ok \in Answer("binance_full") :
        /\ Missed(ok, "binance_full")
        /\ IF gmxN + Counted(ok, binOpen) >= MaxConcurrent
             THEN Deny("concurrent")
             ELSE PassTo("cooldown")
    /\ gmxN' = 0
    /\ UNCHANGED <<envVars, pnlWindow, request>>

\* G6.
ReadCooldown ==
    /\ stage = "cooldown"
    /\ \E ok \in Answer("cooldown") :
        /\ Missed(ok, "cooldown")
        /\ IF CooldownActive(ok)
             THEN Deny("cooldown")
             ELSE PassTo("done")
    /\ UNCHANGED <<envVars, pnlWindow, request, gmxN>>

FAULTY_LogDenial ==                    \* a failed XADD starts the check again
    /\ stage = "log"
    /\ PassTo("done") \/ PassTo("killswitch")
    /\ UNCHANGED <<envVars, pnlWindow, request, gmxN, blind>>

\* The denial is XADDed, or the XADD fails; the decision stands either way.
LogDenial ==
    /\ stage = "log"
    /\ PassTo("done")
    /\ UNCHANGED <<envVars, pnlWindow, request, gmxN, blind>>

\* The locals of the check are gone.
Forget ==
    /\ stage' = "idle"
    /\ request' = NoRequest
    /\ gmxN' = 0
    /\ gate' = "none"
    /\ blind' = {}
    /\ pnlWindow' = 0
    /\ UNCHANGED envVars

\* The caller takes the verdict.
Return == stage = "done" /\ Forget

\* The task awaiting the check is cancelled, or its process dies.
Cancel == stage # "idle" /\ Forget

CheckStep == \/ ReadKillswitch \/ ReadDailyPnl \/ CountGmx \/ CountBinance
             \/ ReadCooldown \/ LogDenial

-----------------------------------------------------------------------------
(* The operator, the executor and the world around the check.              *)

TripKillswitch ==
    /\ killswitch' = TRUE
    /\ UNCHANGED <<now, lastLoss, pnlToday, gmxOpen, binOpen, armed,
                   pnlWindow, checkVars>>

ResetKillswitch ==
    /\ killswitch' = FALSE
    /\ UNCHANGED <<now, lastLoss, pnlToday, gmxOpen, binOpen, armed,
                   pnlWindow, checkVars>>

\* record_loss overwrites whatever timestamp was there.
RecordLoss ==
    /\ lastLoss' = now
    /\ UNCHANGED <<now, killswitch, pnlToday, gmxOpen, binOpen, armed,
                   pnlWindow, checkVars>>

\* The clock; at midnight a new UTC day has booked nothing yet.
Tick ==
    /\ now < MaxTime
    /\ now' = now + 1
    /\ pnlToday' = IF (now + 1) % DayLength = 0 THEN 0 ELSE pnlToday
    /\ UNCHANGED <<killswitch, lastLoss, gmxOpen, binOpen, armed,
                   pnlWindow, checkVars>>

\* The settlement loop (not in this repository) books a closed position.
Settle(d) ==
    /\ pnlToday + d \in -PnlBound .. PnlBound
    /\ pnlToday' = pnlToday + d
    /\ pnlWindow' = IF stage = "daily_pnl" THEN pnlWindow + d ELSE pnlWindow
    /\ UNCHANGED <<now, killswitch, lastLoss, gmxOpen, binOpen, armed,
                   checkVars>>

\* A position opens or closes at one of the venues.
PositionMoves ==
    /\ \/ gmxOpen' \in {gmxOpen - 1, gmxOpen + 1} \cap 0..MaxOpen
          /\ UNCHANGED binOpen
       \/ binOpen' \in {binOpen - 1, binOpen + 1} \cap 0..MaxOpen
          /\ UNCHANGED gmxOpen
    /\ UNCHANGED <<now, killswitch, lastLoss, pnlToday, armed,
                   pnlWindow, checkVars>>

\* The process restarts with other settings; they are read at its start.
Reconfigure ==
    /\ stage = "idle"
    /\ armed' \in ArmedSets
    /\ UNCHANGED <<now, killswitch, lastLoss, pnlToday, gmxOpen, binOpen,
                   pnlWindow, checkVars>>

Step ==
    \/ \E m \in RawMarkets, x \in Notionals : Begin(m, x)
    \/ CheckStep
    \/ Return
    \/ Cancel
    \/ Reconfigure
    \/ TripKillswitch
    \/ ResetKillswitch
    \/ RecordLoss
    \/ Tick
    \/ \E d \in PnlSteps : Settle(d)
    \/ PositionMoves

\* The history variable: a reason stands from the start of a check for as
\* long as it holds without a break.
Observe ==
    standing' = CASE stage' = "idle" -> {}
                  [] stage = "idle" /\ stage' # "idle" -> Holding'
                  [] OTHER -> standing \cap Holding'

Next == Step /\ Observe

Spec == Init /\ [][Next]_vars

\* Every await of the check ends: HTTP calls carry a timeout, Redis answers
\* or its connection breaks.
FairSpec == Spec /\ WF_vars(CheckStep /\ Observe)

\* The same promise in terms of the awaits themselves, as the proofs use it: no
\* check stands in its awaits for ever without one of them ending.
Awaits    == Stages \ {"idle", "done"}
AwaitsEnd == []<>~(stage \in Awaits) \/ []<><<CheckStep /\ Observe>>_vars

-----------------------------------------------------------------------------
Allowed == stage = "done" /\ gate = "none"

\* An operator who has tripped the killswitch and leaves it set never sees a
\* later check allow an order, whatever fails: the read fails closed.
TripStands == Allowed => "killswitch" \notin standing

\* A reason to deny that held from the start of the check to its verdict is
\* overlooked only if the very read that looks for it failed: no interleaving
\* of the operator, the venues, settlement and midnight opens a gate.
StandingReasonDenies == Allowed => standing \subseteq blind

\* Every check comes to a verdict, unless its task is cancelled.
CheckDecides == (stage = "killswitch") ~> (stage \in {"done", "idle"})
=============================================================================
