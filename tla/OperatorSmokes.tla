--------------------------- MODULE OperatorSmokes ---------------------------
(***************************************************************************)
(* The operator's smoke tests of cli.py: g5_sign_smoke, g5_position_smoke, *)
(* g6_smoke and g6_dry_run_order, one command in one process.  Each is a   *)
(* line of requests that may go unanswered, ending in the exit code the    *)
(* operator acts on, while the Binance account may change its position     *)
(* mode and the signed API may go down or come back between two requests.  *)
(* The list of positions g5_position_smoke reads is the one reconciliation *)
(* decides on, so the matrix of reconcile_intent is stated over it.        *)
(***************************************************************************)
EXTENDS Reconcile

CONSTANTS
    MaxPositions,   \* bound: positions of the executor's account
    MaxFlips        \* bound: changes of the Binance account or API

ASSUME SmokesAssumption == MaxPositions \in Nat /\ MaxFlips \in Nat

Smokes == {"g5_sign_smoke", "g5_position_smoke", "g6_smoke", "g6_dry_run_order"}
Modes == {"one_way", "hedge"}
SignedReads == {"mode", "balance", "margin", "positions"}
Requests == SignedReads \cup
    {"nonce", "gas", "simulate", "probe", "empty", "account", "info", "rates",
     "gate", "mark"}

VARIABLES
    smoke,       \* the command, or "none"
    sstage,      \* its program point
    code,        \* the exit code, once sstage = "ended"
    mode,        \* the Binance account's position mode
    api,         \* whether the signed API serves this process
    flips,       \* changes so far
    modes,       \* history: modes the account has had since the command began
    apis,        \* history: values of api since then
    heard,       \* history: requests that had a well-formed answer
    nones,       \* g6_smoke: signed reads that returned None
    failed,      \* g6_smoke: n_fail > 0
    positions    \* g5_position_smoke: executor_positions

account == <<mode, api, flips, modes, apis>>
tally == <<nones, failed>>
smokeVars == <<smoke, sstage, code, account, heard, tally, positions>>

SmokesInit ==
    /\ smoke = "none" /\ sstage = "none" /\ code = 0
    /\ mode = "one_way" /\ api = TRUE
    /\ flips = 0 /\ modes = {} /\ apis = {}
    /\ heard = {} /\ nones = {} /\ failed = FALSE /\ positions = <<>>

FirstStage == [s \in Smokes |->
    IF s = "g6_smoke" THEN "auth" ELSE IF s = "g6_dry_run_order" THEN "info"
    ELSE IF s = "g5_sign_smoke" THEN "key" ELSE "probe"]

\* The account may be in either mode, the API up or down, before g6_smoke.
StartSmoke(s) ==
    /\ smoke = "none"
    /\ smoke' = s
    /\ sstage' = FirstStage[s]
    /\ IF s = "g6_smoke" THEN mode' \in Modes /\ api' \in BOOLEAN
                          ELSE UNCHANGED <<mode, api>>
    /\ modes' = {mode'}
    /\ apis' = {api'}
    /\ UNCHANGED <<code, flips, heard, tally, positions>>

\* An operator flips the mode in the UI; the API, the allow-list or the
\* clock stops or starts serving signed reads.
AccountChanges ==
    /\ smoke = "g6_smoke" /\ sstage # "ended"
    /\ flips < MaxFlips
    /\ flips' = flips + 1
    /\ \/ mode' \in Modes \ {mode} /\ UNCHANGED api
       \/ api' = ~api /\ UNCHANGED mode
    /\ modes' = modes \cup {mode'}
    /\ apis' = apis \cup {api'}
    /\ UNCHANGED <<smoke, sstage, code, heard, tally, positions>>

At(s, st) == smoke = s /\ sstage = st

GoTo(st) == sstage' = st /\ UNCHANGED <<smoke, code>>

Exit(n) == code' = n /\ sstage' = "ended" /\ UNCHANGED smoke

Hear(request, got) == heard' = IF got THEN heard \cup {request} ELSE heard

\* The steps of every command but g6_smoke, apart from the list read.
Plain == UNCHANGED <<account, tally, positions>>

-----------------------------------------------------------------------------
(* g5_sign_smoke.                                                          *)

SignKey ==
    /\ At("g5_sign_smoke", "key")
    /\ GoTo("nonce") \/ Exit(3)
    /\ Plain /\ UNCHANGED heard

\* sign_order's two requests.  No string result raises RuntimeError, which
\* is caught; a string that is not a hex number raises ValueError, which is
\* not, and the interpreter exits 1.
SignRequest(request, next) ==
    /\ At("g5_sign_smoke", request)
    /\ \E got \in {"number", "garbled", "nothing"} :
         /\ Hear(request, got = "number")
         /\ CASE got = "number"  -> GoTo(next)
              [] got = "garbled" -> Exit(1)
              [] got = "nothing" -> Exit(3)
    /\ Plain

FAULTY_SignSimulate ==                 \* an unanswered simulation is accepted
    /\ At("g5_sign_smoke", "simulate")
    /\ \E got \in {"accepted", "acceptable", "revert", "nothing"} :
         /\ Hear("simulate", got # "nothing")
         /\ Exit(IF got = "revert" THEN 2 ELSE 0)
    /\ Plain

\* submit_signed(dry_run=True): it always carries a simulation, and one that
\* had no answer is a revert of no known kind.
SignSimulate ==
    /\ At("g5_sign_smoke", "simulate")
    /\ \E got \in {"accepted", "acceptable", "revert", "nothing"} :
         /\ Hear("simulate", got # "nothing")
         /\ Exit(IF got \in {"accepted", "acceptable"} THEN 0 ELSE 2)
    /\ Plain

-----------------------------------------------------------------------------
(* g5_position_smoke.                                                      *)

ProbeRpc ==
    /\ At("g5_position_smoke", "probe")
    /\ \E got \in BOOLEAN :
         /\ Hear("probe", got)
         /\ IF got THEN GoTo("empty") ELSE Exit(3)
    /\ Plain

\* fetch_account_positions of the canonical empty address: a failed read is
\* the empty list too.
ReadEmptyAddress ==
    /\ At("g5_position_smoke", "empty")
    /\ \E got \in {"none_held", "some_held", "nothing"} :
         /\ Hear("empty", got # "nothing")
         /\ IF got = "some_held" THEN Exit(2) ELSE GoTo("executor")
    /\ Plain

\* No key: there is no account to read.
FindExecutor ==
    /\ At("g5_position_smoke", "executor")
    /\ GoTo("account") \/ Exit(0)
    /\ Plain /\ UNCHANGED heard

RequestAccount ==
    /\ At("g5_position_smoke", "account")
    /\ \E got \in BOOLEAN :
         /\ Hear("account", got)
         /\ IF got THEN GoTo("decode") ELSE Exit(0)
    /\ Plain

\* The loop of fetch_account_positions: a position of the answer is decoded
\* and kept.  Empty structs and positions of size zero are passed over.
KeepPosition ==
    /\ At("g5_position_smoke", "decode")
    /\ Len(positions) < MaxPositions
    /\ \E a \in Addresses, c \in Collaterals, l \in BOOLEAN :
         positions' = Append(positions, Decoded(a, c, l))
    /\ UNCHANGED <<smoke, sstage, code, account, heard, tally>>

PrintPositions ==
    /\ At("g5_position_smoke", "decode")
    /\ Exit(0)
    /\ Plain /\ UNCHANGED heard

-----------------------------------------------------------------------------
(* g6_smoke.  The signed reads are served only while the API is up, and    *)
(* even then an answer may be lost or malformed.                           *)

CheckCredentials ==
    /\ At("g6_smoke", "auth")
    /\ GoTo("mode") \/ Exit(3)
    /\ Plain /\ UNCHANGED heard

Tallied(request, none, fails) ==
    /\ nones' = IF none THEN nones \cup {request} ELSE nones
    /\ failed' = (failed \/ fails)
    /\ UNCHANGED <<account, positions>>

\* The request is answered, or not; it can be only while the API is up.
Served(got) == got \in BOOLEAN /\ (got => api)

\* READ-1: anything but one-way is a failure.
CheckMode ==
    /\ At("g6_smoke", "mode")
    /\ \E got \in {b \in BOOLEAN : Served(b)} :
         /\ Hear("mode", got)
         /\ Tallied("mode", ~got, ~got \/ mode = "hedge")
    /\ GoTo("balance")

\* READ-2 and READ-4: an empty list is an answer.
CheckList(request, next) ==
    /\ At("g6_smoke", request)
    /\ \E got \in {b \in BOOLEAN : Served(b)} :
         /\ Hear(request, got)
         /\ Tallied(request, ~got, ~got)
    /\ GoTo(next)

\* READ-3 asks for the balances again; a list without a usable USDT entry is
\* None like no answer.
CheckMargin ==
    /\ At("g6_smoke", "margin")
    /\ \E got \in {b \in BOOLEAN : Served(b)}, usdt \in BOOLEAN :
         /\ Hear("margin", got)
         /\ Tallied("margin", ~(got /\ usdt), ~(got /\ usdt))
    /\ GoTo("positions")

\* PUBLIC-1 and PUBLIC-2: all the markets must be in the answer.
CheckPublic(request, next) ==
    /\ At("g6_smoke", request)
    /\ \E got \in {"all", "some_missing", "nothing"} :
         /\ Hear(request, got # "nothing")
         /\ Tallied(request, FALSE, got # "all")
    /\ GoTo(next)

\* CONSISTENCY-1: assert_one_way_position_mode reads the mode again, and
\* raises unless it is told one-way.
CheckGate ==
    /\ At("g6_smoke", "gate")
    /\ \E got \in {b \in BOOLEAN : Served(b)} :
         /\ Hear("gate", got)
         /\ Tallied("gate", FALSE, ~got \/ mode = "hedge")
    /\ GoTo("summary")

FAULTY_Summary ==                      \* one unread signed read reads as down
    /\ At("g6_smoke", "summary")
    /\ Exit(IF nones # {} THEN 4 ELSE IF failed THEN 2 ELSE 0)
    /\ Plain /\ UNCHANGED heard

Summary ==
    /\ At("g6_smoke", "summary")
    /\ Exit(IF nones = SignedReads THEN 4 ELSE IF failed THEN 2 ELSE 0)
    /\ Plain /\ UNCHANGED heard

-----------------------------------------------------------------------------
(* g6_dry_run_order.                                                       *)

\* Nothing, or no SOLUSDT in it: 3.  The process is new and has no cache.
DryRunInfo ==
    /\ At("g6_dry_run_order", "info")
    /\ \E got \in {"listed", "unlisted", "nothing"} :
         /\ Hear("info", got # "nothing")
         /\ IF got = "listed" THEN GoTo("mark") ELSE Exit(3)
    /\ Plain

\* _fetch_solusdt_mark_price: anything but a finite number is None.
DryRunMark ==
    /\ At("g6_dry_run_order", "mark")
    /\ \E got \in BOOLEAN :
         /\ Hear("mark", got)
         /\ IF got THEN GoTo("place") ELSE Exit(3)
    /\ Plain

\* place_market_order(dry_run=True): the request it would sign, or a refusal.
DryRunPlace ==
    /\ At("g6_dry_run_order", "place")
    /\ Exit(0) \/ Exit(2)
    /\ Plain /\ UNCHANGED heard

-----------------------------------------------------------------------------
SmokeStep ==
    \/ AccountChanges
    \/ SignKey \/ SignRequest("nonce", "gas") \/ SignRequest("gas", "simulate")
    \/ SignSimulate
    \/ ProbeRpc \/ ReadEmptyAddress \/ FindExecutor \/ RequestAccount
    \/ KeepPosition \/ PrintPositions
    \/ CheckCredentials \/ CheckMode \/ CheckList("balance", "margin")
    \/ CheckMargin \/ CheckList("positions", "info")
    \/ CheckPublic("info", "rates") \/ CheckPublic("rates", "gate")
    \/ CheckGate \/ Summary
    \/ DryRunInfo \/ DryRunMark \/ DryRunPlace

-----------------------------------------------------------------------------
SmokesTypeOK ==
    /\ smoke \in Smokes \cup {"none"}
    /\ sstage \in Requests \cup {"none", "auth", "key", "executor", "decode",
                               "summary", "place", "ended"}
    /\ code \in 0 .. 4
    /\ mode \in Modes /\ api \in BOOLEAN /\ flips \in 0 .. MaxFlips
    /\ modes \subseteq Modes /\ apis \subseteq BOOLEAN
    /\ heard \subseteq Requests /\ nones \subseteq SignedReads
    /\ failed \in BOOLEAN
    /\ positions \in Seq(Position) /\ Len(positions) <= MaxPositions

\* What g6_smoke's exit code tells (cli.py _g6_smoke_main, README "Exit
\* codes"): an account in hedge mode all through is never passed; an API down
\* all through is reported as that and as nothing else; a run that passed was
\* told one-way by an account that was, and every signed read was answered; a
\* run that says "unreachable" had no answer about the mode, the balance or
\* the positions.
ShakedownTells ==
    smoke = "g6_smoke" /\ sstage = "ended" /\ code # 3 =>
        /\ modes = {"hedge"} => code # 0
        /\ apis = {FALSE} => code = 4
        /\ code = 0 => "one_way" \in modes /\ SignedReads \subseteq heard
        /\ code = 4 => heard \cap SignedReads \subseteq {"margin"}

Needed == [s \in Smokes |->
    IF s = "g6_smoke" THEN SignedReads \cup {"info", "rates", "gate"}
    ELSE IF s = "g6_dry_run_order" THEN {"info", "mark"}
    ELSE IF s = "g5_sign_smoke" THEN {"nonce", "gas", "simulate"}
    ELSE {"probe"}]

\* g5_sign_smoke, g6_smoke and g6_dry_run_order do not pass on silence: one that
\* exits 0 had an answer to every request it makes for its verdict.  g5_position_smoke
\* had one to its probe, and that is all it keeps: PositionReadsSucceeded.
SmokesTell ==
    smoke # "none" /\ sstage = "ended" /\ code = 0
      => Needed[smoke] \subseteq heard

\* "0 -- both reads succeeded", says cli.py of g5_position_smoke: it passes only
\* if the read of the empty address, which it always makes, was answered.
PositionReadsSucceeded ==
    smoke = "g5_position_smoke" /\ sstage = "ended" /\ code = 0
      => "empty" \in heard

-----------------------------------------------------------------------------
(* Reconciliation of any order with the positions read so far.             *)

\* GMX keys a position by market, collateral and side.
SideKeys(long) == {[address |-> positions[i].address,
                    collateral |-> positions[i].collateral] :
                      i \in {j \in DOMAIN positions : positions[j].is_long = long}}

OwnKey(intent) ==
    [address |-> ResolvedAddress(intent), collateral |-> intent.collateral]

\* The decision matrix, row by row, over GMX's own position keys; where both
\* sides are open the same side wins for an increase.
Matrix(increase, same, opposite) ==
    CASE increase /\ ~same /\ ~opposite -> "PROCEED"
      [] increase /\ same               -> "MERGE"
      [] increase /\ ~same /\ opposite  -> "ABORT"
      [] ~increase /\ same              -> "PROCEED"
      [] ~increase /\ ~same             -> "ABORT"

\* reconcile_intent answers what its docstring's matrix says, an alias or an
\* address naming the same market, and other collateral another position.
MatrixDecides ==
    \A intent \in Intent :
        ReconcileAction(intent, positions) =
            Matrix(intent.is_increase, OwnKey(intent) \in SideKeys(intent.is_long),
                   OwnKey(intent) \in SideKeys(~intent.is_long))

\* Carrying out what reconcile_intent did not abort never makes an account
\* that holds at most one side of each market and collateral hold both.
NoSecondSide ==
    \A intent \in Intent :
        /\ intent.is_increase
        /\ SideKeys(TRUE) \cap SideKeys(FALSE) = {}
        /\ ReconcileAction(intent, positions) # "ABORT"
        => (SideKeys(intent.is_long) \cup {OwnKey(intent)})
              \cap SideKeys(~intent.is_long) = {}
=============================================================================
