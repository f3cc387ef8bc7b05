----------------------------- MODULE FundingRead -----------------------------
(***************************************************************************)
(* What fetch_gmx_funding_live promises its caller: it answers None, or a  *)
(* funding state each part of which the market had at some moment of the   *)
(* call, and never raises.  It is no snapshot: the rate, and the open      *)
(* interest against each collateral token, may be of different moments.    *)
(***************************************************************************)
EXTENDS Integers

CONSTANT Worlds      \* what the market may be like on chain

VARIABLES
    world,           \* what it is like now
    seen,            \* what it has been like since the call began
    status,          \* "idle", "asked" or "answered"
    answer           \* the answer given

None == [kind |-> "none", rate |-> 0, longs |-> 0, shorts |-> 0]

\* Positive when longs pay shorts, in the factor's unit.
RateOf(w) == IF w.longs_pay THEN w.factor ELSE -w.factor

\* Twice a side's open interest: both collateral tokens, halved where they
\* are one and the same token.
Doubled(w, a, b) == IF w.one_token THEN a + b ELSE 2 * (a + b)

Totals(w, S, long) ==
    {Doubled(w, u.oi[long]["long"], v.oi[long]["short"]) : u \in S, v \in S}

\* The Reader contract was elsewhere at some moment and any answer may come,
\* or the market was open and each part is one it had.
Explains(S, a) ==
    \/ \E w \in S : w.moved
    \/ /\ \E w \in S : w.status = "open" /\ a.rate = RateOf(w)
       /\ \E w \in S : /\ w.status # "delisted"
                       /\ a.longs \in Totals(w, S, TRUE)
                       /\ a.shorts \in Totals(w, S, FALSE)

Init == world \in Worlds /\ seen = {} /\ status = "idle" /\ answer = None

Ask ==
    /\ status = "idle"
    /\ status' = "asked" /\ seen' = {world}
    /\ UNCHANGED <<world, answer>>

Move ==
    /\ world' \in Worlds
    /\ seen' = IF status = "asked" THEN seen \cup {world'} ELSE seen
    /\ UNCHANGED <<status, answer>>

Answer ==
    /\ status = "asked"
    /\ status' = "answered"
    /\ \/ answer' = None
       \/ answer'.kind = "state" /\ Explains(seen, answer')
    /\ UNCHANGED <<world, seen>>

\* A market outside the table is answered at once.
Refuse ==
    /\ status = "idle"
    /\ status' = "answered" /\ answer' = None
    /\ UNCHANGED <<world, seen>>

Take ==
    /\ status = "answered"
    /\ status' = "idle" /\ answer' = None /\ seen' = {}
    /\ UNCHANGED world

Next == Ask \/ Move \/ Answer \/ Refuse \/ Take

Spec == Init /\ [][Next]_<<world, seen, status, answer>>
=============================================================================
