--------------------------- MODULE GatedDispatch ----------------------------
(***************************************************************************)
(* What the executor promises, without saying how: signals are taken one   *)
(* at a time, each is cleared or refused once, only a cleared signal has   *)
(* orders, at most one on each venue, and only while it is being           *)
(* dispatched, on venues that are live.  What is settled stays settled: a  *)
(* crash, a restart or a late answer never adds an order.                  *)
(*                                                                         *)
(* FundingArbExecutor implements this module.                              *)
(***************************************************************************)
EXTENDS Naturals

CONSTANTS Ids, Venues

VARIABLES
    phase,     \* where each signal stands: "new", "cleared", "settled"
    live,      \* the venues orders may go to
    placed     \* the orders that exist, <<id, venue>>

vars == <<phase, live, placed>>

Init ==
    /\ phase = [i \in Ids |-> "new"]
    /\ live \in SUBSET Venues
    /\ placed = {}

Dispatching == \E i \in Ids : phase[i] = "cleared"

Clear(i) ==
    /\ phase[i] = "new" /\ ~Dispatching
    /\ phase' = [phase EXCEPT ![i] = "cleared"]
    /\ UNCHANGED <<live, placed>>

Settle(i) ==
    /\ phase[i] \in {"new", "cleared"}
    /\ phase' = [phase EXCEPT ![i] = "settled"]
    /\ UNCHANGED <<live, placed>>

Place(i, v) ==
    /\ phase[i] = "cleared"
    /\ v \in live
    /\ <<i, v>> \notin placed
    /\ placed' = placed \cup {<<i, v>>}
    /\ UNCHANGED <<phase, live>>

\* Other settings, which a process takes only at its start.
Reconfigure ==
    /\ ~Dispatching
    /\ live' \in SUBSET Venues
    /\ UNCHANGED <<phase, placed>>

Next ==
    \/ \E i \in Ids : Clear(i) \/ Settle(i)
    \/ \E i \in Ids, v \in Venues : Place(i, v)
    \/ Reconfigure

Spec == Init /\ [][Next]_vars
=============================================================================
