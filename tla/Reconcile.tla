----------------------------- MODULE Reconcile ------------------------------
(***************************************************************************)
(* gmx_position_reader.reconcile_intent: what to do with an order given    *)
(* the positions the account holds.  It is a function of its arguments, so *)
(* the module is its definition; MCReconcile compares it with the decision *)
(* matrix over every intent and every list of positions.                   *)
(***************************************************************************)
EXTENDS Naturals, Sequences

CONSTANTS
    Aliases,        \* market aliases
    Addresses,      \* market token addresses
    MarketAddress,  \* ARBITRUM_MARKETS: known alias |-> address
    Collaterals     \* collateral tokens

ASSUME ReconcileAssumption ==
    /\ DOMAIN MarketAddress \subseteq Aliases
    /\ MarketAddress \in [DOMAIN MarketAddress -> Addresses]
    /\ "unknown" \notin Aliases \cup Addresses

Intent == [market : Aliases, collateral : Collaterals, is_long : BOOLEAN,
           is_increase : BOOLEAN]

\* A position of a market this program does not know has no alias.
Position == [alias : Aliases \cup {"unknown"}, address : Addresses,
             collateral : Collaterals, is_long : BOOLEAN]

AliasOf(address) ==
    IF \E a \in DOMAIN MarketAddress : MarketAddress[a] = address
      THEN CHOOSE a \in DOMAIN MarketAddress : MarketAddress[a] = address
      ELSE "unknown"

FAULTY_Decoded(address, collateral, long) ==   \* the address for an alias
    [alias |-> address, address |-> address,
     collateral |-> collateral, is_long |-> long]

\* _decode_position_props: the alias is looked up by address.
Decoded(address, collateral, long) ==
    [alias |-> AliasOf(address), address |-> address,
     collateral |-> collateral, is_long |-> long]

ResolvedAddress(intent) ==
    IF intent.market \in DOMAIN MarketAddress THEN MarketAddress[intent.market]
                                              ELSE "unknown"

FAULTY_Matches(intent, p) ==           \* any collateral of the market matches
    \/ p.alias = intent.market
    \/ p.address = ResolvedAddress(intent)

\* Same market, by alias or by address, and same collateral.
Matches(intent, p) ==
    /\ \/ p.alias = intent.market
       \/ p.address = ResolvedAddress(intent)
    /\ p.collateral = intent.collateral

FAULTY_HasMatch(intent, positions, long) ==    \* the last match decides
    LET matching == SelectSeq(positions, LAMBDA p : Matches(intent, p))
    IN  matching # <<>> /\ matching[Len(matching)].is_long = long

\* The loop over the positions: it keeps one match for each side.
HasMatch(intent, positions, long) ==
    \E i \in DOMAIN positions :
        Matches(intent, positions[i]) /\ positions[i].is_long = long

ReconcileAction(intent, positions) ==
    LET same     == HasMatch(intent, positions, intent.is_long)
        opposite == HasMatch(intent, positions, ~intent.is_long)
    IN  IF intent.is_increase
          THEN IF same THEN "MERGE" ELSE IF opposite THEN "ABORT" ELSE "PROCEED"
          ELSE IF same THEN "PROCEED" ELSE "ABORT"
=============================================================================
