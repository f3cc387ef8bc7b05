-------------------------- MODULE ExchangeInfoCache --------------------------
(***************************************************************************)
(* binance_exchange_info: the cache in front of /fapi/v1/exchangeInfo and  *)
(* the call that fills it.  One caller at a time asks; the call is an      *)
(* await, so the venue's reading is older than the moment it is stored.    *)
(*                                                                         *)
(* The map is always replaced whole, so it is the set of symbols of one    *)
(* body and the time the venue wrote it.  Time is in ticks; time.time() is *)
(* the wall clock, which may be set back while the process runs.           *)
(***************************************************************************)
EXTENDS Integers

CONSTANTS
    Listed,     \* the symbols the venue may list
    TTL,        \* binance_exchange_info_ttl_s
    Latency,    \* the longest a call to the venue takes
    MaxTime,    \* bound on the time that passes
    MaxStep     \* bound on how far the wall clock is set back

ASSUME CacheAssumption ==
    /\ TTL \in Nat /\ Latency \in Nat
    /\ MaxTime \in Nat /\ MaxStep \in Nat

VARIABLES
    now,        \* time that has passed
    stepped,    \* how far the wall clock has been set back
    held,       \* _cache: its symbols, {} when it is None
    heldRead,   \* when the venue wrote that body
    stamped,    \* _cache_ts, by the wall clock
    estage,     \* where the caller of get_cached_exchange_info stands
    ebegan,     \* when this call turned to the venue
    ebody,      \* the body on its way back: its symbols, {} when unusable
    ebodyRead,  \* when the venue wrote it
    etried      \* this call asked the venue and got no usable body

clockVars == <<now, stepped>>
mapVars   == <<held, heldRead, stamped>>
callVars  == <<estage, ebegan, ebody, ebodyRead, etried>>
cacheVars == <<clockVars, mapVars, callVars>>

CallStages == {"away", "fetch", "reply", "served"}

CacheTypeOK ==
    /\ now \in 0 .. MaxTime /\ stepped \in 0 .. MaxStep
    /\ held \subseteq Listed
    /\ heldRead \in Nat /\ stamped \in Int
    /\ estage \in CallStages
    /\ ebegan \in Nat
    /\ ebody \subseteq Listed /\ ebodyRead \in Nat
    /\ etried \in BOOLEAN

CacheInit ==
    /\ now = 0 /\ stepped = 0
    /\ held = {} /\ heldRead = 0 /\ stamped = 0
    /\ estage = "away" /\ ebegan = 0
    /\ ebody = {} /\ ebodyRead = 0
    /\ etried = FALSE

-----------------------------------------------------------------------------
WallClock == now - stepped

\* A wall clock set back to before the stamp makes the age negative.
Fresh == held # {} /\ WallClock - stamped < TTL

\* A fresh map is served at once, with no await.
AskInfo(force) ==
    /\ estage = "away"
    /\ IF ~force /\ Fresh
         THEN estage' = "served" /\ UNCHANGED ebegan
         ELSE estage' = "fetch" /\ ebegan' = now
    /\ UNCHANGED <<clockVars, mapVars, ebody, ebodyRead, etried>>

Entries == {"well_formed", "malformed", "absent"}

\* _parse_symbol: an entry with a missing or malformed field is dropped, and
\* the others are kept.
Parsed(entries) == {s \in Listed : entries[s] = "well_formed"}

\* The venue writes a body with some of the entries; a call that fails, and a
\* body that is no exchangeInfo, are one without entries.
VenueAnswers(entries) ==
    /\ estage = "fetch"
    /\ estage' = "reply"
    /\ ebody' = Parsed(entries)
    /\ ebodyRead' = now
    /\ UNCHANGED <<clockVars, mapVars, ebegan, etried>>

FAULTY_StoreReply ==                   \* a failed refresh renews the stamp
    /\ estage = "reply"
    /\ estage' = "served"
    /\ IF ebody = {}
         THEN etried' = TRUE /\ UNCHANGED <<held, heldRead>>
         ELSE /\ held' = ebody /\ heldRead' = ebodyRead
              /\ UNCHANGED etried
    /\ stamped' = WallClock
    /\ UNCHANGED <<clockVars, ebegan, ebody, ebodyRead>>

FAULTY_Wipe ==                         \* whatever came back is the cache
    /\ estage = "reply"
    /\ estage' = "served"
    /\ held' = ebody /\ heldRead' = ebodyRead
    /\ stamped' = WallClock
    /\ etried' = (ebody = {})
    /\ UNCHANGED <<clockVars, ebegan, ebody, ebodyRead>>

\* An empty map leaves the old one and its stamp in place, and is served as
\* the old one; any other replaces it whole.
StoreReply ==
    /\ estage = "reply"
    /\ estage' = "served"
    /\ IF ebody = {}
         THEN etried' = TRUE /\ UNCHANGED mapVars
         ELSE /\ held' = ebody /\ heldRead' = ebodyRead
              /\ stamped' = WallClock
              /\ UNCHANGED etried
    /\ UNCHANGED <<clockVars, ebegan, ebody, ebodyRead>>

\* The caller has the map and goes on, or its task was cancelled.
LeaveCache ==
    /\ estage' = "away"
    /\ ebegan' = 0
    /\ ebody' = {} /\ ebodyRead' = 0
    /\ etried' = FALSE
    /\ UNCHANGED <<clockVars, mapVars>>

\* The client's timeout bounds how long a call stays out.
Tick ==
    /\ now < MaxTime
    /\ estage \in {"fetch", "reply"} => now < ebegan + Latency
    /\ estage # "served"               \* the caller goes on without an await
    /\ now' = now + 1
    /\ UNCHANGED <<stepped, mapVars, callVars>>

\* The operator, or NTP, sets the wall clock back.
SetClockBack ==
    /\ stepped < MaxStep
    /\ estage # "served"
    /\ stepped' = stepped + 1
    /\ UNCHANGED <<now, mapVars, callVars>>

CacheStep ==
    \/ \E entries \in [Listed -> Entries] : VenueAnswers(entries)
    \/ StoreReply
    \/ Tick
    \/ SetClockBack

-----------------------------------------------------------------------------
\* The filters an order is sized with were written by the venue within the
\* TTL, one call and however far the wall clock went back, or this very call
\* asked for newer ones and got none.
ServedAgeBounded ==
    estage = "served" =>
        \/ etried
        \/ held # {} /\ now - heldRead <= TTL + Latency + stepped

\* A filled cache is never emptied, never goes back to an older body, and
\* counts as newly read only when it is.
FilledStaysFilled ==
    [][held # {} => /\ held' # {}
                    /\ heldRead' >= heldRead
                    /\ (stamped' # stamped => ebody # {} /\ heldRead' >= ebegan)]_mapVars
=============================================================================
