------------------------------ MODULE Watchdog ------------------------------
(***************************************************************************)
(* `cli watchdog`: one tick of the scheduled checks of watchdog.py on what *)
(* the settings hard-code (the GMX Reader's address, the source of         *)
(* HyperLend's WHYPE price, the GMX markets), the alerts it publishes and  *)
(* the code it exits with.  The checks are made one after the other while  *)
(* what they look at may change.                                           *)
(***************************************************************************)
EXTENDS Naturals, Sequences

CONSTANTS
    NumMarkets,    \* the markets of ARBITRUM_MARKETS, in the dict's order
    MaxDrifts      \* bound: changes of what is watched, in a behaviour

ASSUME WatchdogAssumption == NumMarkets \in Nat /\ MaxDrifts \in Nat

\* run_all_checks: a check is named by its place in the list of results.
Reader == 1
Source == 2
Checks == 1 .. 2 + NumMarkets
Grave == {Reader, Source}
Severity == {"OK", "WARN", "CRITICAL", "ERROR"}

VARIABLES
    drifted,     \* checks whose subject is not what the settings say
    drifts,      \* changes so far
    stood,       \* history: checks drifted ever since the tick began
    felt,        \* history: checks drifted at some moment of the tick
    answered,    \* history: checks whose request had a well-formed answer
    wstage,      \* "off", "checking", "publishing" or "ended"
    found,       \* results: severities, in the order of the checks
    emits,       \* --emit-alerts
    sent,        \* alerts on trap_alerts_stream
    refused,     \* alerts whose XADD failed
    wexit        \* the exit code, once ended

watchVars == <<drifted, drifts, stood, felt, answered, wstage, found, emits,
               sent, refused, wexit>>

WatchInit ==
    /\ drifted = {} /\ emits = FALSE
    /\ drifts = 0 /\ stood = {} /\ felt = {} /\ answered = {}
    /\ wstage = "off" /\ found = <<>> /\ sent = {} /\ refused = {} /\ wexit = 0

\* The arguments are parsed; anything may have drifted before the tick.
StartWatch ==
    /\ wstage = "off"
    /\ wstage' = "checking"
    /\ emits' \in BOOLEAN
    /\ drifted' \in SUBSET Checks
    /\ stood' = drifted'
    /\ felt' = drifted'
    /\ UNCHANGED <<drifts, answered, found, sent, refused, wexit>>

\* A redeploy, a rotation, a delisting, or its reversal.
WorldDrifts ==
    /\ wstage \in {"checking", "publishing"}
    /\ drifts < MaxDrifts
    /\ drifts' = drifts + 1
    /\ \E c \in Checks :
         drifted' = (drifted \ {c}) \cup ({c} \ drifted)
    /\ stood' = stood \cap drifted'
    /\ felt' = felt \cup drifted'
    /\ UNCHANGED <<answered, wstage, found, emits, sent, refused, wexit>>

\* The results a check may come to.  Without a usable answer it cannot say;
\* a market is looked up through the Reader, and an orphaned Reader may
\* answer anything.
Results(c, served) ==
    IF ~served THEN {"ERROR"}
    ELSE IF c \in Grave THEN {IF c \in drifted THEN "CRITICAL" ELSE "OK"}
    ELSE IF Reader \in drifted THEN {"OK", "WARN", "ERROR"}
    ELSE {IF c \in drifted THEN "WARN" ELSE "OK"}

\* The next check, whatever the ones before it came to.
RunCheck ==
    /\ wstage = "checking"
    /\ Len(found) < 2 + NumMarkets
    /\ \E served \in BOOLEAN :
         LET c == Len(found) + 1
         IN  /\ \E v \in Results(c, served) : found' = Append(found, v)
             /\ answered' = IF served THEN answered \cup {c} ELSE answered
    /\ UNCHANGED <<drifted, drifts, stood, felt, wstage, emits, sent, refused,
                   wexit>>

Found(severity) == {c \in 1 .. Len(found) : found[c] = severity}

Unpublished ==
    {c \in 1 .. Len(found) : found[c] # "OK"} \ (sent \cup refused)

FAULTY_ExitCode ==                     \* an error outranks a confirmed drift
    IF Found("ERROR") # {} THEN 3 ELSE IF Found("CRITICAL") # {} THEN 2 ELSE 0

\* The exit code: a confirmed drift outranks a check that could not say.
ExitCode ==
    IF Found("CRITICAL") # {} THEN 2 ELSE IF Found("ERROR") # {} THEN 3 ELSE 0

EndChecks ==
    /\ wstage = "checking"
    /\ Len(found) = 2 + NumMarkets
    /\ wstage' = IF emits THEN "publishing" ELSE "ended"
    /\ wexit' = IF emits THEN wexit ELSE ExitCode
    /\ UNCHANGED <<drifted, drifts, stood, felt, answered, found, emits, sent,
                   refused>>

FAULTY_PublishAlert ==                 \* a failed XADD ends the command
    /\ wstage = "publishing"
    /\ \E c \in Unpublished :
         /\ \A d \in Unpublished : c <= d
         /\ \/ sent' = sent \cup {c} /\ UNCHANGED <<refused, wstage, wexit>>
            \/ /\ refused' = refused \cup {c} /\ UNCHANGED sent
               /\ wstage' = "ended" /\ wexit' = ExitCode
    /\ UNCHANGED <<drifted, drifts, stood, felt, answered, found, emits>>

\* _emit_alerts: the results that are not OK, in order; a failed XADD is
\* swallowed by publish_alert, and the next alert is tried.
PublishAlert ==
    /\ wstage = "publishing"
    /\ \E c \in Unpublished :
         /\ \A d \in Unpublished : c <= d
         /\ \/ sent' = sent \cup {c} /\ UNCHANGED refused
            \/ refused' = refused \cup {c} /\ UNCHANGED sent
    /\ UNCHANGED <<drifted, drifts, stood, felt, answered, wstage, found, emits,
                   wexit>>

EndPublish ==
    /\ wstage = "publishing"
    /\ Unpublished = {}
    /\ wstage' = "ended"
    /\ wexit' = ExitCode
    /\ UNCHANGED <<drifted, drifts, stood, felt, answered, found, emits, sent,
                   refused>>

WatchStep ==
    WorldDrifts \/ RunCheck \/ EndChecks \/ PublishAlert \/ EndPublish

-----------------------------------------------------------------------------
WatchTypeOK ==
    /\ drifted \subseteq Checks /\ stood \subseteq Checks
    /\ felt \subseteq Checks /\ answered \subseteq Checks
    /\ sent \subseteq Checks /\ refused \subseteq Checks
    /\ drifts \in 0 .. MaxDrifts
    /\ wstage \in {"off", "checking", "publishing", "ended"}
    /\ found \in Seq(Severity) /\ Len(found) <= 2 + NumMarkets
    /\ emits \in BOOLEAN /\ wexit \in {0, 2, 3}

\* What the exit code tells the scheduler (cli.py _watchdog_main): 2 only if
\* the Reader or the WHYPE source had drifted, and always if one had for the
\* whole tick and its own check was answered, however the others fared; 0
\* only if every check was answered and neither had drifted all through.
WatchdogTells ==
    wstage = "ended" =>
        /\ wexit = 2 => Grave \cap felt # {}
        /\ stood \cap answered \cap Grave # {} => wexit = 2
        /\ wexit = 0 => answered = Checks /\ stood \cap Grave = {}

\* What the alerts tell (cli.py _emit_alerts, watchdog.py publish_alert): a
\* drift that stood all through and whose check was answered is on the stream
\* unless Redis refused that very alert; one on the stream is about a drift of
\* the tick, a check without an answer, or a market asked of an orphaned
\* Reader.  Without --emit-alerts there is none.
AlertsTell ==
    wstage = "ended" =>
        /\ ~emits => sent = {}
        /\ emits => \A c \in stood \cap answered :
                      c \in Grave \/ Reader \notin felt => c \in sent \cup refused
        /\ \A c \in sent : \/ c \in felt \/ c \notin answered
                           \/ c \notin Grave /\ Reader \in felt
=============================================================================
