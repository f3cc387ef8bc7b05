---------------------------- MODULE OperatorCli -----------------------------
(***************************************************************************)
(* cli.main: one process runs one subcommand, the watchdog or a smoke      *)
(* test, and ends with its exit code.                                      *)
(***************************************************************************)
EXTENDS Watchdog, OperatorSmokes

cliVars == <<watchVars, smokeVars>>

CliInit == WatchInit /\ SmokesInit

\* The watchdog looks at the markets the reader knows.
MainWatchdog ==
    /\ smoke = "none"
    /\ StartWatch
    /\ UNCHANGED smokeVars

MainSmoke ==
    /\ wstage = "off"
    /\ \E s \in Smokes : StartSmoke(s)
    /\ UNCHANGED watchVars

CliNext ==
    \/ MainWatchdog \/ MainSmoke
    \/ WatchStep /\ UNCHANGED smokeVars
    \/ SmokeStep /\ UNCHANGED watchVars

CliSpec == CliInit /\ [][CliNext]_cliVars

-----------------------------------------------------------------------------
CliTypeOK == WatchTypeOK /\ SmokesTypeOK
=============================================================================
