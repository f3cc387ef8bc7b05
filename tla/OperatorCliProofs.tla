-------------------------- MODULE OperatorCliProofs -------------------------
(***************************************************************************)
(* Proofs about the command line for any number of markets, any addresses, *)
(* lists of positions of any length and any number of changes of the       *)
(* world: what a command tells, what reconciliation decides, and that a    *)
(* command costs only so many steps and ends.                              *)
(***************************************************************************)
EXTENDS OperatorCli, FiniteSetTheorems, TLAPS

-----------------------------------------------------------------------------
(* The watchdog.                                                           *)

\* What each result so far is worth, given what drifted and was answered.
Sound(c) ==
    /\ c \notin answered => found[c] = "ERROR"
    /\ found[c] = "CRITICAL" => c \in Grave /\ c \in felt
    /\ c \in answered /\ c \in stood /\ c \in Grave => found[c] = "CRITICAL"
    /\ c \in answered /\ c \in stood /\ c \notin Grave /\ Reader \notin felt
         => found[c] = "WARN"
    /\ found[c] # "OK" => \/ c \in felt \/ c \notin answered
                          \/ c \notin Grave /\ Reader \in felt

ResultsSound == \A c \in 1 .. Len(found) : Sound(c)

WorldBounds == wstage # "off" => stood \subseteq drifted /\ drifted \subseteq felt

Progress ==
    /\ answered \subseteq 1 .. Len(found)
    /\ wstage \in {"off", "checking"} => sent = {} /\ refused = {}
    /\ wstage = "off" => found = <<>>
    /\ wstage = "publishing" => emits
    /\ ~emits => sent = {} /\ refused = {}
    /\ wstage \in {"publishing", "ended"} => Len(found) = 2 + NumMarkets

Published ==
    /\ \A c \in sent \cup refused : c \in 1 .. Len(found) /\ found[c] # "OK"
    /\ wstage = "ended" => wexit = ExitCode /\ (emits => Unpublished = {})

WatchInv == WatchTypeOK /\ WorldBounds /\ ResultsSound /\ Progress /\ Published

LEMMA WatchTypeInit == WatchInit => WatchTypeOK
<1> SUFFICES ASSUME WatchInit PROVE WatchTypeOK
  OBVIOUS
<1>1. found \in Seq(Severity) /\ Len(found) = 0
  BY DEF WatchInit
<1>2. /\ drifted \subseteq Checks /\ stood \subseteq Checks
      /\ felt \subseteq Checks /\ answered \subseteq Checks
      /\ sent \subseteq Checks /\ refused \subseteq Checks
  BY Zenon DEF WatchInit
<1>3. drifts \in 0 .. MaxDrifts /\ Len(found) <= 2 + NumMarkets
  BY <1>1, WatchdogAssumption DEF WatchInit
<1>4. emits \in BOOLEAN /\ wexit \in {0, 2, 3}
  BY DEF WatchInit
<1>5. wstage \in {"off", "checking", "publishing", "ended"}
  BY DEF WatchInit
<1> QED
  BY <1>1, <1>2, <1>3, <1>4, <1>5, Zenon DEF WatchTypeOK

LEMMA WatchTypeStep == WatchTypeOK /\ (StartWatch \/ WatchStep) => WatchTypeOK'
<1> SUFFICES ASSUME WatchTypeOK, StartWatch \/ WatchStep PROVE WatchTypeOK'
  OBVIOUS
<1> USE WatchdogAssumption
<1>0. ExitCode \in {0, 2, 3}
  BY DEF ExitCode
<1>1. CASE StartWatch
  BY <1>1 DEF StartWatch, WatchTypeOK
<1>2. CASE WorldDrifts
  BY <1>2 DEF WorldDrifts, WatchTypeOK
<1>3. CASE RunCheck
  <2>0. PICK served \in BOOLEAN :
          /\ \E v \in Results(Len(found) + 1, served) : found' = Append(found, v)
          /\ answered' = IF served THEN answered \cup {Len(found) + 1}
                                   ELSE answered
    BY <1>3 DEF RunCheck
  <2>1. PICK v \in Results(Len(found) + 1, served) : found' = Append(found, v)
    BY <2>0
  <2>2. v \in Severity
    BY <2>1 DEF Results, Severity
  <2>3. found' \in Seq(Severity) /\ Len(found') = Len(found) + 1
    BY <2>1, <2>2 DEF WatchTypeOK
  <2>4. Len(found) + 1 \in Checks /\ Len(found') <= 2 + NumMarkets
    BY <1>3, <2>3 DEF RunCheck, WatchTypeOK, Checks
  <2> QED
    BY <1>3, <2>0, <2>3, <2>4 DEF RunCheck, WatchTypeOK
<1>4. CASE EndChecks
  BY <1>0, <1>4 DEF EndChecks, WatchTypeOK
<1>5. CASE PublishAlert
  <2>1. Unpublished \subseteq Checks
    BY DEF Unpublished, Checks, WatchTypeOK
  <2>2. sent' \subseteq Checks /\ refused' \subseteq Checks
    BY <1>5, <2>1 DEF PublishAlert, WatchTypeOK
  <2> QED
    BY <1>5, <2>2 DEF PublishAlert, WatchTypeOK
<1>6. CASE EndPublish
  BY <1>0, <1>6 DEF EndPublish, WatchTypeOK
<1> QED
  BY <1>1, <1>2, <1>3, <1>4, <1>5, <1>6 DEF WatchStep

LEMMA WatchInvInit == WatchInit => WatchInv
<1> SUFFICES ASSUME WatchInit PROVE WatchInv
  OBVIOUS
<1>1. WatchTypeOK
  BY WatchTypeInit
<1>2. Len(found) = 0 /\ found = <<>>
  BY DEF WatchInit
<1> QED
  BY <1>1, <1>2 DEF WatchInit, WatchInv, WorldBounds, ResultsSound, Progress,
                    Published

LEMMA WatchInvStep == WatchInv /\ (StartWatch \/ WatchStep) => WatchInv'
<1> SUFFICES ASSUME WatchInv, StartWatch \/ WatchStep PROVE WatchInv'
  OBVIOUS
<1> USE WatchdogAssumption
<1>0. WatchTypeOK /\ WatchTypeOK'
  BY WatchTypeStep DEF WatchInv
<1>1. CASE StartWatch
  <2>1. found' = found /\ Len(found) = 0
    BY <1>1 DEF StartWatch, WatchInv, Progress
  <2> QED
    BY <1>0, <1>1, <2>1 DEF StartWatch, WatchInv, WorldBounds, ResultsSound,
                            Progress, Published
<1>2. CASE WorldDrifts
  <2>1. stood' \subseteq stood /\ felt \subseteq felt'
    BY <1>2 DEF WorldDrifts
  <2>2. ResultsSound'
    BY <1>0, <1>2, <2>1 DEF WorldDrifts, WatchInv, ResultsSound, Sound
  <2>3. WorldBounds'
    BY <1>2 DEF WorldDrifts, WatchInv, WorldBounds
  <2>4. Progress' /\ Published'
    BY <1>2 DEF WorldDrifts, WatchInv, Progress, Published
  <2> QED
    BY <1>0, <2>2, <2>3, <2>4 DEF WatchInv
<1>3. CASE RunCheck
  <2>n. PICK n \in Nat : n = Len(found) + 1
    BY <1>0 DEF WatchTypeOK
  <2>0. PICK served \in BOOLEAN :
          /\ \E v \in Results(n, served) : found' = Append(found, v)
          /\ answered' = IF served THEN answered \cup {n} ELSE answered
    BY <1>3, <2>n DEF RunCheck
  <2>1. PICK v \in Results(n, served) : found' = Append(found, v)
    BY <2>0
  <2>2. /\ Len(found) \in Nat /\ Len(found') = n
        /\ found'[n] = v
        /\ \A c \in 1 .. Len(found) : found'[c] = found[c]
    <3>1. v \in Severity
      BY <2>1 DEF Results, Severity
    <3> QED
      BY <1>0, <2>n, <2>1, <3>1 DEF WatchTypeOK
  <2>3. stood' = stood /\ felt' = felt /\ drifted' = drifted
    BY <1>3 DEF RunCheck
  <2>4. stood \subseteq drifted /\ drifted \subseteq felt
    BY <1>3 DEF RunCheck, WatchInv, WorldBounds
  <2>5. ASSUME NEW c \in 1 .. Len(found) PROVE Sound(c)'
    <3>1. c # n /\ (c \in answered' <=> c \in answered)
      BY <2>0, <2>n, <2>2
    <3>2. Sound(c)
      BY DEF WatchInv, ResultsSound
    <3> QED
      BY <2>2, <2>3, <3>1, <3>2 DEF Sound
  <2>6. Sound(n)'
    <3>1. n \notin answered
      BY <2>n, <2>2 DEF WatchInv, Progress
    <3>2. n \in answered' <=> served
      BY <2>0, <3>1
    <3> QED
      BY <2>1, <2>2, <2>3, <2>4, <3>2 DEF Sound, Results
  <2>7. ResultsSound'
    <3>1. ASSUME NEW c \in 1 .. Len(found') PROVE Sound(c)'
      <4>1. c = n \/ c \in 1 .. Len(found)
        BY <2>n, <2>2
      <4> QED
        BY <4>1, <2>5, <2>6
    <3> QED
      BY <3>1 DEF ResultsSound
  <2>8. Progress'
    <3>1. answered \subseteq 1 .. Len(found)
      BY DEF WatchInv, Progress
    <3>0. answered' \subseteq answered \cup {n}
      BY <2>0, Zenon
    <3>2. answered' \subseteq 1 .. n
      BY <1>0, <2>n, <3>0, <3>1 DEF WatchTypeOK
    <3>3. sent' = sent /\ refused' = refused /\ wstage' = wstage /\ emits' = emits
      BY <1>3 DEF RunCheck
    <3>4. sent = {} /\ refused = {}
      BY <1>3 DEF RunCheck, WatchInv, Progress
    <3> QED
      BY <1>3, <2>2, <3>2, <3>3, <3>4 DEF RunCheck, Progress
  <2>9. Published'
    BY <1>3, <2>n, <2>2 DEF RunCheck, WatchInv, Progress, Published
  <2>10. WorldBounds'
    BY <1>3 DEF RunCheck, WatchInv, WorldBounds
  <2> QED
    BY <1>0, <2>7, <2>8, <2>9, <2>10 DEF WatchInv
<1>4. CASE EndChecks
  <2>1. ExitCode' = ExitCode /\ Unpublished' = Unpublished
    BY <1>4 DEF EndChecks, ExitCode, Found, Unpublished
  <2>2. ResultsSound' /\ WorldBounds'
    BY <1>4 DEF EndChecks, WatchInv, ResultsSound, Sound, WorldBounds
  <2>3. Progress'
    BY <1>0, <1>4 DEF EndChecks, WatchInv, Progress, WatchTypeOK
  <2>4. Published'
    BY <1>0, <1>4, <2>1 DEF EndChecks, WatchInv, Published, WatchTypeOK
  <2> QED
    BY <1>0, <2>2, <2>3, <2>4 DEF WatchInv
<1>5. CASE PublishAlert
  <2>1. ResultsSound' /\ WorldBounds'
    BY <1>5 DEF PublishAlert, WatchInv, ResultsSound, Sound, WorldBounds
  <2>2. Progress'
    BY <1>5 DEF PublishAlert, WatchInv, Progress
  <2>3. Published'
    BY <1>5 DEF PublishAlert, WatchInv, Published, Unpublished
  <2> QED
    BY <1>0, <2>1, <2>2, <2>3 DEF WatchInv
<1>6. CASE EndPublish
  <2>1. ExitCode' = ExitCode /\ Unpublished' = Unpublished
    BY <1>6 DEF EndPublish, ExitCode, Found, Unpublished
  <2>2. ResultsSound' /\ WorldBounds'
    BY <1>6 DEF EndPublish, WatchInv, ResultsSound, Sound, WorldBounds
  <2>3. Progress' /\ Published'
    BY <1>6, <2>1 DEF EndPublish, WatchInv, Progress, Published
  <2> QED
    BY <1>0, <2>2, <2>3 DEF WatchInv
<1> QED
  BY <1>1, <1>2, <1>3, <1>4, <1>5, <1>6 DEF WatchStep

LEMMA WatchInvTells == WatchInv => WatchdogTells /\ AlertsTell
<1> SUFFICES ASSUME WatchInv, wstage = "ended" PROVE WatchdogTells /\ AlertsTell
  BY DEF WatchdogTells, AlertsTell
<1> USE WatchdogAssumption
<1>1. /\ Len(found) = 2 + NumMarkets /\ 1 .. Len(found) = Checks
      /\ wexit = ExitCode /\ (emits => Unpublished = {})
  BY DEF WatchInv, Progress, Published, Checks
<1>2. \A c \in Checks : Sound(c)
  BY <1>1 DEF WatchInv, ResultsSound
<1>3. Grave \subseteq Checks /\ stood \subseteq Checks /\ sent \subseteq Checks
  BY DEF Grave, Checks, Reader, Source, WatchInv, WatchTypeOK
<1>4. answered \subseteq Checks
  BY DEF WatchInv, WatchTypeOK
<1>5. WatchdogTells
  <2>1. wexit = 2 => Grave \cap felt # {}
    BY <1>1, <1>2 DEF ExitCode, Found, Sound
  <2>2. stood \cap answered \cap Grave # {} => wexit = 2
    BY <1>1, <1>2, <1>3 DEF ExitCode, Found, Sound
  <2>3. wexit = 0 => answered = Checks
    <3>1. wexit = 0 => \A c \in Checks : found[c] # "ERROR"
      BY <1>1 DEF ExitCode, Found
    <3>2. wexit = 0 => \A c \in Checks : c \in answered
      BY <1>2, <3>1 DEF Sound
    <3> QED
      BY <1>4, <3>2
  <2>4. wexit = 0 => stood \cap Grave = {}
    BY <1>1, <1>2, <1>3, <2>2, <2>3
  <2> QED
    BY <2>1, <2>2, <2>3, <2>4 DEF WatchdogTells
<1>6. AlertsTell
  <2>1. ~emits => sent = {}
    BY DEF WatchInv, Progress
  <2>2. ASSUME emits, NEW c \in stood \cap answered, c \in Grave \/ Reader \notin felt
        PROVE  c \in sent \cup refused
    <3>1. found[c] # "OK"
      BY <1>2, <1>3, <2>2 DEF Sound
    <3> QED
      BY <1>1, <1>3, <2>2, <3>1 DEF Unpublished
  <2>3. ASSUME NEW c \in sent
        PROVE  c \in felt \/ c \notin answered \/ (c \notin Grave /\ Reader \in felt)
    <3>1. found[c] # "OK"
      BY DEF WatchInv, Published
    <3>2. Sound(c)
      BY <1>2, <1>3
    <3> QED
      BY <3>1, <3>2 DEF Sound
  <2> QED
    BY <2>1, <2>2, <2>3 DEF AlertsTell
<1> QED
  BY <1>5, <1>6

-----------------------------------------------------------------------------
(* The smoke tests: types.                                                 *)

Steps == Requests \cup {"none", "auth", "key", "executor", "decode", "summary",
                        "place", "ended"}

Marks ==
    /\ smoke \in Smokes \cup {"none"} /\ sstage \in Steps /\ code \in 0 .. 4
    /\ heard \subseteq Requests /\ nones \subseteq SignedReads
    /\ failed \in BOOLEAN

World ==
    /\ mode \in Modes /\ api \in BOOLEAN /\ flips \in 0 .. MaxFlips
    /\ modes \subseteq Modes /\ apis \subseteq BOOLEAN

Kept == positions \in Seq(Position) /\ Len(positions) <= MaxPositions

LEMMA SmokesTypeParts ==
    /\ SmokesTypeOK <=> Marks /\ World /\ Kept
    /\ SmokesTypeOK' <=> Marks' /\ World' /\ Kept'
BY Zenon DEF SmokesTypeOK, Marks, World, Kept, Steps

\* Every step but the account's own, the start and the loop over positions
\* leaves the account and the list alone.
LEMMA SmokeFrame ==
    SmokeStep => \/ AccountChanges \/ KeepPosition
                 \/ UNCHANGED <<account, positions>>
<1> USE DEF Plain, Tallied, account
<1>1. SignKey \/ SignSimulate \/ ProbeRpc \/ ReadEmptyAddress \/ FindExecutor
        \/ RequestAccount \/ PrintPositions
      => UNCHANGED <<account, positions>>
  BY DEF SignKey, SignSimulate, ProbeRpc, ReadEmptyAddress, FindExecutor,
         RequestAccount, PrintPositions
<1>2. SignRequest("nonce", "gas") \/ SignRequest("gas", "simulate")
      => UNCHANGED <<account, positions>>
  BY DEF SignRequest
<1>3. CheckCredentials \/ CheckMode \/ CheckMargin \/ CheckGate \/ Summary
      => UNCHANGED <<account, positions>>
  BY DEF CheckCredentials, CheckMode, CheckMargin, CheckGate, Summary
<1>4. CheckList("balance", "margin") \/ CheckList("positions", "info")
        \/ CheckPublic("info", "rates") \/ CheckPublic("rates", "gate")
      => UNCHANGED <<account, positions>>
  BY DEF CheckList, CheckPublic
<1>5. DryRunInfo \/ DryRunMark \/ DryRunPlace => UNCHANGED <<account, positions>>
  BY DEF DryRunInfo, DryRunMark, DryRunPlace
<1> QED
  BY <1>1, <1>2, <1>3, <1>4, <1>5 DEF SmokeStep

\* What a step leaves when it goes on, ends, hears a request or tallies one.
LEMMA GoToMarks ==
    ASSUME NEW st \in Steps, Marks, GoTo(st)
    PROVE  smoke' \in Smokes \cup {"none"} /\ sstage' \in Steps /\ code' \in 0 .. 4
BY DEF Marks, GoTo

LEMMA ExitMarks ==
    ASSUME NEW n \in 0 .. 4, Marks, Exit(n)
    PROVE  smoke' \in Smokes \cup {"none"} /\ sstage' \in Steps /\ code' \in 0 .. 4
BY DEF Marks, Exit, Steps

LEMMA HearMarks ==
    ASSUME NEW q \in Requests, NEW got \in BOOLEAN, Marks, Hear(q, got)
    PROVE  heard' \subseteq Requests
BY DEF Marks, Hear

LEMMA TalliedMarks ==
    ASSUME NEW q \in SignedReads, NEW none \in BOOLEAN, NEW fails \in BOOLEAN,
           Marks, Tallied(q, none, fails)
    PROVE  nones' \subseteq SignedReads /\ failed' \in BOOLEAN
BY DEF Marks, Tallied

LEMMA RequestNames ==
    /\ \A q \in {"nonce", "gas", "simulate", "probe", "empty", "account", "info",
                 "rates", "gate", "mark", "mode", "balance", "margin",
                 "positions"} : q \in Requests
    /\ \A q \in Requests : q \in Steps
    /\ \A q \in {"mode", "balance", "margin", "positions"} : q \in SignedReads
    /\ {"none", "auth", "key", "executor", "decode", "summary", "place",
        "ended"} \subseteq Steps
BY DEF Requests, SignedReads, Steps

LEMMA SmokesInitType == SmokesInit => SmokesTypeOK
<1> SUFFICES ASSUME SmokesInit PROVE SmokesTypeOK
  OBVIOUS
<1>1. heard \subseteq Requests /\ nones \subseteq SignedReads
      /\ modes \subseteq Modes /\ apis \subseteq BOOLEAN
  BY Zenon DEF SmokesInit
<1>2. positions \in Seq(Position) /\ Len(positions) = 0
  BY DEF SmokesInit
<1>3. flips \in 0 .. MaxFlips /\ Len(positions) <= MaxPositions
  BY <1>2, SmokesAssumption DEF SmokesInit
<1>4. mode \in Modes /\ code \in 0 .. 4
  BY DEF SmokesInit, Modes
<1>6. api \in BOOLEAN /\ failed \in BOOLEAN
  BY Zenon DEF SmokesInit
<1>5. smoke \in Smokes \cup {"none"} /\ sstage \in Steps
  BY DEF SmokesInit, Steps
<1> QED
  BY <1>1, <1>2, <1>3, <1>4, <1>5, <1>6, SmokesTypeParts, Zenon
     DEF Marks, World, Kept

LEMMA StartMarks ==
    ASSUME SmokesTypeOK, NEW s \in Smokes, StartSmoke(s) PROVE SmokesTypeOK'
<1>1. FirstStage[s] \in Steps
  BY DEF FirstStage, Steps, Requests
<1>2. Marks'
  BY <1>1, SmokesTypeParts DEF StartSmoke, Marks, tally
<1>3. mode' \in Modes /\ api' \in BOOLEAN /\ flips' = flips
  BY SmokesTypeParts DEF StartSmoke, World
<1>4. modes' \subseteq Modes /\ apis' \subseteq BOOLEAN
  BY <1>3 DEF StartSmoke
<1>5. World'
  BY <1>3, <1>4, SmokesTypeParts DEF World
<1>6. Kept'
  BY SmokesTypeParts DEF StartSmoke, Kept
<1> QED
  BY <1>2, <1>5, <1>6, SmokesTypeParts

\* The steps that only go on, end, hear and tally, action by action.
LEMMA SmokesMarksStep ==
    ASSUME SmokesTypeOK, SmokeStep, ~AccountChanges, ~KeepPosition PROVE Marks'
<1> USE SmokesTypeParts, RequestNames, GoToMarks, ExitMarks, HearMarks
<1> DEFINE Moved == smoke' \in Smokes \cup {"none"} /\ sstage' \in Steps
                    /\ code' \in 0 .. 4
<1>0. ASSUME Moved, heard' \subseteq Requests, UNCHANGED tally PROVE Marks'
  BY <1>0 DEF Marks, tally
<1>a. ASSUME Moved, UNCHANGED heard, UNCHANGED tally PROVE Marks'
  BY <1>a DEF Marks, tally
<1>b. ASSUME Moved, heard' \subseteq Requests, nones' \subseteq SignedReads,
             failed' \in BOOLEAN
      PROVE  Marks'
  BY <1>b DEF Marks
<1>1. CASE SignKey
  <2>1. Moved
    BY <1>1 DEF SignKey
  <2> QED
    BY <1>1, <2>1, <1>a DEF SignKey, Plain
<1>2. ASSUME NEW q \in {"nonce", "gas"}, NEW n \in {"gas", "simulate"},
             SignRequest(q, n)
      PROVE  Marks'
  <2>1. PICK got \in {"number", "garbled", "nothing"} :
          /\ Hear(q, got = "number")
          /\ GoTo(n) \/ Exit(1) \/ Exit(3)
    BY <1>2 DEF SignRequest
  <2>2. Moved
    BY <2>1
  <2>3. heard' \subseteq Requests
    BY <2>1
  <2> QED
    BY <1>2, <2>2, <2>3, <1>0 DEF SignRequest, Plain
<1>3. CASE SignSimulate
  <2>0. Exit(0) \/ Exit(2)
    BY <1>3 DEF SignSimulate
  <2>1. Moved
    BY <2>0
  <2>2. heard' \subseteq Requests
    BY <1>3 DEF SignSimulate
  <2> QED
    BY <1>3, <2>1, <2>2, <1>0 DEF SignSimulate, Plain
<1>4. CASE ProbeRpc
  <2>1. Moved /\ heard' \subseteq Requests
    BY <1>4 DEF ProbeRpc
  <2> QED
    BY <1>4, <2>1, <1>0 DEF ProbeRpc, Plain
<1>5. CASE ReadEmptyAddress
  <2>0. Exit(2) \/ GoTo("executor")
    BY <1>5 DEF ReadEmptyAddress
  <2>1. Moved
    BY <2>0
  <2>2. heard' \subseteq Requests
    BY <1>5 DEF ReadEmptyAddress
  <2> QED
    BY <1>5, <2>1, <2>2, <1>0 DEF ReadEmptyAddress, Plain
<1>6. CASE FindExecutor
  <2>1. Moved
    BY <1>6 DEF FindExecutor
  <2> QED
    BY <1>6, <2>1, <1>a DEF FindExecutor, Plain
<1>7. CASE RequestAccount
  <2>1. Moved /\ heard' \subseteq Requests
    BY <1>7 DEF RequestAccount
  <2> QED
    BY <1>7, <2>1, <1>0 DEF RequestAccount, Plain
<1>8. CASE PrintPositions
  <2>1. Moved
    BY <1>8 DEF PrintPositions
  <2> QED
    BY <1>8, <2>1, <1>a DEF PrintPositions, Plain
<1>9. CASE CheckCredentials
  <2>1. Moved
    BY <1>9 DEF CheckCredentials
  <2> QED
    BY <1>9, <2>1, <1>a DEF CheckCredentials, Plain
<1>10. CASE CheckMode
  <2>1. Moved
    BY <1>10 DEF CheckMode
  <2>2. heard' \subseteq Requests
    BY <1>10 DEF CheckMode
  <2>3. nones' \subseteq SignedReads /\ failed' \in BOOLEAN
    BY <1>10 DEF CheckMode, Tallied, Marks
  <2> QED
    BY <2>1, <2>2, <2>3, <1>b
<1>11. ASSUME NEW q \in {"balance", "positions"}, NEW n \in {"margin", "info"},
              CheckList(q, n)
       PROVE  Marks'
  <2>1. Moved
    BY <1>11 DEF CheckList
  <2>2. heard' \subseteq Requests
    BY <1>11 DEF CheckList
  <2>3. nones' \subseteq SignedReads /\ failed' \in BOOLEAN
    BY <1>11 DEF CheckList, Tallied, Marks
  <2> QED
    BY <2>1, <2>2, <2>3, <1>b
<1>12. CASE CheckMargin
  <2>1. Moved
    BY <1>12 DEF CheckMargin
  <2>2. heard' \subseteq Requests
    BY <1>12 DEF CheckMargin
  <2>3. nones' \subseteq SignedReads /\ failed' \in BOOLEAN
    BY <1>12 DEF CheckMargin, Tallied, Marks
  <2> QED
    BY <2>1, <2>2, <2>3, <1>b
<1>13. ASSUME NEW q \in {"info", "rates"}, NEW n \in {"rates", "gate"},
              CheckPublic(q, n)
       PROVE  Marks'
  <2>1. Moved
    BY <1>13 DEF CheckPublic
  <2>2. heard' \subseteq Requests
    BY <1>13 DEF CheckPublic
  <2>3. nones' \subseteq SignedReads /\ failed' \in BOOLEAN
    BY <1>13 DEF CheckPublic, Tallied, Marks
  <2> QED
    BY <2>1, <2>2, <2>3, <1>b
<1>14. CASE CheckGate
  <2>1. Moved
    BY <1>14 DEF CheckGate
  <2>2. heard' \subseteq Requests
    BY <1>14 DEF CheckGate
  <2>3. nones' \subseteq SignedReads /\ failed' \in BOOLEAN
    BY <1>14 DEF CheckGate, Tallied, Marks
  <2> QED
    BY <2>1, <2>2, <2>3, <1>b
<1>15. CASE Summary
  <2>0. Exit(4) \/ Exit(2) \/ Exit(0)
    BY <1>15, Zenon DEF Summary
  <2>1. Moved
    BY <2>0
  <2> QED
    BY <1>15, <2>1, <1>a DEF Summary, Plain
<1>16. CASE DryRunInfo
  <2>0. Exit(3) \/ GoTo("mark")
    BY <1>16 DEF DryRunInfo
  <2>1. Moved
    BY <2>0
  <2>2. heard' \subseteq Requests
    BY <1>16 DEF DryRunInfo
  <2> QED
    BY <1>16, <2>1, <2>2, <1>0 DEF DryRunInfo, Plain
<1>17. CASE DryRunMark
  <2>1. Moved /\ heard' \subseteq Requests
    BY <1>17 DEF DryRunMark
  <2> QED
    BY <1>17, <2>1, <1>0 DEF DryRunMark, Plain
<1>18. CASE DryRunPlace
  <2>1. Moved
    BY <1>18 DEF DryRunPlace
  <2> QED
    BY <1>18, <2>1, <1>a DEF DryRunPlace, Plain
<1> QED
  BY <1>1, <1>2, <1>3, <1>4, <1>5, <1>6, <1>7, <1>8, <1>9, <1>10, <1>11, <1>12,
     <1>13, <1>14, <1>15, <1>16, <1>17, <1>18 DEF SmokeStep

LEMMA SmokesTypeStep ==
    SmokesTypeOK /\ (SmokeStep \/ \E s \in Smokes : StartSmoke(s)) => SmokesTypeOK'
<1> SUFFICES ASSUME SmokesTypeOK, SmokeStep \/ \E s \in Smokes : StartSmoke(s)
             PROVE  SmokesTypeOK'
  OBVIOUS
<1>1. CASE \E s \in Smokes : StartSmoke(s)
  BY <1>1, StartMarks
<1>2. CASE AccountChanges
  <2>1. Marks' /\ Kept'
    BY <1>2, SmokesTypeParts DEF AccountChanges, Marks, Kept, tally
  <2>2. mode' \in Modes /\ flips' \in 0 .. MaxFlips /\ modes' \subseteq Modes
    BY <1>2, SmokesTypeParts, SmokesAssumption DEF AccountChanges, World
  <2>3. api' \in BOOLEAN
    BY <1>2, SmokesTypeParts DEF AccountChanges, World
  <2>4. apis' \subseteq BOOLEAN
    BY <1>2, <2>3, SmokesTypeParts DEF AccountChanges, World
  <2> QED
    BY <2>1, <2>2, <2>3, <2>4, SmokesTypeParts DEF World
<1>3. CASE KeepPosition
  <2>1. Marks' /\ World'
    BY <1>3, SmokesTypeParts DEF KeepPosition, Marks, World, account, tally
  <2>2. PICK a \in Addresses, c \in Collaterals, l \in BOOLEAN :
          positions' = Append(positions, Decoded(a, c, l))
    BY <1>3 DEF KeepPosition
  <2>3. Decoded(a, c, l) \in Position
    BY ReconcileAssumption DEF Decoded, Position, AliasOf
  <2>4. Kept'
    BY <1>3, <2>2, <2>3, SmokesTypeParts, SmokesAssumption DEF KeepPosition, Kept
  <2> QED
    BY <2>1, <2>4, SmokesTypeParts
<1>4. CASE SmokeStep /\ ~AccountChanges /\ ~KeepPosition
  <2>1. UNCHANGED <<account, positions>>
    BY <1>4, SmokeFrame
  <2>2. World' /\ Kept'
    BY <2>1, SmokesTypeParts DEF World, Kept, account
  <2> QED
    BY <1>4, <2>2, SmokesMarksStep, SmokesTypeParts
<1> QED
  BY <1>1, <1>2, <1>3, <1>4

\* The command line's state is well typed (cli.py main).
THEOREM CliTypeCorrect == CliSpec => []CliTypeOK
<1>1. CliInit => CliTypeOK
  BY WatchTypeInit, SmokesInitType DEF CliInit, CliTypeOK
<1>2. CliTypeOK /\ [CliNext]_cliVars => CliTypeOK'
  <2> SUFFICES ASSUME CliTypeOK, [CliNext]_cliVars PROVE CliTypeOK'
    OBVIOUS
  <2>1. UNCHANGED watchVars => WatchTypeOK'
    BY DEF CliTypeOK, WatchTypeOK, watchVars
  <2>2. UNCHANGED smokeVars => SmokesTypeOK'
    <3> SUFFICES ASSUME UNCHANGED smokeVars PROVE Marks' /\ World' /\ Kept'
      BY SmokesTypeParts
    <3> QED
      BY SmokesTypeParts DEF CliTypeOK, Marks, World, Kept, smokeVars, account, tally
  <2>3. CASE MainWatchdog
    BY <2>2, <2>3, WatchTypeStep DEF MainWatchdog, CliTypeOK
  <2>4. CASE MainSmoke
    BY <2>1, <2>4, SmokesTypeStep DEF MainSmoke, CliTypeOK
  <2>5. CASE WatchStep /\ UNCHANGED smokeVars
    BY <2>2, <2>5, WatchTypeStep DEF CliTypeOK
  <2>6. CASE SmokeStep /\ UNCHANGED watchVars
    BY <2>1, <2>6, SmokesTypeStep DEF CliTypeOK
  <2>7. CASE UNCHANGED cliVars
    BY <2>1, <2>2, <2>7 DEF CliTypeOK, cliVars
  <2> QED
    BY <2>3, <2>4, <2>5, <2>6, <2>7 DEF CliNext
<1> QED
  BY <1>1, <1>2, PTL DEF CliSpec

LEMMA WatchInvariance == CliSpec => []WatchInv
<1>1. CliInit => WatchInv
  BY WatchInvInit DEF CliInit
<1>2. WatchInv /\ [CliNext]_cliVars => WatchInv'
  <2> SUFFICES ASSUME WatchInv, [CliNext]_cliVars PROVE WatchInv'
    OBVIOUS
  <2>1. CASE UNCHANGED watchVars
    BY <2>1 DEF watchVars, WatchInv, WatchTypeOK, WorldBounds, ResultsSound,
                Sound, Progress, Published, ExitCode, Found, Unpublished
  <2>2. StartWatch \/ WatchStep \/ UNCHANGED watchVars
    BY DEF CliNext, MainWatchdog, MainSmoke, cliVars
  <2> QED
    BY <2>1, <2>2, WatchInvStep
<1> QED
  BY <1>1, <1>2, PTL DEF CliSpec

\* The exit code tells the truth about the drifts that stood through the tick,
\* for any number of markets and of changes (cli.py _watchdog_main).
THEOREM WatchdogTellsTruth == CliSpec => []WatchdogTells
BY WatchInvariance, WatchInvTells, PTL

\* A drift that stood all through is on the alerts stream unless Redis refused
\* that very alert, and no alert is about nothing, for any number of markets and
\* any pattern of refusals (cli.py _emit_alerts).
THEOREM AlertsTellTruth == CliSpec => []AlertsTell
BY WatchInvariance, WatchInvTells, PTL

-----------------------------------------------------------------------------
(* Reconciliation.                                                         *)

\* Every position of the list was decoded: its alias is that of its address.
AliasesRight ==
    /\ positions \in Seq(Position)
    /\ \A i \in DOMAIN positions : positions[i].alias = AliasOf(positions[i].address)

LEMMA AliasesRightStep == AliasesRight /\ [CliNext]_cliVars => AliasesRight'
<1> SUFFICES ASSUME AliasesRight, [CliNext]_cliVars PROVE AliasesRight'
  OBVIOUS
<1>1. CASE UNCHANGED positions
  BY <1>1 DEF AliasesRight
<1>2. CASE KeepPosition
  <2>1. PICK a \in Addresses, c \in Collaterals, l \in BOOLEAN :
          positions' = Append(positions, Decoded(a, c, l))
    BY <1>2 DEF KeepPosition
  <2>2. Decoded(a, c, l) \in Position
    BY ReconcileAssumption DEF Decoded, Position, AliasOf
  <2>3. /\ Decoded(a, c, l).alias = AliasOf(a)
        /\ Decoded(a, c, l).address = a
    BY DEF Decoded
  <2>4. /\ positions' \in Seq(Position)
        /\ Len(positions') = Len(positions) + 1 /\ Len(positions) \in Nat
        /\ positions'[Len(positions) + 1] = Decoded(a, c, l)
        /\ \A i \in 1 .. Len(positions) : positions'[i] = positions[i]
    BY <2>1, <2>2 DEF AliasesRight
  <2>5. /\ DOMAIN positions' = 1 .. Len(positions) + 1
        /\ DOMAIN positions = 1 .. Len(positions)
    BY <2>4 DEF AliasesRight
  <2>6. ASSUME NEW i \in DOMAIN positions'
        PROVE  positions'[i].alias = AliasOf(positions'[i].address)
    <3>1. CASE i = Len(positions) + 1
      BY <2>3, <2>4, <3>1
    <3>2. CASE i \in 1 .. Len(positions)
      BY <2>4, <2>5, <3>2 DEF AliasesRight
    <3> QED
      BY <2>4, <2>5, <3>1, <3>2
  <2> QED
    BY <2>4, <2>6 DEF AliasesRight
<1>3. UNCHANGED positions \/ KeepPosition
  <2>1. SmokeStep => UNCHANGED positions \/ KeepPosition
    BY SmokeFrame DEF AccountChanges
  <2>2. MainSmoke => UNCHANGED positions
    BY DEF MainSmoke, StartSmoke
  <2> QED
    BY <2>1, <2>2 DEF CliNext, MainWatchdog, cliVars, smokeVars
<1> QED
  BY <1>1, <1>2, <1>3

\* A position matches an order exactly when it has the order's own key.
LEMMA MatchIsKey ==
    ASSUME AliasesRight, NEW intent \in Intent, NEW i \in DOMAIN positions
    PROVE  Matches(intent, positions[i]) <=>
             /\ positions[i].address = ResolvedAddress(intent)
             /\ positions[i].collateral = intent.collateral
<1> DEFINE p == positions[i]
<1>a. p \in Position /\ p.alias = AliasOf(p.address)
  BY DEF AliasesRight
<1>0. p \in Position /\ p.alias = AliasOf(p.address) /\ p.address \in Addresses
  BY <1>a DEF Position
<1>1. intent.market \in Aliases /\ intent.market # "unknown"
      /\ p.address # "unknown"
  BY <1>0, ReconcileAssumption DEF Intent
<1>2. p.alias = intent.market => p.address = ResolvedAddress(intent)
  <2> SUFFICES ASSUME p.alias = intent.market
               PROVE  p.address = ResolvedAddress(intent)
    OBVIOUS
  <2>1. \E a \in DOMAIN MarketAddress : MarketAddress[a] = p.address
    BY <1>0, <1>1 DEF AliasOf
  <2>2. AliasOf(p.address) \in DOMAIN MarketAddress
        /\ MarketAddress[AliasOf(p.address)] = p.address
    BY <2>1 DEF AliasOf
  <2> QED
    BY <1>0, <2>2 DEF ResolvedAddress
<1> QED
  BY <1>2 DEF Matches

LEMMA SideHasMatch ==
    ASSUME AliasesRight, NEW intent \in Intent, NEW long \in BOOLEAN
    PROVE  HasMatch(intent, positions, long) <=> OwnKey(intent) \in SideKeys(long)
<1>1. OwnKey(intent) \in SideKeys(long) <=>
        \E i \in DOMAIN positions :
           /\ positions[i].is_long = long
           /\ positions[i].address = ResolvedAddress(intent)
           /\ positions[i].collateral = intent.collateral
  BY DEF OwnKey, SideKeys
<1> QED
  BY <1>1, MatchIsKey DEF HasMatch

LEMMA MatrixRows ==
    ASSUME NEW inc \in BOOLEAN, NEW s \in BOOLEAN, NEW o \in BOOLEAN
    PROVE  Matrix(inc, s, o) =
             IF inc THEN IF s THEN "MERGE" ELSE IF o THEN "ABORT" ELSE "PROCEED"
                    ELSE IF s THEN "PROCEED" ELSE "ABORT"
<1>1. CASE inc = TRUE /\ s = TRUE
  BY <1>1 DEF Matrix
<1>2. CASE inc = TRUE /\ s = FALSE /\ o = TRUE
  BY <1>2 DEF Matrix
<1>3. CASE inc = TRUE /\ s = FALSE /\ o = FALSE
  BY <1>3 DEF Matrix
<1>4. CASE inc = FALSE /\ s = TRUE
  BY <1>4 DEF Matrix
<1>5. CASE inc = FALSE /\ s = FALSE
  BY <1>5 DEF Matrix
<1> QED
  BY <1>1, <1>2, <1>3, <1>4, <1>5

LEMMA MatrixFollows == AliasesRight => MatrixDecides /\ NoSecondSide
<1> SUFFICES ASSUME AliasesRight, NEW intent \in Intent
             PROVE  /\ ReconcileAction(intent, positions) =
                         Matrix(intent.is_increase,
                                OwnKey(intent) \in SideKeys(intent.is_long),
                                OwnKey(intent) \in SideKeys(~intent.is_long))
                    /\ /\ intent.is_increase
                       /\ SideKeys(TRUE) \cap SideKeys(FALSE) = {}
                       /\ ReconcileAction(intent, positions) # "ABORT"
                       => (SideKeys(intent.is_long) \cup {OwnKey(intent)})
                            \cap SideKeys(~intent.is_long) = {}
  BY DEF MatrixDecides, NoSecondSide
<1> DEFINE same == HasMatch(intent, positions, intent.is_long)
           opposite == HasMatch(intent, positions, ~intent.is_long)
<1>1. intent.is_long \in BOOLEAN /\ intent.is_increase \in BOOLEAN
  BY DEF Intent
<1>2. /\ same <=> OwnKey(intent) \in SideKeys(intent.is_long)
      /\ opposite <=> OwnKey(intent) \in SideKeys(~intent.is_long)
  BY <1>1, SideHasMatch
<1>3. ReconcileAction(intent, positions) =
        Matrix(intent.is_increase,
               OwnKey(intent) \in SideKeys(intent.is_long),
               OwnKey(intent) \in SideKeys(~intent.is_long))
  <2> DEFINE ownSame == OwnKey(intent) \in SideKeys(intent.is_long)
             ownOpposite == OwnKey(intent) \in SideKeys(~intent.is_long)
  <2>1. ReconcileAction(intent, positions) =
          IF intent.is_increase
            THEN IF ownSame THEN "MERGE" ELSE IF ownOpposite THEN "ABORT"
                                                             ELSE "PROCEED"
            ELSE IF ownSame THEN "PROCEED" ELSE "ABORT"
    BY <1>2 DEF ReconcileAction
  <2>2. ownSame \in BOOLEAN /\ ownOpposite \in BOOLEAN
    OBVIOUS
  <2> HIDE DEF ownSame, ownOpposite
  <2>3. ReconcileAction(intent, positions) =
          Matrix(intent.is_increase, ownSame, ownOpposite)
    BY <1>1, <2>1, <2>2, MatrixRows
  <2> QED
    BY <2>3 DEF ownSame, ownOpposite
<1>4. ASSUME intent.is_increase, SideKeys(TRUE) \cap SideKeys(FALSE) = {},
             ReconcileAction(intent, positions) # "ABORT"
      PROVE  (SideKeys(intent.is_long) \cup {OwnKey(intent)})
                \cap SideKeys(~intent.is_long) = {}
  <2>1. SideKeys(intent.is_long) \cap SideKeys(~intent.is_long) = {}
    BY <1>1, <1>4
  <2>2. same \/ ~opposite
    BY <1>4 DEF ReconcileAction
  <2> QED
    BY <1>2, <2>1, <2>2
<1> QED
  BY <1>3, <1>4

LEMMA AliasesStayRight == CliSpec => []AliasesRight
<1>1. CliInit => AliasesRight
  <2> SUFFICES ASSUME CliInit PROVE AliasesRight
    OBVIOUS
  <2>1. positions = <<>>
    BY DEF CliInit, SmokesInit
  <2> QED
    BY <2>1 DEF AliasesRight
<1> QED
  BY <1>1, AliasesRightStep, PTL DEF CliSpec

\* reconcile_intent decides by its matrix, for all markets, addresses and lists
\* of positions, whether or not two aliases share an address
\* (gmx_position_reader.py reconcile_intent).
THEOREM ReconcileDecides == CliSpec => []MatrixDecides
BY AliasesStayRight, MatrixFollows, PTL

\* An order that reconcile_intent lets through never opens the second side of
\* a market and collateral, for all lists of positions it can be given.
THEOREM NoSecondSideOpens == CliSpec => []NoSecondSide
BY AliasesStayRight, MatrixFollows, PTL

-----------------------------------------------------------------------------
(* What the smoke tests' exit codes tell.                                  *)

\* The program points of g6_smoke up to each of its requests.
ToMode == {"auth", "mode"}
ToBalance == ToMode \cup {"balance"}
ToMargin == ToBalance \cup {"margin"}
ToPositions == ToMargin \cup {"positions"}
ToInfo == ToPositions \cup {"info"}
ToRates == ToInfo \cup {"rates"}
ToGate == ToRates \cup {"gate"}

\* A signed read that was made was answered or returned None, and None is a
\* failure; one not made yet did neither.
SignedAsked(q, until) ==
    /\ sstage \in until => q \notin heard /\ q \notin nones
    /\ sstage \notin until => q \in heard \/ q \in nones
    /\ sstage \notin until /\ failed = FALSE => q \in heard

OtherAsked(q, until) == sstage \notin until /\ failed = FALSE => q \in heard

Requested ==
    /\ SignedAsked("mode", ToMode) /\ SignedAsked("balance", ToBalance)
    /\ SignedAsked("margin", ToMargin) /\ SignedAsked("positions", ToPositions)
    /\ OtherAsked("info", ToInfo) /\ OtherAsked("rates", ToRates)
    /\ OtherAsked("gate", ToGate)

\* What the answers say of the account.
Witnessed ==
    /\ mode \in modes /\ api \in apis
    /\ sstage \notin ToMode /\ failed = FALSE => "one_way" \in modes
    /\ heard \cap nones \subseteq {"margin"}
    /\ apis = {FALSE} => heard \cap SignedReads = {}

Shakedown ==
    smoke = "g6_smoke" /\ sstage # "ended" =>
        sstage \in ToGate \cup {"summary"} /\ Requested /\ Witnessed

Others ==
    /\ smoke = "none" => sstage = "none" /\ heard = {} /\ nones = {} /\ failed = FALSE
    /\ smoke = "g5_sign_smoke" /\ sstage # "ended" =>
         /\ sstage \in {"key", "nonce", "gas", "simulate"}
         /\ sstage \in {"gas", "simulate"} => "nonce" \in heard
         /\ sstage = "simulate" => "gas" \in heard
    /\ smoke = "g5_position_smoke" /\ sstage \notin {"ended", "probe"} =>
         "probe" \in heard
    /\ smoke = "g6_dry_run_order" /\ sstage # "ended" =>
         /\ sstage \in {"info", "mark", "place"}
         /\ sstage \in {"mark", "place"} => "info" \in heard
         /\ sstage = "place" => "mark" \in heard

Told == ShakedownTells /\ SmokesTell

SmokeInv == SmokesTypeOK /\ Shakedown /\ Others /\ Told

LEMMA SmokeInvInit == SmokesInit => SmokeInv
<1> SUFFICES ASSUME SmokesInit PROVE SmokeInv
  OBVIOUS
<1> QED
  BY SmokesInitType DEF SmokesInit, SmokeInv, Shakedown, Others, Told,
     ShakedownTells, SmokesTell

LEMMA StartKeepsSmokeInv ==
    ASSUME SmokeInv, NEW s \in Smokes, StartSmoke(s) PROVE SmokeInv'
<1>1. SmokesTypeOK'
  BY StartMarks DEF SmokeInv
<1>2. /\ heard' = {} /\ nones' = {} /\ failed' = FALSE
      /\ smoke' = s /\ sstage' = FirstStage[s]
      /\ mode' \in modes' /\ api' \in apis'
  BY DEF StartSmoke, SmokeInv, Others, tally
<1>3. sstage' = IF s = "g6_smoke" THEN "auth"
               ELSE IF s = "g6_dry_run_order" THEN "info"
               ELSE IF s = "g5_sign_smoke" THEN "key" ELSE "probe"
  BY <1>2 DEF FirstStage
<1>4. Shakedown'
  BY <1>2, <1>3 DEF Shakedown, Requested, Witnessed, SignedAsked, OtherAsked,
     ToMode, ToBalance, ToMargin, ToPositions, ToInfo, ToRates, ToGate
<1>5. Others' /\ Told'
  BY <1>2, <1>3 DEF Others, Told, ShakedownTells, SmokesTell, Smokes
<1> QED
  BY <1>1, <1>4, <1>5 DEF SmokeInv

LEMMA SignRequestStep ==
    ASSUME NEW q, NEW n, SignRequest(q, n)
    PROVE  /\ sstage = q /\ heard \subseteq heard'
           /\ \/ q \in heard' /\ sstage' = n
              \/ sstage' = "ended" /\ code' \in {1, 3}
<1>1. PICK got \in {"number", "garbled", "nothing"} :
        /\ Hear(q, got = "number")
        /\ CASE got = "number"  -> GoTo(n)
             [] got = "garbled" -> Exit(1)
             [] got = "nothing" -> Exit(3)
  BY DEF SignRequest
<1>2. sstage = q /\ heard \subseteq heard'
  BY <1>1 DEF SignRequest, At, Hear
<1>3. CASE got = "number"
  BY <1>1, <1>2, <1>3 DEF Hear, GoTo
<1>4. CASE got = "garbled"
  BY <1>1, <1>2, <1>4 DEF Exit
<1>5. CASE got = "nothing"
  BY <1>1, <1>2, <1>5 DEF Exit
<1> QED
  BY <1>3, <1>4, <1>5

\* The steps of the other commands.
LEMMA OthersStep ==
    ASSUME SmokeInv, SmokeStep, smoke # "g6_smoke"
    PROVE  Shakedown' /\ Others' /\ Told'
<1>0. smoke' = smoke /\ (smoke = "none" => FALSE)
  BY DEF SmokeStep, SmokeInv, Others, AccountChanges, SignKey, SignRequest,
     SignSimulate, ProbeRpc, ReadEmptyAddress, FindExecutor, RequestAccount,
     KeepPosition, PrintPositions, CheckCredentials, CheckMode, CheckList,
     CheckMargin, CheckPublic, CheckGate, Summary, DryRunInfo, DryRunMark,
     DryRunPlace, At, GoTo, Exit
<1>1. Shakedown' /\ ShakedownTells'
  BY <1>0 DEF Shakedown, ShakedownTells
<1>2. CASE smoke = "g5_sign_smoke"
  <2>1. SignKey \/ SignRequest("nonce", "gas") \/ SignRequest("gas", "simulate")
        \/ SignSimulate
    BY <1>2 DEF SmokeStep, AccountChanges, ProbeRpc, ReadEmptyAddress,
       FindExecutor, RequestAccount, KeepPosition, PrintPositions,
       CheckCredentials, CheckMode, CheckList, CheckMargin, CheckPublic,
       CheckGate, Summary, DryRunInfo, DryRunMark, DryRunPlace, At
  <2>2. CASE SignKey
    BY <1>0, <1>1, <1>2, <2>2 DEF SignKey, At, GoTo, Exit, SmokeInv, Others,
       Told, SmokesTell
  <2>3. CASE SignRequest("nonce", "gas")
    BY <1>0, <1>1, <1>2, <2>3, SignRequestStep DEF SmokeInv, Others, Told,
       SmokesTell
  <2>4. CASE SignRequest("gas", "simulate")
    BY <1>0, <1>1, <1>2, <2>4, SignRequestStep DEF SmokeInv, Others, Told,
       SmokesTell
  <2>5. CASE SignSimulate
    BY <1>0, <1>1, <1>2, <2>5 DEF SignSimulate, At, GoTo, Exit, Hear, SmokeInv,
       Others, Told, SmokesTell, Needed, Smokes
  <2> QED
    BY <2>1, <2>2, <2>3, <2>4, <2>5
<1>3. CASE smoke = "g5_position_smoke"
  <2>1. ProbeRpc \/ ReadEmptyAddress \/ FindExecutor \/ RequestAccount
        \/ KeepPosition \/ PrintPositions
    BY <1>3 DEF SmokeStep, AccountChanges, SignKey, SignRequest, SignSimulate,
       CheckCredentials, CheckMode, CheckList, CheckMargin, CheckPublic,
       CheckGate, Summary, DryRunInfo, DryRunMark, DryRunPlace, At
  <2>2. CASE ProbeRpc
    BY <1>0, <1>1, <1>3, <2>2 DEF ProbeRpc, At, GoTo, Exit, Hear, Others, Told,
       SmokesTell
  <2>3. /\ heard \subseteq heard' /\ sstage \notin {"ended", "probe"}
        => "probe" \in heard'
    BY <1>3 DEF SmokeInv, Others
  <2>4. CASE ReadEmptyAddress \/ FindExecutor \/ RequestAccount \/ KeepPosition
             \/ PrintPositions
    <3>1. heard \subseteq heard' /\ sstage \notin {"ended", "probe"}
      BY <2>4 DEF ReadEmptyAddress, FindExecutor, RequestAccount, KeepPosition,
         PrintPositions, At, Hear
    <3> QED
      BY <1>0, <1>1, <1>3, <2>3, <3>1 DEF Others, Told, SmokesTell, Needed, Smokes
  <2> QED
    BY <2>1, <2>2, <2>4
<1>4. CASE smoke = "g6_dry_run_order"
  <2>1. DryRunInfo \/ DryRunMark \/ DryRunPlace
    BY <1>4 DEF SmokeStep, AccountChanges, SignKey, SignRequest, SignSimulate,
       ProbeRpc, ReadEmptyAddress, FindExecutor, RequestAccount, KeepPosition,
       PrintPositions, CheckCredentials, CheckMode, CheckList, CheckMargin,
       CheckPublic, CheckGate, Summary, At
  <2>2. CASE DryRunInfo
    <3>1. \/ "info" \in heard' /\ sstage' = "mark"
          \/ sstage' = "ended" /\ code' = 3
      BY <2>2 DEF DryRunInfo, GoTo, Exit, Hear
    <3> QED
      BY <1>0, <1>1, <1>4, <3>1 DEF Others, Told, SmokesTell
  <2>3. CASE DryRunMark
    <3>1. "info" \in heard /\ heard \subseteq heard'
      BY <1>4, <2>3 DEF DryRunMark, At, Hear, SmokeInv, Others
    <3>2. \/ "mark" \in heard' /\ sstage' = "place"
          \/ sstage' = "ended" /\ code' = 3
      BY <2>3 DEF DryRunMark, GoTo, Exit, Hear
    <3> QED
      BY <1>0, <1>1, <1>4, <3>1, <3>2 DEF Others, Told, SmokesTell
  <2>4. CASE DryRunPlace
    BY <1>0, <1>1, <1>4, <2>4 DEF DryRunPlace, At, GoTo, Exit, SmokeInv,
       Others, Told, SmokesTell, Needed, Smokes
  <2> QED
    BY <2>1, <2>2, <2>3, <2>4
<1> QED
  BY <1>0, <1>2, <1>3, <1>4 DEF SmokeInv, SmokesTypeOK, Smokes

\* The steps of g6_smoke.
LEMMA ShakedownFacts ==
    ASSUME SmokeInv, smoke = "g6_smoke", sstage # "ended"
    PROVE  /\ sstage \in ToGate \cup {"summary"} /\ Requested /\ Witnessed
           /\ mode \in Modes /\ nones \subseteq SignedReads /\ heard \subseteq Requests
           /\ failed \in BOOLEAN /\ api \in BOOLEAN
BY DEF SmokeInv, Shakedown, SmokesTypeOK

\* What follows when a step goes on to st with everything asked so far.
LEMMA ShakedownGoesOn ==
    ASSUME smoke' = "g6_smoke", sstage' # "ended",
           sstage' \in ToGate \cup {"summary"}, Requested', Witnessed'
    PROVE  Shakedown' /\ Others' /\ Told'
BY DEF Shakedown, Others, Told, ShakedownTells, SmokesTell

LEMMA ShakedownModeStep ==
    ASSUME SmokeInv, CheckMode PROVE Shakedown' /\ Others' /\ Told'
<1>1. /\ smoke = "g6_smoke" /\ sstage = "mode"
      /\ smoke' = "g6_smoke" /\ sstage' = "balance"
      /\ UNCHANGED <<mode, api, modes, apis>>
  BY DEF CheckMode, At, GoTo, Tallied, account
<1>2. Requested /\ Witnessed
  BY <1>1, ShakedownFacts
<1>3. \/ /\ api = TRUE /\ heard' = heard \cup {"mode"} /\ nones' = nones
         /\ failed' = FALSE => failed = FALSE /\ mode = "one_way"
      \/ /\ heard' = heard /\ nones' = nones \cup {"mode"} /\ failed' # FALSE
  BY <1>1, ShakedownFacts DEF CheckMode, Served, Hear, Tallied, Modes
<1>4. Requested'
  BY <1>1, <1>2, <1>3 DEF Requested, SignedAsked, OtherAsked, ToMode, ToBalance,
     ToMargin, ToPositions, ToInfo, ToRates, ToGate
<1>5. Witnessed'
  BY <1>1, <1>2, <1>3 DEF Requested, Witnessed, SignedAsked, ToMode
<1> QED
  BY <1>1, <1>4, <1>5, ShakedownGoesOn DEF ToGate, ToRates, ToInfo, ToPositions,
     ToMargin, ToBalance

LEMMA ShakedownBalanceStep ==
    ASSUME SmokeInv, CheckList("balance", "margin") PROVE Shakedown' /\ Others' /\ Told'
<1>1. /\ smoke = "g6_smoke" /\ sstage = "balance"
      /\ smoke' = "g6_smoke" /\ sstage' = "margin"
      /\ UNCHANGED <<mode, api, modes, apis>>
  BY DEF CheckList, At, GoTo, Tallied, account
<1>2. Requested /\ Witnessed
  BY <1>1, ShakedownFacts
<1>3. \/ /\ api = TRUE /\ heard' = heard \cup {"balance"} /\ nones' = nones
         /\ failed' = failed
      \/ /\ heard' = heard /\ nones' = nones \cup {"balance"} /\ failed' # FALSE
  BY <1>1, ShakedownFacts DEF CheckList, Served, Hear, Tallied
<1>4. Requested'
  BY <1>1, <1>2, <1>3 DEF Requested, SignedAsked, OtherAsked,
     ToMode, ToBalance, ToMargin, ToPositions, ToInfo, ToRates, ToGate
<1>5. Witnessed'
  BY <1>1, <1>2, <1>3 DEF Requested, Witnessed, SignedAsked, SignedReads,
     ToMode, ToBalance, ToMargin, ToPositions, ToInfo, ToRates, ToGate
<1> QED
  BY <1>1, <1>4, <1>5, ShakedownGoesOn DEF ToGate, ToRates, ToInfo, ToPositions,
     ToMargin, ToBalance

LEMMA ShakedownPositionsStep ==
    ASSUME SmokeInv, CheckList("positions", "info") PROVE Shakedown' /\ Others' /\ Told'
<1>1. /\ smoke = "g6_smoke" /\ sstage = "positions"
      /\ smoke' = "g6_smoke" /\ sstage' = "info"
      /\ UNCHANGED <<mode, api, modes, apis>>
  BY DEF CheckList, At, GoTo, Tallied, account
<1>2. Requested /\ Witnessed
  BY <1>1, ShakedownFacts
<1>3. \/ /\ api = TRUE /\ heard' = heard \cup {"positions"} /\ nones' = nones
         /\ failed' = failed
      \/ /\ heard' = heard /\ nones' = nones \cup {"positions"} /\ failed' # FALSE
  BY <1>1, ShakedownFacts DEF CheckList, Served, Hear, Tallied
<1>4. Requested'
  BY <1>1, <1>2, <1>3 DEF Requested, SignedAsked, OtherAsked,
     ToMode, ToBalance, ToMargin, ToPositions, ToInfo, ToRates, ToGate
<1>5. Witnessed'
  BY <1>1, <1>2, <1>3 DEF Requested, Witnessed, SignedAsked, SignedReads,
     ToMode, ToBalance, ToMargin, ToPositions, ToInfo, ToRates, ToGate
<1> QED
  BY <1>1, <1>4, <1>5, ShakedownGoesOn DEF ToGate, ToRates, ToInfo, ToPositions,
     ToMargin, ToBalance

LEMMA ShakedownMarginStep ==
    ASSUME SmokeInv, CheckMargin PROVE Shakedown' /\ Others' /\ Told'
<1>1. /\ smoke = "g6_smoke" /\ sstage = "margin"
      /\ smoke' = "g6_smoke" /\ sstage' = "positions"
      /\ UNCHANGED <<mode, api, modes, apis>>
  BY DEF CheckMargin, At, GoTo, Tallied, account
<1>2. Requested /\ Witnessed
  BY <1>1, ShakedownFacts
<1>3. \/ /\ api = TRUE /\ heard' = heard \cup {"margin"}
         /\ \/ nones' = nones /\ failed' = failed
            \/ nones' = nones \cup {"margin"} /\ failed' # FALSE
      \/ /\ heard' = heard /\ nones' = nones \cup {"margin"} /\ failed' # FALSE
  BY <1>1, ShakedownFacts DEF CheckMargin, Served, Hear, Tallied
<1>4. Requested'
  BY <1>1, <1>2, <1>3 DEF Requested, SignedAsked, OtherAsked,
     ToMode, ToBalance, ToMargin, ToPositions, ToInfo, ToRates, ToGate
<1>5. Witnessed'
  BY <1>1, <1>2, <1>3 DEF Requested, Witnessed, SignedAsked, SignedReads,
     ToMode, ToBalance, ToMargin, ToPositions, ToInfo, ToRates, ToGate
<1> QED
  BY <1>1, <1>4, <1>5, ShakedownGoesOn DEF ToGate, ToRates, ToInfo, ToPositions,
     ToMargin, ToBalance

LEMMA ShakedownInfoStep ==
    ASSUME SmokeInv, CheckPublic("info", "rates") PROVE Shakedown' /\ Others' /\ Told'
<1>1. /\ smoke = "g6_smoke" /\ sstage = "info"
      /\ smoke' = "g6_smoke" /\ sstage' = "rates"
      /\ UNCHANGED <<mode, api, modes, apis>>
  BY DEF CheckPublic, At, GoTo, Tallied, account
<1>2. Requested /\ Witnessed /\ nones \subseteq SignedReads
  BY <1>1, ShakedownFacts
<1>3. /\ nones' = nones
      /\ failed' = FALSE => failed = FALSE
      /\ \/ heard' = heard \cup {"info"}
         \/ heard' = heard /\ failed' # FALSE
  BY <1>1, ShakedownFacts DEF CheckPublic, Served, Hear, Tallied
<1>4. Requested'
  <2> DEFINE Signed == /\ SignedAsked("mode", ToMode)
                       /\ SignedAsked("balance", ToBalance)
                       /\ SignedAsked("margin", ToMargin)
                       /\ SignedAsked("positions", ToPositions)
             Other == /\ OtherAsked("info", ToInfo) /\ OtherAsked("rates", ToRates)
                      /\ OtherAsked("gate", ToGate)
  <2>1. Signed'
    BY <1>1, <1>2, <1>3 DEF Requested, SignedAsked, ToMode, ToBalance,
       ToMargin, ToPositions
  <2>2. Other'
    BY <1>1, <1>2, <1>3 DEF Requested, OtherAsked, ToMode, ToBalance,
       ToMargin, ToPositions, ToInfo, ToRates, ToGate
  <2> QED
    BY <2>1, <2>2 DEF Requested
<1>5. Witnessed'
  BY <1>1, <1>2, <1>3 DEF Witnessed, SignedReads, ToMode
<1> QED
  BY <1>1, <1>4, <1>5, ShakedownGoesOn DEF ToGate, ToRates, ToInfo, ToPositions,
     ToMargin, ToBalance

LEMMA ShakedownRatesStep ==
    ASSUME SmokeInv, CheckPublic("rates", "gate") PROVE Shakedown' /\ Others' /\ Told'
<1>1. /\ smoke = "g6_smoke" /\ sstage = "rates"
      /\ smoke' = "g6_smoke" /\ sstage' = "gate"
      /\ UNCHANGED <<mode, api, modes, apis>>
  BY DEF CheckPublic, At, GoTo, Tallied, account
<1>2. Requested /\ Witnessed /\ nones \subseteq SignedReads
  BY <1>1, ShakedownFacts
<1>3. /\ nones' = nones
      /\ failed' = FALSE => failed = FALSE
      /\ \/ heard' = heard \cup {"rates"}
         \/ heard' = heard /\ failed' # FALSE
  BY <1>1, ShakedownFacts DEF CheckPublic, Served, Hear, Tallied
<1>4. Requested'
  <2> DEFINE Signed == /\ SignedAsked("mode", ToMode)
                       /\ SignedAsked("balance", ToBalance)
                       /\ SignedAsked("margin", ToMargin)
                       /\ SignedAsked("positions", ToPositions)
             Other == /\ OtherAsked("info", ToInfo) /\ OtherAsked("rates", ToRates)
                      /\ OtherAsked("gate", ToGate)
  <2>1. Signed'
    BY <1>1, <1>2, <1>3 DEF Requested, SignedAsked, ToMode, ToBalance,
       ToMargin, ToPositions
  <2>2. Other'
    BY <1>1, <1>2, <1>3 DEF Requested, OtherAsked, ToMode, ToBalance,
       ToMargin, ToPositions, ToInfo, ToRates, ToGate
  <2> QED
    BY <2>1, <2>2 DEF Requested
<1>5. Witnessed'
  BY <1>1, <1>2, <1>3 DEF Witnessed, SignedReads, ToMode
<1> QED
  BY <1>1, <1>4, <1>5, ShakedownGoesOn DEF ToGate, ToRates, ToInfo, ToPositions,
     ToMargin, ToBalance

LEMMA ShakedownGateStep ==
    ASSUME SmokeInv, CheckGate PROVE Shakedown' /\ Others' /\ Told'
<1>1. /\ smoke = "g6_smoke" /\ sstage = "gate"
      /\ smoke' = "g6_smoke" /\ sstage' = "summary"
      /\ UNCHANGED <<mode, api, modes, apis>>
  BY DEF CheckGate, At, GoTo, Tallied, account
<1>2. Requested /\ Witnessed /\ nones \subseteq SignedReads
  BY <1>1, ShakedownFacts
<1>3. /\ nones' = nones
      /\ failed' = FALSE => failed = FALSE
      /\ \/ heard' = heard \cup {"gate"}
         \/ heard' = heard /\ failed' # FALSE
  BY <1>1, ShakedownFacts DEF CheckGate, Served, Hear, Tallied
<1>4. Requested'
  <2> DEFINE Signed == /\ SignedAsked("mode", ToMode)
                       /\ SignedAsked("balance", ToBalance)
                       /\ SignedAsked("margin", ToMargin)
                       /\ SignedAsked("positions", ToPositions)
             Other == /\ OtherAsked("info", ToInfo) /\ OtherAsked("rates", ToRates)
                      /\ OtherAsked("gate", ToGate)
  <2>1. Signed'
    BY <1>1, <1>2, <1>3 DEF Requested, SignedAsked, ToMode, ToBalance,
       ToMargin, ToPositions
  <2>2. Other'
    BY <1>1, <1>2, <1>3 DEF Requested, OtherAsked, ToMode, ToBalance,
       ToMargin, ToPositions, ToInfo, ToRates, ToGate
  <2> QED
    BY <2>1, <2>2 DEF Requested
<1>5. Witnessed'
  BY <1>1, <1>2, <1>3 DEF Witnessed, SignedReads, ToMode
<1> QED
  BY <1>1, <1>4, <1>5, ShakedownGoesOn DEF ToGate, ToRates, ToInfo, ToPositions,
     ToMargin, ToBalance

LEMMA ShakedownSummaryStep ==
    ASSUME SmokeInv, Summary PROVE Shakedown' /\ Others' /\ Told'
<1>1. /\ smoke = "g6_smoke" /\ sstage = "summary"
      /\ smoke' = "g6_smoke" /\ sstage' = "ended"
      /\ code' = IF nones = SignedReads THEN 4 ELSE IF failed THEN 2 ELSE 0
      /\ UNCHANGED <<mode, api, modes, apis, heard>>
  BY DEF Summary, At, Exit, Plain, account
<1>2. Requested /\ Witnessed /\ nones \subseteq SignedReads /\ failed \in BOOLEAN
  BY <1>1, ShakedownFacts
<1>3. /\ \A q \in SignedReads : q \in heard \/ q \in nones
      /\ failed = FALSE => SignedReads \cup {"info", "rates", "gate"} \subseteq heard
      /\ failed = FALSE => "one_way" \in modes
  BY <1>1, <1>2 DEF Requested, Witnessed, SignedAsked, OtherAsked, SignedReads,
     ToMode, ToBalance, ToMargin, ToPositions, ToInfo, ToRates, ToGate
<1>4. /\ code' = 0 => failed = FALSE
      /\ code' = 4 => nones = SignedReads
      /\ nones = SignedReads => code' = 4
  BY <1>1, <1>2
<1>5. apis = {FALSE} => nones = SignedReads
  BY <1>2, <1>3 DEF Witnessed
<1>6. ShakedownTells'
  BY <1>1, <1>2, <1>3, <1>4, <1>5 DEF ShakedownTells, Witnessed
<1>7. SmokesTell'
  BY <1>1, <1>3, <1>4 DEF SmokesTell, Needed, Smokes
<1> QED
  BY <1>1, <1>6, <1>7 DEF Shakedown, Others, Told

LEMMA ShakedownAccountStep ==
    ASSUME SmokeInv, AccountChanges PROVE Shakedown' /\ Others' /\ Told'
<1>1. /\ smoke = "g6_smoke" /\ sstage # "ended"
      /\ smoke' = "g6_smoke" /\ sstage' = sstage
      /\ heard' = heard /\ nones' = nones /\ failed' = failed
      /\ modes' = modes \cup {mode'} /\ apis' = apis \cup {api'}
  BY DEF AccountChanges, tally
<1>2. sstage \in ToGate \cup {"summary"} /\ Requested /\ Witnessed
  BY <1>1, ShakedownFacts
<1>3. Requested'
  BY <1>1, <1>2 DEF Requested, SignedAsked, OtherAsked
<1>4. apis' = {FALSE} => apis = {FALSE}
  BY <1>1, <1>2 DEF Witnessed
<1>5. Witnessed'
  BY <1>1, <1>2, <1>4 DEF Witnessed
<1> QED
  BY <1>1, <1>2, <1>3, <1>5, ShakedownGoesOn

LEMMA ShakedownCredentialsStep ==
    ASSUME SmokeInv, CheckCredentials PROVE Shakedown' /\ Others' /\ Told'
<1>1. /\ smoke = "g6_smoke" /\ sstage = "auth" /\ smoke' = "g6_smoke"
      /\ sstage' = "mode" \/ (sstage' = "ended" /\ code' = 3)
      /\ UNCHANGED <<mode, api, modes, apis, heard, nones, failed>>
  BY DEF CheckCredentials, At, GoTo, Exit, Plain, account, tally
<1>2. Requested /\ Witnessed
  BY <1>1, ShakedownFacts
<1>3. CASE sstage' = "mode"
  <2>1. Requested'
    BY <1>1, <1>2, <1>3 DEF Requested, SignedAsked, OtherAsked, ToMode,
       ToBalance, ToMargin, ToPositions, ToInfo, ToRates, ToGate
  <2>2. Witnessed'
    BY <1>1, <1>2, <1>3 DEF Witnessed, ToMode
  <2> QED
    BY <1>1, <1>3, <2>1, <2>2, ShakedownGoesOn DEF ToGate, ToRates, ToInfo,
       ToPositions, ToMargin, ToBalance, ToMode
<1>4. CASE sstage' = "ended" /\ code' = 3
  BY <1>1, <1>4 DEF Shakedown, Others, Told, ShakedownTells, SmokesTell
<1> QED
  BY <1>1, <1>3, <1>4

LEMMA SmokeInvariance == CliSpec => []SmokeInv
<1>1. CliInit => SmokeInv
  BY SmokeInvInit DEF CliInit
<1>2. SmokeInv /\ [CliNext]_cliVars => SmokeInv'
  <2> SUFFICES ASSUME SmokeInv, [CliNext]_cliVars PROVE SmokeInv'
    OBVIOUS
  <2>1. CASE UNCHANGED smokeVars
    <3>1. SmokesTypeOK'
      BY <2>1, SmokesTypeParts DEF SmokeInv, Marks, World, Kept, smokeVars,
         account, tally
    <3>2. Shakedown'
      BY <2>1 DEF SmokeInv, Shakedown, Requested, SignedAsked, OtherAsked,
         Witnessed, smokeVars, account, tally
    <3>3. Others' /\ Told'
      BY <2>1 DEF SmokeInv, Others, Told, ShakedownTells, SmokesTell, smokeVars,
         account, tally
    <3> QED
      BY <3>1, <3>2, <3>3 DEF SmokeInv
  <2>2. CASE MainSmoke
    BY <2>2, StartKeepsSmokeInv DEF MainSmoke
  <2>3. CASE SmokeStep
    <3>1. SmokesTypeOK'
      BY <2>3, SmokesTypeStep DEF SmokeInv
    <3>2. CASE smoke = "g6_smoke"
      <4>1. \/ AccountChanges \/ CheckCredentials \/ CheckMode
            \/ CheckList("balance", "margin") \/ CheckMargin
            \/ CheckList("positions", "info") \/ CheckPublic("info", "rates")
            \/ CheckPublic("rates", "gate") \/ CheckGate \/ Summary
        BY <2>3, <3>2 DEF SmokeStep, SignKey, SignRequest, SignSimulate,
           ProbeRpc, ReadEmptyAddress, FindExecutor, RequestAccount,
           KeepPosition, PrintPositions, DryRunInfo, DryRunMark, DryRunPlace, At
      <4>2. Shakedown' /\ Others' /\ Told'
        BY <4>1, ShakedownAccountStep, ShakedownCredentialsStep,
           ShakedownModeStep, ShakedownBalanceStep, ShakedownMarginStep,
           ShakedownPositionsStep, ShakedownInfoStep, ShakedownRatesStep,
           ShakedownGateStep, ShakedownSummaryStep
      <4> QED
        BY <3>1, <4>2 DEF SmokeInv
    <3>3. CASE smoke # "g6_smoke"
      BY <2>3, <3>1, <3>3, OthersStep DEF SmokeInv
    <3> QED
      BY <3>2, <3>3
  <2>4. UNCHANGED smokeVars \/ MainSmoke \/ SmokeStep
    BY DEF CliNext, MainWatchdog, cliVars
  <2> QED
    BY <2>1, <2>2, <2>3, <2>4
<1> QED
  BY <1>1, <1>2, PTL DEF CliSpec

LEMMA SmokeInvTells == SmokeInv => ShakedownTells /\ SmokesTell
BY DEF SmokeInv, Told

\* The shakedown's exit code tells a hedge-mode account and a dead API from a
\* healthy one, however the account is flipped meanwhile (cli.py
\* _g6_smoke_main).
THEOREM ShakedownTellsTruth == CliSpec => []ShakedownTells
BY SmokeInvariance, SmokeInvTells, PTL

\* g5_sign_smoke, g6_smoke and g6_dry_run_order do not pass on silence: one that
\* exits 0 was answered every request of its verdict.  Of g5_position_smoke this
\* holds for its probe only; that "both reads succeeded" when it exits 0 is false,
\* which is PositionReadsSucceeded and its run (cli.py _g5_sign_smoke_main to
\* _g6_dry_run_order_main).
THEOREM SmokesTellTruth == CliSpec => []SmokesTell
BY SmokeInvariance, SmokeInvTells, PTL

-----------------------------------------------------------------------------
(* What a command costs: every request it makes brings it nearer its exit. *)

\* The steps of a command; the rest of CliNext is the start and the world.
WatchRequest == RunCheck \/ EndChecks \/ PublishAlert \/ EndPublish
SmokeRequest ==
    \/ SignKey \/ SignRequest("nonce", "gas") \/ SignRequest("gas", "simulate")
    \/ SignSimulate
    \/ ProbeRpc \/ ReadEmptyAddress \/ FindExecutor \/ RequestAccount
    \/ KeepPosition \/ PrintPositions
    \/ CheckCredentials \/ CheckMode \/ CheckList("balance", "margin")
    \/ CheckMargin \/ CheckList("positions", "info")
    \/ CheckPublic("info", "rates") \/ CheckPublic("rates", "gate")
    \/ CheckGate \/ Summary
    \/ DryRunInfo \/ DryRunMark \/ DryRunPlace
CommandStep == \/ WatchRequest /\ UNCHANGED smokeVars
               \/ SmokeRequest /\ UNCHANGED watchVars

\* The watchdog's checks and alerts still to come, at most, and its exit.
WatchCost ==
    CASE wstage = "checking"   -> (2 + NumMarkets - Len(found)) + (2 + NumMarkets) + 2
      [] wstage = "publishing" -> Cardinality(Unpublished) + 1
      [] OTHER                 -> 0

\* The requests of g6_smoke, and of the others, from a stage on.
ShakedownCost ==
    CASE sstage = "auth" -> 10    [] sstage = "mode" -> 9   [] sstage = "balance" -> 8
      [] sstage = "margin" -> 7   [] sstage = "positions" -> 6
      [] sstage = "info" -> 5     [] sstage = "rates" -> 4  [] sstage = "gate" -> 3
      [] sstage = "summary" -> 2  [] OTHER -> 1
RequestsLeft ==
    CASE sstage \in {"probe", "key"} -> 5    [] sstage \in {"empty", "nonce"} -> 4
      [] sstage \in {"executor", "gas", "info"} -> 3
      [] sstage \in {"account", "mark"} -> 2  [] OTHER -> 1
PositionsLeft == IF sstage = "decode" THEN MaxPositions - Len(positions)
                                     ELSE MaxPositions
OtherCost == RequestsLeft + PositionsLeft
SmokeCost ==
    IF smoke = "none" \/ sstage = "ended" THEN 0
    ELSE IF smoke = "g6_smoke" THEN ShakedownCost ELSE OtherCost

\* Of the two, a process runs one.
Running == wstage \in {"checking", "publishing"}
           \/ (smoke # "none" /\ sstage # "ended")

LEMMA FirstNumbers ==
  ASSUME NEW k \in Nat PROVE IsFiniteSet(1 .. k) /\ Cardinality(1 .. k) = k
BY FS_Interval

LEMMA UnpublishedBounds ==
  ASSUME WatchTypeOK
  PROVE  /\ IsFiniteSet(Unpublished) /\ Cardinality(Unpublished) \in Nat
         /\ Cardinality(Unpublished) <= Len(found)
         /\ Len(found) \in Nat /\ Len(found) <= 2 + NumMarkets /\ NumMarkets \in Nat
<1>1. Len(found) \in Nat /\ Len(found) <= 2 + NumMarkets /\ NumMarkets \in Nat
  BY WatchdogAssumption DEF WatchTypeOK
<1>2. IsFiniteSet(1 .. Len(found)) /\ Cardinality(1 .. Len(found)) = Len(found)
  BY <1>1, FirstNumbers
<1>3. Unpublished \in SUBSET (1 .. Len(found))
  BY DEF Unpublished
<1> QED
  BY <1>1, <1>2, <1>3, FS_Subset, FS_CardinalityType

LEMMA WatchCostBounds ==
  ASSUME WatchTypeOK
  PROVE  /\ WatchCost \in 0 .. 2 * NumMarkets + 6
         /\ WatchCost = 0 <=> wstage \notin {"checking", "publishing"}
BY UnpublishedBounds DEF WatchCost

LEMMA WatchCostBoundsNext ==
  ASSUME WatchTypeOK'
  PROVE  WatchCost' \in Nat
<1>1. Len(found') \in Nat /\ Len(found') <= 2 + NumMarkets /\ NumMarkets \in Nat
  BY WatchdogAssumption DEF WatchTypeOK
<1>2. IsFiniteSet(1 .. Len(found'))
  BY <1>1, FirstNumbers
<1>3. Unpublished' \in SUBSET (1 .. Len(found'))
  BY DEF Unpublished
<1>4. Cardinality(Unpublished') \in Nat
  BY <1>2, <1>3, FS_Subset, FS_CardinalityType
<1> QED
  BY <1>1, <1>4 DEF WatchCost

\* A check, an alert or an exit leaves less to do.
LEMMA WatchRequestCosts ==
  ASSUME WatchTypeOK, WatchTypeOK', WatchRequest
  PROVE  WatchCost' < WatchCost
<1>1. CASE RunCheck
  <2>1. Len(found') = Len(found) + 1 /\ wstage = "checking" /\ wstage' = wstage
    BY <1>1 DEF RunCheck, WatchTypeOK
  <2> QED
    BY <2>1, UnpublishedBounds DEF WatchCost
<1>2. CASE EndChecks
  <2>1. /\ wstage = "checking" /\ wstage' \in {"publishing", "ended"}
        /\ UNCHANGED <<found, sent, refused>> /\ Len(found) = 2 + NumMarkets
    BY <1>2 DEF EndChecks
  <2>2. Unpublished' = Unpublished
    BY <2>1 DEF Unpublished
  <2>3. WatchCost' \in {Cardinality(Unpublished) + 1, 0}
    BY <2>1, <2>2 DEF WatchCost
  <2>4. WatchCost = NumMarkets + 4
    BY <2>1, UnpublishedBounds DEF WatchCost
  <2> QED
    BY <2>1, <2>3, <2>4, UnpublishedBounds
<1>3. CASE PublishAlert
  <2>1. PICK c \in Unpublished : (sent \cup refused)' = (sent \cup refused) \cup {c}
    BY <1>3 DEF PublishAlert
  <2>2. wstage = "publishing" /\ wstage' = wstage /\ found' = found
    BY <1>3 DEF PublishAlert
  <2>3. Unpublished' = Unpublished \ {c}
    BY <2>1, <2>2 DEF Unpublished
  <2>4. Cardinality(Unpublished') = Cardinality(Unpublished) - 1
    BY <2>1, <2>3, UnpublishedBounds, FS_RemoveElement
  <2>5. WatchCost' = Cardinality(Unpublished') + 1
    BY <2>2 DEF WatchCost
  <2> QED
    BY <2>2, <2>4, <2>5, UnpublishedBounds DEF WatchCost
<1>4. CASE EndPublish
  BY <1>4, UnpublishedBounds DEF EndPublish, WatchCost
<1> QED
  BY <1>1, <1>2, <1>3, <1>4 DEF WatchRequest

\* Where a request leads that is neither the last nor one more position.
ShakedownEdges == {<<"auth", "mode">>, <<"mode", "balance">>, <<"balance", "margin">>,
    <<"margin", "positions">>, <<"positions", "info">>, <<"info", "rates">>,
    <<"rates", "gate">>, <<"gate", "summary">>}
OtherEdges == {<<"key", "nonce">>, <<"nonce", "gas">>, <<"gas", "simulate">>,
    <<"probe", "empty">>, <<"empty", "executor">>, <<"executor", "account">>,
    <<"account", "decode">>, <<"info", "mark">>, <<"mark", "place">>}

LEMMA ShakedownRequests ==
  ASSUME \/ CheckCredentials \/ CheckMode \/ CheckList("balance", "margin")
         \/ CheckMargin \/ CheckList("positions", "info")
         \/ CheckPublic("info", "rates") \/ CheckPublic("rates", "gate")
         \/ CheckGate \/ Summary
  PROVE  /\ smoke = "g6_smoke" /\ smoke' = smoke /\ sstage # "ended"
         /\ sstage' = "ended" \/ <<sstage, sstage'>> \in ShakedownEdges
<1>1. CASE CheckCredentials \/ Summary
  BY <1>1 DEF CheckCredentials, Summary, At, GoTo, Exit, ShakedownEdges
<1>2. CASE CheckMode \/ CheckMargin \/ CheckGate
  BY <1>2 DEF CheckMode, CheckMargin, CheckGate, At, GoTo, ShakedownEdges
<1>3. CASE CheckList("balance", "margin") \/ CheckList("positions", "info")
  BY <1>3 DEF CheckList, At, GoTo, ShakedownEdges
<1>4. CASE CheckPublic("info", "rates") \/ CheckPublic("rates", "gate")
  BY <1>4 DEF CheckPublic, At, GoTo, ShakedownEdges
<1> QED
  BY <1>1, <1>2, <1>3, <1>4

LEMMA OtherRequests ==
  ASSUME \/ SignKey \/ SignRequest("nonce", "gas") \/ SignRequest("gas", "simulate")
         \/ SignSimulate
         \/ ProbeRpc \/ ReadEmptyAddress \/ FindExecutor \/ RequestAccount
         \/ PrintPositions \/ DryRunInfo \/ DryRunMark \/ DryRunPlace
  PROVE  /\ smoke \notin {"g6_smoke", "none"} /\ smoke' = smoke
         /\ sstage # "ended" /\ positions' = positions
         /\ sstage' = "ended" \/ <<sstage, sstage'>> \in OtherEdges
<1> USE DEF At, GoTo, Exit, Plain, OtherEdges
<1>1. CASE SignKey \/ SignSimulate
  BY <1>1 DEF SignKey, SignSimulate
<1>2. CASE SignRequest("nonce", "gas") \/ SignRequest("gas", "simulate")
  BY <1>2 DEF SignRequest
<1>3. CASE ProbeRpc \/ ReadEmptyAddress
  BY <1>3 DEF ProbeRpc, ReadEmptyAddress
<1>4. CASE FindExecutor \/ RequestAccount \/ PrintPositions
  BY <1>4 DEF FindExecutor, RequestAccount, PrintPositions
<1>5. CASE DryRunInfo \/ DryRunMark \/ DryRunPlace
  BY <1>5 DEF DryRunInfo, DryRunMark, DryRunPlace
<1> QED
  BY <1>1, <1>2, <1>3, <1>4, <1>5

LEMMA LeftBounds ==
  ASSUME SmokesTypeOK
  PROVE  /\ ShakedownCost \in 1 .. 10 /\ RequestsLeft \in 1 .. 5
         /\ PositionsLeft \in 0 .. MaxPositions /\ MaxPositions \in Nat
         /\ Len(positions) \in Nat /\ Len(positions) <= MaxPositions
<1>1. MaxPositions \in Nat /\ Len(positions) \in Nat /\ Len(positions) <= MaxPositions
  BY SmokesAssumption DEF SmokesTypeOK
<1>2. ShakedownCost \in 1 .. 10
  BY DEF ShakedownCost
<1>3. RequestsLeft \in 1 .. 5
  BY DEF RequestsLeft
<1> QED
  BY <1>1, <1>2, <1>3 DEF PositionsLeft

LEMMA SmokeCostBounds ==
  ASSUME SmokesTypeOK
  PROVE  /\ SmokeCost \in 0 .. MaxPositions + 10
         /\ SmokeCost = 0 <=> smoke = "none" \/ sstage = "ended"
BY LeftBounds DEF SmokeCost, OtherCost

LEMMA LeftBoundsNext ==
  ASSUME SmokesTypeOK'
  PROVE  /\ ShakedownCost' \in 1 .. 10 /\ RequestsLeft' \in 1 .. 5
         /\ PositionsLeft' \in 0 .. MaxPositions
         /\ Len(positions') \in Nat /\ Len(positions') <= MaxPositions
<1>1. MaxPositions \in Nat /\ Len(positions') \in Nat /\ Len(positions') <= MaxPositions
  BY SmokesAssumption DEF SmokesTypeOK
<1>2. ShakedownCost' \in 1 .. 10
  BY DEF ShakedownCost
<1>3. RequestsLeft' \in 1 .. 5
  BY DEF RequestsLeft
<1> QED
  BY <1>1, <1>2, <1>3 DEF PositionsLeft

\* A request, a position kept or an exit leaves less to do.
LEMMA SmokeRequestCosts ==
  ASSUME SmokesTypeOK, SmokesTypeOK', SmokeRequest
  PROVE  SmokeCost' < SmokeCost
<1>1. CASE \/ CheckCredentials \/ CheckMode \/ CheckList("balance", "margin")
           \/ CheckMargin \/ CheckList("positions", "info")
           \/ CheckPublic("info", "rates") \/ CheckPublic("rates", "gate")
           \/ CheckGate \/ Summary
  <2>1. /\ smoke = "g6_smoke" /\ smoke' = smoke /\ sstage # "ended"
        /\ sstage' = "ended" \/ <<sstage, sstage'>> \in ShakedownEdges
    BY <1>1, ShakedownRequests
  <2>2. <<sstage, sstage'>> \in ShakedownEdges => ShakedownCost' < ShakedownCost
    BY DEF ShakedownEdges, ShakedownCost
  <2> QED
    BY <2>1, <2>2, LeftBounds, LeftBoundsNext DEF SmokeCost
<1>2. CASE KeepPosition
  <2>1. /\ smoke = "g5_position_smoke" /\ smoke' = smoke
        /\ sstage = "decode" /\ sstage' = sstage
        /\ Len(positions') = Len(positions) + 1
    BY <1>2 DEF KeepPosition, At, SmokesTypeOK
  <2>2. RequestsLeft = 1 /\ RequestsLeft' = 1
    BY <2>1 DEF RequestsLeft
  <2>3. PositionsLeft' < PositionsLeft
    BY <2>1, LeftBounds, LeftBoundsNext DEF PositionsLeft
  <2> QED
    BY <2>1, <2>2, <2>3, LeftBounds, LeftBoundsNext DEF SmokeCost, OtherCost
<1>3. CASE \/ SignKey \/ SignRequest("nonce", "gas") \/ SignRequest("gas", "simulate")
           \/ SignSimulate
           \/ ProbeRpc \/ ReadEmptyAddress \/ FindExecutor \/ RequestAccount
           \/ PrintPositions \/ DryRunInfo \/ DryRunMark \/ DryRunPlace
  <2>1. /\ smoke \notin {"g6_smoke", "none"} /\ smoke' = smoke
        /\ sstage # "ended" /\ positions' = positions
        /\ sstage' = "ended" \/ <<sstage, sstage'>> \in OtherEdges
    BY <1>3, OtherRequests
  <2>2. <<sstage, sstage'>> \in OtherEdges =>
          RequestsLeft' < RequestsLeft /\ sstage # "decode"
    BY DEF OtherEdges, RequestsLeft
  <2>3. sstage # "decode" => PositionsLeft' <= PositionsLeft
    BY <2>1, LeftBounds, LeftBoundsNext DEF PositionsLeft
  <2> QED
    BY <2>1, <2>2, <2>3, LeftBounds, LeftBoundsNext DEF SmokeCost, OtherCost
<1> QED
  BY <1>1, <1>2, <1>3 DEF SmokeRequest

\* Where the command stands, it has a next step: no stage of another command,
\* and among the alerts to publish always a first.
Lines == [s \in Smokes |->
    CASE s = "g6_smoke" -> {"auth", "mode", "balance", "margin", "positions",
                            "info", "rates", "gate", "summary"}
      [] s = "g5_sign_smoke" -> {"key", "nonce", "gas", "simulate"}
      [] s = "g5_position_smoke" -> {"probe", "empty", "executor", "account", "decode"}
      [] s = "g6_dry_run_order" -> {"info", "mark", "place"}]
OnItsLine == smoke # "none" /\ sstage # "ended" => sstage \in Lines[smoke]
FirstAlert == Unpublished # {} => \E c \in Unpublished : \A d \in Unpublished : c <= d
OneCommand == wstage # "off" => smoke = "none"

\* Every set of numbers that is not empty has a first: NatLessThanWellFounded.
LEMMA FirstOfNumbers ==
  ASSUME NEW S \in SUBSET Nat, S # {}
  PROVE  \E c \in S : \A d \in S : c <= d
<1> DEFINE R == OpToRel(<, Nat)
<1>1. IsWellFoundedOn(R, Nat)
  BY NatLessThanWellFounded, Zenon
<1>2. PICK c \in S : \A d \in S : <<d, c>> \notin R
  <2> HIDE DEF R
  <2> QED
    BY <1>1, WFMin
<1>3. \A d \in S : ~(d < c)
  BY <1>2 DEF OpToRel
<1> QED
  BY <1>3

LEMMA UnpublishedFirst == WatchTypeOK => FirstAlert
<1> SUFFICES ASSUME WatchTypeOK PROVE FirstAlert
  OBVIOUS
<1>1. Unpublished \subseteq Nat
  BY UnpublishedBounds DEF Unpublished
<1> QED
  BY <1>1, FirstOfNumbers DEF FirstAlert

LEMMA OnItsLineStep ==
  ASSUME OnItsLine, SmokeRequest
  PROVE  OnItsLine'
<1>1. CASE \/ CheckCredentials \/ CheckMode \/ CheckList("balance", "margin")
           \/ CheckMargin \/ CheckList("positions", "info")
           \/ CheckPublic("info", "rates") \/ CheckPublic("rates", "gate")
           \/ CheckGate \/ Summary
  <2>1. /\ smoke = "g6_smoke" /\ smoke' = smoke
        /\ sstage' = "ended" \/ <<sstage, sstage'>> \in ShakedownEdges
    BY <1>1, ShakedownRequests
  <2>2. Lines["g6_smoke"] = {"auth", "mode", "balance", "margin", "positions",
                             "info", "rates", "gate", "summary"}
    BY DEF Lines, Smokes
  <2> QED
    BY <2>1, <2>2 DEF OnItsLine, ShakedownEdges
<1>2. CASE KeepPosition
  BY <1>2 DEF KeepPosition, OnItsLine
<1>3. CASE SignKey \/ SignRequest("nonce", "gas") \/ SignRequest("gas", "simulate")
           \/ SignSimulate
  <2>1. /\ smoke = "g5_sign_smoke" /\ smoke' = smoke
        /\ sstage' \in {"nonce", "gas", "simulate", "ended"}
    BY <1>3 DEF SignKey, SignRequest, SignSimulate, At, GoTo, Exit
  <2>2. Lines["g5_sign_smoke"] = {"key", "nonce", "gas", "simulate"}
    BY DEF Lines, Smokes
  <2> QED
    BY <2>1, <2>2 DEF OnItsLine
<1>4. CASE ProbeRpc \/ ReadEmptyAddress \/ FindExecutor \/ RequestAccount
           \/ PrintPositions
  <2>1. /\ smoke = "g5_position_smoke" /\ smoke' = smoke
        /\ sstage' \in {"empty", "executor", "account", "decode", "ended"}
    BY <1>4 DEF ProbeRpc, ReadEmptyAddress, FindExecutor, RequestAccount,
       PrintPositions, At, GoTo, Exit
  <2>2. Lines["g5_position_smoke"] =
          {"probe", "empty", "executor", "account", "decode"}
    BY DEF Lines, Smokes
  <2> QED
    BY <2>1, <2>2 DEF OnItsLine
<1>5. CASE DryRunInfo \/ DryRunMark \/ DryRunPlace
  <2>1. /\ smoke = "g6_dry_run_order" /\ smoke' = smoke
        /\ sstage' \in {"mark", "place", "ended"}
    BY <1>5 DEF DryRunInfo, DryRunMark, DryRunPlace, At, GoTo, Exit
  <2>2. Lines["g6_dry_run_order"] = {"info", "mark", "place"}
    BY DEF Lines, Smokes
  <2> QED
    BY <2>1, <2>2 DEF OnItsLine
<1> QED
  BY <1>1, <1>2, <1>3, <1>4, <1>5 DEF SmokeRequest

\* The steps of CliNext: a start, a command's own step, and the world's.
LEMMA CommandSteps ==
  ASSUME CliNext
  PROVE  \/ MainWatchdog \/ MainSmoke \/ CommandStep
         \/ WorldDrifts /\ UNCHANGED smokeVars
         \/ AccountChanges /\ UNCHANGED watchVars
BY DEF CliNext, WatchStep, SmokeStep, CommandStep, WatchRequest, SmokeRequest

\* A command that has begun is the only one of its process, stands at a request
\* of its own and, while alerts remain, has a first one to publish: whatever was
\* answered or not before, it has a next step until it exits (cli.py main).
THEOREM CommandsNeverStick == CliSpec => [](OneCommand /\ OnItsLine /\ FirstAlert)
<1>1. CliInit => OneCommand /\ OnItsLine
  BY DEF CliInit, WatchInit, SmokesInit, OneCommand, OnItsLine
<1>2. OneCommand /\ OnItsLine /\ [CliNext]_cliVars => OneCommand' /\ OnItsLine'
  <2> SUFFICES ASSUME OneCommand, OnItsLine, [CliNext]_cliVars
               PROVE  OneCommand' /\ OnItsLine'
    OBVIOUS
  <2>1. CASE MainWatchdog
    BY <2>1 DEF MainWatchdog, StartWatch, smokeVars, OneCommand, OnItsLine
  <2>2. CASE MainSmoke
    <3>1. PICK s \in Smokes : smoke' = s /\ sstage' = FirstStage[s]
      BY <2>2 DEF MainSmoke, StartSmoke
    <3>2. FirstStage[s] \in Lines[s]
      BY DEF FirstStage, Lines, Smokes
    <3>3. wstage' = "off"
      BY <2>2 DEF MainSmoke, watchVars
    <3> QED
      BY <3>1, <3>2, <3>3 DEF OneCommand, OnItsLine
  <2>3. CASE WatchRequest /\ UNCHANGED smokeVars
    BY <2>3 DEF WatchRequest, RunCheck, EndChecks, PublishAlert, EndPublish,
       smokeVars, OneCommand, OnItsLine
  <2>4. CASE SmokeRequest /\ UNCHANGED watchVars
    <3>1. smoke' = smoke
      BY <2>4, ShakedownRequests, OtherRequests DEF SmokeRequest, KeepPosition
    <3> QED
      BY <2>4, <3>1, OnItsLineStep DEF watchVars, OneCommand
  <2>5. CASE WorldDrifts /\ UNCHANGED smokeVars
    BY <2>5 DEF WorldDrifts, smokeVars, OneCommand, OnItsLine
  <2>6. CASE AccountChanges /\ UNCHANGED watchVars
    BY <2>6 DEF AccountChanges, watchVars, OneCommand, OnItsLine
  <2>7. CASE UNCHANGED cliVars
    BY <2>7 DEF cliVars, watchVars, smokeVars, OneCommand, OnItsLine
  <2> QED
    BY <2>1, <2>2, <2>3, <2>4, <2>5, <2>6, <2>7, CommandSteps DEF CommandStep
<1>3. CliTypeOK => FirstAlert
  BY UnpublishedFirst DEF CliTypeOK
<1> QED
  BY <1>1, <1>2, <1>3, CliTypeCorrect, PTL DEF CliSpec

Cost == WatchCost + SmokeCost
MaxCost == 2 * NumMarkets + MaxPositions + 16

LEMMA CostBounds ==
  ASSUME CliTypeOK
  PROVE  /\ WatchCost \in Nat /\ SmokeCost \in Nat /\ Cost \in 0 .. MaxCost
         /\ Cost = 0 <=> ~Running
<1>1. NumMarkets \in Nat /\ MaxPositions \in Nat
  BY WatchdogAssumption, SmokesAssumption
<1> QED
  BY <1>1, WatchCostBounds, SmokeCostBounds DEF CliTypeOK, Cost, MaxCost, Running

LEMMA LessInSum ==
  ASSUME NEW w \in Nat, NEW x \in Nat, NEW y \in Nat, NEW z \in Nat, y < w, z = x
  PROVE  y + z < w + x /\ z + y < x + w /\ y + z <= w + x /\ z + y <= x + w
OBVIOUS

\* A step of the command lowers the cost, and no other step of a running command
\* raises it.
LEMMA CommandCosts ==
  ASSUME CliTypeOK, CliTypeOK', [CliNext]_cliVars
  PROVE  /\ CommandStep => Cost' < Cost
         /\ Running => Cost' <= Cost
<1>0. WatchCost \in Nat /\ SmokeCost \in Nat
  BY CostBounds
<1>1. Cost \in 0 .. MaxCost /\ (Cost = 0 <=> ~Running)
  BY CostBounds
<1>2. UNCHANGED smokeVars => SmokeCost' = SmokeCost
  BY DEF smokeVars, SmokeCost, ShakedownCost, OtherCost, RequestsLeft, PositionsLeft
<1>3. UNCHANGED watchVars => WatchCost' = WatchCost
  BY DEF watchVars, WatchCost, Unpublished
<1>4. CASE CommandStep
  <2>1. CASE WatchRequest /\ UNCHANGED smokeVars
    <3>1. WatchCost' < WatchCost
      BY <2>1, WatchRequestCosts DEF CliTypeOK
    <3>2. WatchCost' \in Nat
      BY WatchCostBoundsNext DEF CliTypeOK
    <3>3. SmokeCost' = SmokeCost
      BY <1>2, <2>1
    <3> QED
      BY <1>0, <3>1, <3>2, <3>3, LessInSum DEF Cost
  <2>2. CASE SmokeRequest /\ UNCHANGED watchVars
    <3>1. SmokeCost' < SmokeCost
      BY <2>2, SmokeRequestCosts DEF CliTypeOK
    <3>2. SmokeCost' \in Nat
      BY LeftBoundsNext DEF CliTypeOK, SmokeCost, OtherCost
    <3>3. WatchCost' = WatchCost
      BY <1>3, <2>2
    <3> QED
      BY <1>0, <3>1, <3>2, <3>3, LessInSum DEF Cost
  <2> QED
    BY <1>4, <2>1, <2>2 DEF CommandStep
<1>5. CASE MainWatchdog \/ MainSmoke
  <2>1. ~Running
    BY <1>5 DEF MainWatchdog, StartWatch, MainSmoke, StartSmoke, Running
  <2> QED
    BY <1>1, <1>5, <2>1, <1>4
<1>6. CASE ~CommandStep /\ WorldDrifts /\ UNCHANGED smokeVars
  <2>1. WatchCost' = WatchCost
    BY <1>6 DEF WorldDrifts, WatchCost, Unpublished
  <2> QED
    BY <1>0, <1>2, <1>6, <2>1 DEF Cost
<1>7. CASE ~CommandStep /\ AccountChanges /\ UNCHANGED watchVars
  <2>1. SmokeCost' = SmokeCost
    BY <1>7 DEF AccountChanges, SmokeCost, ShakedownCost, OtherCost, RequestsLeft,
       PositionsLeft
  <2> QED
    BY <1>0, <1>3, <1>7, <2>1 DEF Cost
<1>8. CASE ~CommandStep /\ UNCHANGED cliVars
  BY <1>0, <1>2, <1>3, <1>8 DEF Cost, cliVars
<1> QED
  BY <1>4, <1>5, <1>6, <1>7, <1>8, CommandSteps

\* Without any fairness: a command makes at most MaxCost steps, two for each check
\* of the watchdog, one for each position of the account and up to ten requests
\* of a smoke test besides.  Each of them leaves less to do, and neither a drift
\* nor a change of the account puts anything back; a command with nothing left to
\* do has exited (cli.py main).
THEOREM CommandsCostBounded ==
  CliSpec => /\ [](Cost \in 0 .. MaxCost /\ (Cost = 0 <=> ~Running))
          /\ [][/\ CommandStep => Cost' < Cost
                /\ Running => Cost' <= Cost]_cliVars
<1>1. CliTypeOK => Cost \in 0 .. MaxCost /\ (Cost = 0 <=> ~Running)
  BY CostBounds
<1>2. CliTypeOK /\ CliTypeOK' /\ [CliNext]_cliVars =>
        [/\ CommandStep => Cost' < Cost
         /\ Running => Cost' <= Cost]_cliVars
  BY CommandCosts
<1> QED
  BY <1>1, <1>2, CliTypeCorrect, PTL DEF CliSpec

\* A running command does not stand at a request for ever: HTTP and RPC calls
\* carry a timeout, and Redis, which has none, answers or hangs up.
CommandRuns == []<>~Running \/ []<><<CommandStep>>_cliVars

\* At most so much is still to do, and something.
Ahead(most) == Running /\ Cost <= most

\* Nothing adds to it, and what the command does takes from it.
CostRules(most, less) ==
    /\ CliTypeOK /\ CliTypeOK' /\ Ahead(most) /\ [CliNext]_cliVars => Ahead(most)' \/ ~Running'
    /\ CliTypeOK /\ CliTypeOK' /\ Ahead(most) /\ [CliNext]_cliVars /\ <<CommandStep>>_cliVars =>
          Ahead(less)' \/ ~Running'
    /\ Ahead(most) => Running

LEMMA RulesOfCost ==
  ASSUME NEW most \in Int, NEW less \in Int, less = most - 1
  PROVE  CostRules(most, less)
<1> SUFFICES ASSUME CliTypeOK, CliTypeOK', Ahead(most), [CliNext]_cliVars
             PROVE  /\ Ahead(most)' \/ ~Running'
                    /\ CommandStep => Ahead(less)' \/ ~Running'
  BY DEF CostRules, Ahead
<1>1. Cost \in Nat /\ Cost' \in Nat
  <2>1. WatchCost \in Nat /\ SmokeCost \in Nat
    BY CostBounds
  <2>2. WatchCost' \in Nat
    BY WatchCostBoundsNext DEF CliTypeOK
  <2>3. SmokeCost' \in Nat
    BY LeftBoundsNext DEF CliTypeOK, SmokeCost, OtherCost
  <2>4. \A w, x \in Nat : w + x \in Nat
    OBVIOUS
  <2> QED
    BY <2>1, <2>2, <2>3, <2>4, Zenon DEF Cost
<1>2. Running /\ Cost <= most
  BY DEF Ahead
<1>3. Cost' <= most /\ (CommandStep => Cost' <= less)
  BY <1>1, <1>2, CommandCosts
<1> QED
  BY <1>3 DEF Ahead

\* However much is still to do, the command gets to where at most b is, or exits.
GetsTo(a, b) == CliSpec /\ CommandRuns => (Ahead(a) ~> Ahead(b) \/ ~Running)
Pays(d) == \A a, b \in Int : b = a - d => GetsTo(a, b)

LEMMA PaysOne == Pays(1)
<1> SUFFICES ASSUME NEW a \in Int, NEW b \in Int, b = a - 1 PROVE GetsTo(a, b)
  BY DEF Pays
<1>1. CostRules(a, b)
  BY RulesOfCost
<1> QED
  BY <1>1, CliTypeCorrect, PTL DEF GetsTo, CostRules, CommandRuns, CliSpec

LEMMA GetsChain ==
  ASSUME NEW a, NEW m, NEW b, GetsTo(a, m), GetsTo(m, b) PROVE GetsTo(a, b)
BY PTL DEF GetsTo

LEMMA PaysTwice ==
  ASSUME NEW d \in Int, NEW e, e = 2 * d, Pays(d) PROVE Pays(e)
<1> SUFFICES ASSUME NEW a \in Int, NEW b \in Int, b = a - e PROVE GetsTo(a, b)
  BY DEF Pays
<1> SUFFICES ASSUME NEW m \in Int, m = a - d PROVE GetsTo(a, b)
  OBVIOUS
<1>1. GetsTo(a, m)
  BY DEF Pays
<1>2. b = m - d
  OBVIOUS
<1>3. GetsTo(m, b)
  BY <1>2 DEF Pays
<1> QED
  BY <1>1, <1>3, GetsChain

LEMMA PaysThousandfold ==
  ASSUME NEW d \in Int, NEW e, e = 1024 * d, Pays(d) PROVE Pays(e)
<1>1. Pays(2 * d)
  BY PaysTwice
<1>2. Pays(4 * d)
  BY <1>1, PaysTwice, 4 * d = 2 * (2 * d)
<1>3. Pays(8 * d)
  BY <1>2, PaysTwice, 8 * d = 2 * (4 * d)
<1>4. Pays(16 * d)
  BY <1>3, PaysTwice, 16 * d = 2 * (8 * d)
<1>5. Pays(32 * d)
  BY <1>4, PaysTwice, 32 * d = 2 * (16 * d)
<1>6. Pays(64 * d)
  BY <1>5, PaysTwice, 64 * d = 2 * (32 * d)
<1>7. Pays(128 * d)
  BY <1>6, PaysTwice, 128 * d = 2 * (64 * d)
<1>8. Pays(256 * d)
  BY <1>7, PaysTwice, 256 * d = 2 * (128 * d)
<1>9. Pays(512 * d)
  BY <1>8, PaysTwice, 512 * d = 2 * (256 * d)
<1> QED
  BY <1>9, PaysTwice, e = 2 * (512 * d)

\* Every command exits, whatever is answered, refused or changed meanwhile, as
\* long as its requests end (cli.py main); for any markets and positions that
\* make at most a million steps.  One process stays at one command.
THEOREM CommandsEnd ==
  ASSUME MaxCost <= 1048576
  PROVE  CliSpec /\ CommandRuns => (Running ~> ~Running)
<1>1. Pays(1048576)
  <2>1. Pays(1024)
    BY PaysOne, PaysThousandfold
  <2> QED
    BY <2>1, PaysThousandfold
<1>2. PICK a \in Int, b \in Int : a = 1048576 /\ b = 0
  OBVIOUS
<1>3. GetsTo(a, b)
  BY <1>1, <1>2 DEF Pays
<1>4. CliTypeOK => (Running => Ahead(a)) /\ ~Ahead(b)
  <2> SUFFICES ASSUME CliTypeOK PROVE (Running => Ahead(a)) /\ ~Ahead(b)
    OBVIOUS
  <2>1. Cost \in Nat /\ Cost <= MaxCost /\ MaxCost \in Nat /\ (Cost = 0 <=> ~Running)
    BY CostBounds, WatchdogAssumption, SmokesAssumption DEF MaxCost
  <2> QED
    BY <1>2, <2>1 DEF Ahead
<1> QED
  BY <1>3, <1>4, CliTypeCorrect, PTL DEF GetsTo
=============================================================================
