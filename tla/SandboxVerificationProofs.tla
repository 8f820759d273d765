---------------------- MODULE SandboxVerificationProofs ----------------------
(* SandboxVerification: its inductive invariant, and what follows from it, for *)
(* any exit codes that the commands of an entry may have.                      *)
EXTENDS SandboxVerification, TLAPS

\* The daemon failed where run() does not expect it to.
Serious == \E b \in broken : b[2] \notin {"image", "remove"}

\* The verdict is the last step.
VerdictIsLast == verdict # "none" => phase = "done"

\* A limit is hit once the command has been started, or in the pull, and what run()
\* returns says so.
LimitsAreReported ==
    /\ limited # {} => phase \in {"kill", "inspect", "remove", "judge", "done"}
    /\ limited # {} /\ phase = "inspect" => outcome.timedOut
    /\ limited # {} /\ phase \in {"remove", "judge"} => HitLimit

\* A serious failure is on its way out as an exception; nothing runs after it.
FailuresAreRaised ==
    /\ raised => phase \in {"remove", "judge", "done"}
    /\ Serious => phase \in {"remove", "judge", "done"}
    /\ Serious /\ phase \in {"remove", "judge"} => raised

\* The second run seems to have ended by itself, with exit code 0.
EndsWithZero ==
    /\ run = "verify" /\ phase \in {"inspect", "remove", "judge"}
    /\ ~raised /\ outcome.timedOut = FALSE /\ outcome.exit = 0

\* Then the code is the command's, and the command found the fix: only a run that timed
\* out is killed.
ZeroIsTheCommands ==
    /\ phase = "kill" => outcome.timedOut = TRUE
    /\ EndsWithZero => "verify" \in executed /\ overlaid = TRUE

\* What a verdict promises.
VerdictsSound == LimitsArePartial /\ PassIsEarned /\ DaemonErrorIsPartial

IInv ==
    /\ TypeOK
    /\ VerdictIsLast
    /\ LimitsAreReported
    /\ FailuresAreRaised
    /\ ZeroIsTheCommands
    /\ VerdictsSound
    /\ NoStrayContainer

-----------------------------------------------------------------------------
\* The results that run() begins with, and returns from a pull that timed out.
LEMMA UnfinishedShape ==
    /\ Unfinished \in Outcomes
    /\ Unfinished.exit # 0
    /\ [Unfinished EXCEPT !.exit = 124, !.timedOut = TRUE] \in Outcomes
    /\ [Unfinished EXCEPT !.exit = 124, !.timedOut = TRUE].exit # 0
<1>1. Unfinished.exit = 125
  BY DEF Unfinished
<1>2. [Unfinished EXCEPT !.exit = 124, !.timedOut = TRUE].exit = 124
  BY DEF Unfinished
<1>3. /\ Unfinished \in Outcomes
      /\ [Unfinished EXCEPT !.exit = 124, !.timedOut = TRUE] \in Outcomes
  BY DEF Unfinished, Outcomes, Limits
<1> QED
  BY <1>1, <1>2, <1>3

\* The second run's command is started after the overlay, and no setup comes between.
LEMMA OverlayIsLast == FixInPlace(Script("verify"))
<1> DEFINE s == <<"setup", "overlay", "command">>
<1>1. Script("verify") = s
  BY DEF Script
<1>2. DOMAIN s = {1, 2, 3} /\ s[2] = "overlay" /\ s[3] = "command"
  OBVIOUS
<1>3. \A j \in DOMAIN s : j > 2 => s[j] # "setup"
  BY <1>2
<1> QED
  BY <1>1, <1>2, <1>3 DEF FixInPlace

\* Whether the fix is in place is a Boolean.
LEMMA OverlayIsBoolean == \A r : FixInPlace(Script(r)) \in BOOLEAN
BY DEF FixInPlace

\* The invariant is true at the start.
LEMMA Initially == Init => IInv
<1> SUFFICES ASSUME Init PROVE IInv
  OBVIOUS
<1>1. TypeOK
  BY UnfinishedShape DEF Init, TypeOK, Runs, Phases, RunSteps
<1>2. VerdictIsLast /\ VerdictsSound
  BY DEF Init, VerdictIsLast, VerdictsSound, LimitsArePartial, PassIsEarned, DaemonErrorIsPartial
<1>3. LimitsAreReported /\ NoStrayContainer
  BY DEF Init, LimitsAreReported, NoStrayContainer
<1>4. FailuresAreRaised
  BY DEF Init, FailuresAreRaised, Serious
<1>5. phase # "kill" /\ run # "verify"
  BY DEF Init
<1>6. ZeroIsTheCommands
  BY <1>5 DEF ZeroIsTheCommands, EndsWithZero
<1> QED
  BY <1>1, <1>2, <1>3, <1>4, <1>6 DEF IInv

\* What the daemon's failure adds to the history.
LEMMA BreaksShape ==
    ASSUME TypeOK, Breaks, phase \in RunSteps
    PROVE  broken' \subseteq Runs \X RunSteps
BY DEF TypeOK, Breaks

\* What the daemon says of a container that has ended.
LEMMA InspectShape ==
    ASSUME Inspect
    PROVE  /\ limited' = limited \/ limited' = limited \cup {run}
           /\ \/ outcome' = outcome
              \/ \E exhausted \in BOOLEAN, shows \in BOOLEAN :
                   outcome' = [outcome EXCEPT !.oom = exhausted \/ outcome.exit = 137,
                                              !.shows = shows]
BY Zenon DEF Inspect

\* Every step keeps the types.
LEMMA TypeKept == TypeOK /\ [Next]_vars => TypeOK'
<1> SUFFICES ASSUME TypeOK, [Next]_vars PROVE TypeOK'
  OBVIOUS
<1> USE DEF TypeOK, At, Go, Phases, RunSteps, Runs
<1>1. CASE CheckSpec
  BY <1>1 DEF CheckSpec, Conclude
<1>2. CASE Connect
  BY <1>2, BreaksShape DEF Connect, Leave
<1>3. CASE EnsureImage
  <2>1. outcome' \in Outcomes
    BY <1>3, UnfinishedShape DEF EnsureImage
  <2>2. raised' \in BOOLEAN /\ phase' \in Phases /\ broken' \subseteq Runs \X RunSteps
    BY <1>3, BreaksShape DEF EnsureImage, Leave
  <2>3. image' \in BOOLEAN /\ limited' \subseteq Runs
    BY <1>3 DEF EnsureImage
  <2>4. UNCHANGED <<entry, run, containers, executed, overlaid, verdict>>
    BY <1>3 DEF EnsureImage
  <2> QED
    BY <2>1, <2>2, <2>3, <2>4
<1>4. CASE Create
  BY <1>4, BreaksShape DEF Create, Leave
<1>5. CASE Start
  BY <1>5, BreaksShape DEF Start, Abort
<1>6. CASE Prepare
  BY <1>6, BreaksShape DEF Prepare, Abort
<1>7. CASE SetupFails
  BY <1>7 DEF SetupFails, Outcomes
<1>8. CASE CommandExits
  BY <1>8, OverlayIsBoolean DEF CommandExits, Outcomes
<1>9. CASE ExecBreaks
  BY <1>9, BreaksShape DEF ExecBreaks, Abort
<1>10. CASE ExecTimesOut
  BY <1>10 DEF ExecTimesOut, Outcomes
<1>11. CASE Kill
  <2>1. ASSUME NEW code \in (ExitCodes \ {0}) \cup {124}
        PROVE  [outcome EXCEPT !.exit = code] \in Outcomes
    BY DEF Outcomes, Limits
  <2>2. outcome' \in Outcomes
    BY <1>11, <2>1 DEF Kill
  <2>3. raised' \in BOOLEAN /\ phase' \in Phases /\ broken' \subseteq Runs \X RunSteps
    BY <1>11, BreaksShape DEF Kill, Abort
  <2> QED
    BY <1>11, <2>2, <2>3 DEF Kill
<1>12. CASE Inspect
  <2>1. ASSUME NEW exhausted \in BOOLEAN, NEW shows \in BOOLEAN
        PROVE  [outcome EXCEPT !.oom = exhausted \/ outcome.exit = 137,
                               !.shows = shows] \in Outcomes
    BY DEF Outcomes
  <2>2. outcome' \in Outcomes
    <3>1. outcome \in Outcomes
      OBVIOUS
    <3>2. CASE outcome' = outcome
      BY <3>1, <3>2
    <3>3. CASE outcome' # outcome
      <4>1. PICK exhausted \in BOOLEAN, shows \in BOOLEAN :
               outcome' = [outcome EXCEPT !.oom = exhausted \/ outcome.exit = 137,
                                          !.shows = shows]
        BY Zenon, <1>12, <3>3, InspectShape
      <4> QED
        BY Zenon, <2>1, <4>1
    <3> QED
      BY <3>2, <3>3
  <2>3. raised' \in BOOLEAN /\ phase' \in Phases /\ broken' \subseteq Runs \X RunSteps
    BY <1>12, BreaksShape DEF Inspect, Abort
  <2>4. limited' \subseteq Runs
    BY <1>12, InspectShape
  <2> QED
    BY <1>12, <2>2, <2>3, <2>4 DEF Inspect
<1>13. CASE RemoveContainer
  BY <1>13, BreaksShape DEF RemoveContainer
<1>14. CASE JudgeTrigger
  BY <1>14 DEF JudgeTrigger, Conclude
<1>15. CASE ApplyFix
  BY <1>15, UnfinishedShape DEF ApplyFix, Conclude
<1>16. CASE JudgeVerify
  BY <1>16 DEF JudgeVerify, Conclude
<1>17. CASE UNCHANGED vars
  BY <1>17 DEF vars
<1> QED
  BY <1>1, <1>2, <1>3, <1>4, <1>5, <1>6, <1>7, <1>8, <1>9, <1>10, <1>11, <1>12, <1>13,
     <1>14, <1>15, <1>16, <1>17 DEF Next, ExecEnds, Finished

\* Nothing follows the verdict.
LEMMA VerdictKept == IInv /\ [Next]_vars => VerdictIsLast'
<1> SUFFICES ASSUME IInv, [Next]_vars PROVE VerdictIsLast'
  OBVIOUS
<1> USE DEF IInv, VerdictIsLast, At, Go
<1>1. CASE CheckSpec
  BY <1>1 DEF CheckSpec, Conclude
<1>2. CASE Connect
  BY <1>2 DEF Connect, Leave
<1>3. CASE EnsureImage
  BY <1>3 DEF EnsureImage, Leave
<1>4. CASE Create
  BY <1>4 DEF Create, Leave
<1>5. CASE Start
  BY <1>5 DEF Start, Abort
<1>6. CASE Prepare
  BY <1>6 DEF Prepare, Abort
<1>7. CASE SetupFails
  BY <1>7 DEF SetupFails
<1>8. CASE CommandExits
  BY <1>8 DEF CommandExits
<1>9. CASE ExecBreaks
  BY <1>9 DEF ExecBreaks, Abort
<1>10. CASE ExecTimesOut
  BY <1>10 DEF ExecTimesOut
<1>11. CASE Kill
  BY <1>11 DEF Kill, Abort
<1>12. CASE Inspect
  BY <1>12 DEF Inspect, Abort
<1>13. CASE RemoveContainer
  BY <1>13 DEF RemoveContainer
<1>14. CASE JudgeTrigger
  BY <1>14 DEF JudgeTrigger, Conclude
<1>15. CASE ApplyFix
  BY <1>15 DEF ApplyFix, Conclude
<1>16. CASE JudgeVerify
  BY <1>16 DEF JudgeVerify, Conclude
<1>17. CASE UNCHANGED vars
  BY <1>17 DEF vars
<1> QED
  BY <1>1, <1>2, <1>3, <1>4, <1>5, <1>6, <1>7, <1>8, <1>9, <1>10, <1>11, <1>12, <1>13,
     <1>14, <1>15, <1>16, <1>17 DEF Next, ExecEnds, Finished

\* What run() returns keeps saying that a limit was hit.
LEMMA LimitsKept == IInv /\ [Next]_vars => LimitsAreReported'
<1> SUFFICES ASSUME IInv, [Next]_vars PROVE LimitsAreReported'
  OBVIOUS
<1> USE DEF IInv, TypeOK, LimitsAreReported, HitLimit, At, Go, Outcomes
<1>1. CASE CheckSpec
  BY <1>1 DEF CheckSpec, Conclude
<1>2. CASE Connect
  BY <1>2 DEF Connect, Leave
<1>3. CASE EnsureImage
  <2>1. limited = {}
    BY <1>3 DEF EnsureImage
  <2>2. limited' # {} => outcome'.timedOut
    BY <1>3, <2>1 DEF EnsureImage, Unfinished
  <2>3. phase' \in {"create", "judge"} /\ (phase' = "create" => limited' = {})
    BY <1>3, <2>1 DEF EnsureImage, Leave
  <2> QED
    BY <2>2, <2>3
<1>4. CASE Create
  BY <1>4 DEF Create, Leave
<1>5. CASE Start
  BY <1>5 DEF Start, Abort
<1>6. CASE Prepare
  BY <1>6 DEF Prepare, Abort
<1>7. CASE SetupFails
  BY <1>7 DEF SetupFails
<1>8. CASE CommandExits
  BY <1>8 DEF CommandExits
<1>9. CASE ExecBreaks
  BY <1>9 DEF ExecBreaks, Abort
<1>10. CASE ExecTimesOut
  BY <1>10 DEF ExecTimesOut
<1>11. CASE Kill
  <2>1. limited # {} => outcome.timedOut
    BY <1>11 DEF Kill, ZeroIsTheCommands
  <2>2. outcome'.timedOut = outcome.timedOut
    BY <1>11 DEF Kill
  <2>3. limited' = limited /\ phase' \in {"inspect", "remove"}
    BY <1>11 DEF Kill, Abort
  <2> QED
    BY <2>1, <2>2, <2>3
<1>12. CASE Inspect
  BY <1>12 DEF Inspect, Abort
<1>13. CASE RemoveContainer
  BY <1>13 DEF RemoveContainer
<1>14. CASE JudgeTrigger
  BY <1>14 DEF JudgeTrigger, Conclude
<1>15. CASE ApplyFix
  BY <1>15 DEF ApplyFix, Conclude
<1>16. CASE JudgeVerify
  BY <1>16 DEF JudgeVerify, Conclude
<1>17. CASE UNCHANGED vars
  BY <1>17 DEF vars
<1> QED
  BY <1>1, <1>2, <1>3, <1>4, <1>5, <1>6, <1>7, <1>8, <1>9, <1>10, <1>11, <1>12, <1>13,
     <1>14, <1>15, <1>16, <1>17 DEF Next, ExecEnds, Finished

\* A container is in the daemon while its run is at work, or for one of the two reasons.
LEMMA StrayKept == IInv /\ [Next]_vars => NoStrayContainer'
<1> SUFFICES ASSUME IInv, [Next]_vars PROVE NoStrayContainer'
  OBVIOUS
<1> USE DEF IInv, NoStrayContainer, At, Go, Breaks
<1>1. CASE CheckSpec
  BY <1>1 DEF CheckSpec, Conclude
<1>2. CASE Connect
  BY <1>2 DEF Connect, Leave
<1>3. CASE EnsureImage
  BY <1>3 DEF EnsureImage, Leave
<1>4. CASE Create
  BY <1>4 DEF Create, Leave
<1>5. CASE Start
  BY <1>5 DEF Start, Abort
<1>6. CASE Prepare
  BY <1>6 DEF Prepare, Abort
<1>7. CASE SetupFails
  BY <1>7 DEF SetupFails
<1>8. CASE CommandExits
  BY <1>8 DEF CommandExits
<1>9. CASE ExecBreaks
  BY <1>9 DEF ExecBreaks, Abort
<1>10. CASE ExecTimesOut
  BY <1>10 DEF ExecTimesOut
<1>11. CASE Kill
  BY <1>11 DEF Kill, Abort
<1>12. CASE Inspect
  BY <1>12 DEF Inspect, Abort
<1>13. CASE RemoveContainer
  BY <1>13 DEF RemoveContainer
<1>14. CASE JudgeTrigger
  BY <1>14 DEF JudgeTrigger, Conclude
<1>15. CASE ApplyFix
  BY <1>15 DEF ApplyFix, Conclude
<1>16. CASE JudgeVerify
  BY <1>16 DEF JudgeVerify, Conclude
<1>17. CASE UNCHANGED vars
  BY <1>17 DEF vars
<1> QED
  BY <1>1, <1>2, <1>3, <1>4, <1>5, <1>6, <1>7, <1>8, <1>9, <1>10, <1>11, <1>12, <1>13,
     <1>14, <1>15, <1>16, <1>17 DEF Next, ExecEnds, Finished

\* A failing pull or removal is not a serious failure.
LEMMA SeriousKept ==
    /\ broken' = broken => Serious' = Serious
    /\ Breaks /\ phase \in {"image", "remove"} => Serious' = Serious
BY DEF Serious, Breaks

\* A serious failure stays on its way out.
LEMMA RaisedKept == IInv /\ [Next]_vars => FailuresAreRaised'
<1> SUFFICES ASSUME IInv, [Next]_vars PROVE FailuresAreRaised'
  OBVIOUS
<1> USE DEF IInv, TypeOK, FailuresAreRaised, At, Go
<1>1. CASE CheckSpec
  BY <1>1, SeriousKept DEF CheckSpec, Conclude
<1>2. CASE Connect
  BY <1>2, SeriousKept DEF Connect, Leave
<1>3. CASE EnsureImage
  BY <1>3, SeriousKept DEF EnsureImage, Leave
<1>4. CASE Create
  BY <1>4, SeriousKept DEF Create, Leave
<1>5. CASE Start
  BY <1>5, SeriousKept DEF Start, Abort
<1>6. CASE Prepare
  BY <1>6, SeriousKept DEF Prepare, Abort
<1>7. CASE SetupFails
  BY <1>7, SeriousKept DEF SetupFails
<1>8. CASE CommandExits
  BY <1>8, SeriousKept DEF CommandExits
<1>9. CASE ExecBreaks
  BY <1>9, SeriousKept DEF ExecBreaks, Abort
<1>10. CASE ExecTimesOut
  BY <1>10, SeriousKept DEF ExecTimesOut
<1>11. CASE Kill
  BY <1>11, SeriousKept DEF Kill, Abort
<1>12. CASE Inspect
  <2>1. CASE raised' = raised /\ broken' = broken /\ phase' = "remove"
    <3>1. ~raised /\ ~Serious
      BY <1>12 DEF Inspect
    <3> QED
      BY <2>1, <3>1, SeriousKept
  <2>2. CASE Abort
    BY <1>12, <2>2 DEF Inspect, Abort
  <2> QED
    BY <1>12, <2>1, <2>2 DEF Inspect
<1>13. CASE RemoveContainer
  BY <1>13, SeriousKept DEF RemoveContainer
<1>14. CASE JudgeTrigger
  BY <1>14, SeriousKept DEF JudgeTrigger, Conclude
<1>15. CASE ApplyFix
  BY <1>15, SeriousKept DEF ApplyFix, Conclude
<1>16. CASE JudgeVerify
  BY <1>16, SeriousKept DEF JudgeVerify, Conclude
<1>17. CASE UNCHANGED vars
  BY <1>17, SeriousKept DEF vars
<1> QED
  BY <1>1, <1>2, <1>3, <1>4, <1>5, <1>6, <1>7, <1>8, <1>9, <1>10, <1>11, <1>12, <1>13,
     <1>14, <1>15, <1>16, <1>17 DEF Next, ExecEnds, Finished

\* The exit code that run() returns stays the command's.
LEMMA ZeroKept == IInv /\ [Next]_vars => ZeroIsTheCommands'
<1> SUFFICES ASSUME IInv, [Next]_vars PROVE ZeroIsTheCommands'
  OBVIOUS
<1> USE DEF IInv, TypeOK, ZeroIsTheCommands, EndsWithZero, FailuresAreRaised, At, Go, Outcomes
<1>1. CASE CheckSpec
  BY <1>1 DEF CheckSpec, Conclude
<1>2. CASE Connect
  BY <1>2 DEF Connect, Leave
<1>3. CASE EnsureImage
  <2>1. phase' = "create" \/ outcome'.exit # 0
    <3>1. \/ phase' = "create" \/ outcome' = Unfinished
          \/ outcome' = [Unfinished EXCEPT !.exit = 124, !.timedOut = TRUE]
      BY <1>3 DEF EnsureImage
    <3> QED
      BY <3>1, UnfinishedShape, Zenon
  <2>2. phase' \in {"create", "judge"}
    BY <1>3 DEF EnsureImage, Leave
  <2> QED
    BY <2>1, <2>2
<1>4. CASE Create
  BY <1>4 DEF Create, Leave
<1>5. CASE Start
  BY <1>5 DEF Start, Abort
<1>6. CASE Prepare
  BY <1>6 DEF Prepare, Abort
<1>7. CASE SetupFails
  BY <1>7 DEF SetupFails
<1>8. CASE CommandExits
  BY <1>8, OverlayIsLast DEF CommandExits
<1>9. CASE ExecBreaks
  BY <1>9 DEF ExecBreaks, Abort
<1>10. CASE ExecTimesOut
  BY <1>10 DEF ExecTimesOut
<1>11. CASE Kill
  BY <1>11 DEF Kill, Abort
<1>12. CASE Inspect
  BY <1>12 DEF Inspect, Abort
<1>13. CASE RemoveContainer
  BY <1>13 DEF RemoveContainer
<1>14. CASE JudgeTrigger
  BY <1>14 DEF JudgeTrigger, Conclude
<1>15. CASE ApplyFix
  BY <1>15 DEF ApplyFix, Conclude
<1>16. CASE JudgeVerify
  BY <1>16 DEF JudgeVerify, Conclude
<1>17. CASE UNCHANGED vars
  BY <1>17 DEF vars
<1> QED
  BY <1>1, <1>2, <1>3, <1>4, <1>5, <1>6, <1>7, <1>8, <1>9, <1>10, <1>11, <1>12, <1>13,
     <1>14, <1>15, <1>16, <1>17 DEF Next, ExecEnds, Finished

\* Every verdict is sound.
LEMMA VerdictsKept == IInv /\ [Next]_vars => VerdictsSound'
<1> SUFFICES ASSUME IInv, [Next]_vars PROVE VerdictsSound'
  OBVIOUS
<1> USE DEF VerdictsSound, IInv, VerdictIsLast, LimitsArePartial, PassIsEarned,
       DaemonErrorIsPartial, At, Go
<1>1. CASE CheckSpec
  <2>1. limited = {} /\ ~Serious
    BY <1>1 DEF CheckSpec, LimitsAreReported, FailuresAreRaised
  <2>2. limited' = {} /\ ~Serious'
    BY <1>1, <2>1, SeriousKept DEF CheckSpec
  <2>3. verdict' # "pass"
    BY <1>1 DEF CheckSpec, Conclude
  <2> QED
    BY <2>2, <2>3 DEF Serious
<1>2. CASE Connect
  BY <1>2, SeriousKept DEF Connect, Leave
<1>3. CASE EnsureImage
  BY <1>3, SeriousKept DEF EnsureImage, Leave
<1>4. CASE Create
  BY <1>4, SeriousKept DEF Create, Leave
<1>5. CASE Start
  BY <1>5, SeriousKept DEF Start, Abort
<1>6. CASE Prepare
  BY <1>6, SeriousKept DEF Prepare, Abort
<1>7. CASE SetupFails
  BY <1>7, SeriousKept DEF SetupFails
<1>8. CASE CommandExits
  BY <1>8, SeriousKept DEF CommandExits
<1>9. CASE ExecBreaks
  BY <1>9, SeriousKept DEF ExecBreaks, Abort
<1>10. CASE ExecTimesOut
  BY <1>10, SeriousKept DEF ExecTimesOut
<1>11. CASE Kill
  BY <1>11, SeriousKept DEF Kill, Abort
<1>12. CASE Inspect
  BY <1>12, SeriousKept DEF Inspect, Abort
<1>13. CASE RemoveContainer
  BY <1>13, SeriousKept DEF RemoveContainer
<1>14. CASE JudgeTrigger
  <2>1. CASE raised \/ HitLimit
    BY <1>14, <2>1 DEF JudgeTrigger, Conclude
  <2>2. CASE ~raised /\ ~HitLimit
    <3>1. limited' = {} /\ ~Serious'
      BY <1>14, <2>2, SeriousKept DEF JudgeTrigger, LimitsAreReported, FailuresAreRaised
    <3>2. verdict' # "pass"
      BY <1>14 DEF JudgeTrigger, Conclude
    <3> QED
      BY <3>1, <3>2 DEF Serious
  <2> QED
    BY <2>1, <2>2
<1>15. CASE ApplyFix
  <2>1. limited' = {} /\ ~Serious'
    BY <1>15, SeriousKept DEF ApplyFix, LimitsAreReported, FailuresAreRaised
  <2>2. verdict' # "pass"
    BY <1>15 DEF ApplyFix, Conclude
  <2> QED
    BY <2>1, <2>2 DEF Serious
<1>16. CASE JudgeVerify
  <2>1. CASE raised \/ HitLimit
    BY <1>16, <2>1 DEF JudgeVerify, Conclude
  <2>2. CASE ~raised /\ ~HitLimit
    <3>1. limited' = {} /\ ~Serious'
      BY <1>16, <2>2, SeriousKept DEF JudgeVerify, LimitsAreReported, FailuresAreRaised
    <3>2. outcome.timedOut = FALSE
      BY <2>2 DEF HitLimit, TypeOK, Outcomes
    <3>3. outcome.exit = 0 => "verify" \in executed /\ overlaid
      BY <1>16, <2>2, <3>2 DEF JudgeVerify, ZeroIsTheCommands, EndsWithZero
    <3>4. PassIsEarned'
      BY <1>16, <2>2, <3>3 DEF JudgeVerify, Conclude
    <3> QED
      BY <3>1, <3>4 DEF Serious
  <2> QED
    BY <2>1, <2>2
<1>17. CASE UNCHANGED vars
  BY <1>17, SeriousKept DEF vars
<1> QED
  BY <1>1, <1>2, <1>3, <1>4, <1>5, <1>6, <1>7, <1>8, <1>9, <1>10, <1>11, <1>12, <1>13,
     <1>14, <1>15, <1>16, <1>17 DEF Next, ExecEnds, Finished

-----------------------------------------------------------------------------
\* The invariant is inductive.
LEMMA Invariant == Spec => []IInv
<1>1. Init => IInv
  BY Initially
<1>2. IInv /\ [Next]_vars => IInv'
  <2> SUFFICES ASSUME IInv, [Next]_vars PROVE IInv'
    OBVIOUS
  <2>1. TypeOK'
    BY TypeKept DEF IInv
  <2>2. VerdictsSound'
    BY VerdictsKept
  <2> QED
    BY <2>1, <2>2, VerdictKept, LimitsKept, RaisedKept, ZeroKept, StrayKept DEF IInv
<1> QED
  BY <1>1, <1>2, PTL DEF Spec

\* Every verification stays within its types: its phases are steps of run() or of its
\* caller, and its result one of the three that the database takes.
THEOREM VerificationTypes == Spec => []TypeOK
<1>1. IInv => TypeOK
  BY DEF IInv
<1> QED
  BY <1>1, Invariant, PTL

\* A verification in which a run hit its time or memory limit says "partial", however
\* the commands exit: a limit neither passes nor fails the entry.
THEOREM LimitsNeverBlame == Spec => []LimitsArePartial
<1>1. IInv => LimitsArePartial
  BY DEF IInv, VerdictsSound
<1> QED
  BY <1>1, Invariant, PTL

\* "pass" is only said after the verify command was started on the fixed files and
\* ended with exit code 0.
THEOREM PassIsAlwaysEarned == Spec => []PassIsEarned
<1>1. IInv => PassIsEarned
  BY DEF IInv, VerdictsSound
<1> QED
  BY <1>1, Invariant, PTL

\* A failure of the daemon, but one of the pull or of the removal, ends in "partial".
THEOREM DaemonNeverBlames == Spec => []DaemonErrorIsPartial
<1>1. IInv => DaemonErrorIsPartial
  BY DEF IInv, VerdictsSound
<1> QED
  BY <1>1, Invariant, PTL

\* However either run ends, and whatever raised in it, its container is removed: the daemon
\* has one of a run that is over only if the removal failed, or if the answer to the
\* creation was lost.
THEOREM ContainersAreRemoved == Spec => []NoStrayContainer
<1>1. IInv => NoStrayContainer
  BY DEF IInv
<1> QED
  BY <1>1, Invariant, PTL

=============================================================================
