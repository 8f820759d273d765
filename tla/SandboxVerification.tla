------------------------- MODULE SandboxVerification -------------------------
(***************************************************************************)
(* One verification of one entry: VerifierWorker._verify_loaded_entry      *)
(* (fixlog/workers/verifier.py) decides a verdict from two calls of        *)
(* SandboxRunner.run (fixlog/sandbox/runner.py), the first to reproduce    *)
(* the error ("trigger"), the second to check the fix ("verify").  Every   *)
(* call to the Docker daemon may fail, and the commands of the entry may   *)
(* exit with any code, hang, or exhaust their memory.                      *)
(***************************************************************************)
EXTENDS Naturals, Sequences

CONSTANT ExitCodes    \* how a command of the entry may exit

ASSUME ExitCodesAssumption == ExitCodes \subseteq 0..255

VARIABLES
    entry,      \* what the entry asks for: its sandbox spec, its diff and its commands
    phase,      \* the next step of run(), or of the caller
    run,        \* which call of run() this is: "trigger" or "verify"
    image,      \* the image is in the daemon's store
    containers, \* the runs whose container the daemon has
    outcome,    \* the SandboxResult being built
    raised,     \* an exception is on its way out of run()
    executed,   \* history: the runs whose command was started in the sandbox
    overlaid,   \* history: the last command started found the fixed files
    broken,     \* history: <<run, step>> pairs where the daemon failed
    limited,    \* history: the runs that hit the time or memory limit
    verdict     \* the row's result, or "none"

vars == <<entry, phase, run, image, containers, outcome, raised, executed, overlaid,
          broken, limited, verdict>>

Runs == {"trigger", "verify"}
Limits == {124, 125, 137}
RunSteps == {"connect", "image", "create", "start", "prepare", "exec", "kill",
             "inspect", "remove"}
Phases == RunSteps \cup {"spec", "judge", "apply", "done"}
Outcomes == [exit : ExitCodes \cup Limits, timedOut : BOOLEAN, oom : BOOLEAN,
             shows : BOOLEAN]

\* run() starts from exit_code = 125, timed_out = False; "shows" says that the output
\* holds the text of the entry's error signature.
Unfinished == [exit |-> 125, timedOut |-> FALSE, oom |-> FALSE, shows |-> FALSE]

Entry == [spec : {"invalid", "none", "foreign", "allowed"},
          patch : {"applies", "rejected"}]

TypeOK ==
    /\ entry \in Entry
    /\ phase \in Phases /\ run \in Runs /\ image \in BOOLEAN
    /\ outcome \in Outcomes /\ raised \in BOOLEAN
    /\ executed \subseteq Runs /\ overlaid \in BOOLEAN
    /\ containers \subseteq Runs /\ broken \subseteq Runs \X RunSteps
    /\ limited \subseteq Runs
    /\ verdict \in {"none", "pass", "fail", "partial"}

Init ==
    /\ entry \in Entry /\ image \in BOOLEAN
    /\ phase = "spec" /\ run = "trigger"
    /\ containers = {} /\ outcome = Unfinished /\ raised = FALSE
    /\ executed = {} /\ overlaid = FALSE
    /\ broken = {} /\ limited = {}
    /\ verdict = "none"

-----------------------------------------------------------------------------
(* SandboxRunner.run, one call to the daemon at a time.                    *)

At(p) == phase = p
Go(p) == phase' = p

\* An exception before the container exists, or the end of the finally block.
Leave(exception) == raised' = exception /\ Go("judge")

\* The daemon fails at the current step.
Breaks == broken' = broken \cup {<<run, phase>>}

\* docker.from_env() raises when there is no daemon to talk to.
Connect ==
    /\ At("connect")
    /\ \/ Go("image") /\ UNCHANGED <<raised, broken>>
       \/ Leave(TRUE) /\ Breaks
    /\ UNCHANGED <<entry, run, image, containers, outcome, executed, overlaid,
                   limited, verdict>>

\* _ensure_image: a pull that times out or fails ends run() with a result of its own,
\* not with an exception.
EnsureImage ==
    /\ At("image")
    /\ \/ /\ image' = TRUE
          /\ Go("create") /\ UNCHANGED <<outcome, raised, broken, limited>>
       \/ /\ ~image
          /\ outcome' = [Unfinished EXCEPT !.exit = 124, !.timedOut = TRUE]
          /\ limited' = limited \cup {run}
          /\ Leave(FALSE) /\ UNCHANGED <<image, broken>>
       \/ /\ outcome' = Unfinished
          /\ Breaks
          /\ Leave(FALSE) /\ UNCHANGED <<image, limited>>
    /\ UNCHANGED <<entry, run, containers, executed, overlaid, verdict>>

\* containers.create: when the answer is lost the daemon has a container that run()
\* does not know of.
Create ==
    /\ At("create")
    /\ \/ /\ containers' = containers \cup {run}
          /\ Go("start") /\ UNCHANGED <<raised, broken>>
       \/ /\ Breaks
          /\ containers' \in {containers, containers \cup {run}}
          /\ Leave(TRUE)
    /\ UNCHANGED <<entry, run, image, outcome, executed, overlaid, limited, verdict>>

AbortWithoutCleanup ==
    /\ Breaks
    /\ raised' = TRUE /\ Go("judge")

\* Any exception once the container exists goes through the finally block.
Abort ==
    /\ Breaks
    /\ raised' = TRUE /\ Go("remove")

Start ==
    /\ At("start")
    /\ \/ Go("prepare") /\ UNCHANGED <<raised, broken>>
       \/ Abort
    /\ UNCHANGED <<entry, run, image, containers, outcome, executed, overlaid, limited, verdict>>

\* _prepare_workspace writes the files and run.sh; a file it cannot write raises.
Prepare ==
    /\ At("prepare")
    /\ \/ Go("exec") /\ UNCHANGED <<raised, broken>>
       \/ Abort
    /\ UNCHANGED <<entry, run, image, containers, outcome, executed, overlaid,
                   limited, verdict>>

ScriptOverlayFirst(r) ==
    IF r = "verify" THEN <<"overlay", "setup", "command">> ELSE <<"setup", "command">>

\* run.sh: setup_commands in order, then the command.  The second run appends the
\* commands of _fix_overlay_commands to the entry's own.
Script(r) ==
    IF r = "verify" THEN <<"setup", "overlay", "command">> ELSE <<"setup", "command">>

\* What the command finds: a setup command may write the unfixed files again.
FixInPlace(script) ==
    \E i \in DOMAIN script : /\ script[i] = "overlay"
                             /\ \A j \in DOMAIN script : j > i => script[j] # "setup"

\* A setup command fails: the script ends with its exit code.
SetupFails ==
    /\ At("exec")
    /\ \E code \in ExitCodes \ {0} : outcome' = [outcome EXCEPT !.exit = code]
    /\ Go("inspect")
    /\ UNCHANGED <<entry, run, image, containers, raised, executed, overlaid,
                   broken, limited, verdict>>

CommandExits ==
    /\ At("exec")
    /\ \E code \in ExitCodes : outcome' = [outcome EXCEPT !.exit = code]
    /\ executed' = executed \cup {run}
    /\ overlaid' = FixInPlace(Script(run))
    /\ Go("inspect")
    /\ UNCHANGED <<entry, run, image, containers, raised, broken, limited, verdict>>

ExecTimesOutOnVerifyOnly ==
    /\ At("exec") /\ run = "verify"
    /\ outcome' = [outcome EXCEPT !.timedOut = TRUE]
    /\ limited' = limited \cup {run}
    /\ Go("kill")
    /\ UNCHANGED <<entry, run, image, containers, raised, executed, overlaid,
                   broken, verdict>>

\* _exec_with_timeout: the script still runs when the time is up.
ExecTimesOut ==
    /\ At("exec")
    /\ outcome' = [outcome EXCEPT !.timedOut = TRUE]
    /\ limited' = limited \cup {run}
    /\ Go("kill")
    /\ UNCHANGED <<entry, run, image, containers, raised, executed, overlaid,
                   broken, verdict>>

ExecBreaks ==
    /\ At("exec")
    /\ Abort
    /\ UNCHANGED <<entry, run, image, containers, outcome, executed, overlaid,
                   limited, verdict>>

\* _terminate_container swallows its errors; reload() and State.ExitCode follow, where
\* an exit code of 0 or none becomes 124.
Kill ==
    /\ At("kill")
    /\ \/ /\ \E code \in (ExitCodes \ {0}) \cup {124} :
                outcome' = [outcome EXCEPT !.exit = code]
          /\ Go("inspect") /\ UNCHANGED <<raised, broken>>
       \/ Abort /\ UNCHANGED outcome
    /\ UNCHANGED <<entry, run, image, containers, executed, overlaid, limited, verdict>>

\* reload() may raise; the output is read; OOMKilled, exit code 137 or the output's
\* text mean memory was exhausted.
Inspect ==
    /\ At("inspect")
    /\ \/ \E exhausted \in BOOLEAN, shows \in BOOLEAN :
            /\ outcome' = [outcome EXCEPT !.oom = exhausted \/ outcome.exit = 137,
                                          !.shows = shows]
            /\ limited' = IF outcome'.oom THEN limited \cup {run} ELSE limited
            /\ Go("remove") /\ UNCHANGED <<raised, broken>>
       \/ Abort /\ UNCHANGED <<outcome, limited>>
    /\ UNCHANGED <<entry, run, image, containers, executed, overlaid, verdict>>

\* _remove_container, in the finally block; it swallows its errors, and an error does
\* not say whether the daemon has removed the container.
RemoveContainer ==
    /\ At("remove")
    /\ \/ containers' = containers \ {run} /\ UNCHANGED broken
       \/ containers' \in {containers, containers \ {run}} /\ Breaks
    /\ Go("judge")
    /\ UNCHANGED <<entry, run, image, outcome, raised, executed, overlaid, limited, verdict>>

-----------------------------------------------------------------------------
(* _verify_loaded_entry.                                                   *)

\* _create_verification: the row is committed and the verification is over.
Conclude(result) ==
    /\ verdict' = result
    /\ Go("done")

\* build_sandbox_spec and the tests before the first run.
CheckSpec ==
    /\ At("spec")
    /\ \/ entry.spec \in {"invalid", "foreign"} /\ Conclude("fail")
       \/ entry.spec = "none" /\ Conclude("partial")
       \/ entry.spec = "allowed" /\ Go("connect") /\ UNCHANGED verdict
    /\ UNCHANGED <<entry, run, image, containers, outcome, raised, executed, overlaid,
                   broken, limited>>

\* _trigger_reproduced: a non-zero exit, or the error's text in the output.
Reproduced == outcome.exit # 0 \/ outcome.shows

HitLimitTimeOnly == outcome.timedOut
HitLimit == outcome.timedOut \/ outcome.oom

JudgeTrigger ==
    /\ At("judge") /\ run = "trigger"
    /\ \/ (raised \/ HitLimit) /\ Conclude("partial")
       \/ ~raised /\ ~HitLimit /\ ~Reproduced /\ Conclude("fail")
       \/ ~raised /\ ~HitLimit /\ Reproduced /\ Go("apply") /\ UNCHANGED verdict
    /\ UNCHANGED <<entry, run, image, containers, outcome, raised, executed, overlaid,
                   broken, limited>>

\* apply_unified_diff and _fix_overlay_commands, then the second run.
ApplyFix ==
    /\ At("apply")
    /\ \/ /\ entry.patch = "rejected" /\ Conclude("fail")
          /\ UNCHANGED <<run, outcome>>
       \/ /\ entry.patch = "applies"
          /\ run' = "verify" /\ outcome' = Unfinished
          /\ Go("connect") /\ UNCHANGED verdict
    /\ UNCHANGED <<entry, image, containers, raised, executed, overlaid, broken, limited>>

JudgeVerifyByExitCode ==
    /\ At("judge") /\ run = "verify"
    /\ Conclude(IF HitLimit THEN "partial"
                ELSE IF outcome.exit = 0 THEN "pass" ELSE "fail")
    /\ UNCHANGED <<entry, run, image, containers, outcome, raised, executed, overlaid,
                   broken, limited>>

\* Only a verify run that ended by itself with exit code 0 passes.
JudgeVerify ==
    /\ At("judge") /\ run = "verify"
    /\ Conclude(IF raised \/ HitLimit THEN "partial"
                ELSE IF outcome.exit = 0 THEN "pass" ELSE "fail")
    /\ UNCHANGED <<entry, run, image, containers, outcome, raised, executed, overlaid,
                   broken, limited>>

-----------------------------------------------------------------------------
Finished == At("done") /\ UNCHANGED vars

ExecEnds == SetupFails \/ CommandExits \/ ExecBreaks

Next ==
    \/ CheckSpec \/ Connect \/ EnsureImage \/ Create \/ Start \/ Prepare
    \/ ExecEnds \/ ExecTimesOut \/ Kill \/ Inspect \/ RemoveContainer
    \/ JudgeTrigger \/ ApplyFix \/ JudgeVerify
    \/ Finished

Spec == Init /\ [][Next]_vars

\* The thread keeps running and every call to the daemon answers or times out; a
\* command of the entry need not end, only the timer of _exec_with_timeout is fair.
Fairness ==
    /\ WF_vars(CheckSpec \/ Connect \/ EnsureImage \/ Create \/ Start \/ Prepare
               \/ Kill \/ Inspect \/ RemoveContainer \/ JudgeTrigger \/ ApplyFix \/ JudgeVerify)
    /\ WF_vars(ExecTimesOut)

LiveSpec == Spec /\ Fairness

-----------------------------------------------------------------------------
(* Properties.                                                             *)

\* A run that hit its time or memory limit, in the image pull, the setup or the
\* command, never makes the entry pass or fail.
LimitsArePartial == verdict # "none" /\ limited # {} => verdict = "partial"

\* "pass" is earned: the verify command ran in a sandbox whose workspace had the fix,
\* and ended with exit code 0.
PassIsEarned ==
    verdict = "pass" => /\ "verify" \in executed /\ overlaid
                        /\ outcome.exit = 0 /\ ~raised

\* When the daemon fails after the image is there, the entry is not blamed for it
\* (a failing removal is ignored, and the image step is PassMeansReproduced's subject).
DaemonErrorIsPartial ==
    verdict # "none" /\ (\E b \in broken : b[2] \notin {"image", "remove"})
        => verdict = "partial"

\* The daemon has a container of a run only while run() is at work between its creation
\* and its removal, whatever raises or times out there: later only if the removal
\* failed, or if the answer to the creation was lost and run() never knew of it.
NoStrayContainer ==
    \A r \in containers :
        \/ r = run /\ phase \in {"start", "prepare", "exec", "kill", "inspect", "remove"}
        \/ <<r, "create">> \in broken
        \/ <<r, "remove">> \in broken

\* Every verification ends with a verdict, even when a command never does.
VerificationEnds == <>(verdict # "none")

\* "pass" is said of an entry whose error was reproduced first.  The code says so of
\* any non-zero exit of the first run, that of a failed image pull (125) or of a
\* setup command included, although the trigger command never ran.
PassMeansReproduced == verdict = "pass" => "trigger" \in executed
=============================================================================
