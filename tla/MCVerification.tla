---------------------------- MODULE MCVerification ----------------------------
(* The verification of an entry in the sandbox, and how its diff is applied.  The *)
(* two share no variable, so that a behaviour is one of either.                   *)
EXTENDS SandboxVerification, UnifiedDiff

\* The diffs are looked at beside one entry, whose image is there.
MCEntry == CHOOSE e \in Entry : TRUE

MCInit == Init /\ DiffInit
MCNext ==
    \/ script = << >> /\ Next /\ UNCHANGED script
    \/ Init /\ entry = MCEntry /\ image /\ DiffNext /\ UNCHANGED vars

\* A verification that does not go on is not fair: those that VerificationEnds is about
\* leave the script alone.
MCSpec == MCInit /\ [][MCNext]_<<vars, script>> /\ Fairness
=============================================================================
