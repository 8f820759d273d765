------------------------------- MODULE MCHarness -------------------------------
(* A small harness: HarnessFiles and EventAnalysis.  They share no variable, so   *)
(* that interleaving their steps shows nothing new: a behaviour is one of either. *)
EXTENDS HarnessFiles, EventAnalysis

\* Two tails of the watcher, and a replay.
MCPipelineOf == [t \in Tails |-> IF t = "replay" THEN "replay" ELSE "watch"]

\* Events with one content each, and calls and results that take one unit of time.
MCContent(python, other, passed) == [python |-> python, other |-> other, passed |-> passed]
MCTraceback == MCContent("s1", FALSE, FALSE)
MCExitCode == MCContent(NoValue, TRUE, TRUE)
MCPassed == MCContent(NoValue, FALSE, TRUE)
MCSilent == MCContent(NoValue, FALSE, FALSE)

\* Ids are used in order.
NewId(id) == \A j \in Ids : j < id => \E i \in DOMAIN events : events[i].id = j
Now == IF events = << >> THEN 0 ELSE events[Len(events)].ts

\* Only results, at any time: what the detector sees.  The last signal may fail.
ResultsOnly ==
    /\ \A i \in DOMAIN events : IsResult(events[i])
    /\ Len(events) < 5
    /\ \/ \E ts \in 0..3, c \in {MCTraceback, MCExitCode, MCPassed} :
            ToolResultArrives(Len(events) + 1, ts, c)
       \/ signals # << >> /\ EventRetried(Len(signals))

\* Calls and results in the order of time: what the harvester and the server see.
\* Calls of one message have one timestamp.
CallsAndResults ==
    /\ events # << >> => IsCall(events[1])
    /\ \E id \in 1..3 : NewId(id) /\
         \/ \E ts \in Now..(Now + 1), command \in AgentCommands : ToolUse(id, ts, command)
         \/ \E c \in {MCTraceback, MCPassed, MCSilent} : ToolResultArrives(id, Now + 1, c)

\* Tails and commands begin in the order of their names.  Once a harvest is pending or
\* asked for, the session map is left alone, which shares no variable with them: there
\* are two tails of one session, and one pipeline, which may still be killed.
InOrder(at, names) ==
    \A i, j \in DOMAIN names : i < j /\ at[names[j]] # "idle" => at[names[i]] # "idle"
Harvesting ==
    (\E t \in Tails : pending[t] # "none") \/ \E c \in Harvests : harvest[c] # "idle"
FilesBounded ==
    /\ InOrder(tail', <<"t1", "t2">>) /\ InOrder(harvest', <<"c1", "c2">>)
    /\ Harvesting' =>
          /\ NobodySaves' /\ ~disturbed' /\ up' \subseteq {"watch"} /\ up' \subseteq up
          /\ tail'["replay"] = "idle" /\ \A t \in Tails : source'[t] = "a"
          /\ \A c \in Harvests : harvest'[c] # "idle" => want'[c].id # "replay"

MCInit == FilesInit /\ AnalysisInit
MCNext ==
    \/ events = << >> /\ FilesNext /\ FilesBounded /\ UNCHANGED analysisVars
    \/ FilesInit /\ (ResultsOnly \/ CallsAndResults) /\ UNCHANGED fileVars
MCSpec == MCInit /\ [][MCNext]_<<fileVars, analysisVars>>
=============================================================================
