----------------------------- MODULE EventAnalysis -----------------------------
(***************************************************************************)
(* What is concluded from the events of coding sessions: the parser's      *)
(* judgement of a tool result, the signals of the StuckDetector, and the   *)
(* row that the server shows for an active session.  The harness and the   *)
(* server have the same events, in the order of the log; the server goes   *)
(* by their timestamps.  Threads that process events at the same time are  *)
(* in TailWatcher; here the detector has one event at a time.              *)
(***************************************************************************)
EXTENDS Integers, Sequences, FiniteSetsExt

CONSTANTS
    Ids,            \* tool_call_ids
    Signatures,     \* hashes of normalized Python errors
    AgentCommands,  \* the commands of an agent
    NoValue,        \* no signature, no command
    Repeats, ErrorWindow,     \* REPEATED_ERROR: 3 in REPEATED_ERROR_WINDOW
    Errors, ThrashingWindow,  \* THRASHING: 8 in THRASHING_EVENT_WINDOW
    Cooldown,       \* COOLDOWN
    Kept,           \* maxlen of the detector's deque
    MaxEvents,      \* bound: events
    MaxTime         \* bound: timestamps

ASSUME NoValueAssumption == NoValue \notin Signatures \cup AgentCommands
ASSUME DetectorAssumption ==
    /\ {Repeats, ErrorWindow, Errors, ThrashingWindow, Cooldown, Kept} \subseteq Nat \ {0}
    /\ ThrashingWindow <= Kept
ASSUME BoundsAssumption == MaxTime \in Nat

\* What the output of a tool has: a Python error with its signature, another sign of an
\* error (an error label, an exit code, a TypeScript error), the summary of a good test run.
Content == [python : Signatures \cup {NoValue}, other : BOOLEAN, passed : BOOLEAN]

VARIABLES
    events,       \* the events processed, oldest first
    armed,        \* _last_signal_at is set
    lastSignal,   \* _last_signal_at
    signals       \* the signals: [at, kind, cites], with indices of events

analysisVars == <<events, armed, lastSignal, signals>>

Event ==
    [kind : {"call"}, ts : 0..MaxTime, id : Ids, command : AgentCommands \cup {NoValue}]
    \cup [kind : {"result"}, ts : 0..MaxTime, id : Ids, is_error : BOOLEAN,
          error_signature : Signatures \cup {NoValue}, passed : BOOLEAN]

AnalysisTypeOK ==
    /\ \A i \in DOMAIN events : events[i] \in Event
    /\ armed \in BOOLEAN /\ lastSignal \in 0..MaxTime
    /\ \A n \in DOMAIN signals :
         /\ signals[n].at \in DOMAIN events /\ signals[n].cites \subseteq DOMAIN events
         /\ signals[n].kind \in {"repeated_error", "thrashing"}

AnalysisInit == events = << >> /\ armed = FALSE /\ lastSignal = 0 /\ signals = << >>

-----------------------------------------------------------------------------
(* Tool results.                                                           *)

IsResult(e) == e.kind = "result"
IsError(e) == IsResult(e) /\ e.is_error
HasSignature(e, s) == IsResult(e) /\ s # NoValue /\ e.error_signature = s

\* _is_error_content
IsErrorContent(c) == c.python # NoValue \/ c.other

\* _build_tool_result: only Python errors are normalized.
ToolResult(id, ts, c) ==
    [kind |-> "result", ts |-> ts, id |-> id, is_error |-> IsErrorContent(c),
     error_signature |-> c.python, passed |-> c.passed]

\* _is_successful_test_result
SuccessfulTest(e) == IsResult(e) /\ ~e.is_error /\ e.passed

-----------------------------------------------------------------------------
(* StuckDetector.process, after the event is appended to the deque.        *)

\* The last n events of a sequence, and the last n of some of its events.
LastOf(h, n) == {i \in DOMAIN h : i > Len(h) - n}
LastIn(S, n) == {i \in S : Cardinality({j \in S : j >= i}) <= n}

InCooldown(e) == armed /\ e.ts - lastSignal < Cooldown

\* _repeated_error_signal
Matches(h, e) ==
    {i \in LastOf(h, Kept) : h[i].ts >= e.ts - ErrorWindow /\ HasSignature(h[i], e.error_signature)}
RepeatedError(h, e) == IsResult(e) /\ Cardinality(Matches(h, e)) >= Repeats

\* _thrashing_signal
ErrorEvents(h) == {i \in LastOf(h, ThrashingWindow) : IsError(h[i])}
Thrashing(h) ==
    /\ Cardinality(ErrorEvents(h)) >= Errors
    /\ \A i \in LastOf(h, ThrashingWindow) : ~SuccessfulTest(h[i])

Emit(h, kind, cites) ==
    /\ signals' = Append(signals, [at |-> Len(h), kind |-> kind, cites |-> cites])
    /\ armed' = TRUE /\ lastSignal' = h[Len(h)].ts

\* The cooldown is armed by events without a signal, too.
DetectArmsAlways(h, e) ==
    /\ armed' = TRUE /\ lastSignal' = e.ts
    /\ signals' = IF ~InCooldown(e) /\ (RepeatedError(h, e) \/ Thrashing(h))
                  THEN Append(signals, [at |-> Len(h), kind |-> "thrashing", cites |-> {}])
                  ELSE signals

Detect(h, e) ==
    \/ /\ ~InCooldown(e) /\ RepeatedError(h, e)
       /\ Emit(h, "repeated_error", LastIn(Matches(h, e), Repeats))
    \/ /\ ~InCooldown(e) /\ ~RepeatedError(h, e) /\ Thrashing(h)
       /\ Emit(h, "thrashing", LastIn(ErrorEvents(h), Errors))
    \/ /\ InCooldown(e) \/ ~(RepeatedError(h, e) \/ Thrashing(h))
       /\ UNCHANGED <<armed, lastSignal, signals>>

-----------------------------------------------------------------------------
(* The events.                                                             *)

Process(e) == events' = Append(events, e) /\ Detect(Append(events, e), e)

\* A tool_use, with the command in its arguments if there is one.
ToolUse(id, ts, command) ==
    /\ Len(events) < MaxEvents
    /\ \A i \in DOMAIN events : events[i].id # id
    /\ Process([kind |-> "call", ts |-> ts, id |-> id, command |-> command])

\* A tool_result.  The tail may have begun after its tool_use.
ToolResultArrives(id, ts, c) ==
    /\ Len(events) < MaxEvents
    /\ \A i \in DOMAIN events : IsResult(events[i]) => events[i].id # id
    /\ Process(ToolResult(id, ts, c))

\* The event of signal n, which could not be posted, is posted and processed again; what
\* was processed in between is of other sessions.
EventRetried(n) ==
    /\ Len(events) < MaxEvents
    /\ \A i \in DOMAIN events : i > signals[n].at => events[i] # events[signals[n].at]
    /\ Process(events[signals[n].at])

AnalysisNext ==
    \/ \E id \in Ids, ts \in 0..MaxTime :
          \/ \E command \in AgentCommands \cup {NoValue} : ToolUse(id, ts, command)
          \/ \E c \in Content : ToolResultArrives(id, ts, c)
    \/ \E n \in DOMAIN signals : EventRetried(n)

AnalysisSpec == AnalysisInit /\ [][AnalysisNext]_analysisVars

-----------------------------------------------------------------------------
(* The command of a result.                                                *)

IsCall(e) == e.kind = "call"
Calls(id) == {i \in DOMAIN events : IsCall(events[i]) /\ events[i].id = id}

\* _command_for_result, which gives the harvester its failing_command.
CommandFor(i) ==
    IF Calls(events[i].id) = {} THEN NoValue ELSE events[Max(Calls(events[i].id))].command

-----------------------------------------------------------------------------
(* build_active_sessions, once the events are stored.                      *)

\* The stored events that are newest: rows of equal timestamps come in any order.
Newest(S) == {i \in S : \A j \in S : events[j].ts <= events[i].ts}

\* _event_has_issue, of the results.
ErrorResults == {i \in DOMAIN events : IsError(events[i])}

\* _issue_preview: the issue it may show.  The rows of stuck signals and of events of the
\* kind "error", which have branches of their own in it, are left out.
IssuePreview == Newest(ErrorResults)

OldestCommand ==
    LET ids == {events[i].id : i \in ErrorResults}
        S == {i \in DOMAIN events : IsCall(events[i]) /\ events[i].id \in ids}
    IN  {events[i].command : i \in {i \in S : \A j \in S : events[i].ts <= events[j].ts}}

\* _failing_command_for_issue: the newest call that any of the issues is the result of.
FailingCommand ==
    LET ids == {events[i].id : i \in ErrorResults}
    IN  {events[i].command :
           i \in Newest({i \in DOMAIN events : IsCall(events[i]) /\ events[i].id \in ids})}

-----------------------------------------------------------------------------
(* Properties.                                                             *)

\* There is reason to signal at event i.
StuckAt(i) ==
    LET e == events[i] IN
    \/ /\ IsResult(e)
       /\ \E S \in kSubset(Repeats, (i - Kept + 1)..i \cap DOMAIN events) :
            \A j \in S : HasSignature(events[j], e.error_signature)
                         /\ e.ts - events[j].ts <= ErrorWindow
    \/ LET recent == (i - ThrashingWindow + 1)..i \cap DOMAIN events IN
       /\ \E S \in kSubset(Errors, recent) : \A j \in S : IsError(events[j])
       /\ ~\E j \in recent : SuccessfulTest(events[j])

\* The event is behind the last signal before it: it is of a session whose log lags behind
\* that of another one, and the detector is shared.
Lagging(i) ==
    \E n \in DOMAIN signals :
        /\ signals[n].at < i /\ events[signals[n].at].ts > events[i].ts
        /\ \A m \in DOMAIN signals : signals[m].at < i => m <= n

\* An agent that is stuck is noticed: there is a signal for the event itself, or one that is
\* less than a cooldown older than it.  (A session that lags may stay without one as long
\* as it does: the signal of another session, however much later its time, silences it.)
StuckIsSignalled ==
    \A i \in DOMAIN events : StuckAt(i) /\ ~Lagging(i) =>
        \E n \in DOMAIN signals :
            /\ signals[n].at <= i
            /\ events[i].ts - events[signals[n].at].ts \in 0..(Cooldown - 1)

\* The calls were made one after the other, each heard before its result.
Sequential ==
    \A i \in DOMAIN events :
        /\ IsResult(events[i]) => i > 1 /\ IsCall(events[i - 1]) /\ events[i - 1].id = events[i].id
        /\ i > 1 => /\ events[i - 1].ts <= events[i].ts
                    /\ IsCall(events[i]) => events[i - 1].ts < events[i].ts

\* The dashboard shows the error and the command of the same issue, when an agent's
\* calls do not overlap and the harness missed none.
RowShowsOneIssue ==
    Sequential => \A i \in IssuePreview, c \in FailingCommand : c = CommandFor(i)
=============================================================================
