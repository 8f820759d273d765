------------------------------ MODULE TailWatcher ------------------------------
(***************************************************************************)
(* fixlog watch (fixlog_harness/watcher.py): one thread per session file   *)
(* tails it and forwards its events through a HarnessPipeline that all     *)
(* threads share.  Two threads may tail the same file: the watch for new   *)
(* files starts after the recent files were listed, and a file may be      *)
(* reported as created again.  A call of the server fails before or after  *)
(* the server has done it.                                                 *)
(***************************************************************************)
EXTENDS Naturals, Sequences, SequencesExt

CONSTANTS
    Tailers,      \* the calls of tail_file
    Files,        \* the session files; each is the log of one source session
    Attempts,     \* attempts in _process_event_from_tail
    AutoSubmit,   \* settings.auto_submit_harvests
    Cooldown,     \* COOLDOWN of the detector
    Stamp,        \* the timestamps of the lines of each file
    None,         \* no file, no time
    MaxLines      \* bound: lines the agent appends to a file

ASSUME NoneAssumption == None \notin Files
ASSUME AttemptsAssumption == Attempts \in Nat \ {0}
ASSUME AutoSubmitAssumption == AutoSubmit \in BOOLEAN
ASSUME CooldownAssumption == Cooldown \in Nat \ {0}
ASSUME MaxLinesAssumption == MaxLines \in Nat
ASSUME StampAssumption == Stamp \in [Files -> [1..MaxLines -> Nat]] /\ None \notin Nat

VARIABLES
    lines,        \* the files: of every line, whether its cwd is in an allowed project
    mapped,       \* SessionMapStore: the sources with a mapping
    heard,        \* events_by_source, without order and repetition
    file,         \* the file a thread tails, or None
    from,         \* the length of the file when the thread sought its end
    pos,          \* the lines it has read
    pc,           \* where it is
    last,         \* last_event, or 0
    ending,       \* it processes the session_end event
    attempt,      \* the attempts for the event in hand
    signalAt,     \* _last_signal_at of the detector, which the threads share
    log,          \* the server: the events it got from this thread
    signals,      \* the server: the events it got a stuck signal for
    published,    \* the server: the threads whose harvest it was told of
    failed,       \* history: the events with a failed attempt
    torn,         \* history: the lines read in two pieces
    overtaken,    \* history: threads that looked at signalAt before another one set it
    setBack       \* history: such a thread has set signalAt back

server == <<log, signals, published>>
place == <<file, from, pos>>
cursor == <<last, ending, attempt>>
detector == <<signalAt, overtaken, setBack>>
history == <<failed, torn>>
vars == <<lines, mapped, heard, place, pc, cursor, detector, server, history>>

End == MaxLines + 1
Working == {"read", "mapping", "start", "post", "detect", "signal", "harvest",
            "publish", "submit", "forget"}
Left == {"quiet", "outside", "gaveup", "dead", "gone"}

TypeOK ==
    /\ \A f \in Files : lines[f] \in Seq(BOOLEAN)
    /\ heard \in [Files -> SUBSET (1..End)]
    /\ mapped \subseteq Files
    /\ file \in [Tailers -> Files \cup {None}]
    /\ from \in [Tailers -> 0..MaxLines] /\ pos \in [Tailers -> 0..MaxLines]
    /\ pc \in [Tailers -> Working \cup Left \cup {"idle"}]
    /\ last \in [Tailers -> 0..MaxLines] /\ ending \in [Tailers -> BOOLEAN]
    /\ attempt \in [Tailers -> 1..Attempts]
    /\ signalAt \in Nat \cup {None}
    /\ overtaken \subseteq Tailers /\ setBack \in BOOLEAN
    /\ \A t \in Tailers : log[t] \in Seq(1..End) /\ signals[t] \in Seq(1..End)
    /\ published \subseteq Tailers
    /\ failed \in [Tailers -> SUBSET (1..End)]
    /\ torn \in [Tailers -> SUBSET (1..MaxLines)]

Init ==
    /\ lines = [f \in Files |-> << >>]
    /\ mapped = {} /\ heard = [f \in Files |-> {}]
    /\ file = [t \in Tailers |-> None]
    /\ from = [t \in Tailers |-> 0] /\ pos = [t \in Tailers |-> 0]
    /\ pc = [t \in Tailers |-> "idle"]
    /\ last = [t \in Tailers |-> 0] /\ ending = [t \in Tailers |-> FALSE]
    /\ attempt = [t \in Tailers |-> 1]
    /\ signalAt = None /\ overtaken = {} /\ setBack = FALSE
    /\ log = [t \in Tailers |-> << >>] /\ signals = [t \in Tailers |-> << >>]
    /\ published = {}
    /\ failed = [t \in Tailers |-> {}] /\ torn = [t \in Tailers |-> {}]

-----------------------------------------------------------------------------
Go(t, to) == pc' = [pc EXCEPT ![t] = to]

\* The event in hand: a line of the file, or the session_end made from last_event.
Current(t) == IF ending[t] THEN End ELSE pos[t]

Unread(t) == pos[t] < Len(lines[file[t]])

\* The agent appends a line to its session file.
AppendLine(f) ==
    /\ Len(lines[f]) < MaxLines
    /\ \E inside \in BOOLEAN : lines' = [lines EXCEPT ![f] = Append(@, inside)]
    /\ UNCHANGED <<mapped, heard, place, pc, cursor, detector, server, history>>

\* watch() or on_created starts a thread; it tails from the end of the file.
StartTail(t) ==
    /\ pc[t] = "idle" /\ Go(t, "read")
    /\ \E f \in Files :
         /\ file' = [file EXCEPT ![t] = f]
         /\ from' = [from EXCEPT ![t] = Len(lines[f])]
         /\ pos' = [pos EXCEPT ![t] = Len(lines[f])]
    /\ UNCHANGED <<lines, mapped, heard, cursor, detector, server, history>>

AllowedOnceMapped(t, i) == lines[file[t]][i] \/ file[t] \in mapped

\* _event_allowed
EventAllowed(t, i) == lines[file[t]][i]

\* The next line is read and parsed.  process_event() drops an event outside of the
\* allowed projects, and its None ends the thread.
ReadLine(t) ==
    /\ pc[t] = "read" /\ Unread(t)
    /\ pos' = [pos EXCEPT ![t] = @ + 1]
    /\ attempt' = [attempt EXCEPT ![t] = 1]
    /\ \/ EventAllowed(t, pos[t] + 1) /\ Go(t, "mapping")
       \/ ~EventAllowed(t, pos[t] + 1) /\ Go(t, "outside")
    /\ UNCHANGED <<lines, mapped, heard, file, from, last, ending, detector, server,
                   history>>

\* readline() catches the last line half written: neither piece parses.
ReadTornLine(t) ==
    /\ pc[t] = "read" /\ pos[t] + 1 = Len(lines[file[t]])
    /\ pos' = [pos EXCEPT ![t] = @ + 1]
    /\ torn' = [torn EXCEPT ![t] = @ \cup {pos[t] + 1}]
    /\ UNCHANGED <<lines, mapped, heard, file, from, pc, cursor, detector, server, failed>>

\* A line that was caught in the middle of a character, or that parse_line() raises for:
\* nothing catches that, and the thread ends.
ReadRaises(t) ==
    /\ pc[t] = "read" /\ Unread(t) /\ Go(t, "dead")
    /\ UNCHANGED <<lines, mapped, heard, place, cursor, detector, server, history>>

\* No new line for quiet_seconds: the session is taken to have ended.
Quiet(t) ==
    /\ pc[t] = "read" /\ ~Unread(t)
    /\ \/ /\ last[t] = 0 /\ Go(t, "quiet")
          /\ UNCHANGED <<ending, attempt>>
       \/ /\ last[t] # 0 /\ Go(t, "mapping")
          /\ ending' = [ending EXCEPT ![t] = TRUE]
          /\ attempt' = [attempt EXCEPT ![t] = 1]
    /\ UNCHANGED <<lines, mapped, heard, place, last, detector, server, history>>

-----------------------------------------------------------------------------
(* process_event, tried up to Attempts times by _process_event_from_tail.  *)

FailOffByOne(t) ==
    /\ failed' = [failed EXCEPT ![t] = @ \cup {Current(t)}]
    /\ \/ /\ attempt[t] <= Attempts /\ Go(t, "mapping")
          /\ attempt' = [attempt EXCEPT ![t] = @ + 1]
       \/ /\ attempt[t] > Attempts /\ Go(t, "gaveup")
          /\ UNCHANGED attempt
    /\ UNCHANGED <<last, ending>>

FailForever(t) ==
    /\ failed' = [failed EXCEPT ![t] = @ \cup {Current(t)}]
    /\ Go(t, "mapping")
    /\ UNCHANGED <<last, ending, attempt>>

FailThenGoOn(t) ==
    /\ failed' = [failed EXCEPT ![t] = @ \cup {Current(t)}]
    /\ \/ /\ attempt[t] < Attempts /\ Go(t, "mapping")
          /\ attempt' = [attempt EXCEPT ![t] = @ + 1]
       \/ /\ attempt[t] = Attempts /\ Go(t, IF ending[t] THEN "harvest" ELSE "read")
          /\ UNCHANGED attempt
    /\ UNCHANGED <<last, ending>>

\* An exception: process_event() is called again from its start, or the thread ends.
Fail(t) ==
    /\ failed' = [failed EXCEPT ![t] = @ \cup {Current(t)}]
    /\ \/ /\ attempt[t] < Attempts /\ Go(t, "mapping")
          /\ attempt' = [attempt EXCEPT ![t] = @ + 1]
       \/ /\ attempt[t] = Attempts /\ Go(t, "gaveup")
          /\ UNCHANGED attempt
    /\ UNCHANGED <<last, ending>>

\* process_event() returns the mapping: read on, or harvest after the session_end.
Succeed(t) ==
    /\ \/ ending[t] /\ Go(t, "harvest") /\ UNCHANGED last
       \/ ~ending[t] /\ Go(t, "read") /\ last' = [last EXCEPT ![t] = pos[t]]
    /\ UNCHANGED <<ending, attempt, failed>>

GetMapping(t) ==
    /\ pc[t] = "mapping"
    /\ Go(t, IF file[t] \in mapped THEN "post" ELSE "start")
    /\ UNCHANGED <<lines, mapped, heard, place, cursor, detector, server, history>>

\* client.start_session, then session_store.put, whose save may fail after it has put.
StartSession(t) ==
    /\ pc[t] = "start"
    /\ \/ /\ mapped' = mapped \cup {file[t]} /\ Go(t, "post")
          /\ UNCHANGED <<last, ending, attempt, failed>>
       \/ Fail(t) /\ mapped' \in {mapped, mapped \cup {file[t]}}
    /\ UNCHANGED <<lines, heard, place, detector, server, torn>>

Deliver(t) == log' = [log EXCEPT ![t] = Append(@, Current(t))]
Hear(t) == heard' = [heard EXCEPT ![file[t]] = @ \cup {Current(t)}]

\* client.post_event fails before or after the server got the event.
PostEventFails(t) ==
    /\ pc[t] = "post"
    /\ Deliver(t) \/ UNCHANGED log
    /\ Fail(t)
    /\ UNCHANGED <<lines, mapped, heard, place, detector, signals, published, torn>>

\* The timestamp of the event in hand: the session_end event has last_event's.
StampOf(t) == Stamp[file[t]][IF ending[t] THEN last[t] ELSE pos[t]]

InCooldownNever(t) == FALSE

\* _in_cooldown
InCooldown(t) == signalAt # None /\ StampOf(t) - signalAt < Cooldown

\* The event is posted, remembered, and given to the detector, which looks at its cooldown.
PostEvent(t) ==
    /\ pc[t] = "post"
    /\ Deliver(t) /\ Hear(t)
    /\ \/ InCooldown(t) /\ Succeed(t)
       \/ /\ ~InCooldown(t) /\ Go(t, "detect")
          /\ UNCHANGED <<last, ending, attempt, failed>>
    /\ UNCHANGED <<lines, mapped, place, detector, signals, published, torn>>

\* process() goes on without a lock: the thread finds nothing, or it sets the cooldown
\* and has a signal, whatever another thread has set since it looked.
Detect(t) ==
    /\ pc[t] = "detect"
    /\ \/ /\ Succeed(t) /\ overtaken' = overtaken \ {t}
          /\ UNCHANGED <<signalAt, setBack>>
       \/ /\ Go(t, "signal") /\ signalAt' = StampOf(t)
          /\ overtaken' = {u \in Tailers \ {t} : pc[u] = "detect"}
          /\ setBack' = (setBack \/ (t \in overtaken /\ StampOf(t) < signalAt))
          /\ UNCHANGED <<last, ending, attempt, failed>>
    /\ UNCHANGED <<lines, mapped, heard, place, server, torn>>

\* The threads share the detector: its deque changes while this one iterates over it,
\* a RuntimeError.
DetectorRaises(t) ==
    /\ pc[t] = "detect"
    /\ \E u \in Tailers \ {t} : pc[u] \in Working
    /\ Fail(t) /\ overtaken' = overtaken \ {t}
    /\ UNCHANGED <<lines, mapped, heard, place, signalAt, setBack, server, torn>>

Signal(t) == signals' = [signals EXCEPT ![t] = Append(@, Current(t))]

PostSignal(t) ==
    /\ pc[t] = "signal"
    /\ \/ Signal(t) /\ Succeed(t)
       \/ (Signal(t) \/ UNCHANGED signals) /\ Fail(t)
    /\ UNCHANGED <<lines, mapped, heard, place, detector, log, published, torn>>

-----------------------------------------------------------------------------
(* After the session_end event.                                            *)

\* harvester.harvest: nothing to harvest, a candidate, or an exception, which ends
\* the thread.
Harvest(t) ==
    /\ pc[t] = "harvest"
    /\ \E to \in {"forget", "publish", "dead"} : Go(t, to)
    /\ UNCHANGED <<lines, mapped, heard, place, cursor, detector, server, history>>

\* _publish_harvest_candidate swallows the errors of publish_issue only.
Publish(t) ==
    /\ pc[t] = "publish"
    /\ published' \in {published, published \cup {t}}
    /\ Go(t, IF AutoSubmit THEN "submit" ELSE "forget")
    /\ UNCHANGED <<lines, mapped, heard, place, cursor, detector, log, signals, history>>

SubmitCandidate(t) ==
    /\ pc[t] = "submit"
    /\ \E to \in {"forget", "dead"} : Go(t, to)
    /\ UNCHANGED <<lines, mapped, heard, place, cursor, detector, server, history>>

ForgetNothing(t) ==
    /\ pc[t] = "forget" /\ Go(t, "quiet")
    /\ UNCHANGED <<lines, mapped, heard, place, cursor, detector, server, history>>

\* session_store.remove
Forget(t) ==
    /\ pc[t] = "forget" /\ Go(t, "quiet")
    /\ mapped' = mapped \ {file[t]}
    /\ UNCHANGED <<lines, heard, place, cursor, detector, server, history>>

\* The watcher is killed.  The mappings are on disk, the events heard are not.
Kill ==
    /\ \E t \in Tailers : pc[t] \in Working
    /\ pc' = [t \in Tailers |-> IF pc[t] \in Working THEN "gone" ELSE pc[t]]
    /\ heard' = [f \in Files |-> {}]
    /\ UNCHANGED <<lines, mapped, place, cursor, detector, server, history>>

-----------------------------------------------------------------------------
Proceed(t) ==
    \/ ReadLine(t) \/ Quiet(t)
    \/ GetMapping(t) \/ StartSession(t) \/ PostEvent(t) \/ PostEventFails(t)
    \/ Detect(t) \/ DetectorRaises(t) \/ PostSignal(t)
    \/ Harvest(t) \/ Publish(t) \/ SubmitCandidate(t) \/ Forget(t)

Next ==
    \/ \E f \in Files : AppendLine(f)
    \/ \E t \in Tailers : StartTail(t) \/ Proceed(t) \/ ReadTornLine(t) \/ ReadRaises(t)
    \/ Kill

Spec == Init /\ [][Next]_vars

\* A thread goes on, its calls of the server answer or time out, and an agent that
\* has stopped writing lets the quiet timer fire.
LiveSpec == Spec /\ \A t \in Tailers : WF_vars(Proceed(t))

-----------------------------------------------------------------------------
(* Properties.                                                             *)

\* Nothing from outside of the allowed projects is forwarded, by any path: retries,
\* signals and the session_end event included.
OnlyAllowedForwarded ==
    \A t \in Tailers : \A i \in Range(log[t]) \cup Range(signals[t]) :
        i = End \/ lines[file[t]][i]

\* What is forwarded has no gaps: the events between the first line after the start of
\* the tail and the last one delivered were all delivered, torn lines excepted.
NoGaps ==
    \A t \in Tailers : \A i \in Range(log[t]) :
        \A j \in (from[t] + 1)..(IF i = End THEN last[t] ELSE i) :
            j \in Range(log[t]) \/ j \in torn[t]

\* However often an event is retried, a stuck signal is sent twice for it only after a
\* thread has set the detector's cooldown back, which takes one that had looked at it
\* before another one set it.  (A signal may be lost: the cooldown is set before it is
\* posted.)
SignalOnce ==
    \A t \in Tailers : \A i, j \in DOMAIN signals[t] :
        i # j /\ signals[t][i] = signals[t][j] => setBack

\* When a session is harvested the server has its session_end, and the harvester sees
\* every event that the thread delivered and nothing that was not delivered.
HarvestSeesDelivered ==
    \A t \in Tailers : pc[t] \in {"harvest", "publish", "submit"} =>
        /\ End \in Range(log[t]) /\ Range(log[t]) \subseteq heard[file[t]]
        /\ heard[file[t]] \subseteq
             UNION {Range(log[u]) : u \in {u \in Tailers : file[u] = file[t]}}

\* A mapping is left in the store only by a thread that did not end its session: one
\* that saw an outside event, gave up, raised or was killed.
NoStaleMapping ==
    \A f \in mapped : \E t \in Tailers :
        file[t] = f /\ pc[t] \in (Working \cup Left) \ {"quiet"}

\* In file order, each event at most Attempts times, nothing after session_end.
Delivery == INSTANCE EventDelivery WITH LastEvent <- End, delivered <- log
DeliversInOrder == Delivery!Spec

\* A tail always ends, whatever the server does.
TailEnds == \A t \in Tailers : pc[t] = "read" ~> pc[t] \in Left

\* "forwards in-project events and drops out-of-project events": an event that is
\* dropped does not keep the later ones from being forwarded.  It does: the thread
\* that dropped it has ended, and the rest of the file is never read.
ForwardsAllowed ==
    \A t \in Tailers : pc[t] = "outside" =>
        \A i \in (from[t] + 1)..Len(lines[file[t]]) :
            lines[file[t]][i] => i \in Range(log[t]) \cup torn[t]
=============================================================================
