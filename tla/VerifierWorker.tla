--------------------------- MODULE VerifierWorker ---------------------------
(***************************************************************************)
(* The background verifier of the server (fixlog/workers/verifier.py) and  *)
(* the request threads that hand new entries to it                         *)
(* (fixlog/api/entries.py, create_entry and _schedule_auto_verification).  *)
(*                                                                         *)
(* Three kinds of thread share the worker object:                          *)
(*   - one request thread per POST /entries, in the server's thread pool;  *)
(*   - the event loop, which runs enqueue(), _loop(), start() and stop();  *)
(*     code between two awaits is one step;                                *)
(*   - one thread per verify_entry() call (asyncio.to_thread), which a     *)
(*     cancelled _loop() task leaves running.                              *)
(* Verification rows and entries are in the database and survive a crash;  *)
(* everything else belongs to the process.                                 *)
(***************************************************************************)
EXTENDS Naturals, Sequences, FiniteSets

CONSTANTS
    Entries,      \* the entries that POST /entries creates
    QueueSize,    \* maxsize of the asyncio.Queue
    Results,      \* what verify_entry may conclude, of "pass", "fail", "partial"
    NoVerdict,    \* no AUTO_SANDBOX verdict row yet
    None,         \* Python's None: the stop sentinel, and "no job"
    MaxStarts,    \* bound: calls of start()
    MaxCrashes    \* bound: kills of the server process

ASSUME QueueSizeAssumption == QueueSize \in Nat \ {0}
ASSUME ResultsAssumption == Results \subseteq {"pass", "fail", "partial"}
ASSUME NoneAssumption == None \notin Entries
ASSUME NoVerdictAssumption == NoVerdict \notin {"pass", "fail", "partial"}
ASSUME BoundsAssumption == MaxStarts \in Nat /\ MaxCrashes \in Nat

VARIABLES
    \* The database.
    verdict,      \* the row verify_entry() committed for an entry
    overflow,     \* the entries with a "queue overflow" row
    \* The request threads.
    pc,           \* where the request that creates an entry is
    call,         \* its enqueue() coroutine: none, pending, accepted or rejected
    \* The worker object.
    queue,        \* asyncio.Queue of entries and sentinels
    task,         \* the _loop() task: none, get, wait or finished
    current,      \* the job the task awaits in to_thread, or None
    job,          \* the verify_entry() thread of each entry
    running,      \* _running
    stopping,     \* _stopping
    loopSet,      \* _event_loop is not None
    stopper,      \* stop() awaits the task: idle or waiting
    counts,       \* result_counts
    seen,         \* the count a thread has read and not yet written back
    \* The process, and the history the properties refer to.
    up,           \* a server process is running
    starts,
    crashes,
    gaveUp,       \* entries whose request stopped waiting for enqueue()
    excused,      \* entries whose loss the code accepts (an error, stop or a crash)
    stopTimedOut  \* a stop() of this process has timed out

rows == <<verdict, overflow>>
request == <<pc, call>>
flags == <<running, stopping, loopSet>>
tally == <<counts, seen>>
loop == <<queue, task, current>>
process == <<up, starts, crashes>>
history == <<gaveUp, excused, stopTimedOut>>
vars == <<rows, request, loop, job, flags, stopper, tally, process, history>>

Kinds == {"pass", "fail", "partial"}
Threads == {"request", "job"}
RequestSteps == {"idle", "committed", "admitted", "waiting", "refused",
                 "recorded", "counting", "done", "failed", "gone"}
JobSteps == {"none", "running", "written", "counting", "done", "failed"}
Active == {"running", "written", "counting"}

Queued(e) == \E i \in DOMAIN queue : queue[i] = e
Handled(e) == verdict[e] # NoVerdict \/ e \in overflow

TypeOK ==
    /\ verdict \in [Entries -> Results \cup {NoVerdict}]
    /\ overflow \subseteq Entries
    /\ pc \in [Entries -> RequestSteps]
    /\ call \in [Entries -> {"none", "pending", "accepted", "rejected"}]
    /\ queue \in Seq(Entries \cup {None})
    /\ task \in {"none", "get", "wait", "finished"}
    /\ current \in Entries \cup {None}
    /\ job \in [Entries -> JobSteps]
    /\ running \in BOOLEAN /\ stopping \in BOOLEAN /\ loopSet \in BOOLEAN
    /\ stopper \in {"idle", "waiting"}
    /\ counts \in [Kinds -> Nat]
    /\ seen \in [Threads -> [Entries -> Nat]]
    /\ up \in BOOLEAN /\ starts \in 0..MaxStarts /\ crashes \in 0..MaxCrashes
    /\ gaveUp \subseteq Entries /\ excused \subseteq Entries
    /\ stopTimedOut \in BOOLEAN

Init ==
    /\ verdict = [e \in Entries |-> NoVerdict] /\ overflow = {}
    /\ pc = [e \in Entries |-> "idle"]
    /\ call = [e \in Entries |-> "none"]
    /\ queue = << >> /\ task = "none" /\ current = None
    /\ job = [e \in Entries |-> "none"]
    /\ running = FALSE /\ stopping = FALSE /\ loopSet = FALSE
    /\ stopper = "idle"
    /\ counts = [k \in Kinds |-> 0]
    /\ seen = [t \in Threads |-> [e \in Entries |-> 0]]
    /\ up = FALSE /\ starts = 0 /\ crashes = 0
    /\ gaveUp = {} /\ excused = {} /\ stopTimedOut = FALSE

-----------------------------------------------------------------------------
(* A request thread.                                                       *)

Goto(e, from, to) == pc[e] = from /\ pc' = [pc EXCEPT ![e] = to]

\* POST /entries commits the entry; scheduling comes after the commit.
CreateEntry(e) ==
    /\ up
    /\ Goto(e, "idle", "committed")
    /\ UNCHANGED <<rows, call, loop, job, flags, stopper, tally, process, history>>

\* The entry cannot be loaded again after its commit: nothing schedules it.
ReloadFails(e) ==
    /\ Goto(e, "committed", "failed")
    /\ excused' = excused \cup {e}
    /\ UNCHANGED <<rows, call, loop, job, flags, stopper, tally, process,
                   gaveUp, stopTimedOut>>

\* enqueue_threadsafe, its first test: a worker that is not running refuses.
CheckRunning(e) ==
    /\ IF loopSet /\ running /\ ~stopping
         THEN Goto(e, "committed", "admitted")
         ELSE Goto(e, "committed", "refused")
    /\ UNCHANGED <<rows, call, loop, job, flags, stopper, tally, process, history>>

\* run_coroutine_threadsafe(enqueue(entry_id), self._event_loop): the attribute
\* is read again here, and stop() may have cleared it since the test.
Submit(e) ==
    /\ \/ /\ loopSet
          /\ Goto(e, "admitted", "waiting")
          /\ call' = [call EXCEPT ![e] = "pending"]
          /\ UNCHANGED excused
       \/ /\ ~loopSet
          /\ Goto(e, "admitted", "failed")
          /\ excused' = excused \cup {e}
          /\ UNCHANGED call
    /\ UNCHANGED <<rows, loop, job, flags, stopper, tally, process, gaveUp, stopTimedOut>>

ReceiveResultIgnored(e) ==
    /\ call[e] \in {"accepted", "rejected"} /\ Goto(e, "waiting", "refused")
    /\ UNCHANGED <<rows, call, loop, job, flags, stopper, tally, process, history>>

\* future.result() returns what enqueue() returned.
ReceiveResult(e) ==
    /\ \/ call[e] = "accepted" /\ Goto(e, "waiting", "done")
       \/ call[e] = "rejected" /\ Goto(e, "waiting", "refused")
    /\ UNCHANGED <<rows, call, loop, job, flags, stopper, tally, process, history>>

\* future.result(timeout=1) times out.  The coroutine is not cancelled: it may be
\* pending still, or have run with its result not yet handed to this thread.
WaitTimesOut(e) ==
    /\ Goto(e, "waiting", "refused")
    /\ gaveUp' = gaveUp \cup {e}
    /\ UNCHANGED <<rows, call, loop, job, flags, stopper, tally, process,
                   excused, stopTimedOut>>

\* write_queue_overflow commits a PARTIAL row.
WriteOverflow(e) ==
    /\ Goto(e, "refused", "recorded")
    /\ overflow' = overflow \cup {e}
    /\ UNCHANGED <<verdict, call, loop, job, flags, stopper, tally, process, history>>

OverflowCountedAnyway(e) ==
    /\ Goto(e, "refused", "recorded")
    /\ excused' = excused \cup {e}
    /\ UNCHANGED <<rows, call, loop, job, flags, stopper, tally, process,
                   gaveUp, stopTimedOut>>

\* write_queue_overflow raises (the database), before its commit or at the refresh
\* after it; the caller logs and goes on.
OverflowFails(e) ==
    /\ \/ /\ Goto(e, "refused", "failed")
          /\ excused' = excused \cup {e}
       \/ /\ Goto(e, "recorded", "failed")
          /\ UNCHANGED excused
    /\ UNCHANGED <<rows, call, loop, job, flags, stopper, tally, process,
                   gaveUp, stopTimedOut>>

\* result_counts["partial"] += 1 reads, and later writes back.
ReadCount(e) ==
    /\ Goto(e, "recorded", "counting")
    /\ seen' = [seen EXCEPT !["request"][e] = counts["partial"]]
    /\ UNCHANGED <<rows, call, loop, job, flags, stopper, counts, process, history>>

WriteCount(e) ==
    /\ Goto(e, "counting", "done")
    /\ counts' = [counts EXCEPT !["partial"] = seen["request"][e] + 1]
    /\ seen' = [seen EXCEPT !["request"][e] = 0]
    /\ UNCHANGED <<rows, call, loop, job, flags, stopper, process, history>>

-----------------------------------------------------------------------------
(* The event loop: enqueue() and _loop().                                  *)

Full == Len(queue) >= QueueSize

Accepting == ~stopping /\ ~Full

EnqueueDropsWhenFull(e) ==
    /\ up /\ call[e] = "pending"
    /\ call' = [call EXCEPT ![e] = IF stopping THEN "rejected" ELSE "accepted"]
    /\ queue' = IF Accepting THEN Append(queue, e) ELSE queue
    /\ UNCHANGED <<rows, pc, task, current, job, flags, stopper, tally, process, history>>

\* The enqueue() coroutine: no await inside, so the test and the put are one step.
Enqueue(e) ==
    /\ up /\ call[e] = "pending"
    /\ \/ /\ Accepting
          /\ call' = [call EXCEPT ![e] = "accepted"]
          /\ queue' = Append(queue, e)
       \/ /\ ~Accepting
          /\ call' = [call EXCEPT ![e] = "rejected"]
          /\ UNCHANGED queue
    /\ UNCHANGED <<rows, pc, task, current, job, flags, stopper, tally, process, history>>

\* _loop() takes the next item; the sentinel ends it.
GetJob ==
    /\ task = "get" /\ queue # << >>
    /\ queue' = Tail(queue)
    /\ IF Head(queue) = None
         THEN /\ task' = "finished"
              /\ UNCHANGED <<current, job>>
         ELSE /\ task' = "wait"
              /\ current' = Head(queue)
              /\ job' = [job EXCEPT ![Head(queue)] = "running"]
    /\ UNCHANGED <<rows, request, flags, stopper, tally, process, history>>

NextJobWithoutAwait ==
    /\ task = "wait"
    /\ task' = "get" /\ current' = None
    /\ UNCHANGED <<rows, request, queue, job, flags, stopper, tally, process, history>>

NextJobUnlessFailed ==
    /\ task = "wait" /\ job[current] = "done"
    /\ task' = "get" /\ current' = None
    /\ UNCHANGED <<rows, request, queue, job, flags, stopper, tally, process, history>>

\* _loop() goes on after verify_entry() returned or raised (the exception is caught).
NextJob ==
    /\ task = "wait" /\ job[current] \in {"done", "failed"}
    /\ task' = "get" /\ current' = None
    /\ UNCHANGED <<rows, request, queue, job, flags, stopper, tally, process, history>>

-----------------------------------------------------------------------------
(* A verify_entry() thread.                                                *)

JobStep(e, from, to) == job[e] = from /\ job' = [job EXCEPT ![e] = to]

\* verify_entry() commits the verdict of _verify_loaded_entry.
CommitVerdict(e) ==
    /\ JobStep(e, "running", "written")
    /\ \E r \in Results : verdict' = [verdict EXCEPT ![e] = r]
    /\ UNCHANGED <<overflow, request, loop, flags, stopper, tally, process, history>>

\* verify_entry() raises: _load_entry or _create_verification on a database error,
\* the latter also at its refresh, when the row is there and is not counted.
JobFails(e) ==
    /\ \/ /\ JobStep(e, "running", "failed")
          /\ excused' = excused \cup {e}
       \/ /\ JobStep(e, "written", "failed")
          /\ UNCHANGED excused
    /\ UNCHANGED <<rows, request, loop, flags, stopper, tally, process,
                   gaveUp, stopTimedOut>>

JobReadsCount(e) ==
    /\ JobStep(e, "written", "counting")
    /\ seen' = [seen EXCEPT !["job"][e] = counts[verdict[e]]]
    /\ UNCHANGED <<rows, request, loop, flags, stopper, counts, process, history>>

JobWritesCount(e) ==
    /\ JobStep(e, "counting", "done")
    /\ counts' = [counts EXCEPT ![verdict[e]] = seen["job"][e] + 1]
    /\ seen' = [seen EXCEPT !["job"][e] = 0]
    /\ UNCHANGED <<rows, request, loop, flags, stopper, process, history>>

-----------------------------------------------------------------------------
(* start(), stop() and the process.                                        *)

Start ==
    /\ task = "none" /\ stopper = "idle" /\ starts < MaxStarts
    /\ up' = TRUE /\ starts' = starts + 1
    /\ running' = TRUE /\ stopping' = FALSE /\ loopSet' = TRUE
    /\ task' = "get"
    /\ UNCHANGED <<rows, request, queue, current, job, stopper, tally, crashes, history>>

StopWithoutSentinel ==
    /\ task # "none" /\ stopper = "idle"
    /\ running' = FALSE /\ stopping' = TRUE
    /\ queue' = << >>
    /\ excused' = excused \cup {e \in Entries : Queued(e)}
    /\ stopper' = "waiting"
    /\ UNCHANGED <<rows, request, task, current, job, loopSet, tally, process,
                   gaveUp, stopTimedOut>>

\* stop() up to its await: refuse new jobs, discard the queued ones, put the sentinel.
Stop ==
    /\ task # "none" /\ stopper = "idle"
    /\ running' = FALSE /\ stopping' = TRUE
    /\ queue' = <<None>>
    /\ excused' = excused \cup {e \in Entries : Queued(e)}
    /\ stopper' = "waiting"
    /\ UNCHANGED <<rows, request, task, current, job, loopSet, tally, process,
                   gaveUp, stopTimedOut>>

StopReturnsAtOnce ==
    /\ stopper = "waiting"
    /\ stopper' = "idle" /\ task' = "none" /\ loopSet' = FALSE
    /\ UNCHANGED <<rows, request, queue, current, job, running, stopping, tally,
                   process, history>>

\* The task has ended by itself: wait_for returns.
StopReturns ==
    /\ stopper = "waiting" /\ task = "finished"
    /\ stopper' = "idle" /\ task' = "none" /\ loopSet' = FALSE
    /\ UNCHANGED <<rows, request, queue, current, job, running, stopping, tally,
                   process, history>>

\* wait_for times out and cancels the task; a verify_entry() thread is not
\* cancelled, and the sentinel stays in the queue.
StopTimesOut ==
    /\ stopper = "waiting" /\ task \in {"get", "wait"}
    /\ stopper' = "idle" /\ task' = "none" /\ loopSet' = FALSE
    /\ current' = None
    /\ stopTimedOut' = TRUE
    /\ UNCHANGED <<rows, request, queue, job, running, stopping, tally, process,
                   gaveUp, excused>>

\* The process is killed: a new one starts from __init__ and finds only the rows.
Crash ==
    /\ up /\ crashes < MaxCrashes
    /\ up' = FALSE /\ crashes' = crashes + 1
    /\ excused' = excused \cup {e \in Entries : pc[e] # "idle" /\ ~Handled(e)}
    /\ pc' = [e \in Entries |-> IF pc[e] \in {"idle", "done", "failed"}
                                THEN pc[e] ELSE "gone"]
    /\ call' = [e \in Entries |-> IF call[e] = "pending" THEN "none" ELSE call[e]]
    /\ job' = [e \in Entries |-> IF job[e] \in Active THEN "failed" ELSE job[e]]
    /\ queue' = << >> /\ task' = "none" /\ current' = None
    /\ running' = FALSE /\ stopping' = FALSE /\ loopSet' = FALSE
    /\ stopper' = "idle" /\ stopTimedOut' = FALSE
    /\ counts' = [k \in Kinds |-> 0]
    /\ seen' = [t \in Threads |-> [e \in Entries |-> 0]]
    /\ UNCHANGED <<rows, starts, gaveUp>>

-----------------------------------------------------------------------------
RequestNext(e) ==
    \/ ReloadFails(e) \/ CheckRunning(e) \/ Submit(e) \/ ReceiveResult(e)
    \/ WriteOverflow(e) \/ OverflowFails(e) \/ ReadCount(e) \/ WriteCount(e)

JobNext(e) ==
    \/ CommitVerdict(e) \/ JobFails(e) \/ JobReadsCount(e) \/ JobWritesCount(e)

Next ==
    \/ \E e \in Entries :
         CreateEntry(e) \/ RequestNext(e) \/ WaitTimesOut(e) \/ Enqueue(e) \/ JobNext(e)
    \/ GetJob \/ NextJob
    \/ Start \/ Stop \/ StopReturns \/ StopTimesOut \/ Crash

Spec == Init /\ [][Next]_vars

\* The threads keep running, the event loop runs what is ready, and every runner
\* call is bounded by a timeout, so verify_entry() ends.  Nobody has to create
\* entries, call start() or stop(), or be late.
Fairness ==
    /\ \A e \in Entries : /\ WF_vars(RequestNext(e))
                          /\ WF_vars(Enqueue(e))
                          /\ WF_vars(JobNext(e))
    /\ WF_vars(GetJob) /\ WF_vars(NextJob) /\ WF_vars(StopReturns)

LiveSpec == Spec /\ Fairness

-----------------------------------------------------------------------------
(* Properties.                                                             *)

\* An entry is queued at most once, and not again once its verification has
\* started, although a request may time out while its coroutine is still pending.
QueuedOnce ==
    /\ \A i, j \in DOMAIN queue : queue[i] = queue[j] /\ queue[i] # None => i = j
    /\ \A e \in Entries : Queued(e) => job[e] = "none"

\* "queue overflow" and a sandbox verdict for the same entry contradict each other:
\* only the request that gave up waiting for enqueue() can cause both.
TwoRowsOnlyAfterTimeout ==
    \A e \in Entries : verdict[e] # NoVerdict /\ e \in overflow => e \in gaveUp

\* When a request has been answered, its entry has a row, or is queued, or is being
\* verified, or was lost to an error, a stop() or a crash: never silently.
NoSilentLoss ==
    \A e \in Entries : pc[e] \in {"done", "failed", "gone"} =>
        Handled(e) \/ Queued(e) \/ job[e] \in Active \/ e \in excused

\* Verifications run one at a time, awaited by the loop: no sandbox is still in use
\* when stop() has returned or the next job starts, unless a stop() timed out.
JobOwned ==
    \A e \in Entries : job[e] \in Active =>
        (task = "wait" /\ current = e) \/ stopTimedOut

\* A worker that says it is running has a live loop, unless a stop() that timed out
\* left its sentinel in the queue for the next start() to find.
LoopAlive == running /\ ~stopTimedOut => task \in {"get", "wait"}

\* result_counts never reports more results than there are rows, whatever the
\* interleaving of the unsynchronised increments (it may report fewer).
CountsSound ==
    \A k \in Kinds :
        counts[k] <= Cardinality({e \in Entries : verdict[e] = k})
                     + (IF k = "partial" THEN Cardinality(overflow) ELSE 0)

\* Every committed entry gets a row, or is lost for a reason that NoSilentLoss
\* names: a job that raises does not keep the later jobs from running.  The exception
\* is a stop() that timed out: what the next start() queues behind its sentinel stays.
EveryEntryHandled ==
    \A e \in Entries :
        pc[e] = "committed" ~> (Handled(e) \/ e \in excused \/ stopTimedOut)

\* stop() ends even if its timer never fires: the sentinel ends the loop.
StopEnds == stopper = "waiting" ~> stopper = "idle"

-----------------------------------------------------------------------------
(* The inductive invariant behind the safety properties.                   *)

\* How far a request has come says what its coroutine can have answered.
RequestAgrees(e) ==
    /\ pc[e] \in {"idle", "committed", "admitted"} => call[e] = "none"
    /\ pc[e] = "waiting" => call[e] # "none"
    /\ pc[e] \in {"idle", "committed", "admitted", "waiting", "refused"} => e \notin overflow
    /\ pc[e] \in {"refused", "recorded", "counting"} \/ e \in overflow
         => e \in gaveUp \/ call[e] \in {"none", "rejected"}
    /\ pc[e] \in {"recorded", "counting"} => e \in overflow
    /\ pc[e] = "done" => call[e] = "accepted" \/ e \in overflow
    /\ pc[e] \in {"failed", "gone"} => e \in excused \/ Handled(e)

\* Only an accepted entry is queued or verified, and it is never out of sight.
JobAgrees(e) ==
    /\ Queued(e) \/ job[e] # "none" \/ verdict[e] # NoVerdict => call[e] = "accepted"
    /\ job[e] \in {"written", "counting", "done"} => verdict[e] # NoVerdict
    /\ call[e] = "accepted" =>
         Handled(e) \/ Queued(e) \/ job[e] = "running" \/ e \in excused

\* While no stop() has timed out, the sentinel is there only between stop() and the
\* end of the loop, and then it is alone.
StopProtocol ==
    /\ stopper = "waiting" => ~running /\ stopping
    /\ running => task # "none"
    /\ task = "wait" => current \in Entries
    /\ ~stopTimedOut =>
        IF stopper = "waiting"
          THEN \/ queue = <<None>> /\ task \in {"get", "wait"}
               \/ queue = << >> /\ task = "finished"
          ELSE task # "finished" /\ \A i \in DOMAIN queue : queue[i] # None

\* What every step preserves: TypeOK and the three relations above, with the
\* properties that are inductive beside them.
IndInv ==
    /\ TypeOK
    /\ QueuedOnce
    /\ JobOwned
    /\ StopProtocol
    /\ \A e \in Entries : RequestAgrees(e) /\ JobAgrees(e)
=============================================================================
