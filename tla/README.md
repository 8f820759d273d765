# Verification of Fixlog

Fixlog is a server to which coding agents report errors and fixes (`fixlog/`, FastAPI,
SQLAlchemy over SQLite, a background verifier that runs Docker sandboxes) and a harness on
the developer's machine (`fixlog_harness/`) that tails the session logs of an agent and
forwards their events. This directory holds TLA+ models of the parts whose correctness
depends on interleavings, failures and boundaries, their TLC configurations, and TLAPS
proofs about all of the components. Paths below are relative to `src/`.

To run something: `tlc -config Server.cfg MCServer.tla`, `tlapm KnowledgeBaseProofs.tla`.

## Inventory

| component | state | operations | hard behaviour | what makes it correct |
|---|---|---|---|---|
| **Verifier worker** `fixlog/workers/verifier.py` (`VerifierWorker`), `fixlog/api/entries.py`, `fixlog/main.py` | asyncio queue, loop task, `_running`/`_stopping`/`_event_loop`, `result_counts`; the rows | `start`, `stop`, `enqueue`, `enqueue_threadsafe`, `_loop`, `verify_entry`, `write_queue_overflow` | request threads, the event loop and `to_thread` threads share it; a 1 s wait that may time out; a shutdown that may time out; crashes | no entry lost silently, queued twice or given contradicting rows; one verification at a time; stop ends |
| **Verification of one entry** `_verify_loaded_entry`, `fixlog/sandbox/` | the outcome of two sandbox runs; containers and images in the Docker daemon | the tests of the spec, two `SandboxRunner.run`, the overlay of the fix | every Docker call may fail; commands hang, fail, exhaust memory | a verdict is always reached, "pass" is earned, the daemon's faults are not the entry's, nothing is left behind |
| **Unified diff** `apply_unified_diff` | none | files one after the other, `_apply_hunks`, `_original_from_hunks`, the overlay commands | line numbers, empty sides, moved and removed files, files that are not there | a hunk is applied exactly where it says or refused; the diff of two versions makes the second of the first |
| **Session start** `fixlog/api/sessions.py` | rows of `agent_personas`, `sessions`; SQLite's write lock | find or create a persona, find or create a session | concurrent first requests, retries, savepoints, persona id collisions | no error for losing a race; own session; idempotent retries |
| **Entries** `fixlog/api/entries.py`, `shared.py` | `entries`, `edits`, `error_signatures`, `entry_also_matches` | create, patch, supersede, upsert of a signature | find-or-create and read-then-write, with the lock taken in between | a conflict only for the loser of a race; an unbroken edit history that agrees with the row; contributions are found again |
| **Questions, collector issues** `fixlog/api/questions.py`, `collector.py` | `questions`, `question_entry_links` | create, link, find-or-create of an issue | a retry that overlaps | one issue per session and signature for retries that do not overlap |
| **Confirmations, verifications** `confirm.py`, `verifications.py` | `verifications` | one insert each | the entry is looked up before the lock | - |
| **Auth, device tokens** `fixlog/auth/`, `fixlog/api/device_tokens.py` | `device_tokens`, cookies | authenticate, log in, create, revoke, use | a use that overlaps with the revocation | a revoked token is refused from then on, and stays revoked |
| **Session events and heartbeats** `fixlog/api/sessions.py` | `session_events`, `last_heartbeat`, `last_used_at` | one insert or update each | times taken before the write lock | times are not older than the last answer said |
| Feed, search, web UI `fixlog/web/`, `feed.py`, `search.py` | none of its own | queries, forms | rows chosen by timestamps | a dashboard row shows one issue |
| Normalizer `fixlog/normalizer/` | none | text to a canonical string and hash | text | equal errors, equal hashes |
| Schema and migrations `fixlog/db/`, `alembic/` | constraints | - | - | - |
| **Tail watcher** `fixlog_harness/watcher.py`, `client.py` | the position in each file, the session map, the events heard | `watch`, `tail_file`, `process_event` and its retries, the harvest | one thread per file over shared objects; a server that fails before or after it has acted; torn lines; a quiet timer | only allowed events; in order, without gaps; the tail ends |
| **Session map, pending harvests** `SessionMapStore`, `harvester.py`, `cli.py` | a dict and a JSON file; a directory of JSON files | `_load`, `get`, `put`, `remove`, `save`; write, review, submit, discard | several threads and processes, files truncated before they are written, kills, lost answers | the map can be loaded again and is current; a harvest is neither lost nor submitted after it was settled |
| **Stuck detector** `stuck_detector.py` | a deque, the time of the last signal | `process` | shared by all tails, timestamps of several sessions | a stuck agent is signalled; an event is not signalled twice |
| Harvester, parsers `harvester.py`, `parsers/claude_code.py` | none | one pass over the events | which of several errors and commands belong together | the command is that of the failing result |
| CLI, local config, service, redaction | files | one pass each | - | - |

How they interact: a tail thread of the watcher calls `POST /sessions/start`, then
`POST /sessions/{id}/events` for each event, and at the end of the session
`POST /collector/issues` and perhaps `POST /entries`. The last commits an entry in a request
thread and hands its id to the verifier worker through `run_coroutine_threadsafe`; the
worker's loop runs `verify_entry` in a thread, which drives Docker and commits a
verification. Requests share only the database; the request threads and the worker share
the worker object. The tails of a watcher share one pipeline (session map, detector,
harvester), and `fixlog watch`, `fixlog replay` and `fixlog harvest` share files.

## Modules

### VerifierWorker (`MCVerifierWorker`, `VerifierWorkerProofs`)

Who moves: one request thread per entry (`pc`), its `enqueue()` coroutine on the event loop
(`call`), the `_loop()` task (`task`, `current`), one `verify_entry()` thread per job
(`job`), and `start`/`stop` (`stopper`). A step is what happens between two awaits of a
coroutine, or between two accesses to shared state of a thread.

| code | action |
|---|---|
| `create_entry` commits, loads the entry again, then schedules | `CreateEntry`, `ReloadFails` |
| `enqueue_threadsafe`: the test; the submission with its second read of `_event_loop`; the result; the timeout | `CheckRunning`, `Submit`, `ReceiveResult`, `WaitTimesOut` |
| `write_queue_overflow`; its failure before or after its commit, which the caller logs; its `+= 1` | `WriteOverflow`, `OverflowFails`, `ReadCount`/`WriteCount` |
| `enqueue` | `Enqueue` |
| `_loop` takes a job or the sentinel; goes on after it | `GetJob`, `NextJob` |
| `verify_entry` commits, raises before or after that, counts | `CommitVerdict`, `JobFails`, `JobReadsCount`/`JobWritesCount` |
| `start`; `stop` up to its await, and the two ways it ends | `Start`, `Stop`, `StopReturns`, `StopTimesOut` |
| the process is killed | `Crash` |

`gaveUp`, `excused` and `stopTimedOut` are history: who timed out, whose loss the code
accepts (an error, a stop, a crash), whether a stop timed out in this process.

Notes. A stop that finds no task is a no-op and left out. Uvicorn normally lets requests
finish before the lifespan's shutdown part calls `stop()`; the model keeps the worker's
interface general and lets requests overlap it, as other callers and a forced shutdown may.
`Counter` increments are a read and a write because CPython may switch threads between them.
`recent_results` and `last_error` are left out: nothing depends on them.

### SandboxVerification (`MCVerification`, `SandboxVerificationProofs`)

One `_verify_loaded_entry` with both calls of `SandboxRunner.run`: `phase` is the next call
to the daemon, `run` which of the two it is, `outcome` the `SandboxResult`. Every action
from `Connect` to `RemoveContainer` is one Docker call with its ways to fail; `containers` is
what the daemon has, `Abort` the way through the `finally` block, `Leave` the way out. `CheckSpec`, `JudgeTrigger`, `ApplyFix`
and `JudgeVerify` are the tests between them. `Script` is the order of `run.sh`: setup, the
overlay of the fixed files in the second run, the command. Output is abstracted to `shows`
(it has the text of the signature) and to memory exhaustion; whether a diff applies is a
free choice here and `UnifiedDiff`'s subject.

### UnifiedDiff (`MCVerification`, `UnifiedDiffProofs`)

`apply_unified_diff` as a fold over the files of a diff (`ApplyFile`), their hunks and lines
(`_apply_hunks`, `_original_from_hunks`), and `Overlay`, what the commands of
`_fix_overlay_commands` make of the sandbox's workspace. The text between hunks is misread in
two ways. `Parsed`: the header line of the next file is taken for a line of the hunk.
`FilesRead`: a removed line that begins with "-- " reads "--- " in the diff, ends its hunk
(`HunksUpTo`) and is taken for the header of a file, whose second line must be the next one of
the diff, one that adds a line that begins with "++ " (`IsHeader`); what is left of the hunk
is skipped, and the hunks behind it are taken for those of the new file. Which texts begin so
is a parameter (`dashed`, `plussed`), and such a text stands for the path in it.

The state is an edit script that grows line by line; in every script the properties compare
the code with the two versions of the file, with git's diff of them (`Diff`, external) and
with what hunks mean (`Fits`, `Spliced`), which is defined without an algorithm.

`MCVerification` puts `SandboxVerification` and `UnifiedDiff`, which are called one after
the other but share no state, into one run.

### SessionStart (`MCSessionStart`, `SessionStartProofs`)

`POST /sessions/start` by any number of requests. A step is one SQL statement with what
precedes it. `writer` is SQLite's write lock. pysqlite opens a transaction before the first
INSERT, UPDATE or DELETE, not before a SAVEPOINT: the savepoint of `begin_nested` is
therefore outermost, its release commits the persona, and rolling it back keeps the write
lock until the connection commits or is closed. Sessions are identified by the request that
inserted them, their start times by the order of arrival. `PersonaId` is the 8-digit primary
key: two identities may share it.

### KnowledgeBase (`MCServer`, `KnowledgeBaseProofs`)

The calls of `/entries`, `/questions`, `/collector/issues`, `/confirm`, `/reject`,
`/verifications` and the links, by any number of requests. `stage` is where a request is:
"select" and "lookup" are its reads, "write" is everything from its first INSERT or UPDATE to
its answer. That granularity is the code's: `SessionLocal` has `autoflush=False`
(`fixlog/db/session.py`), so that a handler writes nothing before its explicit `flush` or
`commit`; pysqlite opens a transaction before the first INSERT, UPDATE or DELETE, so that
each earlier SELECT sees the last commit of its own moment; and from the first write on the
connection holds SQLite's only write lock. A row is named by the request that inserted it,
so `inserted` with `call` is the table of entries, questions, verifications and links.

| code | action |
|---|---|
| `require_session` | `Arrive` |
| `upsert_error_signature`: the select; the insert, or `raw_examples` written back | `SelectSignature`; `Written`, `SaveSignatures`, `SignatureTaken` |
| `create_entry` | `WriteEntry`; `VerifierWorker` goes on from its commit |
| `create_question`, `create_collector_issue` | `LookupQuestion`, `WriteQuestion` |
| `patch_entry`, `supersede_entry` | `SelectPatched`, `SelectSuperseded`, `SetField`, `AddEdit`, `PatchEntry`, `SupersedeEntry` |
| `confirm_entry`, `reject_entry`, `create_verification` | `SelectVerified`, `WriteVerification` |
| `link_entry_to_question` | `SelectLink`, `WriteLink`, `LinkTaken` |
| a unique constraint, a busy timeout, a kill | `IntegrityError`, `KBLocked`, `KBCrash` |

`before` is history: who was answered when a request arrived. Properties that races break
are stated with it: what holds but for requests that overlapped. One field stands for those
that can be patched.

### CollectorAccess (`MCServer`, `CollectorAccessProofs`)

Who is let in and which columns a call touches. `Authenticate` is the whole of
`collector_auth_from_authorization`, `require_account`, `account_from_web_cookie` and
`session_from_header`, according to the route and the credential; `TakeNow` is the
`utc_now()` of the handler, before the write lock; `MarkUsed`, `Beat` and `Revoke` write the
columns that SQLAlchemy knows to be changed, and no other. `CreateIssue` and `StartSession` are
here for what they touch only; what they find and insert is in `KnowledgeBase` and
`SessionStart`. `clock` is coarse: several steps
happen at one time. A login is a cookie from then on, good for `Lifetime`.

`MCServer` puts `KnowledgeBase` and `CollectorAccess` into one run: they share no row.

### TailWatcher (`MCTailWatcher`, `TailWatcherProofs`) and EventDelivery

`EventDelivery` is what the watcher promises: per tail, the server gets events in the order
of the file, each at most `Attempts` times, nothing after `session_end`. `TailWatcher` is the
code: `pc` follows a thread through `tail_file`, `process_event` and the harvest; a failure
in a call of the server (`PostEventFails`, `PostSignal`, `StartSession`) happens before or
after the server acted; `Fail` is the loop of `_process_event_from_tail`. A line is TRUE when
its `cwd` is in an allowed project. `heard` is `events_by_source` as a set: the harvester
looks for first and last matches, and the order is the one of the log. Which events make the
detector signal is a free choice, its cooldown is not: `PostEvent` looks at it, and `Detect`
sets it in a later step, as `process()` has no lock; `signalAt` is the one `_last_signal_at` of
all threads, and `Stamp` gives the lines' timestamps. `overtaken` and `setBack` are history: a
thread looked at the cooldown before another one set it, and has then set it to an earlier
time. A line that cannot be decoded or parsed ends the thread (`ReadRaises`). One line carries one event, as most
lines of the agent's log do. `replay_file` ends a session like `tail_file` and is a tail of `HarnessFiles`.

### HarnessFiles (`MCHarness`, `HarnessProofs`)

Pipelines (processes of `fixlog watch` and `fixlog replay`) with their tails, and commands of
`fixlog harvest`, over two kinds of files. `SessionMapStore.save` is four steps: the change
of the dictionary, the iteration over it (`Iterate`, or `SaveRaises` when another thread
changed it meanwhile), the truncation, the text. `Overwrite` says what two open descriptors
leave in a file: the new text, with the rest of a longer one behind it. `disturbed` is
history: saves overlapped or one was cut off.

### EventAnalysis (`MCHarness`, `HarnessProofs`)

Functions of a log of events: `IsErrorContent` and `ToolResult` of the parser, `Detect` with
both windows and the cooldown, `CommandFor` of the harvester, `IssuePreview` and
`FailingCommand` of `build_active_sessions`. `EventRetried` is an event that reaches the
detector a second time because its signal could not be posted. The detector has one event at
a time here; its threads are in `TailWatcher`. An output is abstracted to
whether it has a Python error (with its signature), another sign of an error, and the summary
of a good test run. `StuckAt` defines without the code's order of steps when there is reason
to signal.

`MCHarness` puts both into one run: they share no variable.

## Runs

| run | bounds | shows |
|---|---|---|
| `vw_safety` | 3 entries, queue of 1, 2 starts, no crash; entries symmetric | `TwoRowsOnlyAfterTimeout`, `JobOwned`, `LoopAlive`, `CountsSound`. Three entries are one running, one queued, one rejected; two starts show what a stop leaves behind. `Results` is one value: the three are treated alike. |
| `vw_live` | 2 entries, queue of 1, 2 starts, 1 crash | `EveryEntryHandled`, `StopEnds`, and with a crash and a restart `NoSilentLoss` |
| `verification` | exit codes 0, 1, 137, every kind of entry; scripts of 5 lines over 2 texts, context 1, other files of up to 4 lines | `LimitsArePartial`, `PassIsEarned`, `DaemonErrorIsPartial`, `NoStrayContainer`, `VerificationEnds`; `PatchesItsOriginal`, `HeaderCutsHunk`, `NeverMisapplied`, `StandInOnlyFromLineOne`. Two texts are one that begins with "-- " and one that begins with "++ ", or none. Five lines make two separate hunks with context 1 (a change, three kept lines, a change), which context 3 needs nine lines for. |
| `session` | 3 requests, 3 identities (2 with one persona id), a source or none; one order of the requests' names | `RaceIsNoError`, `OwnSession`, `RetryReuses`, `RequestEnds`. Three requests are a winner, a loser and one that comes later. |
| `tail` | 1 thread with 3 lines, or 2 threads on one file or two of 1 line each; 2 attempts; a cooldown of 2, timestamps 2 apart between the files and 1 in a file | `OnlyAllowedForwarded`, `NoGaps`, `SignalOnce`, `HarvestSeesDelivered`, `NoStaleMapping`, `DeliversInOrder` (refinement of `EventDelivery`), `TailEnds`. Two attempts are a failure that is repeated and one that is the last; a third would only repeat the first. Two files whose times are a cooldown apart let one thread set the cooldown back after the other set it. |
| `server` | 3 calls out of 10 on a database with an entry and a question, 2 hashes, 2 examples; 3 calls out of 11, one at most of those that another one stands for, with 1 device token, 1 session, 2 accounts and 2 times; in either, one call fails with a busy timeout or a kill | `KBIndInv`, `ConflictHasRival`, `IssueReused`, `HistoryIsChain`, `ContributionKept`; `RevocationStands`, `TouchKept`. Three calls are two that race and one before or after them; the ten have also_matches that meet another call's signature, issues that meet the question and that race, patches to the same and to another value. A call that fails leaves nothing but its rows for the others to see, so that one is enough (the proofs are for any number). |
| `harness` | 2 tails of a watcher and a replay, 2 sources, 2 harvest commands; logs of 5 results, retried ones included, or of 6 calls and results, windows of 2 and 4 | `MapCurrent`, `HarvestKept`, `SettledOnce`; `StuckIsSignalled`, `RowShowsOneIssue`. The detector's constants are scaled down in their order (3 of 8 in 10 minutes and the like); five events go past the longest window and the deque. |

Where an MC module joins two components that share no variable, a behaviour is one of either:
interleaving their steps would show nothing more. `MCHarness` does the same with the session
map and the harvest commands: once a harvest is pending or asked for, the session map is
left alone (`FilesBounded`); a pipeline may still be killed. In all MC modules requests,
tails and commands begin in the order of their names, as they are interchangeable.

Deadlock is not checked where the system may stop: all requests answered, all tails ended,
the script complete.

The types of a module's variables are stated by its type invariant, which is proved for the
modules with proofs; it is among the properties of a run only where it is part of another
invariant (`KBIndInv`), as the runs are kept for what could go wrong.

Five runs state what a document or a message of the code says and find it refuted; each is a
finding in `PROJECT.json`:

- `sandbox_reproduced`: any non-zero exit of the first run counts as "reproduced", also that
  of an image that could not be pulled or of a failing setup command, so an entry can pass
  whose trigger never ran.
- `session_duplicate`: a retry that overlaps its first attempt creates a second session.
  `RetryReuses` is what does hold: one that begins after the answer does not.
- `tail_allowed`: one event from outside of the allowed projects ends the tail, so the
  in-project events after it are not forwarded.
- `diff_new_file`: the hunk of a new file, `@@ -0,0 +1,n @@`, is refused as "overlapping
  hunks".
- `diff_two_files`: the `diff --git` line before the second file is refused as an "unknown
  hunk line prefix", so that what the harvester takes from `git diff` applies only when it
  changes one file.

What else the properties record of the code's limits: an entry can have both an overflow row
and a verdict after a wait of one second (`TwoRowsOnlyAfterTimeout` says only then); a stop
that times out leaves a sentinel that ends the next start's loop (`LoopAlive`), so that what
that start queues stays there (`EveryEntryHandled`), and a sandbox still in use (`JobOwned`);
`result_counts` may be too low (`CountsSound` says never too high); a stuck signal may be
lost, and is repeated only after a thread has set the cooldown back past another one
(`SignalOnce`); a session whose timestamps lag behind the last signal, of whatever session,
gets none of its own (`StuckIsSignalled`); a file that a diff empties keeps an empty line, one
that is only moved stays where it is, and a diff that removes a line with "-- " is refused
(`PatchesItsOriginal`), unless it adds one with "++ " directly after it: then the rest of the
hunk is not done, a file of the name behind the "++ " appears, and there is no error
(`HeaderCutsHunk`); a file missing from the spec can be patched only from line 1. The
loser of a race for a signature or a link gets a 500, as does a call that names an also_match
twice (`ConflictHasRival`); examples of a signature may be overwritten by a call that
overlaps (`ContributionKept`), two issues that overlap may both be created (`IssueReused`),
and two edits that overlap may have one old value (`HistoryIsChain`). A heartbeat that
overlaps with a later one may set the time back to its own (`TouchKept`). Saves of the
session map that overlap, and a second pipeline, may leave it torn or stale (`MapCurrent`); a
harvest whose answer was lost may be submitted again (`SettledOnce`), and a pending file that
is being written makes every harvest command fail. When calls overlap, the dashboard may show
the error of one and the command of another (`RowShowsOneIssue`).

## Fairness

Safety needs none. `vw_live`: weak fairness of each request thread's and job thread's next
step, of the coroutines and of the loop: threads are scheduled by the system, the event loop
runs what is ready, and every runner call is bounded by a timer, so `verify_entry` ends
(`VerificationEnds` is checked separately). Nobody must create entries, call `stop()` or be
late. `verification`: the thread and the daemon's answers are fair; the entry's commands are
not, only the timer is. `session`: a request thread goes on, and a waiting writer gets its
turn when the lock is free for it; nobody must arrive or time out. `tail`: the thread goes on
and calls end (httpx has a timeout of 10 s); fairness of the quiet timer says that the agent
does at some time stop writing. The knowledge base and the files have no liveness property:
each of their calls is a few steps without a wait but that for the write lock, which
`RequestEnds` is about.

## Proofs

Checked by TLAPS for every value of the constants that meets the named assumptions
(`None` differs from entries and requests, `QueueSize` is positive, and the like).

**VerifierWorkerProofs.** `IndInv` is `TypeOK`, `QueuedOnce`, `JobOwned`, `StopProtocol` and,
for every entry, `RequestAgrees` and `JobAgrees`. The properties are not inductive alone:
`TwoRowsOnlyAfterTimeout` needs that an overflow row is written only by a request whose
coroutine did not accept, unless it gave up, and that a verdict exists only for an accepted
one; `NoSilentLoss` needs that an accepted entry is queued, running or handled until it is
excused; `LoopAlive` needs that the sentinel is in the queue only during a stop. There is a
lemma per conjunct and, in it, a step per action that can disturb it; `AppendQueued`,
`TailQueued` and `StopQueued` say what the queue operations do to membership. Theorems:
`TypeCorrect`, `Inductive`, `NoContradiction`, `NothingLostSilently`, `SingleFile`,
`LoopStaysAlive`, `CountsAreSound`.

`CountsSound` has an invariant of its own beside `IndInv`, `CountsInv`: no count, in
`result_counts` or read by a thread that has not written it back, is more than the increments
that are over (`Increments`, which counts job threads and requests separately). The thread
that is about to write is not among them, so that its one more is at most what is over
after its step; that its row exists by then makes the sum one of rows. A kill starts the
counts again from zero while the increments stay. `Increments` counts only entries that were
created, which are finitely many (`RowsFinite`) although `Entries` may be infinite.

**SessionStartProofs.** `IndInv` is `TypeOK`, the three properties and `RequestAgrees`: what a
request has found is a session of its own key; a request about to create a session has no
answered predecessor of the same key among those answered before it arrived. The case that
matters is a lookup that finds nothing: `AnsweredHasSession` shows that an answered request
of the same key would have been found. Theorems: `TypeCorrect`, `Inductive`,
`RaceLostIsNoError`, `AnswersOwnSession`, `RetryIsIdempotent`.

**KnowledgeBaseProofs.** For all calls, rows and requests, with crashes and busy timeouts.
`KBIndInv` is `KBTypeOK`, three of the properties and what they rest on. `RowsAgree`: rows and
edits are those of calls that wrote, and a hash has a row exactly when a written call has it.
`CallAgrees`: a request's `before` were answered, and a question that it found is of its own
session and signature. `QuestionThere`: an answered question or issue has a question.
`WriterAgrees`: what a request about to write has not seen was not there before it arrived,
and the old value that it saw is one of the history. `RowMatchesHistory`: each field has the
value that its last effective edit tells. They are needed because the properties compare a
write with answers that are long past: `ConflictHasRival` follows from `WriterAgrees`, as the
row in the way was not there when the loser arrived; `IssueReused` needs that an answer
leaves a question behind (`QuestionThere`) which a later lookup would have found;
`HistoryIsChain` needs that the value which a request loads is the one of the last effective
edit (`RowMatchesHistory`), also when an edit wrote nothing because its value was the one
loaded. Lemmas state what a call's step may change (`StepFacts`), then one lemma per conjunct
with a step per action. Theorems: `KBInductive`, `KBTypeCorrect`, `KBConflicts`, `KBIssues`,
`KBHistory`, `KBContributions`.

`ContributionKept` needs `KeptInv`: a call that is to write back a signature's list has in
its copy (`read`) what those who were answered before it arrived brought to it, and nothing
of its copy has gone from the row since, in either case unless a call that overlapped wrote
that row (`Rival`). `ListsNext` says which step writes which lists, `SavedLists` what they
are then; the rest is that a rival stays one (`RivalStays`) and that a writer whose answered
predecessor is not among its `before` overlapped with it (`AtWorkOverlaps`).

**SandboxVerificationProofs.** For all exit codes. `IInv` is `TypeOK`, the four properties and
why a verdict deserves trust when it is given: `LimitsAreReported` (what `run` returns still
says that a limit was hit, through the inspection and the removal of the container),
`FailuresAreRaised` (a failure of the daemon that `run` does not expect is on its way out as
an exception, and nothing follows it), `ZeroIsTheCommands` (exit code 0 of a run that was not
killed is that of the command, which found the fix in place) and `VerdictIsLast`. Theorems:
`VerificationTypes`, `LimitsNeverBlame`, `PassIsAlwaysEarned`, `DaemonNeverBlames`,
`ContainersAreRemoved`.

**TailWatcherProofs.** For any number of threads, files, lines and attempts. `IInv` says of
each thread where it is (`Placed`), that what it forwarded lies behind it (`Behind`), that what
lies behind it was forwarded or torn, but for the line in hand (`Covered`), that the cooldown,
unless a thread has set it back, covers an event that was signalled for as long as it may be
tried again (`Armed`), and that it has heard
what it delivered, but for the event in hand (`Heard`); and of the objects that threads share
that what is heard of a file was delivered by one of its threads (`HeardIsDelivered`) and that
every mapping has a thread that accounts for it (`MappingsHeld`). `NoGaps` needs `Covered`,
because a thread reads on only after its line was delivered, is not to be sent or ended it;
`SignalOnce` needs `Armed`, because a retry meets the cooldown that its own first attempt set,
or one that another thread set since: forward, as that one was past its own cooldown when it
looked, unless it had looked before (`overtaken`). Theorems: `WatcherTypes`, `ForwardedIsAllowed`, `DeliveryHasNoGaps`, `SignalledOnce`,
`HarvestIsOfDelivered`, `MappingsAreHeld`, `ImplementsDelivery`.

`ImplementsDelivery` is the refinement: `log` is the state of `EventDelivery`, the initial state
is its initial state, and every step is a `Deliver` or a stutter. `DeliveryIsDelivery` is the
step that matters: a post that the server acts on is a delivery of the line in hand, before
which lies all that was delivered (`Behind`), and which has been delivered less than `Attempts`
times. For the latter the invariant is joined by `Counted`: the event in hand has been delivered fewer times than
attempts were begun, and only a post that was answered can make it as many.

**CollectorAccessProofs.** For all calls, accounts, tokens and sessions; the clock starts at 1,
below or at a positive `MaxClock` (`TimeAssumption`), so that no time is 0, which stands for
none. `AccessInv` has, besides the types, that a call takes its time from the clock (`Timed`),
that what precedes a call was answered and has an earlier time (`Past`), that an answered
revocation is in the row (`Revoked`), that a call which presents a token revoked before it does
not get past its authentication (`Rejected`), and the two halves of `TouchKept`, which says for
each answered call who may have written the row since. Theorems: `AccessTypes`,
`RevocationsStand`, `TouchesAreKept`.

**HarnessProofs, the files.** For any pipelines, tails, commands and sources; the names of tails and
commands differ (`NamesAssumption`). `FilesInv` joins the two halves of the module. `Orderly`:
while nothing disturbed the saves there is one pipeline and one saving thread, which saves
what is in memory to a file that it has emptied. `Written`, `Commands` and `Earlier`: a tail
writes one harvest, a command submits only what it found whole and unlinks only what it
submitted or discards, and what it settled has no file that a later one could list. `HarvestKept`
needs `Commands` at the unlink; `SettledOnce` needs that a settled harvest's file never comes
back, hence `Written`. Theorems: `FilesTypes`, `MapIsCurrent`, `HarvestsAreKept`,
`SettledForGood`.

**HarnessProofs, the analysis of events.** For logs of any length, any windows, limits and cooldown (positive, the
thrashing window within the deque: `DetectorAssumption`) and any timestamps. `AnalysisInv` is
the types, `StuckIsSignalled`, `SignalsAreDue`, that the cooldown counts from the event of the
last signal (`CooldownOfLast`) and that a call repeats an earlier id only when it is retried
(`FreshCalls`).
`DueWhenStuck` is the bridge between the code's counts over its deque and `StuckAt`, which asks
for a set of events: it rests on `EnoughOf` (a set has k members with a property exactly when
k of its members have it). `StuckStays` and `LagStays` say that a later event does not change the
judgement of an earlier one, so that each event needs to be looked at when it is the last. `SignalsAreDue`
is the converse of `StuckIsSignalled`: no signal without a reason, none in the cooldown of the one
before. It is a result of the proofs only; no run states it.
`RowShowsOneIssue` needs that timestamps do not go back in a sequential session
(`TimesGrow`) and that a result's call is the event before it and the only one of its id
(`CallIsBefore`). `Least` (a set of naturals has a least element, from the well-foundedness of
`<`) stands for induction. Theorems: `AnalysisTypes`, `StuckSignalled`, `SignalsDue`,
`OneIssuePerRow`.

**UnifiedDiffProofs.** For edit scripts and files of any length, any lines and any `Context` of
at least 1 (`ContextAssumption`: with none, a hunk that only adds lines would name the line
before it and the code would put them in the wrong place). Of the states only `IsScript` is
needed: the script is a sequence of prefixes and lines. The rest is about the functions.

- Folds. A fold is the last of its states (`States`, from which `LineFold`, `HunkFold` and
  `FlattenFold` follow), and what holds of each state is shown by `Counting`: what holds of 0
  and passes from a number to the next holds up to n. It is proved from `Least` and takes a
  set where induction would take an operator.
- `_apply_hunks`. `LinesApply`: the lines of a hunk apply at a place exactly when the file has
  their old side there, and append their new side. `HunkPasses` and `HunksPass` say so of a
  hunk and of hunks in order, `HunksApplied` of the whole: the result is `Spliced` when the
  file `Fits`, an error otherwise.
- git's diff. `DiffInOrder`: its hunks are in the order of the script, with a line between two
  that neither shows. `DiffPlaces` and `BetweenHunks`: a hunk's place in the old file is what
  the script's old side has before it, and the lines between two hunks are kept ones; hence
  the diff fits the old version (`ShownIsSpanned`, `OldPart`), and splicing it in makes the new
  one (`KeptLines`, `DiffSplices`, `DiffApplies`).
- A file that is missing (`HunksNeedRoom`, `StandIn`): the old sides of the hunks, one after the
  other, have no room for a line that lies between them.
- A diff without a line that reads "--- " is read as its one file (`ReadWithoutDashes`); one
  with such a line that is no header is an error, whatever is done before it
  (`BadHeaderIsRefused`).
- The cases of `apply_unified_diff`: `DashedIsRefused`, `NewFileIsRefused` and, for every other
  change, `OtherIsPatched` with `OverlayWith` for the sandbox's files.

Theorems: `DiffNeverMisapplied`, `DiffStandsInFromLineOne`, `DiffPatchesItsOriginal`.

With these every invariant of the passing runs but `HeaderCutsHunk` is stated by a theorem.
Only model-checked: that one, the properties under fairness (`EveryEntryHandled`, `StopEnds`,
`VerificationEnds`, `RequestEnds`, `TailEnds`), since liveness is out of the prover's reach, and the
runs that find a violation.

## Not modelled

- Text processing: the normalizer, redaction, the parser's regular expressions and JSON, the
  prompts, and of a diff the "\ No newline" marker. Their properties are about strings, which
  unit tests reach better; where a result matters (a hash, an error, a diff) it is a value of
  the models.
- `shared.py:58-65` fills in the columns of an old signature row that has no
  `exception_type`; nothing else depends on them.
- Reads and pages: the feed, the detail pages, the lists, `verification_counts`; they format
  committed rows. Search by signature and the row of an active session are modelled.
- Migrations, the seed and `scripts/dev_seed.py`: run once and alone.
- `fixlog doctor`, `connect`, `service`: single-user commands that read or write one file once.
- git and model calls of the harvester: a free choice of outcome in `TailWatcher` and
  `HarnessFiles`. Its choice of a verification command: any result with " passed" anywhere in
  it counts as a test (`harvester.py:145-147`), from before the error too, so that there is
  nothing to say of the command.
- The search page: it shows the newest 25 (`web/routes.py:528`) of the entries that `search`
  has, whose `SearchEntries` is the unlimited one of `api/search.py`. An older entry is then
  found by the API only.
- In `IssuePreview`, the rows of stuck signals and of events of the kind "error".
- SQLite's and Docker's insides beyond what the code sees of them, and whether tokens,
  hashes and signatures of cookies are right.
- That a supersession may form a cycle is in the model and is no property: nothing follows
  `superseded_by` further than one link.
