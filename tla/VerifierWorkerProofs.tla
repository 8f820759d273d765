------------------------ MODULE VerifierWorkerProofs ------------------------
(* Proofs, for any set of entries and any queue size, of the safety          *)
(* properties of VerifierWorker.                                             *)
EXTENDS VerifierWorker, SequenceTheorems, FiniteSetTheorems, TLAPS

Items == Entries \cup {None}

USE QueueSizeAssumption, ResultsAssumption, NoneAssumption, NoVerdictAssumption,
    BoundsAssumption
USE DEF vars, rows, request, flags, tally, loop, process, history

\* A verify_entry() thread counts only a row that it has committed: without this
\* TypeOK is not inductive, since result_counts has no key for "no verdict".
WrittenHasRow ==
    \A e \in Entries : job[e] \in {"written", "counting", "done"} => verdict[e] # NoVerdict

\* Every action preserves the types, given that threads count rows that exist.
LEMMA TypeStep == TypeOK /\ WrittenHasRow /\ [Next]_vars => TypeOK'
<1> SUFFICES ASSUME TypeOK, WrittenHasRow, [Next]_vars PROVE TypeOK'
    OBVIOUS
<1> USE DEF TypeOK, Kinds, Threads, RequestSteps, JobSteps
<1>1. ASSUME NEW e \in Entries, CreateEntry(e) \/ ReloadFails(e) PROVE TypeOK'
    BY <1>1 DEF CreateEntry, ReloadFails, Goto
<1>2. ASSUME NEW e \in Entries, CheckRunning(e) PROVE TypeOK'
  <2>1. PICK to \in {"admitted", "refused"} : pc' = [pc EXCEPT ![e] = to]
    BY <1>2 DEF CheckRunning, Goto
  <2>2. QED
    BY <1>2, <2>1 DEF CheckRunning
<1>3. ASSUME NEW e \in Entries, Submit(e) PROVE TypeOK'
  <2>1. /\ pc' \in [Entries -> RequestSteps]
        /\ call' \in [Entries -> {"none", "pending", "accepted", "rejected"}]
        /\ excused' \subseteq Entries
    BY <1>3 DEF Submit, Goto
  <2>2. QED
    BY <1>3, <2>1 DEF Submit
<1>4. ASSUME NEW e \in Entries, ReceiveResult(e) PROVE TypeOK'
  <2>1. pc' \in [Entries -> RequestSteps]
    BY <1>4 DEF ReceiveResult, Goto
  <2>2. QED
    BY <1>4, <2>1 DEF ReceiveResult
<1>5. ASSUME NEW e \in Entries, WaitTimesOut(e) PROVE TypeOK'
    BY <1>5 DEF WaitTimesOut, Goto
<1>6. ASSUME NEW e \in Entries, WriteOverflow(e) PROVE TypeOK'
    BY <1>6 DEF WriteOverflow, Goto
<1>7. ASSUME NEW e \in Entries, OverflowFails(e) PROVE TypeOK'
    BY <1>7 DEF OverflowFails, Goto
<1>8. ASSUME NEW e \in Entries, ReadCount(e) PROVE TypeOK'
    BY <1>8 DEF ReadCount, Goto
<1>9. ASSUME NEW e \in Entries, WriteCount(e) PROVE TypeOK'
    BY <1>9 DEF WriteCount, Goto
<1>10. ASSUME NEW e \in Entries, Enqueue(e) PROVE TypeOK'
  <2>1. call' \in [Entries -> {"none", "pending", "accepted", "rejected"}]
    BY <1>10 DEF Enqueue
  <2>2. Append(queue, e) \in Seq(Items)
    BY DEF Items
  <2>3. queue' \in Seq(Items)
    BY <1>10, <2>2 DEF Enqueue, Items
  <2>4. QED
    BY <1>10, <2>1, <2>3 DEF Enqueue, Items
<1>11. CASE GetJob
  <2>1. Head(queue) \in Items /\ Tail(queue) \in Seq(Items)
    BY <1>11 DEF GetJob, Items
  <2>2. QED
    BY <1>11, <2>1 DEF GetJob, Items
<1>12. CASE NextJob
    BY <1>12 DEF NextJob
<1>13. ASSUME NEW e \in Entries, CommitVerdict(e) PROVE TypeOK'
    BY <1>13 DEF CommitVerdict, JobStep
<1>14. ASSUME NEW e \in Entries, JobFails(e) PROVE TypeOK'
    BY <1>14 DEF JobFails, JobStep
<1>15. ASSUME NEW e \in Entries, JobReadsCount(e) PROVE TypeOK'
  <2>1. verdict[e] \in Kinds
    BY <1>15 DEF JobReadsCount, JobStep, WrittenHasRow
  <2>2. QED
    BY <1>15, <2>1 DEF JobReadsCount, JobStep
<1>16. ASSUME NEW e \in Entries, JobWritesCount(e) PROVE TypeOK'
  <2>1. verdict[e] \in Kinds
    BY <1>16 DEF JobWritesCount, JobStep, WrittenHasRow
  <2>2. QED
    BY <1>16, <2>1 DEF JobWritesCount, JobStep
<1>17. CASE Start
  <2>1. starts' \in 0..MaxStarts
    BY <1>17 DEF Start
  <2>2. QED
    BY <1>17, <2>1 DEF Start
<1>18. CASE Stop
  <2>1. queue' \in Seq(Items)
    BY <1>18 DEF Stop, Items
  <2>2. QED
    BY <1>18, <2>1 DEF Stop, Items
<1>19. CASE StopReturns
    BY <1>19 DEF StopReturns
<1>20. CASE StopTimesOut
    BY <1>20 DEF StopTimesOut
<1>21. CASE Crash
  <2>1. crashes' \in 0..MaxCrashes
    BY <1>21 DEF Crash
  <2>2. queue' \in Seq(Items)
    BY <1>21 DEF Crash, Items
  <2>3. pc' \in [Entries -> RequestSteps] /\ job' \in [Entries -> JobSteps]
    BY <1>21 DEF Crash
  <2>4. call' \in [Entries -> {"none", "pending", "accepted", "rejected"}]
    BY <1>21 DEF Crash
  <2>5. counts' \in [Kinds -> Nat] /\ seen' \in [Threads -> [Entries -> Nat]]
    BY <1>21 DEF Crash
  <2>6. QED
    BY <1>21, <2>1, <2>2, <2>3, <2>4, <2>5 DEF Crash, Items
<1>22. CASE UNCHANGED vars
    BY <1>22
<1>23. QED
    BY <1>1, <1>2, <1>3, <1>4, <1>5, <1>6, <1>7, <1>8, <1>9, <1>10, <1>11, <1>12,
       <1>13, <1>14, <1>15, <1>16, <1>17, <1>18, <1>19, <1>20, <1>21, <1>22
       DEF Next, RequestNext, JobNext

\* Every action preserves WrittenHasRow: a row is committed before it is counted.
LEMMA WrittenStep == TypeOK /\ WrittenHasRow /\ [Next]_vars => WrittenHasRow'
<1> SUFFICES ASSUME TypeOK, WrittenHasRow, [Next]_vars PROVE WrittenHasRow'
    OBVIOUS
<1> USE DEF TypeOK, WrittenHasRow
<1>1. ASSUME NEW e \in Entries, CommitVerdict(e) PROVE WrittenHasRow'
    BY <1>1 DEF CommitVerdict, JobStep
<1>2. ASSUME NEW e \in Entries, JobFails(e) \/ JobReadsCount(e) \/ JobWritesCount(e)
      PROVE  WrittenHasRow'
    BY <1>2 DEF JobFails, JobReadsCount, JobWritesCount, JobStep
<1>3. CASE GetJob
    BY <1>3 DEF GetJob
<1>4. CASE Crash
    BY <1>4 DEF Crash, Active
<1>5. ASSUME UNCHANGED <<job, verdict>> PROVE WrittenHasRow'
    BY <1>5
<1>6. QED
    BY <1>1, <1>2, <1>3, <1>4, <1>5
       DEF Next, RequestNext, JobNext, CreateEntry, ReloadFails, CheckRunning, Submit, ReceiveResult,
           WaitTimesOut, WriteOverflow, OverflowFails, ReadCount, WriteCount, Enqueue,
           NextJob, Start, Stop, StopReturns, StopTimesOut

\* The state that __init__ leaves has the declared types.
LEMMA InitType == Init => TypeOK /\ WrittenHasRow
<1> SUFFICES ASSUME Init PROVE TypeOK /\ WrittenHasRow
    OBVIOUS
<1> USE DEF Init
<1>1. queue \in Seq(Items) /\ starts \in 0..MaxStarts /\ crashes \in 0..MaxCrashes
  OBVIOUS
<1>2. seen \in [Threads -> [Entries -> Nat]] /\ counts \in [Kinds -> Nat]
  BY Zenon
<1>3. /\ verdict \in [Entries -> Results \cup {NoVerdict}]
      /\ pc \in [Entries -> RequestSteps]
      /\ call \in [Entries -> {"none", "pending", "accepted", "rejected"}]
      /\ job \in [Entries -> JobSteps]
  BY DEF RequestSteps, JobSteps
<1>4. WrittenHasRow
  BY DEF WrittenHasRow
<1>5. QED
  BY <1>1, <1>2, <1>3, <1>4 DEF TypeOK, Items

\* The worker's state always has the declared types: in particular every count that
\* is read and written back is one of result_counts' keys.
THEOREM TypeCorrect == Spec => []TypeOK
<1>1. Init => TypeOK /\ WrittenHasRow
    BY InitType
<1>2. (TypeOK /\ WrittenHasRow) /\ [Next]_vars => (TypeOK /\ WrittenHasRow)'
    BY TypeStep, WrittenStep
<1>3. QED
    BY <1>1, <1>2, PTL DEF Spec

-----------------------------------------------------------------------------
(* The queue under the three ways in which it changes.                       *)

\* An accepted entry is the only new one in the queue, and it is last.
LEMMA AppendQueued ==
    ASSUME TypeOK, NEW e \in Entries, queue' = Append(queue, e)
    PROVE  /\ \A f \in Entries : Queued(f)' <=> Queued(f) \/ f = e
           /\ DOMAIN queue' = 1..(Len(queue) + 1)
           /\ \A i \in DOMAIN queue : queue'[i] = queue[i]
           /\ queue'[Len(queue) + 1] = e
<1>1. queue \in Seq(Items)
    BY DEF TypeOK, Items
<1>2. /\ Len(queue) \in Nat /\ DOMAIN queue = 1..Len(queue)
      /\ DOMAIN Append(queue, e) = 1..(Len(queue) + 1)
      /\ \A i \in 1..Len(queue) : Append(queue, e)[i] = queue[i]
      /\ Append(queue, e)[Len(queue) + 1] = e
    BY <1>1
<1>3. QED
    BY <1>2 DEF Queued

\* Taking the head of the queue loses no other entry.
LEMMA TailQueued ==
    ASSUME TypeOK, queue # << >>, queue' = Tail(queue)
    PROVE  /\ \A f \in Entries : Queued(f)' => Queued(f)
           /\ \A f \in Entries : Queued(f) => Queued(f)' \/ f = Head(queue)
           /\ Len(queue) \in Nat \ {0} /\ DOMAIN queue = 1..Len(queue)
           /\ Head(queue) = queue[1] /\ Head(queue) \in Items
           /\ DOMAIN queue' = 1..(Len(queue) - 1)
           /\ \A i \in DOMAIN queue' : queue'[i] = queue[i + 1]
<1>1. queue \in Seq(Items)
    BY DEF TypeOK, Items
<1>2. /\ Len(queue) \in Nat \ {0} /\ DOMAIN queue = 1..Len(queue)
      /\ Head(queue) = queue[1] /\ Head(queue) \in Items
      /\ DOMAIN Tail(queue) = 1..(Len(queue) - 1)
      /\ \A i \in 1..(Len(queue) - 1) : Tail(queue)[i] = queue[i + 1]
    BY <1>1, HeadTailProperties, LenProperties, EmptySeq
<1>3. ASSUME NEW f \in Entries, Queued(f), f # Head(queue) PROVE Queued(f)'
  <2>1. PICK i \in 1..Len(queue) : queue[i] = f
    BY <1>2, <1>3 DEF Queued
  <2>2. i - 1 \in 1..(Len(queue) - 1) /\ queue[(i - 1) + 1] = f
    BY <1>2, <1>3, <2>1
  <2>3. QED
    BY <1>2, <2>2 DEF Queued
<1>4. ASSUME NEW f \in Entries, Queued(f)' PROVE Queued(f)
  <2>1. PICK i \in 1..(Len(queue) - 1) : queue[i + 1] = f
    BY <1>2, <1>4 DEF Queued
  <2>2. i + 1 \in 1..Len(queue)
    BY <1>2, <2>1
  <2>3. QED
    BY <1>2, <2>1, <2>2 DEF Queued
<1>5. QED
    BY <1>2, <1>3, <1>4

\* Between a stop() and the loop's end nothing but the sentinel is queued.
LEMMA StopQueued ==
    ASSUME queue' \in {<<None>>, << >>}
    PROVE  \A f \in Entries : ~Queued(f)'
<1>1. \A i \in DOMAIN queue' : queue'[i] = None
    OBVIOUS
<1>2. QED
    BY <1>1 DEF Queued

-----------------------------------------------------------------------------
(* The parts of the inductive invariant, one lemma each.                     *)

\* JobOwned: a new verification starts only when the loop awaits none, and the loop
\* goes on, or ends, only when the awaited one is over.
LEMMA JobOwnedStep == IndInv /\ [Next]_vars => JobOwned'
<1> SUFFICES ASSUME IndInv, [Next]_vars, NEW e \in Entries, job'[e] \in Active
             PROVE  (task' = "wait" /\ current' = e) \/ stopTimedOut'
    BY DEF JobOwned
<1> USE DEF IndInv, TypeOK, JobOwned, Active
<1>1. ASSUME NEW f \in Entries, JobNext(f)
      PROVE  (task' = "wait" /\ current' = e) \/ stopTimedOut'
    BY <1>1 DEF JobNext, CommitVerdict, JobFails, JobReadsCount, JobWritesCount, JobStep
<1>2. CASE GetJob
  <2>1. Head(queue) \in Items
    BY <1>2, TailQueued DEF GetJob
  <2>2. QED
    BY <1>2, <2>1 DEF GetJob, Items
<1>3. CASE NextJob
    BY <1>3 DEF NextJob
<1>4. CASE StopReturns
    BY <1>4 DEF StopReturns
<1>5. CASE StopTimesOut
    BY <1>5 DEF StopTimesOut
<1>6. CASE Start
    BY <1>6 DEF Start
<1>7. CASE Crash
    BY <1>7 DEF Crash
<1>8. ASSUME UNCHANGED <<job, task, current, stopTimedOut>>
      PROVE  (task' = "wait" /\ current' = e) \/ stopTimedOut'
    BY <1>8
<1>9. QED
    BY <1>1, <1>2, <1>3, <1>4, <1>5, <1>6, <1>7, <1>8
       DEF Next, RequestNext, CreateEntry, ReloadFails, CheckRunning, Submit, ReceiveResult,
           WaitTimesOut, WriteOverflow, OverflowFails, ReadCount, WriteCount, Enqueue, Stop

\* QueuedOnce: enqueue() puts an entry that was never accepted, hence neither queued
\* nor verified, and _loop() starts what it takes from the queue.
LEMMA QueuedOnceStep == IndInv /\ [Next]_vars => QueuedOnce'
<1> SUFFICES ASSUME IndInv, [Next]_vars PROVE QueuedOnce'
    OBVIOUS
<1>1. ASSUME NEW e \in Entries, Enqueue(e), Accepting PROVE QueuedOnce'
  <2>1. ~Queued(e) /\ job[e] = "none"
    BY <1>1 DEF Enqueue, IndInv, JobAgrees
  <2>2. queue' = Append(queue, e) /\ job' = job
    BY <1>1 DEF Enqueue
  <2>3. \A f \in Entries : Queued(f)' => job'[f] = "none"
    BY <2>1, <2>2, AppendQueued DEF IndInv, QueuedOnce
  <2>4. ASSUME NEW i \in DOMAIN queue', NEW j \in DOMAIN queue',
               queue'[i] = queue'[j], queue'[i] # None
        PROVE  i = j
    <3>1. Len(queue) \in Nat /\ DOMAIN queue = 1..Len(queue)
      BY DEF IndInv, TypeOK
    <3>2. \A k \in DOMAIN queue : queue[k] # e
      BY <2>1 DEF Queued
    <3>3. /\ DOMAIN queue' = 1..(Len(queue) + 1)
          /\ \A k \in DOMAIN queue : queue'[k] = queue[k]
          /\ queue'[Len(queue) + 1] = e
      BY <2>2, AppendQueued DEF IndInv
    <3>4. CASE i \in DOMAIN queue /\ j \in DOMAIN queue
      BY <2>4, <3>3, <3>4 DEF IndInv, QueuedOnce
    <3>5. QED
      BY <2>4, <3>1, <3>2, <3>3, <3>4
  <2>5. QED
    BY <2>3, <2>4 DEF QueuedOnce
<1>2. CASE GetJob
  <2>1. /\ TypeOK /\ queue # << >> /\ queue' = Tail(queue)
        /\ \A f \in Entries : f # Head(queue) => job'[f] = job[f]
    BY <1>2 DEF GetJob, IndInv, TypeOK
  <2>0. /\ Len(queue) \in Nat \ {0} /\ DOMAIN queue = 1..Len(queue)
        /\ Head(queue) = queue[1]
        /\ DOMAIN queue' = 1..(Len(queue) - 1)
        /\ \A i \in DOMAIN queue' : queue'[i] = queue[i + 1]
        /\ \A f \in Entries : Queued(f)' => Queued(f)
    BY <2>1, TailQueued
  <2>2. ASSUME NEW i \in DOMAIN queue', NEW j \in DOMAIN queue',
               queue'[i] = queue'[j], queue'[i] # None
        PROVE  i = j
    <3>1. i + 1 \in DOMAIN queue /\ j + 1 \in DOMAIN queue
          /\ queue[i + 1] = queue[j + 1] /\ queue[i + 1] # None
          /\ i \in Int /\ j \in Int
      BY <2>0, <2>2
    <3>2. i + 1 = j + 1
      BY <3>1 DEF IndInv, QueuedOnce
    <3>3. QED
      BY <3>1, <3>2
  <2>3. ASSUME NEW f \in Entries, Queued(f)' PROVE job'[f] = "none"
    <3>1. Queued(f)
      BY <2>0, <2>3
    <3>2. f # Head(queue)
      <4>1. PICK i \in 1..(Len(queue) - 1) : queue[i + 1] = f
        BY <2>0, <2>3 DEF Queued
      <4>2. i + 1 \in DOMAIN queue /\ 1 \in DOMAIN queue /\ i + 1 # 1
            /\ Head(queue) = queue[1]
        BY <2>0, <4>1
      <4>3. QED
        BY <4>1, <4>2, NoneAssumption DEF IndInv, QueuedOnce
    <3>3. QED
      BY <2>1, <3>1, <3>2 DEF IndInv, QueuedOnce
  <2>4. QED
    BY <2>2, <2>3 DEF QueuedOnce
<1>3. ASSUME queue' \in {<<None>>, << >>} PROVE QueuedOnce'
  <2>1. /\ \A i \in DOMAIN queue' : queue'[i] = None
        /\ \A f \in Entries : ~Queued(f)'
    BY <1>3, StopQueued
  <2>2. QED
    BY <2>1 DEF QueuedOnce
<1>4. ASSUME NEW e \in Entries, JobNext(e) PROVE QueuedOnce'
  <2>1. queue' = queue /\ job[e] # "none" /\ \A f \in Entries : f # e => job'[f] = job[f]
    BY <1>4 DEF JobNext, CommitVerdict, JobFails, JobReadsCount, JobWritesCount, JobStep,
                IndInv, TypeOK
  <2>2. QED
    BY <2>1 DEF IndInv, QueuedOnce, Queued
<1>5. ASSUME UNCHANGED <<queue, job>> PROVE QueuedOnce'
    BY <1>5 DEF IndInv, QueuedOnce, Queued
<1>6. QED
    BY <1>1, <1>2, <1>3, <1>4, <1>5
       DEF Next, RequestNext, CreateEntry, ReloadFails, CheckRunning, Submit, ReceiveResult,
           WaitTimesOut, WriteOverflow, OverflowFails, ReadCount, WriteCount, Enqueue,
           NextJob, Start, Stop, StopReturns, StopTimesOut, Crash

\* StopProtocol: until a stop() times out, the sentinel is queued by stop() alone and
\* taken by the loop that stop() waits for, and enqueue() puts nothing behind it.
LEMMA StopProtocolStep == IndInv /\ [Next]_vars => StopProtocol'
<1> SUFFICES ASSUME IndInv, [Next]_vars PROVE StopProtocol'
    OBVIOUS
<1>0. StopProtocol /\ TypeOK
    BY DEF IndInv
<1>1. ASSUME NEW e \in Entries, Enqueue(e) PROVE StopProtocol'
  <2>1. CASE ~Accepting
    BY <1>0, <1>1, <2>1 DEF Enqueue, StopProtocol
  <2>2. CASE Accepting
    <3>1. /\ UNCHANGED <<task, current, running, stopping, stopper, stopTimedOut>>
          /\ queue' = Append(queue, e) /\ stopper = "idle"
      BY <1>0, <1>1, <2>2 DEF Enqueue, Accepting, StopProtocol, TypeOK
    <3>2. ASSUME ~stopTimedOut, NEW i \in DOMAIN queue' PROVE queue'[i] # None
      <4>1. /\ DOMAIN queue' = 1..(Len(queue) + 1)
            /\ \A k \in DOMAIN queue : queue'[k] = queue[k]
            /\ queue'[Len(queue) + 1] = e
            /\ Len(queue) \in Nat /\ DOMAIN queue = 1..Len(queue)
        BY <1>0, <3>1, AppendQueued DEF TypeOK
      <4>2. \A k \in DOMAIN queue : queue[k] # None
        BY <1>0, <3>1, <3>2 DEF StopProtocol
      <4>3. e # None
        OBVIOUS
      <4>4. i \in DOMAIN queue \/ i = Len(queue) + 1
        BY <4>1
      <4>5. QED
        BY <4>1, <4>2, <4>3, <4>4
    <3>3. QED
      BY <1>0, <3>1, <3>2 DEF StopProtocol
  <2>3. QED
    BY <2>1, <2>2
<1>2. CASE GetJob
  <2>1. /\ task = "get" /\ queue # << >> /\ queue' = Tail(queue)
        /\ UNCHANGED <<running, stopping, stopper, stopTimedOut>>
    BY <1>2 DEF GetJob
  <2>2. /\ Len(queue) \in Nat \ {0} /\ DOMAIN queue = 1..Len(queue)
        /\ Head(queue) = queue[1] /\ Head(queue) \in Items
        /\ DOMAIN queue' = 1..(Len(queue) - 1)
        /\ \A i \in DOMAIN queue' : queue'[i] = queue[i + 1]
    BY <1>0, <2>1, TailQueued
  <2>2a. \/ Head(queue) = None /\ task' = "finished" /\ current' = current
         \/ Head(queue) # None /\ task' = "wait" /\ current' = Head(queue)
    BY <1>2 DEF GetJob
  <2>3. CASE ~stopTimedOut /\ stopper = "waiting"
    <3>1. queue = <<None>>
      BY <1>0, <2>1, <2>3 DEF StopProtocol
    <3>2. task' = "finished" /\ queue' = << >>
      BY <1>2, <2>1, <3>1 DEF GetJob
    <3>3. QED
      BY <1>0, <2>1, <2>3, <3>2 DEF StopProtocol
  <2>4. CASE ~stopTimedOut /\ stopper # "waiting"
    <3>1. \A i \in DOMAIN queue : queue[i] # None
      BY <1>0, <2>4 DEF StopProtocol
    <3>2. \A i \in DOMAIN queue' : i + 1 \in DOMAIN queue
      BY <2>2
    <3>3. \A i \in DOMAIN queue' : queue'[i] # None
      BY <2>2, <3>1, <3>2
    <3>4. task' = "wait" /\ current' \in Entries
      BY <2>2, <2>2a, <3>1 DEF Items
    <3>5. QED
      BY <1>0, <2>1, <2>4, <3>3, <3>4 DEF StopProtocol
  <2>5. CASE stopTimedOut
    BY <1>0, <2>1, <2>2, <2>5, <2>2a DEF StopProtocol, Items
  <2>6. QED
    BY <2>3, <2>4, <2>5
<1>3. CASE NextJob
    BY <1>0, <1>3 DEF NextJob, StopProtocol
<1>4. CASE Start
    BY <1>0, <1>4 DEF Start, StopProtocol
<1>5. CASE Stop
    BY <1>0, <1>5 DEF Stop, StopProtocol, TypeOK
<1>6. CASE StopReturns
  <2>1. ~stopTimedOut => queue = << >>
    BY <1>0, <1>6 DEF StopReturns, StopProtocol
  <2>2. QED
    BY <1>0, <1>6, <2>1 DEF StopReturns, StopProtocol
<1>7. CASE StopTimesOut
    BY <1>0, <1>7 DEF StopTimesOut, StopProtocol
<1>8. CASE Crash
    BY <1>0, <1>8 DEF Crash, StopProtocol
<1>9. ASSUME UNCHANGED <<queue, task, current, running, stopping, stopper, stopTimedOut>>
      PROVE  StopProtocol'
    BY <1>0, <1>9 DEF StopProtocol
<1>10. QED
    BY <1>1, <1>2, <1>3, <1>4, <1>5, <1>6, <1>7, <1>8, <1>9
       DEF Next, RequestNext, JobNext, CreateEntry, ReloadFails, CheckRunning, Submit, ReceiveResult,
           WaitTimesOut, WriteOverflow, OverflowFails, ReadCount, WriteCount,
           CommitVerdict, JobFails, JobReadsCount, JobWritesCount

\* The request thread and the job thread of an entry, with the rows they write.
Agreement(e) == RequestAgrees(e) /\ JobAgrees(e)

\* Agreement, for the steps of the entry's own request thread.
LEMMA RequestAgreement ==
    ASSUME IndInv, NEW e \in Entries,
           CreateEntry(e) \/ RequestNext(e) \/ WaitTimesOut(e)
    PROVE  Agreement(e)'
<1> USE DEF Agreement, RequestAgrees, JobAgrees, IndInv, TypeOK, Handled, Queued, Goto
<1>1. CASE CreateEntry(e)
    BY <1>1 DEF CreateEntry
<1>2. CASE CheckRunning(e) \/ ReloadFails(e)
    BY <1>2 DEF CheckRunning, ReloadFails
<1>3. CASE Submit(e)
  <2>1. CASE loopSet
    BY <1>3, <2>1 DEF Submit
  <2>2. CASE ~loopSet
    BY <1>3, <2>2 DEF Submit
  <2>3. QED
    BY <2>1, <2>2
<1>4. CASE ReceiveResult(e)
    BY <1>4 DEF ReceiveResult
<1>5. CASE WriteOverflow(e)
    BY <1>5 DEF WriteOverflow
<1>6. CASE OverflowFails(e)
    BY <1>6 DEF OverflowFails
<1>7. CASE ReadCount(e)
    BY <1>7 DEF ReadCount
<1>8. CASE WriteCount(e)
    BY <1>8 DEF WriteCount
<1>9. CASE WaitTimesOut(e)
    BY <1>9 DEF WaitTimesOut
<1>10. QED
    BY <1>1, <1>2, <1>3, <1>4, <1>5, <1>6, <1>7, <1>8, <1>9 DEF RequestNext

\* A step of one entry's threads says nothing about another entry.
LEMMA OtherAgreement ==
    ASSUME IndInv, NEW e \in Entries, NEW f \in Entries, e # f,
           CreateEntry(f) \/ RequestNext(f) \/ WaitTimesOut(f) \/ JobNext(f)
    PROVE  Agreement(e)'
<1>1. /\ pc'[e] = pc[e] /\ call'[e] = call[e] /\ job'[e] = job[e]
      /\ verdict'[e] = verdict[e] /\ queue' = queue
      /\ e \in overflow' <=> e \in overflow
      /\ e \in gaveUp => e \in gaveUp'
      /\ e \in excused => e \in excused'
    BY DEF IndInv, TypeOK, CreateEntry, RequestNext, WaitTimesOut, JobNext, ReloadFails, CheckRunning,
           Submit, ReceiveResult, WriteOverflow, OverflowFails, ReadCount, WriteCount, Goto,
           CommitVerdict, JobFails, JobReadsCount, JobWritesCount, JobStep
<1>2. QED
    BY <1>1 DEF IndInv, Agreement, RequestAgrees, JobAgrees, Handled, Queued

\* Agreement, for the steps of the entry's own verify_entry() thread.
LEMMA JobAgreement ==
    ASSUME IndInv, NEW e \in Entries, JobNext(e)
    PROVE  Agreement(e)'
<1> USE DEF Agreement, RequestAgrees, JobAgrees, IndInv, TypeOK, Handled, Queued, JobStep
<1>1. CASE CommitVerdict(e)
  <2>0. verdict' \in [Entries -> Results \cup {NoVerdict}] /\ verdict'[e] \in Results
    BY <1>1 DEF CommitVerdict
  <2>1. /\ verdict'[e] # NoVerdict /\ job[e] = "running" /\ job'[e] = "written"
        /\ UNCHANGED <<pc, call, queue, overflow, gaveUp, excused>>
    <3>1. job[e] = "running" /\ job' = [job EXCEPT ![e] = "written"]
      BY <1>1 DEF CommitVerdict
    <3>2. job'[e] = "written"
      BY <3>1
    <3>3. verdict'[e] # NoVerdict
      BY <2>0, ResultsAssumption, NoVerdictAssumption
    <3>4. UNCHANGED <<pc, call, queue, overflow, gaveUp, excused>>
      BY <1>1 DEF CommitVerdict
    <3>5. QED
      BY <3>1, <3>2, <3>3, <3>4
  <2>2. call[e] = "accepted"
    BY <1>1 DEF CommitVerdict
  <2>3. QED
    BY <2>1, <2>2
<1>2. CASE JobFails(e)
    BY <1>2 DEF JobFails
<1>3. CASE JobReadsCount(e)
    BY <1>3 DEF JobReadsCount
<1>4. CASE JobWritesCount(e)
    BY <1>4 DEF JobWritesCount
<1>5. QED
    BY <1>1, <1>2, <1>3, <1>4 DEF JobNext

\* Agreement, for the event loop, stop() and a crash.
LEMMA LoopAgreement ==
    ASSUME IndInv, NEW e \in Entries,
           (\E f \in Entries : Enqueue(f)) \/ GetJob \/ NextJob \/ Start \/ Stop
             \/ StopReturns \/ StopTimesOut \/ Crash
    PROVE  Agreement(e)'
<1> USE DEF Agreement, RequestAgrees, JobAgrees, Handled
<1>0. TypeOK /\ Agreement(e)
    BY DEF IndInv
<1>1. ASSUME NEW f \in Entries, Enqueue(f) PROVE Agreement(e)'
  <2>1. CASE Accepting
    <3>1. \A g \in Entries : Queued(g)' <=> Queued(g) \/ g = f
      BY <1>0, <1>1, <2>1, AppendQueued DEF Enqueue
    <3>2. QED
      BY <1>0, <1>1, <2>1, <3>1 DEF Enqueue, TypeOK
  <2>2. CASE ~Accepting
    BY <1>0, <1>1, <2>2 DEF Enqueue, TypeOK, Queued
  <2>3. QED
    BY <2>1, <2>2
<1>2. CASE GetJob
  <2>1. /\ Queued(e)' => Queued(e)
        /\ Queued(e) => Queued(e)' \/ e = Head(queue)
        /\ Queued(e) => call[e] = "accepted"
        /\ Head(queue) \in Entries => Queued(Head(queue))
    BY <1>0, <1>2, TailQueued DEF GetJob, Queued
  <2>2. CASE e = Head(queue)
    BY <1>0, <1>2, <2>1, <2>2 DEF GetJob, TypeOK
  <2>3. CASE e # Head(queue)
    BY <1>0, <1>2, <2>1, <2>3 DEF GetJob, TypeOK
  <2>4. QED
    BY <2>2, <2>3
<1>3. CASE Stop
  <2>1. ~Queued(e)' /\ (Queued(e) => e \in excused')
    BY <1>3, StopQueued DEF Stop
  <2>2. QED
    BY <1>0, <1>3, <2>1 DEF Stop
<1>4. CASE Crash
  <2>1. ~Queued(e)'
    BY <1>4, StopQueued DEF Crash
  <2>2. pc[e] = "idle" => call[e] = "none"
    BY <1>0
  <2>3. QED
    BY <1>0, <1>4, <2>1, <2>2 DEF Crash, TypeOK, Active, RequestSteps, JobSteps
<1>5. CASE NextJob \/ Start \/ StopReturns \/ StopTimesOut
    BY <1>0, <1>5 DEF NextJob, Start, StopReturns, StopTimesOut, Queued
<1>6. QED
    BY <1>1, <1>2, <1>3, <1>4, <1>5

-----------------------------------------------------------------------------
(* The theorems.                                                             *)

\* Agreement for every entry, whoever takes the step.
LEMMA AgreementStep ==
    IndInv /\ [Next]_vars => \A e \in Entries : Agreement(e)'
<1> SUFFICES ASSUME IndInv, [Next]_vars, NEW e \in Entries PROVE Agreement(e)'
    OBVIOUS
<1>1. ASSUME NEW f \in Entries,
             CreateEntry(f) \/ RequestNext(f) \/ WaitTimesOut(f) \/ JobNext(f)
      PROVE  Agreement(e)'
    BY <1>1, RequestAgreement, JobAgreement, OtherAgreement
<1>2. CASE UNCHANGED vars
    BY <1>2 DEF IndInv, Agreement, RequestAgrees, JobAgrees, Handled, Queued
<1>3. QED
    BY <1>1, <1>2, LoopAgreement DEF Next

\* The inductive invariant holds initially and is preserved.
LEMMA IndInvInit == Init => IndInv
<1> SUFFICES ASSUME Init PROVE IndInv
    OBVIOUS
<1>1. TypeOK
    BY InitType
<1>2. QueuedOnce /\ JobOwned
    BY DEF Init, QueuedOnce, JobOwned, Queued, Active
<1>3. StopProtocol
    BY DEF Init, StopProtocol
<1>4. \A e \in Entries : RequestAgrees(e) /\ JobAgrees(e)
    BY DEF Init, RequestAgrees, JobAgrees, Queued
<1>5. QED
    BY <1>1, <1>2, <1>3, <1>4 DEF IndInv

\* The inductive invariant of the worker holds in every reachable state.
THEOREM Inductive == Spec => []IndInv
<1>1. IndInv /\ [Next]_vars => IndInv'
  <2> SUFFICES ASSUME IndInv, [Next]_vars PROVE IndInv'
      OBVIOUS
  <2>1. WrittenHasRow
      BY DEF IndInv, JobAgrees, WrittenHasRow
  <2>2. TypeOK'
      BY <2>1, TypeStep DEF IndInv
  <2>3. QED
      BY <2>2, QueuedOnceStep, JobOwnedStep, StopProtocolStep, AgreementStep
         DEF IndInv, Agreement
<1>2. QED
    BY IndInvInit, <1>1, PTL DEF Spec

\* However many requests race with the worker, only a request that stopped waiting
\* for its coroutine leaves both an overflow row and a verdict.
THEOREM NoContradiction == Spec => []TwoRowsOnlyAfterTimeout
<1>1. IndInv => TwoRowsOnlyAfterTimeout
    BY DEF IndInv, RequestAgrees, JobAgrees, TwoRowsOnlyAfterTimeout
<1>2. QED
    BY Inductive, <1>1, PTL

\* No answered request leaves its entry without a row, a job or a known reason.
THEOREM NothingLostSilently == Spec => []NoSilentLoss
<1>1. IndInv => NoSilentLoss
    BY DEF IndInv, RequestAgrees, JobAgrees, NoSilentLoss, Handled, Active
<1>2. QED
    BY Inductive, <1>1, PTL

\* Verifications are single-file, and each entry is queued once.
THEOREM SingleFile == Spec => [](JobOwned /\ QueuedOnce)
<1>1. IndInv => JobOwned /\ QueuedOnce
    BY DEF IndInv
<1>2. QED
    BY Inductive, <1>1, PTL

\* A running worker has a live loop until a stop() times out.
THEOREM LoopStaysAlive == Spec => []LoopAlive
<1>1. IndInv => LoopAlive
    BY DEF IndInv, StopProtocol, LoopAlive, TypeOK
<1>2. QED
    BY Inductive, <1>1, PTL

-----------------------------------------------------------------------------
(* The counts.                                                               *)

\* The entries that a request was made for.  There are finitely many, whatever Entries is.
Created == {e \in Entries : pc[e] # "idle"}

\* The increments of result_counts that are over: of the verify_entry() threads, of the
\* requests that recorded an overflow, and of both.
JobsCounted(k) == {e \in Entries : job[e] = "done" /\ verdict[e] = k}
OverflowsCounted == {e \in overflow : pc[e] = "done"}
Increments(k) ==
    Cardinality(JobsCounted(k)) + (IF k = "partial" THEN Cardinality(OverflowsCounted) ELSE 0)

\* No count, written or still in the hands of a thread, is more than the increments that are
\* over: the thread's own is not among them, and adds the one it is about to write.
CountsInv ==
    /\ IsFiniteSet(Created)
    /\ \A k \in Kinds : counts[k] <= Increments(k)
    /\ \A e \in Entries :
         /\ job[e] = "counting" => seen["job"][e] <= Increments(verdict[e])
         /\ pc[e] = "counting" => seen["request"][e] <= Increments("partial")

\* What has a row was created, so that the rows of a kind are finitely many.
LEMMA RowsFinite ==
    ASSUME IndInv, IsFiniteSet(Created)
    PROVE  /\ \A k \in Kinds : IsFiniteSet({e \in Entries : verdict[e] = k})
           /\ IsFiniteSet(overflow)
<1>1. \A e \in Entries : verdict[e] # NoVerdict \/ e \in overflow => e \in Created
    BY DEF IndInv, RequestAgrees, JobAgrees, Created
<1>2. \A k \in Kinds : {e \in Entries : verdict[e] = k} \in SUBSET Created
    BY <1>1 DEF Kinds
<1>3. overflow \in SUBSET Created
    BY <1>1 DEF IndInv, TypeOK
<1>4. QED
    BY <1>2, <1>3, FS_Subset

\* The increments are a number, and no more than the rows.
Counting ==
    /\ \A k \in Kinds : IsFiniteSet(JobsCounted(k)) /\ Cardinality(JobsCounted(k)) \in Nat
    /\ IsFiniteSet(OverflowsCounted) /\ Cardinality(OverflowsCounted) \in Nat
    /\ \A k \in Kinds : Increments(k) \in Nat
    /\ \A k \in Kinds :
         Increments(k) <= Cardinality({e \in Entries : verdict[e] = k})
                            + (IF k = "partial" THEN Cardinality(overflow) ELSE 0)

\* That they are follows from the invariant, ...
LEMMA IncrementsShape ==
    ASSUME IndInv, IsFiniteSet(Created)
    PROVE  Counting
<1>1. ASSUME NEW k \in Kinds
      PROVE  /\ IsFiniteSet(JobsCounted(k)) /\ Cardinality(JobsCounted(k)) \in Nat
             /\ Cardinality({e \in Entries : verdict[e] = k}) \in Nat
             /\ Cardinality(JobsCounted(k)) <= Cardinality({e \in Entries : verdict[e] = k})
  <2>1. IsFiniteSet({e \in Entries : verdict[e] = k})
    BY RowsFinite
  <2>2. JobsCounted(k) \in SUBSET {e \in Entries : verdict[e] = k}
    BY DEF JobsCounted
  <2>3. QED
    BY <2>1, <2>2, FS_Subset, FS_CardinalityType
<1>2. /\ IsFiniteSet(OverflowsCounted) /\ Cardinality(OverflowsCounted) \in Nat
      /\ Cardinality(overflow) \in Nat
      /\ Cardinality(OverflowsCounted) <= Cardinality(overflow)
  <2>1. IsFiniteSet(overflow) /\ OverflowsCounted \in SUBSET overflow
    BY RowsFinite DEF OverflowsCounted
  <2>2. QED
    BY <2>1, FS_Subset, FS_CardinalityType
<1>3. ASSUME NEW k \in Kinds
      PROVE  /\ Increments(k) \in Nat
             /\ Increments(k) <= Cardinality({e \in Entries : verdict[e] = k})
                                   + (IF k = "partial" THEN Cardinality(overflow) ELSE 0)
  <2> DEFINE a == Cardinality(JobsCounted(k))
             b == Cardinality(OverflowsCounted)
             c == Cardinality({e \in Entries : verdict[e] = k})
             d == Cardinality(overflow)
  <2>1. a \in Nat /\ b \in Nat /\ c \in Nat /\ d \in Nat /\ a <= c /\ b <= d
    BY <1>1, <1>2
  <2>2. Increments(k) = a + (IF k = "partial" THEN b ELSE 0)
    BY DEF Increments
  <2> HIDE DEF a, b, c, d
  <2>3. /\ Increments(k) \in Nat
        /\ Increments(k) <= c + (IF k = "partial" THEN d ELSE 0)
    BY <2>1, <2>2
  <2>4. QED
    BY <2>3 DEF c, d
<1>4. QED
    BY <1>1, <1>2, <1>3 DEF Counting

\* ... and follows after a step, too.
LEMMA IncrementsNext == (IndInv /\ IsFiniteSet(Created) => Counting)'
<1>1. IndInv /\ IsFiniteSet(Created) => Counting
    BY IncrementsShape
<1>2. QED
    BY <1>1, PTL

\* A step creates at most one entry.
LEMMA CreatedStep ==
    ASSUME IndInv, [Next]_vars, IsFiniteSet(Created)
    PROVE  IsFiniteSet(Created')
<1>1. \E e : Created' \in SUBSET (Created \cup {e})
  <2>1. ASSUME NEW e \in Entries, CreateEntry(e) \/ RequestNext(e) \/ WaitTimesOut(e)
        PROVE  Created' \in SUBSET (Created \cup {e})
      BY <2>1 DEF RequestNext, CreateEntry, ReloadFails, CheckRunning, Submit, ReceiveResult, WaitTimesOut,
         WriteOverflow, OverflowFails, ReadCount, WriteCount, Goto, Created, IndInv, TypeOK
  <2>2. CASE Crash
      BY <2>2 DEF Crash, Created, IndInv, TypeOK
  <2>3. CASE UNCHANGED pc
      BY <2>3 DEF Created
  <2>4. QED
      BY <2>1, <2>2, <2>3
         DEF Next, JobNext, CommitVerdict, JobFails, JobReadsCount, JobWritesCount, Enqueue,
             GetJob, NextJob, Start, Stop, StopReturns, StopTimesOut
<1>2. QED
    BY <1>1, FS_AddElement, FS_Subset

\* An increment that is over stays so: an entry is verified once, and answered once.
LEMMA CountedStays ==
    ASSUME IndInv, [Next]_vars
    PROVE  /\ \A k \in Kinds : JobsCounted(k) \subseteq JobsCounted(k)'
           /\ OverflowsCounted \subseteq OverflowsCounted'
<1>1. ASSUME NEW e \in Entries, job[e] = "done" PROVE job'[e] = "done" /\ verdict'[e] = verdict[e]
  <2>1. CASE GetJob
    <3>1. e # Head(queue)
      <4>1. ~Queued(e)
        BY <1>1 DEF IndInv, QueuedOnce
      <4>2. Len(queue) \in Nat \ {0} /\ DOMAIN queue = 1..Len(queue) /\ Head(queue) = queue[1]
        BY <2>1, TailQueued DEF IndInv, GetJob
      <4>3. QED
        BY <4>1, <4>2 DEF Queued
    <3>2. QED
      BY <1>1, <2>1, <3>1 DEF GetJob, IndInv, TypeOK
  <2>2. CASE Crash
      BY <1>1, <2>2 DEF Crash, Active
  <2>3. ASSUME NEW f \in Entries, JobNext(f)
        PROVE  job'[e] = "done" /\ verdict'[e] = verdict[e]
      BY <1>1, <2>3 DEF JobNext, CommitVerdict, JobFails, JobReadsCount, JobWritesCount, JobStep,
         IndInv, TypeOK
  <2>4. CASE UNCHANGED <<job, verdict>>
      BY <1>1, <2>4
  <2>5. QED
      BY <2>1, <2>2, <2>3, <2>4
         DEF Next, RequestNext, CreateEntry, ReloadFails, CheckRunning, Submit, ReceiveResult,
             WaitTimesOut, WriteOverflow, OverflowFails, ReadCount, WriteCount, Enqueue,
             NextJob, Start, Stop, StopReturns, StopTimesOut
<1>2. overflow \subseteq overflow' /\ \A e \in Entries : pc[e] = "done" => pc'[e] = "done"
    BY DEF Next, RequestNext, JobNext, CreateEntry, ReloadFails, CheckRunning, Submit, ReceiveResult,
       WaitTimesOut, WriteOverflow, OverflowFails, ReadCount, WriteCount, Goto, CommitVerdict,
       JobFails, JobReadsCount, JobWritesCount, Enqueue, GetJob, NextJob, Start, Stop,
       StopReturns, StopTimesOut, Crash, IndInv, TypeOK
<1>3. OverflowsCounted \subseteq OverflowsCounted'
    BY <1>2 DEF OverflowsCounted, IndInv, TypeOK
<1>4. QED
    BY <1>1, <1>3 DEF JobsCounted

\* So their number only grows.
LEMMA IncrementsGrow ==
    ASSUME IndInv, [Next]_vars, IndInv', IsFiniteSet(Created), NEW k \in Kinds
    PROVE  /\ Increments(k) \in Nat /\ Increments(k)' \in Nat /\ Increments(k) <= Increments(k)'
           /\ Cardinality(JobsCounted(k)) <= Cardinality(JobsCounted(k)')
           /\ Cardinality(OverflowsCounted) <= Cardinality(OverflowsCounted')
<1>1. IsFiniteSet(Created')
    BY CreatedStep
<1>2. /\ IsFiniteSet(JobsCounted(k)') /\ Cardinality(JobsCounted(k)') \in Nat
      /\ IsFiniteSet(OverflowsCounted') /\ Cardinality(OverflowsCounted') \in Nat
      /\ Increments(k)' \in Nat
    BY <1>1, IncrementsNext DEF Counting
<1>3. /\ JobsCounted(k) \in SUBSET JobsCounted(k)'
      /\ OverflowsCounted \in SUBSET OverflowsCounted'
    BY CountedStays
<1>4. /\ Cardinality(JobsCounted(k)) <= Cardinality(JobsCounted(k)')
      /\ Cardinality(OverflowsCounted) <= Cardinality(OverflowsCounted')
    BY <1>2, <1>3, FS_Subset
<1>5. /\ Increments(k) \in Nat /\ Cardinality(JobsCounted(k)) \in Nat
      /\ Cardinality(OverflowsCounted) \in Nat
    BY IncrementsShape DEF Counting
<1>6. QED
    BY <1>2, <1>4, <1>5 DEF Increments

\* The counts of a step that increments none ...
LEMMA NoIncrement ==
    ASSUME IndInv, [Next]_vars, IndInv', CountsInv,
           ~\E e \in Entries : WriteCount(e) \/ JobWritesCount(e)
    PROVE  CountsInv'
<1>0. IsFiniteSet(Created) /\ TypeOK /\ TypeOK'
    BY DEF CountsInv, IndInv
<1>1. IsFiniteSet(Created')
    BY <1>0, CreatedStep
<1>2. \A k \in Kinds : /\ Increments(k) \in Nat /\ Increments(k)' \in Nat
                       /\ Increments(k) <= Increments(k)'
    BY <1>0, IncrementsGrow
<1>3. counts' \in [Kinds -> Nat] /\ counts \in [Kinds -> Nat]
      /\ seen' \in [Threads -> [Entries -> Nat]] /\ seen \in [Threads -> [Entries -> Nat]]
    BY <1>0 DEF TypeOK
<1>4. CASE Crash
  <2>1. \A k \in Kinds : counts'[k] = 0
    BY <1>4 DEF Crash
  <2>2. \A e \in Entries : job'[e] # "counting" /\ pc'[e] # "counting"
    BY <1>0, <1>4 DEF Crash, Active, TypeOK
  <2>3. QED
    BY <1>1, <1>2, <2>1, <2>2 DEF CountsInv
<1>5. CASE ~Crash
  <2>1. counts' = counts
    BY <1>5 DEF Next, RequestNext, JobNext, CreateEntry, ReloadFails, CheckRunning, Submit, ReceiveResult,
       WaitTimesOut, WriteOverflow, OverflowFails, ReadCount, Enqueue, CommitVerdict, JobFails,
       JobReadsCount, GetJob, NextJob, Start, Stop, StopReturns, StopTimesOut
  <2>2. \A k \in Kinds : counts'[k] <= Increments(k)'
    BY <1>2, <1>3, <2>1 DEF CountsInv
  <2>3. ASSUME NEW e \in Entries, job'[e] = "counting"
        PROVE  seen'["job"][e] <= Increments(verdict[e])'
    <3>1. verdict'[e] \in Kinds
      BY <2>3 DEF IndInv, TypeOK, JobAgrees, Kinds
    <3>2. CASE JobReadsCount(e)
      <4>1. verdict' = verdict /\ seen'["job"][e] = counts[verdict[e]]
        BY <1>3, <3>2 DEF JobReadsCount, Threads
      <4>2. QED
        BY <2>1, <2>2, <3>1, <4>1
    <3>3. CASE ~JobReadsCount(e)
      <4>1. /\ job[e] = "counting" /\ verdict'[e] = verdict[e]
            /\ seen'["job"][e] = seen["job"][e]
        <5>1. ASSUME NEW f \in Entries, JobNext(f)
              PROVE  /\ job[e] = "counting" /\ verdict'[e] = verdict[e]
                     /\ seen'["job"][e] = seen["job"][e]
          BY <1>0, <1>3, <2>3, <3>3, <5>1
             DEF JobNext, CommitVerdict, JobFails, JobReadsCount, JobStep, TypeOK, Threads
        <5>2. ASSUME NEW f \in Entries,
                     CreateEntry(f) \/ RequestNext(f) \/ WaitTimesOut(f) \/ Enqueue(f)
              PROVE  UNCHANGED <<job, verdict, seen["job"]>>
          BY <1>3, <5>2
             DEF CreateEntry, RequestNext, WaitTimesOut, Enqueue, ReloadFails, CheckRunning, Submit,
                 ReceiveResult, WriteOverflow, OverflowFails, ReadCount, Threads
        <5>3. CASE GetJob
          BY <1>0, <2>3, <5>3 DEF GetJob, TypeOK
        <5>4. CASE NextJob \/ Start \/ Stop \/ StopReturns \/ StopTimesOut \/ UNCHANGED vars
          BY <2>3, <5>4 DEF NextJob, Start, Stop, StopReturns, StopTimesOut
        <5>5. QED
          BY <1>5, <2>3, <5>1, <5>2, <5>3, <5>4 DEF Next
      <4>2. seen["job"][e] \in Nat /\ seen["job"][e] <= Increments(verdict[e])
        BY <1>3, <4>1 DEF CountsInv, Threads
      <4>3. QED
        BY <1>2, <3>1, <4>1, <4>2
    <3>4. QED
      BY <3>2, <3>3
  <2>4. ASSUME NEW e \in Entries, pc'[e] = "counting"
        PROVE  seen'["request"][e] <= Increments("partial")'
    <3>1. "partial" \in Kinds
      BY DEF Kinds
    <3>2. CASE ReadCount(e)
      <4>1. seen'["request"][e] = counts["partial"]
        BY <1>3, <3>2 DEF ReadCount, Threads
      <4>2. QED
        BY <2>1, <2>2, <3>1, <4>1
    <3>3. CASE ~ReadCount(e)
      <4>1. pc[e] = "counting" /\ seen'["request"][e] = seen["request"][e]
        <5>1. ASSUME NEW f \in Entries, JobNext(f)
              PROVE  UNCHANGED <<pc, seen["request"]>>
          BY <1>3, <5>1
             DEF JobNext, CommitVerdict, JobFails, JobReadsCount, Threads
        <5>2. ASSUME NEW f \in Entries,
                     CreateEntry(f) \/ RequestNext(f) \/ WaitTimesOut(f)
              PROVE  pc[e] = "counting" /\ seen'["request"][e] = seen["request"][e]
          BY SMTT(30), <1>0, <1>3, <2>4, <3>3, <5>2
             DEF CreateEntry, RequestNext, WaitTimesOut, ReloadFails, CheckRunning, Submit,
                 ReceiveResult, WriteOverflow, OverflowFails, ReadCount, Goto, TypeOK, Threads
        <5>3. CASE UNCHANGED <<pc, seen>>
          BY <2>4, <5>3
        <5>4. QED
          BY <1>5, <2>4, <5>1, <5>2, <5>3
             DEF Next, Enqueue, GetJob, NextJob, Start, Stop, StopReturns, StopTimesOut
      <4>2. seen["request"][e] \in Nat /\ seen["request"][e] <= Increments("partial")
        BY <1>3, <4>1 DEF CountsInv, Threads
      <4>3. QED
        BY <1>2, <3>1, <4>1, <4>2
    <3>4. QED
      BY <3>2, <3>3
  <2>5. QED
    BY <1>1, <2>2, <2>3, <2>4 DEF CountsInv
<1>6. QED
    BY <1>4, <1>5

\* ... of one that a request makes, and that is one more when it has made it ...
LEMMA RequestIncrement ==
    ASSUME IndInv, [Next]_vars, IndInv', CountsInv, NEW e \in Entries, WriteCount(e)
    PROVE  CountsInv'
<1>0. IsFiniteSet(Created) /\ TypeOK /\ TypeOK' /\ "partial" \in Kinds
    BY DEF CountsInv, IndInv, Kinds
<1>1. IsFiniteSet(Created')
    BY <1>0, CreatedStep
<1>2. \A k \in Kinds : /\ Increments(k) \in Nat /\ Increments(k)' \in Nat
                       /\ Increments(k) <= Increments(k)'
    BY <1>0, IncrementsGrow
<1>3. Increments("partial")' = Increments("partial") + 1
  <2>1. OverflowsCounted' = OverflowsCounted \cup {e} /\ e \notin OverflowsCounted
    BY <1>0 DEF WriteCount, Goto, OverflowsCounted, TypeOK, IndInv, RequestAgrees
  <2>2. JobsCounted("partial")' = JobsCounted("partial")
    BY DEF WriteCount, JobsCounted
  <2>3. /\ IsFiniteSet(OverflowsCounted) /\ Cardinality(OverflowsCounted) \in Nat
        /\ Cardinality(JobsCounted("partial")) \in Nat
    BY <1>0, IncrementsShape DEF Counting
  <2>4. Cardinality(OverflowsCounted') = Cardinality(OverflowsCounted) + 1
    BY <2>1, <2>3, FS_AddElement
  <2>5. QED
    BY <2>2, <2>3, <2>4 DEF Increments
<1>4. /\ counts' = [counts EXCEPT !["partial"] = seen["request"][e] + 1]
      /\ seen' = [seen EXCEPT !["request"][e] = 0] /\ pc' = [pc EXCEPT ![e] = "done"]
      /\ pc[e] = "counting" /\ UNCHANGED <<job, verdict>>
    BY DEF WriteCount, Goto
<1>5. counts \in [Kinds -> Nat] /\ seen \in [Threads -> [Entries -> Nat]]
      /\ pc \in [Entries -> RequestSteps]
    BY <1>0 DEF TypeOK
<1>6. seen["request"][e] \in Nat /\ seen["request"][e] <= Increments("partial")
    BY <1>4, <1>5 DEF CountsInv, Threads
<1>7. counts'["partial"] = seen["request"][e] + 1
      /\ \A k \in Kinds \ {"partial"} : counts'[k] = counts[k]
    BY <1>0, <1>4, <1>5
<1>7a. \A k \in Kinds : counts'[k] <= Increments(k)'
  <2>1. counts'["partial"] <= Increments("partial")'
    BY <1>0, <1>2, <1>3, <1>6, <1>7
  <2>2. \A k \in Kinds \ {"partial"} : counts'[k] <= Increments(k)'
    BY <1>2, <1>5, <1>7 DEF CountsInv
  <2>3. QED
    BY <2>1, <2>2
<1>8. ASSUME NEW f \in Entries
      PROVE  /\ job'[f] = "counting" => seen'["job"][f] <= Increments(verdict[f])'
             /\ pc'[f] = "counting" => seen'["request"][f] <= Increments("partial")'
  <2>1. /\ seen'["job"][f] = seen["job"][f] /\ seen["job"][f] \in Nat
        /\ seen["request"][f] \in Nat /\ (f # e => seen'["request"][f] = seen["request"][f])
        /\ pc'[e] = "done" /\ (f # e => pc'[f] = pc[f])
    BY <1>4, <1>5 DEF Threads
  <2>2. job[f] = "counting" => verdict[f] \in Kinds
    BY DEF IndInv, TypeOK, JobAgrees, Kinds
  <2>3. /\ job[f] = "counting" => seen["job"][f] <= Increments(verdict[f])
        /\ pc[f] = "counting" => seen["request"][f] <= Increments("partial")
    BY DEF CountsInv
  <2>4. QED
    BY <1>0, <1>2, <1>4, <2>1, <2>2, <2>3
<1>9. QED
    BY <1>1, <1>7a, <1>8 DEF CountsInv

\* ... and of one that a verify_entry() thread makes.
LEMMA JobIncrement ==
    ASSUME IndInv, [Next]_vars, IndInv', CountsInv, NEW e \in Entries, JobWritesCount(e)
    PROVE  CountsInv'
<1> DEFINE v == verdict[e]
<1>0. IsFiniteSet(Created) /\ TypeOK /\ TypeOK' /\ v \in Kinds /\ "partial" \in Kinds
    BY DEF CountsInv, IndInv, Kinds, TypeOK, JobAgrees, JobWritesCount, JobStep
<1>1. IsFiniteSet(Created')
    BY <1>0, CreatedStep
<1>2. \A k \in Kinds : /\ Increments(k) \in Nat /\ Increments(k)' \in Nat
                       /\ Increments(k) <= Increments(k)'
    BY <1>0, IncrementsGrow
<1>4. /\ counts' = [counts EXCEPT ![v] = seen["job"][e] + 1]
      /\ seen' = [seen EXCEPT !["job"][e] = 0] /\ job' = [job EXCEPT ![e] = "done"]
      /\ job[e] = "counting" /\ UNCHANGED <<pc, verdict, overflow>>
    BY DEF JobWritesCount, JobStep
<1>5. counts \in [Kinds -> Nat] /\ seen \in [Threads -> [Entries -> Nat]]
      /\ job \in [Entries -> JobSteps]
    BY <1>0 DEF TypeOK
<1>3. Increments(v)' >= Increments(v) + 1
  <2>1. JobsCounted(v)' = JobsCounted(v) \cup {e} /\ e \notin JobsCounted(v)
    BY <1>4, <1>5 DEF JobsCounted
  <2>2. OverflowsCounted' = OverflowsCounted
    BY <1>4 DEF OverflowsCounted
  <2>3. /\ IsFiniteSet(JobsCounted(v)) /\ Cardinality(JobsCounted(v)) \in Nat
        /\ Cardinality(OverflowsCounted) \in Nat
    BY <1>0, IncrementsShape DEF Counting
  <2>4. Cardinality(JobsCounted(v)') = Cardinality(JobsCounted(v)) + 1
    BY <2>1, <2>3, FS_AddElement
  <2>5. v' = v
    BY <1>4
  <2>6. QED
    BY <2>2, <2>3, <2>4, <2>5 DEF Increments
<1>6. seen["job"][e] \in Nat /\ seen["job"][e] <= Increments(v)
    BY <1>4, <1>5 DEF CountsInv, Threads
<1>7. \A k \in Kinds : counts'[k] <= Increments(k)'
  <2>1. counts'[v] = seen["job"][e] + 1 /\ \A k \in Kinds \ {v} : counts'[k] = counts[k]
    BY <1>0, <1>4, <1>5
  <2>2. counts'[v] <= Increments(v)'
    BY <1>0, <1>2, <1>3, <1>4, <1>6, <2>1
  <2>3. \A k \in Kinds \ {v} : counts'[k] <= Increments(k)'
    BY <1>2, <1>5, <2>1 DEF CountsInv
  <2>4. QED
    BY <1>4, <2>2, <2>3
<1>8. ASSUME NEW f \in Entries
      PROVE  /\ job'[f] = "counting" => seen'["job"][f] <= Increments(verdict[f])'
             /\ pc'[f] = "counting" => seen'["request"][f] <= Increments("partial")'
  <2>1. /\ seen'["request"][f] = seen["request"][f] /\ seen["job"][f] \in Nat
        /\ seen["request"][f] \in Nat /\ (f # e => seen'["job"][f] = seen["job"][f])
        /\ job'[e] = "done" /\ (f # e => job'[f] = job[f])
    BY <1>4, <1>5 DEF Threads
  <2>2. job[f] = "counting" => verdict[f] \in Kinds
    BY DEF IndInv, TypeOK, JobAgrees, Kinds
  <2>3. /\ job[f] = "counting" => seen["job"][f] <= Increments(verdict[f])
        /\ pc[f] = "counting" => seen["request"][f] <= Increments("partial")
    BY DEF CountsInv
  <2>4. QED
    BY <1>0, <1>2, <1>4, <2>1, <2>2, <2>3
<1>9. QED
    BY <1>1, <1>7, <1>8 DEF CountsInv

\* The counts stay sound at every step.
LEMMA CountsInvariant == Spec => []CountsInv
<1>1. Init => CountsInv
  <2> SUFFICES ASSUME Init PROVE CountsInv
      OBVIOUS
  <2>1. Created = {} /\ \A k \in Kinds : JobsCounted(k) = {}
      BY DEF Init, Created, JobsCounted
  <2>2. OverflowsCounted = {}
      BY DEF Init, OverflowsCounted
  <2>3. \A k \in Kinds : counts[k] = 0 /\ Increments(k) = 0
    <3>1. \A k \in Kinds : Cardinality(JobsCounted(k)) = 0
      BY <2>1, FS_EmptySet
    <3>2. Cardinality(OverflowsCounted) = 0
      BY <2>2, FS_EmptySet
    <3>3. QED
      BY <3>1, <3>2 DEF Init, Increments
  <2>4. IsFiniteSet(Created)
      BY <2>1, FS_EmptySet
  <2>5. QED
      BY <2>3, <2>4 DEF Init, CountsInv
<1>2. IndInv /\ IndInv' /\ CountsInv /\ [Next]_vars => CountsInv'
    BY NoIncrement, RequestIncrement, JobIncrement
<1>3. QED
    BY <1>1, <1>2, Inductive, PTL DEF Spec

\* The increments of result_counts are not synchronised, and may be lost, but never report
\* a result that has no row: not of requests that race with verify_entry() threads, nor
\* after a stop() that left one running, nor after a crash.
THEOREM CountsAreSound == Spec => []CountsSound
<1>1. IndInv /\ CountsInv => CountsSound
  <2> SUFFICES ASSUME IndInv, CountsInv, NEW k \in Kinds
               PROVE  counts[k] <= Cardinality({e \in Entries : verdict[e] = k})
                                   + (IF k = "partial" THEN Cardinality(overflow) ELSE 0)
      BY DEF CountsSound
  <2>1. /\ IsFiniteSet({e \in Entries : verdict[e] = k}) /\ IsFiniteSet(overflow)
        /\ Increments(k) \in Nat /\ counts[k] \in Nat /\ counts[k] <= Increments(k)
        /\ Increments(k) <= Cardinality({e \in Entries : verdict[e] = k})
                              + (IF k = "partial" THEN Cardinality(overflow) ELSE 0)
      BY RowsFinite, IncrementsShape DEF CountsInv, Counting, IndInv, TypeOK
  <2>2. /\ Cardinality({e \in Entries : verdict[e] = k}) \in Nat
        /\ Cardinality(overflow) \in Nat
      BY <2>1, FS_CardinalityType
  <2>3. QED
      BY <2>1, <2>2
<1>2. QED
    BY <1>1, Inductive, CountsInvariant, PTL
=============================================================================
