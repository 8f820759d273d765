-------------------------- MODULE TailWatcherProofs --------------------------
(* TailWatcher: its inductive invariant, and what follows from it, for any number of *)
(* threads and files, files of any length and any number of attempts.                *)
EXTENDS TailWatcher, FiniteSetTheorems, TLAPS

Types ==
    /\ lines \in [Files -> Seq(BOOLEAN)]
    /\ \A f \in Files : Len(lines[f]) \in 0..MaxLines
    /\ heard \in [Files -> SUBSET (1..End)]
    /\ mapped \subseteq Files
    /\ file \in [Tailers -> Files \cup {None}]
    /\ from \in [Tailers -> 0..MaxLines] /\ pos \in [Tailers -> 0..MaxLines]
    /\ pc \in [Tailers -> Working \cup Left \cup {"idle"}]
    /\ last \in [Tailers -> 0..MaxLines] /\ ending \in [Tailers -> BOOLEAN]
    /\ attempt \in [Tailers -> 1..Attempts]
    /\ signalAt \in Nat \cup {None}
    /\ overtaken \subseteq Tailers /\ setBack \in BOOLEAN
    /\ log \in [Tailers -> Seq(1..End)] /\ signals \in [Tailers -> Seq(1..End)]
    /\ published \subseteq Tailers
    /\ failed \in [Tailers -> SUBSET (1..End)]
    /\ torn \in [Tailers -> SUBSET (1..MaxLines)]

\* A thread that tries to forward an event.
Trying(t) == pc[t] \in {"mapping", "start", "post", "detect", "signal"}

\* A thread that ends its session.
Closing(t) == pc[t] \in {"harvest", "publish", "submit", "forget"}

\* Where a thread is in its file, and what it has in hand.
Placed(t) ==
    /\ pc[t] = "idle" => /\ log[t] = << >> /\ signals[t] = << >>
                         /\ last[t] = 0 /\ ending[t] = FALSE
    /\ pc[t] # "idle" => /\ file[t] \in Files
                         /\ from[t] <= pos[t] /\ pos[t] <= Len(lines[file[t]])
                         /\ last[t] <= pos[t]
    /\ pc[t] = "read" => ending[t] = FALSE
    /\ ending[t] = TRUE => last[t] # 0
    /\ Trying(t) => \/ ending[t] = TRUE
                    \/ from[t] < pos[t] /\ lines[file[t]][pos[t]] = TRUE
    /\ Closing(t) => ending[t] = TRUE /\ End \in Range(log[t])

\* What it has forwarded lies behind it.
Behind(t) ==
    \A i \in Range(log[t]) \cup Range(signals[t]) :
        \/ i = End /\ ending[t] = TRUE
        \/ i \in 1..pos[t] /\ lines[file[t]][i] = TRUE

\* All that lies behind it was forwarded or torn, but for the line in hand.
Covered(t) ==
    /\ \A j \in (from[t] + 1)..pos[t] :
           \/ j \in Range(log[t]) \cup torn[t]
           \/ j = pos[t] /\ pc[t] # "read" /\ ending[t] = FALSE
    /\ pc[t] \in {"detect", "signal"} => Current(t) \in Range(log[t])

\* What a look at the cooldown found is so until another thread sets it.  If no thread has
\* set it back, an event that was signalled, or is about to be, is in its cooldown as long
\* as it is in hand, and was not signalled before.
Once(t) == \A i, j \in DOMAIN signals[t] : i # j => signals[t][i] # signals[t][j]
Armed(t) ==
    /\ pc[t] = "detect" /\ t \notin overtaken => ~InCooldown(t)
    /\ setBack = FALSE =>
          /\ pc[t] \in {"detect", "signal"} => Current(t) \notin Range(signals[t])
          /\ Trying(t) /\ (pc[t] = "signal" \/ Current(t) \in Range(signals[t])) => InCooldown(t)
          /\ Once(t)

\* A running thread has heard what it delivered, but for the event in hand.
Heard(t) ==
    pc[t] \in Working =>
        \A i \in Range(log[t]) :
            \/ i \in heard[file[t]]
            \/ pc[t] \in {"mapping", "start", "post"} /\ i = Current(t)

\* What is heard of a file was delivered by a thread that tails it.
HeardIsDelivered ==
    \A f \in Files : \A i \in heard[f] :
        \E t \in Tailers : pc[t] # "idle" /\ file[t] = f /\ i \in Range(log[t])

\* The thread accounts for the mapping of its file: it is to harvest, or it ended early.
Holds(t) ==
    \/ pc[t] \in Left \ {"quiet"}
    \/ pc[t] \in Working /\ (pc[t] = "read" => last[t] # 0)

MappingsHeld == \A f \in mapped : \E t \in Tailers : file[t] = f /\ Holds(t)

IInv ==
    /\ Types
    /\ \A t \in Tailers : Placed(t) /\ Behind(t) /\ Covered(t) /\ Armed(t) /\ Heard(t)
    /\ HeardIsDelivered
    /\ MappingsHeld

-----------------------------------------------------------------------------
\* What is appended to a sequence.
LEMMA AppendShape ==
    ASSUME NEW S, NEW s \in Seq(S), NEW x \in S
    PROVE  /\ Append(s, x) \in Seq(S)
           /\ Range(Append(s, x)) = Range(s) \cup {x}
           /\ Len(Append(s, x)) = Len(s) + 1
           /\ \A i \in 1..Len(s) : Append(s, x)[i] = s[i]
           /\ DOMAIN Append(s, x) = 1..(Len(s) + 1)
           /\ Append(s, x)[Len(s) + 1] = x
<1>1. /\ Append(s, x) \in Seq(S) /\ Len(Append(s, x)) = Len(s) + 1
      /\ \A i \in 1..Len(s) : Append(s, x)[i] = s[i]
      /\ DOMAIN Append(s, x) = 1..(Len(s) + 1)
      /\ Append(s, x)[Len(s) + 1] = x
  OBVIOUS
<1>2. DOMAIN s = 1..Len(s) /\ Len(s) \in Nat
  OBVIOUS
<1>3. ASSUME NEW y \in Range(Append(s, x)) PROVE y \in Range(s) \cup {x}
  BY <1>1, <1>2 DEF Range
<1>4. ASSUME NEW y \in Range(s) \cup {x} PROVE y \in Range(Append(s, x))
  BY <1>1, <1>2 DEF Range
<1> QED
  BY <1>1, <1>3, <1>4

\* The same of the events, which are numbers.
LEMMA AppendEvent ==
    ASSUME NEW s \in Seq(1..End), NEW x \in 1..End
    PROVE  /\ Append(s, x) \in Seq(1..End)
           /\ Range(Append(s, x)) = Range(s) \cup {x}
           /\ Len(Append(s, x)) = Len(s) + 1
           /\ \A i \in 1..Len(s) : Append(s, x)[i] = s[i]
           /\ DOMAIN Append(s, x) = 1..(Len(s) + 1)
           /\ Append(s, x)[Len(s) + 1] = x
<1> DEFINE S == 1..End
<1> s \in Seq(S) /\ x \in S
  OBVIOUS
<1> HIDE DEF S
<1>1. /\ Append(s, x) \in Seq(S)
      /\ Range(Append(s, x)) = Range(s) \cup {x}
      /\ Len(Append(s, x)) = Len(s) + 1
      /\ \A i \in 1..Len(s) : Append(s, x)[i] = s[i]
      /\ DOMAIN Append(s, x) = 1..(Len(s) + 1)
      /\ Append(s, x)[Len(s) + 1] = x
  BY AppendShape
<1> QED
  BY <1>1 DEF S

\* The events are numbers, session_end the largest.
LEMMA EndShape ==
    /\ End \in Nat /\ End >= 1 /\ \A i \in 0..MaxLines : i \in Nat /\ i < End
BY MaxLinesAssumption DEF End

\* The event in hand is one that can be forwarded.
LEMMA CurrentShape ==
    ASSUME Types, NEW t \in Tailers, Placed(t), Trying(t)
    PROVE  Current(t) \in 1..End
<1>1. CASE ending[t] = TRUE
  BY <1>1, EndShape DEF Current
<1>2. CASE ending[t] # TRUE
  <2>1. from[t] < pos[t] /\ from[t] \in 0..MaxLines /\ pos[t] \in 0..MaxLines /\ ending[t] = FALSE
    BY <1>2 DEF Types, Placed
  <2> QED
    BY <2>1, EndShape DEF Current
<1> QED
  BY <1>1, <1>2

-----------------------------------------------------------------------------
(* What the ends of an attempt do to a thread.                             *)

\* A step of thread t.
Own(t) == StartTail(t) \/ ReadTornLine(t) \/ ReadRaises(t) \/ Proceed(t)

\* A failed attempt is tried again, or is the last one.
LEMMA FailShape ==
    ASSUME Types, NEW t \in Tailers, Current(t) \in 1..End, Fail(t)
    PROVE  /\ pc'[t] \in {"mapping", "gaveup"}
           /\ \A u \in Tailers \ {t} : pc'[u] = pc[u]
           /\ pc' \in [Tailers -> Working \cup Left \cup {"idle"}]
           /\ attempt' \in [Tailers -> 1..Attempts]
           /\ failed' \in [Tailers -> SUBSET (1..End)]
           /\ last' = last /\ ending' = ending
<1>1. pc \in [Tailers -> Working \cup Left \cup {"idle"}] /\ last' = last /\ ending' = ending
  BY DEF Types, Fail
<1>2. pc' = [pc EXCEPT ![t] = "mapping"] \/ pc' = [pc EXCEPT ![t] = "gaveup"]
  BY DEF Fail, Go
<1>3. /\ pc'[t] \in {"mapping", "gaveup"} /\ \A u \in Tailers \ {t} : pc'[u] = pc[u]
      /\ pc' \in [Tailers -> Working \cup Left \cup {"idle"}]
  BY <1>1, <1>2 DEF Working, Left
<1>4. attempt' \in [Tailers -> 1..Attempts]
  <2>1. attempt[t] \in 1..Attempts
    BY DEF Types
  <2>2. CASE attempt[t] < Attempts /\ attempt' = [attempt EXCEPT ![t] = @ + 1]
    BY <2>1, <2>2, AttemptsAssumption DEF Types
  <2>3. CASE attempt' = attempt
    BY <2>3 DEF Types
  <2> QED
    BY <2>2, <2>3 DEF Fail
<1>5. failed' \in [Tailers -> SUBSET (1..End)]
  BY DEF Types, Fail
<1> QED
  BY <1>1, <1>3, <1>4, <1>5

\* After an event the thread reads on, or harvests.
LEMMA SucceedShape ==
    ASSUME Types, NEW t \in Tailers, Succeed(t)
    PROVE  /\ \/ ending[t] = TRUE /\ pc'[t] = "harvest" /\ last' = last
              \/ ending[t] = FALSE /\ pc'[t] = "read" /\ last'[t] = pos[t]
           /\ \A u \in Tailers \ {t} : pc'[u] = pc[u] /\ last'[u] = last[u]
           /\ pc' \in [Tailers -> Working \cup Left \cup {"idle"}]
           /\ last' \in [Tailers -> 0..MaxLines]
           /\ ending' = ending /\ attempt' = attempt /\ failed' = failed
BY DEF Types, Succeed, Go, Working, Left

\* What a delivery does to the server and to what is heard.
LEMMA DeliverShape ==
    ASSUME Types, NEW t \in Tailers, Current(t) \in 1..End, Deliver(t)
    PROVE  /\ log' \in [Tailers -> Seq(1..End)]
           /\ Range(log'[t]) = Range(log[t]) \cup {Current(t)}
           /\ \A u \in Tailers \ {t} : log'[u] = log[u]
<1>1. log'[t] = Append(log[t], Current(t)) /\ log[t] \in Seq(1..End)
  BY DEF Types, Deliver
<1>2. Append(log[t], Current(t)) \in Seq(1..End)
      /\ Range(Append(log[t], Current(t))) = Range(log[t]) \cup {Current(t)}
  BY <1>1, AppendEvent
<1> QED
  BY <1>1, <1>2 DEF Types, Deliver

\* What is heard, ...
LEMMA HearShape ==
    ASSUME Types, NEW t \in Tailers, Current(t) \in 1..End, file[t] \in Files, Hear(t)
    PROVE  /\ heard' \in [Files -> SUBSET (1..End)]
           /\ heard'[file[t]] = heard[file[t]] \cup {Current(t)}
           /\ \A f \in Files \ {file[t]} : heard'[f] = heard[f]
BY DEF Types, Hear

\* ... and what a signal does to the server.
LEMMA SignalShape ==
    ASSUME Types, NEW t \in Tailers, Current(t) \in 1..End, Signal(t)
    PROVE  /\ signals' \in [Tailers -> Seq(1..End)]
           /\ Range(signals'[t]) = Range(signals[t]) \cup {Current(t)}
           /\ Len(signals'[t]) = Len(signals[t]) + 1
           /\ \A i \in 1..Len(signals[t]) : signals'[t][i] = signals[t][i]
           /\ DOMAIN signals'[t] = 1..(Len(signals[t]) + 1)
           /\ signals'[t][Len(signals[t]) + 1] = Current(t)
           /\ \A u \in Tailers \ {t} : signals'[u] = signals[u]
<1>1. signals'[t] = Append(signals[t], Current(t)) /\ signals[t] \in Seq(1..End)
  BY DEF Types, Signal
<1>2. /\ Append(signals[t], Current(t)) \in Seq(1..End)
      /\ Range(Append(signals[t], Current(t))) = Range(signals[t]) \cup {Current(t)}
      /\ Len(Append(signals[t], Current(t))) = Len(signals[t]) + 1
      /\ \A i \in 1..Len(signals[t]) : Append(signals[t], Current(t))[i] = signals[t][i]
      /\ DOMAIN Append(signals[t], Current(t)) = 1..(Len(signals[t]) + 1)
      /\ Append(signals[t], Current(t))[Len(signals[t]) + 1] = Current(t)
  BY <1>1, AppendEvent
<1>3. signals' \in [Tailers -> Seq(1..End)] /\ \A u \in Tailers \ {t} : signals'[u] = signals[u]
  BY <1>1, <1>2 DEF Types, Signal
<1> QED
  BY <1>1, <1>2, <1>3

\* An event is in hand where one is forwarded.
LEMMA InHand ==
    ASSUME Types, NEW t \in Tailers, Placed(t), pc[t] \in {"start", "post", "detect", "signal"}
    PROVE  Current(t) \in 1..End /\ file[t] \in Files /\ Trying(t)
BY CurrentShape DEF Placed, Trying

\* It has a timestamp.
LEMMA StampShape ==
    ASSUME Types, NEW t \in Tailers, Placed(t), Trying(t)
    PROVE  StampOf(t) \in Nat
<1>1. file[t] \in Files /\ pos[t] \in 0..MaxLines /\ last[t] \in 0..MaxLines /\ from[t] \in Nat
  BY DEF Types, Placed, Trying
<1>2. CASE ending[t] = TRUE
  <2>1. last[t] \in 1..MaxLines
    BY <1>1, <1>2, MaxLinesAssumption DEF Placed
  <2> QED
    BY <1>1, <1>2, <2>1, StampAssumption DEF StampOf
<1>3. CASE ending[t] # TRUE
  <2>1. ending[t] = FALSE /\ from[t] < pos[t]
    BY <1>3 DEF Placed, Types
  <2>2. pos[t] \in 1..MaxLines
    BY <1>1, <2>1, MaxLinesAssumption
  <2> QED
    BY <1>1, <2>1, <2>2, StampAssumption DEF StampOf
<1> QED
  BY <1>2, <1>3

\* A line that can be read is one of the file's.
LEMMA NextLine ==
    ASSUME Types, NEW t \in Tailers, Placed(t), pc[t] = "read"
    PROVE  /\ file[t] \in Files /\ ending[t] = FALSE
           /\ pos[t] \in Nat /\ Len(lines[file[t]]) \in 0..MaxLines
           /\ Unread(t) \/ pos[t] + 1 = Len(lines[file[t]])
                => pos[t] + 1 \in 1..MaxLines /\ pos[t] + 1 <= Len(lines[file[t]])
<1>1. file[t] \in Files /\ ending[t] = FALSE
  BY DEF Placed
<1>2. pos[t] \in 0..MaxLines /\ Len(lines[file[t]]) \in 0..MaxLines
  BY <1>1 DEF Types
<1> QED
  BY <1>1, <1>2, MaxLinesAssumption DEF Unread

\* A thread sets the cooldown.
Arms(t) ==
    /\ Go(t, "signal") /\ signalAt' = StampOf(t)
    /\ overtaken' = {u \in Tailers \ {t} : pc[u] = "detect"}
    /\ setBack' = (setBack \/ (t \in overtaken /\ StampOf(t) < signalAt))
    /\ UNCHANGED <<last, ending, attempt, failed>>

LEMMA DetectShape ==
    ASSUME NEW t \in Tailers, Detect(t)
    PROVE  \/ Succeed(t) /\ UNCHANGED <<signalAt, setBack>> /\ overtaken' = overtaken \ {t}
           \/ Arms(t)
BY DEF Detect, Arms

-----------------------------------------------------------------------------
\* Every step of a thread keeps the types.
LEMMA TypesKept ==
    ASSUME IInv, NEW t \in Tailers, Own(t)
    PROVE  Types'
<1> Types /\ Placed(t)
  BY DEF IInv
<1> USE DEF Types, Working, Left, place, cursor, detector, server, history
<1>1. CASE StartTail(t)
  BY <1>1 DEF StartTail, Go
<1>2. CASE ReadTornLine(t)
  <2>1. /\ pos[t] + 1 \in 1..MaxLines
        /\ pos' = [pos EXCEPT ![t] = pos[t] + 1]
        /\ torn' = [torn EXCEPT ![t] = torn[t] \cup {pos[t] + 1}]
    BY <1>2, NextLine DEF ReadTornLine
  <2>2. pos' \in [Tailers -> 0..MaxLines] /\ torn' \in [Tailers -> SUBSET (1..MaxLines)]
    BY <2>1
  <2> QED
    BY <1>2, <2>2 DEF ReadTornLine
<1>3. CASE ReadLine(t)
  <2>1. /\ pos[t] + 1 \in 1..MaxLines
        /\ pos' = [pos EXCEPT ![t] = pos[t] + 1]
    BY <1>3, NextLine DEF ReadLine
  <2>2. pos' \in [Tailers -> 0..MaxLines]
    BY <2>1
  <2>3. attempt' \in [Tailers -> 1..Attempts]
    BY <1>3, AttemptsAssumption DEF ReadLine
  <2>4. pc' \in [Tailers -> Working \cup Left \cup {"idle"}]
    BY <1>3 DEF ReadLine, Go
  <2> QED
    BY <1>3, <2>2, <2>3, <2>4 DEF ReadLine
<1>4. CASE Quiet(t)
  <2>1. pc' \in [Tailers -> Working \cup Left \cup {"idle"}]
    BY <1>4 DEF Quiet, Go
  <2>2. ending' \in [Tailers -> BOOLEAN]
    BY <1>4 DEF Quiet
  <2>3. attempt' \in [Tailers -> 1..Attempts]
    <3>1. attempt' = attempt \/ attempt' = [attempt EXCEPT ![t] = 1]
      BY <1>4 DEF Quiet
    <3>2. 1 \in 1..Attempts /\ attempt \in [Tailers -> 1..Attempts]
      BY AttemptsAssumption
    <3> QED
      BY <3>1, <3>2, Zenon
  <2> QED
    BY <1>4, <2>1, <2>2, <2>3 DEF Quiet
<1>5. CASE GetMapping(t)
  BY <1>5 DEF GetMapping, Go
<1>6. CASE StartSession(t)
  BY <1>6, InHand, FailShape DEF StartSession, Go
<1>7. CASE PostEvent(t)
  <2>1. Current(t) \in 1..End /\ file[t] \in Files
    BY <1>7, InHand DEF PostEvent
  <2>2. log' \in [Tailers -> Seq(1..End)] /\ heard' \in [Files -> SUBSET (1..End)]
    BY <1>7, <2>1, DeliverShape, HearShape DEF PostEvent
  <2>3. CASE Succeed(t)
    BY <1>7, <2>2, <2>3, SucceedShape DEF PostEvent
  <2>4. CASE Go(t, "detect") /\ UNCHANGED <<last, ending, attempt, failed>>
    BY <1>7, <2>2, <2>4 DEF PostEvent, Go
  <2> QED
    BY <1>7, <2>3, <2>4 DEF PostEvent
<1>8. CASE PostEventFails(t)
  BY <1>8, InHand, FailShape, DeliverShape DEF PostEventFails
<1>9. CASE DetectorRaises(t)
  BY <1>9, InHand, FailShape DEF DetectorRaises
<1>10. CASE PostSignal(t)
  BY <1>10, InHand, FailShape, SucceedShape, SignalShape DEF PostSignal, Go
<1>11. CASE Harvest(t)
  BY <1>11 DEF Harvest, Go
<1>12. CASE Publish(t)
  BY <1>12 DEF Publish, Go
<1>13. CASE SubmitCandidate(t)
  BY <1>13 DEF SubmitCandidate, Go
<1>14. CASE Forget(t)
  BY <1>14 DEF Forget, Go
<1>15. CASE ReadRaises(t)
  BY <1>15 DEF ReadRaises, Go
<1>16. CASE Detect(t)
  <2>1. CASE Succeed(t) /\ UNCHANGED <<signalAt, setBack>> /\ overtaken' = overtaken \ {t}
    BY <1>16, <2>1, SucceedShape DEF Detect
  <2>2. CASE Arms(t)
    <3>1. signalAt' \in Nat
      BY <1>16, <2>2, InHand, StampShape DEF Detect, Arms
    <3>2. setBack' \in BOOLEAN /\ overtaken' \subseteq Tailers
      BY <2>2 DEF Arms
    <3> QED
      BY <1>16, <2>2, <3>1, <3>2 DEF Detect, Arms, Go
  <2> QED
    BY <1>16, <2>1, <2>2, DetectShape
<1> QED
  BY <1>1, <1>2, <1>3, <1>4, <1>5, <1>6, <1>7, <1>8, <1>9, <1>10, <1>11, <1>12, <1>13,
     <1>14, <1>15, <1>16 DEF Own, Proceed

-----------------------------------------------------------------------------
(* A step of a thread leaves the others alone.                             *)

\* Nothing of the thread changes.
Same(u) ==
    /\ file'[u] = file[u] /\ from'[u] = from[u] /\ pos'[u] = pos[u] /\ pc'[u] = pc[u]
    /\ last'[u] = last[u] /\ ending'[u] = ending[u]
    /\ log'[u] = log[u] /\ signals'[u] = signals[u] /\ torn'[u] = torn[u]

\* The files stay as they are, and so do the other threads.
LEMMA Others ==
    ASSUME IInv, NEW t \in Tailers, Own(t)
    PROVE  /\ lines' = lines /\ \A f \in Files : heard[f] \subseteq heard'[f]
           /\ \A u \in Tailers \ {t} : Same(u)
<1> Types /\ Placed(t)
  BY DEF IInv
<1> USE DEF Types, Same, place, cursor, detector, server, history
<1>1. CASE StartTail(t)
  BY <1>1 DEF StartTail, Go
<1>2. CASE ReadTornLine(t)
  BY <1>2 DEF ReadTornLine
<1>3. CASE ReadLine(t)
  BY <1>3 DEF ReadLine, Go
<1>4. CASE Quiet(t)
  BY <1>4 DEF Quiet, Go
<1>5. CASE GetMapping(t)
  BY <1>5 DEF GetMapping, Go
<1>6. CASE StartSession(t)
  BY <1>6, InHand, FailShape DEF StartSession, Go
<1>7. CASE PostEvent(t)
  <2>1. Current(t) \in 1..End /\ file[t] \in Files
    BY <1>7, InHand DEF PostEvent
  <2>2. \A u \in Tailers \ {t} : log'[u] = log[u]
    BY <1>7, <2>1, DeliverShape DEF PostEvent
  <2>3. \A u \in Tailers \ {t} : pc'[u] = pc[u] /\ last'[u] = last[u] /\ ending'[u] = ending[u]
    BY <1>7, SucceedShape DEF PostEvent, Go
  <2>4. \A f \in Files : heard[f] \subseteq heard'[f]
    BY <1>7, <2>1, HearShape DEF PostEvent
  <2> QED
    BY <1>7, <2>2, <2>3, <2>4 DEF PostEvent
<1>8. CASE PostEventFails(t)
  BY <1>8, InHand, FailShape, DeliverShape DEF PostEventFails
<1>9. CASE DetectorRaises(t)
  BY <1>9, InHand, FailShape DEF DetectorRaises
<1>10. CASE PostSignal(t)
  BY <1>10, InHand, FailShape, SucceedShape, SignalShape DEF PostSignal, Go
<1>11. CASE Harvest(t)
  BY <1>11 DEF Harvest, Go
<1>12. CASE Publish(t)
  BY <1>12 DEF Publish, Go
<1>13. CASE SubmitCandidate(t)
  BY <1>13 DEF SubmitCandidate, Go
<1>14. CASE Forget(t)
  BY <1>14 DEF Forget, Go
<1>15. CASE ReadRaises(t)
  BY <1>15 DEF ReadRaises, Go
<1>16. CASE Detect(t)
  BY <1>16, DetectShape, SucceedShape DEF Detect, Arms, Go
<1> QED
  BY <1>1, <1>2, <1>3, <1>4, <1>5, <1>6, <1>7, <1>8, <1>9, <1>10, <1>11, <1>12, <1>13,
     <1>14, <1>15, <1>16 DEF Own, Proceed

\* A cooldown that is set, by a thread that found no cooldown or not back, covers the
\* timestamps that the cooldown covered.
LEMMA CooldownMoves ==
    ASSUME NEW s \in Nat, NEW stamp \in Nat, NEW next \in Nat, s - stamp < Cooldown,
           ~(next - stamp < Cooldown) \/ ~(next < stamp)
    PROVE  s - next < Cooldown
BY CooldownAssumption

\* What a thread does to the detector.
LEMMA DetectorKept ==
    ASSUME NEW t \in Tailers, Own(t), ~Arms(t)
    PROVE  /\ signalAt' = signalAt /\ setBack' = setBack
           /\ \A u \in Tailers \ {t} : u \in overtaken' <=> u \in overtaken
BY DetectShape DEF Own, Proceed, StartTail, ReadTornLine, ReadRaises, ReadLine, Quiet, GetMapping,
   StartSession, PostEvent, PostEventFails, Detect, DetectorRaises, PostSignal, Harvest, Publish,
   SubmitCandidate, Forget, detector

\* Nothing that is known of the cooldown of the others is lost by it.
LEMMA OthersArmed ==
    ASSUME IInv, NEW t \in Tailers, Own(t), NEW u \in Tailers \ {t}
    PROVE  Armed(u)'
<1>1. Types /\ Placed(u) /\ Armed(u) /\ Placed(t) /\ Armed(t)
  BY DEF IInv
<1>2. Same(u) /\ Current(u)' = Current(u) /\ StampOf(u)' = StampOf(u)
  BY Others DEF Same, Current, End, StampOf
<1>3. (Trying(u)' <=> Trying(u)) /\ (Once(u)' <=> Once(u)) /\ pc'[u] = pc[u]
      /\ signals'[u] = signals[u]
  BY <1>2 DEF Same, Trying, Once
<1>4. CASE ~Arms(t)
  <2>1. signalAt' = signalAt /\ setBack' = setBack /\ (u \in overtaken' <=> u \in overtaken)
    BY <1>4, DetectorKept
  <2>2. InCooldown(u)' <=> InCooldown(u)
    BY <1>2, <2>1 DEF InCooldown
  <2> QED
    BY <1>1, <1>2, <1>3, <2>1, <2>2 DEF Armed
<1>5. CASE Arms(t) /\ Detect(t)
  <2>1. pc[t] = "detect" /\ signalAt' = StampOf(t) /\ (pc[u] = "detect" => u \in overtaken')
    BY <1>5 DEF Arms, Detect
  <2>2. ASSUME setBack' = FALSE
        PROVE  setBack = FALSE /\ (t \notin overtaken \/ ~(StampOf(t) < signalAt))
    BY <1>1, <1>5, <2>2 DEF Arms, Types
  <2>3. StampOf(t) \in Nat
    BY <1>1, <2>1, StampShape DEF Trying
  <2>4. ASSUME setBack' = FALSE, Trying(u), InCooldown(u) PROVE InCooldown(u)'
    <3>1. StampOf(u) \in Nat
      BY <1>1, <2>4, StampShape
    <3>2. signalAt \in Nat /\ StampOf(u) - signalAt < Cooldown
      BY <1>1, <2>4 DEF InCooldown, Types
    <3>3. ~(StampOf(t) - signalAt < Cooldown) \/ ~(StampOf(t) < signalAt)
      <4>1. CASE t \notin overtaken
        <5>1. ~InCooldown(t)
          BY <1>1, <2>1, <4>1 DEF Armed
        <5>2. signalAt # None
          BY <3>2, StampAssumption
        <5> QED
          BY <5>1, <5>2 DEF InCooldown
      <4> QED
        BY <2>2, <2>4, <4>1
    <3>4. StampOf(u) - StampOf(t) < Cooldown
      BY <2>3, <3>1, <3>2, <3>3, CooldownMoves
    <3>5. StampOf(t) # None
      BY <2>3, StampAssumption
    <3> QED
      BY <1>2, <2>1, <3>4, <3>5 DEF InCooldown
  <2> QED
    BY <1>1, <1>2, <1>3, <2>1, <2>2, <2>4 DEF Armed
<1>6. Arms(t) => Detect(t)
  <2>1. ASSUME Arms(t), ~Detect(t) PROVE FALSE
    <3>1. ~Detect(t) => pc'[t] # "signal" \/ PostSignal(t)
      BY <1>1, InHand, FailShape, SucceedShape
         DEF Own, Proceed, StartTail, ReadTornLine, ReadRaises, ReadLine, Quiet, GetMapping,
             StartSession, PostEvent, PostEventFails, Detect, DetectorRaises, Harvest, Publish,
             SubmitCandidate, Forget, Go, Types
    <3> QED
      BY <1>1, <2>1, <3>1, InHand, FailShape, SucceedShape DEF Arms, Go, PostSignal, Types
  <2> QED
    BY <2>1
<1> QED
  BY <1>4, <1>5, <1>6

\* What is true of the other threads stays true.
LEMMA OthersKept ==
    ASSUME IInv, NEW t \in Tailers, Own(t), NEW u \in Tailers \ {t}
    PROVE  Placed(u)' /\ Behind(u)' /\ Covered(u)' /\ Armed(u)' /\ Heard(u)'
<1>1. Same(u) /\ lines' = lines /\ Current(u)' = Current(u)
  BY Others DEF Same, Current, End
<1>2. Placed(u) /\ Behind(u) /\ Covered(u) /\ Armed(u) /\ Heard(u)
  BY DEF IInv
<1>3. Placed(u)'
  BY <1>1, <1>2 DEF Same, Placed, Trying, Closing, End
<1>4. Behind(u)'
  BY <1>1, <1>2 DEF Same, Behind, End
<1>5. Covered(u)'
  BY <1>1, <1>2 DEF Same, Covered
<1>6. pc[u] \in Working => file[u] \in Files
  BY <1>2 DEF Placed, Working
<1>7. Heard(u)'
  BY <1>1, <1>2, <1>6, Others DEF Same, Heard
<1>8. Armed(u)'
  BY OthersArmed
<1> QED
  BY <1>3, <1>4, <1>5, <1>7, <1>8

\* After an event a thread is where it was.
LEMMA SucceedPlaced ==
    ASSUME Types, NEW t \in Tailers, Placed(t), Trying(t), Succeed(t), UNCHANGED <<lines, place>>,
           ending[t] = TRUE => End \in Range(log'[t])
    PROVE  Placed(t)'
<1>1. /\ lines' = lines /\ file' = file /\ from' = from /\ pos' = pos /\ ending' = ending
      /\ End' = End
  BY SucceedShape DEF place, End
<1>2. /\ file[t] \in Files /\ from[t] <= pos[t] /\ pos[t] <= Len(lines[file[t]])
      /\ last[t] <= pos[t] /\ pos[t] \in Nat
  BY DEF Placed, Trying, Types
<1>3. CASE ending[t] = TRUE
  <2>1. pc'[t] = "harvest" /\ last' = last
    BY <1>3, SucceedShape
  <2> QED
    BY <1>1, <1>2, <1>3, <2>1 DEF Placed, Trying, Closing
<1>4. CASE ending[t] = FALSE
  <2>1. pc'[t] = "read" /\ last'[t] = pos[t]
    BY <1>4, SucceedShape
  <2> QED
    BY <1>1, <1>2, <1>4, <2>1 DEF Placed, Trying, Closing
<1> QED
  BY <1>3, <1>4 DEF Types

\* The event in hand lies behind the thread.
LEMMA CurrentBehind ==
    ASSUME Types, NEW t \in Tailers, Placed(t), Trying(t)
    PROVE  \/ Current(t) = End /\ ending[t] = TRUE
           \/ Current(t) = pos[t] /\ pos[t] \in 1..pos[t] /\ lines[file[t]][pos[t]] = TRUE
<1>1. from[t] \in Nat /\ pos[t] \in Nat
  BY DEF Types
<1> QED
  BY <1>1 DEF Placed, Types, Current

\* Where nothing was sent.
LEMMA NothingSent == Range(<< >>) = {}
BY DEF Range

\* A thread keeps its place in the file.
LEMMA PlacedKept ==
    ASSUME IInv, NEW t \in Tailers, Own(t)
    PROVE  Placed(t)'
<1> Types /\ Placed(t)
  BY DEF IInv
<1> USE DEF Types, Placed, Trying, Closing, place, cursor, detector, server, history
<1>1. CASE StartTail(t)
  BY <1>1 DEF StartTail, Go
<1>2. CASE ReadTornLine(t)
  BY <1>2, NextLine DEF ReadTornLine
<1>3. CASE ReadLine(t)
  <2>1. /\ file[t] \in Files /\ pos'[t] = pos[t] + 1 /\ ending[t] = FALSE
        /\ pos[t] + 1 \in 1..Len(lines[file[t]])
    <3>1. Unread(t) /\ pc[t] = "read" /\ pos'[t] = pos[t] + 1
      BY <1>3 DEF ReadLine
    <3> HIDE DEF Types, Placed
    <3>2. /\ file[t] \in Files /\ ending[t] = FALSE
          /\ pos[t] \in Nat /\ Len(lines[file[t]]) \in 0..MaxLines
          /\ pos[t] + 1 <= Len(lines[file[t]])
      BY <3>1, NextLine
    <3> QED
      BY <3>1, <3>2, MaxLinesAssumption
  <2>2. lines[file[t]][pos[t] + 1] \in BOOLEAN
    BY <2>1
  <2>3. pc'[t] = "mapping" => lines[file[t]][pos[t] + 1] = TRUE
    BY <1>3, <2>2 DEF ReadLine, Go, EventAllowed
  <2>4. pc'[t] \in {"mapping", "outside"}
    BY <1>3 DEF ReadLine, Go
  <2> QED
    BY <1>3, <2>1, <2>3, <2>4 DEF ReadLine
<1>4. CASE Quiet(t)
  BY <1>4, NextLine DEF Quiet, Go
<1>5. CASE GetMapping(t)
  BY <1>5 DEF GetMapping, Go
<1>6. CASE StartSession(t)
  BY <1>6, InHand, FailShape DEF StartSession, Go
<1>7. CASE PostEvent(t)
  <2>1. Current(t) \in 1..End /\ file[t] \in Files /\ Trying(t)
    BY <1>7, InHand DEF PostEvent
  <2>2. Current(t) \in Range(log'[t])
    <3>1. Deliver(t) /\ Types
      BY <1>7 DEF PostEvent, IInv
    <3> HIDE DEF Types, IInv
    <3> QED
      BY <2>1, <3>1, DeliverShape
  <2>3. CASE Succeed(t)
    <3>1. ending[t] = TRUE => End \in Range(log'[t])
      BY <2>2 DEF Current
    <3> QED
      BY <1>7, <2>1, <2>3, <3>1, SucceedPlaced DEF PostEvent
  <2>4. CASE Go(t, "detect") /\ UNCHANGED <<last, ending>>
    BY <1>7, <2>1, <2>4 DEF PostEvent, Go
  <2> QED
    BY <1>7, <2>3, <2>4 DEF PostEvent
<1>8. CASE PostEventFails(t)
  BY <1>8, InHand, FailShape, DeliverShape DEF PostEventFails
<1>9. CASE DetectorRaises(t)
  BY <1>9, InHand, FailShape DEF DetectorRaises
<1>10. CASE PostSignal(t)
  <2>1. Current(t) \in 1..End /\ file[t] \in Files /\ Trying(t)
    BY <1>10, InHand DEF PostSignal
  <2>2. CASE Succeed(t)
    <3>1. Current(t) \in Range(log[t])
      BY <1>10 DEF PostSignal, IInv, Covered
    <3>2. ending[t] = TRUE => End \in Range(log'[t])
      BY <1>10, <3>1 DEF PostSignal, Current
    <3> QED
      BY <1>10, <2>1, <2>2, <3>2, SucceedPlaced DEF PostSignal
  <2>3. CASE Fail(t)
    BY <1>10, <2>1, <2>3, FailShape DEF PostSignal
  <2> QED
    BY <1>10, <2>2, <2>3 DEF PostSignal
<1>11. CASE Harvest(t)
  BY <1>11 DEF Harvest, Go
<1>12. CASE Publish(t)
  BY <1>12 DEF Publish, Go
<1>13. CASE SubmitCandidate(t)
  BY <1>13 DEF SubmitCandidate, Go
<1>14. CASE Forget(t)
  BY <1>14 DEF Forget, Go
<1>15. CASE ReadRaises(t)
  BY <1>15 DEF ReadRaises, Go
<1>16. CASE Detect(t)
  <2>1. Current(t) \in 1..End /\ file[t] \in Files /\ Trying(t)
    BY <1>16, InHand DEF Detect
  <2>2. CASE Succeed(t)
    <3>1. Current(t) \in Range(log[t])
      BY <1>16 DEF Detect, IInv, Covered
    <3>2. ending[t] = TRUE => End \in Range(log'[t])
      BY <1>16, <3>1 DEF Detect, Current
    <3> QED
      BY <1>16, <2>1, <2>2, <3>2, SucceedPlaced DEF Detect
  <2>3. CASE Arms(t)
    BY <1>16, <2>1, <2>3 DEF Detect, Arms, Go
  <2> QED
    BY <1>16, <2>2, <2>3, DetectShape
<1> QED
  BY <1>1, <1>2, <1>3, <1>4, <1>5, <1>6, <1>7, <1>8, <1>9, <1>10, <1>11, <1>12, <1>13,
     <1>14, <1>15, <1>16 DEF Own, Proceed

\* What a thread forwards is allowed, and behind it.
LEMMA BehindKept ==
    ASSUME IInv, NEW t \in Tailers, Own(t)
    PROVE  Behind(t)'
<1> Types /\ Placed(t)
  BY DEF IInv
<1> USE DEF IInv, Types, Behind, place, cursor, detector, server, history
<1>1. CASE StartTail(t)
  <2>1. log'[t] = << >> /\ signals'[t] = << >>
    BY <1>1 DEF StartTail, Placed
  <2> QED
    BY <2>1, NothingSent
<1>2. CASE ReadTornLine(t)
  BY <1>2, NextLine DEF ReadTornLine
<1>3. CASE ReadLine(t)
  BY <1>3, NextLine DEF ReadLine, Go
<1>4. CASE Quiet(t)
  BY <1>4, NextLine DEF Quiet, Go
<1>5. CASE GetMapping(t)
  BY <1>5 DEF GetMapping, Go
<1>6. CASE StartSession(t)
  BY <1>6, InHand, FailShape DEF StartSession, Go
<1>7. CASE PostEvent(t)
  <2>1. Current(t) \in 1..End /\ Trying(t)
    BY <1>7, InHand DEF PostEvent
  <2>2. /\ lines' = lines /\ file' = file /\ pos' = pos /\ ending' = ending /\ End' = End
    BY <1>7, <2>1, SucceedShape DEF PostEvent, End
  <2>3. Range(log'[t]) \cup Range(signals'[t])
          \subseteq Range(log[t]) \cup Range(signals[t]) \cup {Current(t)}
    BY <1>7, <2>1, DeliverShape DEF PostEvent
  <2> HIDE DEF Types, IInv
  <2>4. \/ Current(t) = End /\ ending[t] = TRUE
        \/ Current(t) \in 1..pos[t] /\ lines[file[t]][Current(t)] = TRUE
    BY <2>1, CurrentBehind
  <2>5. Behind(t)
    BY DEF IInv
  <2> QED
    BY <2>2, <2>3, <2>4, <2>5
<1>8. CASE PostEventFails(t)
  <2>1. Current(t) \in 1..End /\ Trying(t)
    BY <1>8, InHand DEF PostEventFails
  <2>2. /\ lines' = lines /\ file' = file /\ pos' = pos /\ ending' = ending /\ End' = End
    BY <1>8, <2>1, FailShape DEF PostEventFails, End
  <2>3. Range(log'[t]) \cup Range(signals'[t])
          \subseteq Range(log[t]) \cup Range(signals[t]) \cup {Current(t)}
    BY <1>8, <2>1, DeliverShape DEF PostEventFails
  <2> HIDE DEF Types, IInv
  <2>4. \/ Current(t) = End /\ ending[t] = TRUE
        \/ Current(t) \in 1..pos[t] /\ lines[file[t]][Current(t)] = TRUE
    BY <2>1, CurrentBehind
  <2>5. Behind(t)
    BY DEF IInv
  <2> QED
    BY <2>2, <2>3, <2>4, <2>5
<1>9. CASE DetectorRaises(t)
  BY <1>9, InHand, FailShape DEF DetectorRaises
<1>10. CASE PostSignal(t)
  <2>1. Current(t) \in 1..End /\ Trying(t)
    BY <1>10, InHand DEF PostSignal
  <2>2. /\ lines' = lines /\ file' = file /\ pos' = pos /\ ending' = ending /\ End' = End
    BY <1>10, <2>1, SucceedShape, FailShape DEF PostSignal, End
  <2>3. Range(log'[t]) \cup Range(signals'[t])
          \subseteq Range(log[t]) \cup Range(signals[t]) \cup {Current(t)}
    <3>1. (Signal(t) \/ UNCHANGED signals) /\ log' = log
      BY <1>10 DEF PostSignal
    <3>2. Types
      BY DEF IInv
    <3> HIDE DEF Types, IInv
    <3> QED
      BY <2>1, <3>1, <3>2, SignalShape
  <2> HIDE DEF Types, IInv
  <2>4. \/ Current(t) = End /\ ending[t] = TRUE
        \/ Current(t) \in 1..pos[t] /\ lines[file[t]][Current(t)] = TRUE
    BY <2>1, CurrentBehind
  <2>5. Behind(t)
    BY DEF IInv
  <2> QED
    BY <2>2, <2>3, <2>4, <2>5
<1>11. CASE Harvest(t)
  BY <1>11 DEF Harvest, Go
<1>12. CASE Publish(t)
  BY <1>12 DEF Publish, Go
<1>13. CASE SubmitCandidate(t)
  BY <1>13 DEF SubmitCandidate, Go
<1>14. CASE Forget(t)
  BY <1>14 DEF Forget, Go
<1>15. CASE ReadRaises(t)
  BY <1>15 DEF ReadRaises, Go
<1>16. CASE Detect(t)
  <2>1. /\ lines' = lines /\ file' = file /\ pos' = pos /\ log' = log /\ signals' = signals
        /\ End' = End
    BY <1>16 DEF Detect, End
  <2>2. ending' = ending
    BY <1>16, DetectShape, SucceedShape DEF Arms
  <2>3. Behind(t)
    BY DEF IInv
  <2> HIDE DEF Types, IInv
  <2> QED
    BY <2>1, <2>2, <2>3
<1> QED
  BY <1>1, <1>2, <1>3, <1>4, <1>5, <1>6, <1>7, <1>8, <1>9, <1>10, <1>11, <1>12, <1>13,
     <1>14, <1>15, <1>16 DEF Own, Proceed

\* A thread leaves nothing out.
LEMMA CoveredKept ==
    ASSUME IInv, NEW t \in Tailers, Own(t)
    PROVE  Covered(t)'
<1> Types /\ Placed(t)
  BY DEF IInv
<1> USE DEF IInv, Types, Covered, place, cursor, detector, server, history
<1>1. CASE StartTail(t)
  BY <1>1 DEF StartTail, Go
<1>2. CASE ReadTornLine(t)
  BY <1>2, NextLine DEF ReadTornLine
<1>3. CASE ReadLine(t)
  <2>1. Unread(t) /\ pc[t] = "read" /\ pos'[t] = pos[t] + 1
    BY <1>3 DEF ReadLine
  <2>2. pos[t] \in Nat /\ from[t] \in Nat
    BY <2>1
  <2>3. \A j \in (from[t] + 1)..pos[t] : j \in Range(log[t]) \cup torn[t]
    BY <2>1
  <2>4. /\ pc'[t] \in {"mapping", "outside"} /\ ending'[t] = FALSE /\ from' = from
        /\ log' = log /\ torn' = torn
    <3>1. ending[t] = FALSE
      BY <2>1 DEF Placed
    <3> QED
      BY <1>3, <3>1 DEF ReadLine, Go
  <2> HIDE DEF Types, Placed, Covered, IInv
  <2>5. \A j \in (from'[t] + 1)..pos'[t] : j \in (from[t] + 1)..pos[t] \/ j = pos'[t]
    BY <2>1, <2>2, <2>4
  <2> QED
    BY <2>3, <2>4, <2>5 DEF Covered
<1>4. CASE Quiet(t)
  BY <1>4, NextLine DEF Quiet, Go
<1>5. CASE GetMapping(t)
  BY <1>5 DEF GetMapping, Go
<1>6. CASE StartSession(t)
  BY <1>6, InHand, FailShape DEF StartSession, Go
<1>7. CASE PostEvent(t)
  <2>1. Current(t) \in 1..End /\ Trying(t)
    BY <1>7, InHand DEF PostEvent
  <2>2. /\ from' = from /\ pos' = pos /\ torn' = torn /\ ending' = ending /\ End' = End
    BY <1>7, SucceedShape DEF PostEvent, End
  <2>3. Range(log'[t]) = Range(log[t]) \cup {Current(t)}
    BY <1>7, <2>1, DeliverShape DEF PostEvent
  <2>4. Covered(t)
    OBVIOUS
  <2>5. \A j \in (from[t] + 1)..pos[t] :
           \/ j \in Range(log[t]) \cup torn[t]
           \/ j = Current(t) /\ ending[t] = FALSE
    BY <2>4 DEF Current
  <2> HIDE DEF Types, IInv
  <2> QED
    BY <2>2, <2>3, <2>5 DEF Current
<1>8. CASE PostEventFails(t)
  <2>1. Current(t) \in 1..End /\ Types /\ Fail(t) /\ (Deliver(t) \/ log' = log)
    BY <1>8, InHand DEF PostEventFails
  <2>2. /\ from' = from /\ pos' = pos /\ torn' = torn /\ ending' = ending
        /\ pc'[t] \in {"mapping", "gaveup"} /\ pc[t] = "post"
    BY <1>8, <2>1, FailShape DEF PostEventFails
  <2>3. Covered(t)
    OBVIOUS
  <2> HIDE DEF Types, IInv
  <2>4. Range(log[t]) \subseteq Range(log'[t])
    BY <2>1, DeliverShape
  <2> QED
    BY <2>2, <2>3, <2>4
<1>9. CASE DetectorRaises(t)
  <2>1. /\ Current(t) \in 1..End /\ Covered(t) /\ pc[t] = "detect"
        /\ Current(t) \in Range(log[t])
    BY <1>9, InHand DEF DetectorRaises
  <2>2. /\ from' = from /\ pos' = pos /\ torn' = torn /\ ending' = ending /\ log' = log
        /\ pc'[t] \in {"mapping", "gaveup"}
    BY <1>9, <2>1, FailShape DEF DetectorRaises
  <2>3. \A j \in (from[t] + 1)..pos[t] : j \in Range(log[t]) \cup torn[t]
    BY <2>1 DEF Current
  <2> HIDE DEF Types, IInv
  <2> QED
    BY <2>2, <2>3
<1>10. CASE PostSignal(t)
  <2>1. /\ Current(t) \in 1..End /\ Trying(t) /\ Covered(t) /\ pc[t] = "signal"
        /\ Current(t) \in Range(log[t])
    BY <1>10, InHand DEF PostSignal
  <2>2. /\ from' = from /\ pos' = pos /\ torn' = torn /\ ending' = ending /\ log' = log
        /\ pc'[t] \notin {"detect", "signal"}
    BY <1>10, <2>1, FailShape, SucceedShape DEF PostSignal
  <2>3. \A j \in (from[t] + 1)..pos[t] : j \in Range(log[t]) \cup torn[t]
    BY <2>1 DEF Current
  <2> HIDE DEF Types, IInv
  <2> QED
    BY <2>2, <2>3
<1>11. CASE Harvest(t)
  BY <1>11 DEF Harvest, Go
<1>12. CASE Publish(t)
  BY <1>12 DEF Publish, Go
<1>13. CASE SubmitCandidate(t)
  BY <1>13 DEF SubmitCandidate, Go
<1>14. CASE Forget(t)
  BY <1>14 DEF Forget, Go
<1>15. CASE ReadRaises(t)
  BY <1>15 DEF ReadRaises, Go
<1>16. CASE Detect(t)
  <2>1. /\ Current(t) \in 1..End /\ Covered(t) /\ pc[t] = "detect"
        /\ Current(t) \in Range(log[t])
    BY <1>16, InHand DEF Detect
  <2>2. /\ from' = from /\ pos' = pos /\ torn' = torn /\ ending' = ending /\ log' = log
        /\ End' = End
    BY <1>16, DetectShape, SucceedShape DEF Detect, Arms, End
  <2>3. \A j \in (from[t] + 1)..pos[t] : j \in Range(log[t]) \cup torn[t]
    BY <2>1 DEF Current
  <2>4. Current(t)' = Current(t)
    BY <2>2 DEF Current
  <2> HIDE DEF Types, IInv
  <2> QED
    BY <2>1, <2>2, <2>3, <2>4
<1> QED
  BY <1>1, <1>2, <1>3, <1>4, <1>5, <1>6, <1>7, <1>8, <1>9, <1>10, <1>11, <1>12, <1>13,
     <1>14, <1>15, <1>16 DEF Own, Proceed

\* An event that comes newly in hand was not signalled.
LEMMA NewIsNotSignalled ==
    ASSUME IInv, NEW t \in Tailers, ReadLine(t) \/ Quiet(t), pc'[t] = "mapping"
    PROVE  Current(t)' \notin Range(signals[t])
<1>1. Types /\ Placed(t) /\ Behind(t)
  BY DEF IInv
<1>2. pc[t] = "read" /\ ending[t] = FALSE /\ pos[t] \in 0..MaxLines
  BY <1>1 DEF ReadLine, Quiet, Placed, Types
<1>3. Current(t)' > pos[t] /\ Current(t)' \in 1..End
  <2>1. CASE ReadLine(t)
    <3>1. pos[t] + 1 \in 1..MaxLines /\ pos'[t] = pos[t] + 1 /\ ending'[t] = FALSE
      BY <1>1, <1>2, <2>1, NextLine DEF ReadLine, Types
    <3> QED
      BY <1>2, <3>1, EndShape DEF Current, End
  <2>2. CASE Quiet(t)
    <3>1. ending'[t] = TRUE
      BY <1>1, <2>2 DEF Quiet, Go, Types
    <3> QED
      BY <1>2, <3>1, EndShape DEF Current, End
  <2> QED
    BY <2>1, <2>2
<1> QED
  BY <1>1, <1>2, <1>3, EndShape DEF Behind

\* A thread that has no event in hand any more.
LEMMA ArmedAtRest ==
    ASSUME Types, NEW t \in Tailers, Armed(t), signals'[t] = signals[t],
           setBack' = FALSE => setBack = FALSE, ~Trying(t)'
    PROVE  Armed(t)'
BY DEF Armed, Trying, Once

\* A thread that keeps its event in hand, and leaves the signals and the detector alone.
LEMMA ArmedInHand ==
    ASSUME Types, NEW t \in Tailers, Armed(t), Trying(t), signals'[t] = signals[t],
           setBack' = setBack, signalAt' = signalAt,
           file' = file, pos' = pos, last' = last, ending' = ending,
           pc'[t] \in {"mapping", "start", "post", "gaveup"}
    PROVE  Armed(t)'
<1>1. Current(t)' = Current(t) /\ StampOf(t)' = StampOf(t)
  BY DEF Current, StampOf, End
<1>2. InCooldown(t)' <=> InCooldown(t)
  BY <1>1 DEF InCooldown
<1> QED
  BY <1>1, <1>2 DEF Armed, Once

\* The cooldown follows the events.
LEMMA ArmedKept ==
    ASSUME IInv, NEW t \in Tailers, Own(t)
    PROVE  Armed(t)'
<1> Types /\ Placed(t) /\ Armed(t)
  BY DEF IInv
<1> USE DEF place, cursor, detector, server, history
<1>1. CASE StartTail(t)
  <2>1. signals'[t] = << >> /\ pc'[t] = "read"
    BY <1>1 DEF StartTail, Placed, Go, Types
  <2>2. DOMAIN signals'[t] = {}
    BY <2>1
  <2> QED
    BY <2>1, <2>2 DEF Armed, Trying, Once
<1>2. CASE ReadTornLine(t) \/ ReadRaises(t)
  <2>1. signals' = signals /\ setBack' = setBack /\ pc'[t] \in {"read", "dead"}
    BY <1>2 DEF ReadTornLine, ReadRaises, Go, Types
  <2> QED
    BY <2>1, ArmedAtRest DEF Trying
<1>3. CASE ReadLine(t) \/ Quiet(t)
  <2>1. signals' = signals /\ setBack' = setBack /\ pc'[t] \in {"mapping", "outside", "quiet"}
    BY <1>3 DEF ReadLine, Quiet, Go, Types
  <2>2. CASE pc'[t] = "mapping"
    <3>1. Current(t)' \notin Range(signals'[t])
      BY <1>3, <2>1, <2>2, NewIsNotSignalled
    <3> QED
      BY <2>1, <2>2, <3>1 DEF Armed, Once
  <2>3. CASE pc'[t] # "mapping"
    BY <2>1, <2>3, ArmedAtRest DEF Trying
  <2> QED
    BY <2>2, <2>3
<1>4. CASE GetMapping(t) \/ StartSession(t) \/ PostEventFails(t) \/ DetectorRaises(t)
  <2>1. Trying(t) /\ signals' = signals /\ setBack' = setBack /\ signalAt' = signalAt
    BY <1>4 DEF GetMapping, StartSession, PostEventFails, Detect, DetectorRaises, Trying
  <2>2. Current(t) \in 1..End
    BY <2>1, CurrentShape
  <2>3. /\ file' = file /\ pos' = pos /\ last' = last /\ ending' = ending
        /\ pc'[t] \in {"mapping", "start", "post", "gaveup"}
    BY <1>4, <2>2, FailShape
       DEF GetMapping, StartSession, PostEventFails, Detect, DetectorRaises, Go, Types
  <2> QED
    BY <2>1, <2>3, ArmedInHand
<1>5. CASE PostEvent(t)
  <2>1. Trying(t) /\ signals' = signals /\ setBack' = setBack /\ signalAt' = signalAt
    BY <1>5 DEF PostEvent, Trying
  <2>2. CASE Succeed(t)
    BY <2>1, <2>2, SucceedShape, ArmedAtRest DEF Trying
  <2>3. CASE ~InCooldown(t) /\ Go(t, "detect") /\ UNCHANGED <<last, ending>>
    <3>1. /\ pc'[t] = "detect" /\ Current(t)' = Current(t) /\ StampOf(t)' = StampOf(t)
      BY <1>5, <2>3 DEF PostEvent, Go, Types, Current, StampOf, End
    <3>2. ~InCooldown(t)'
      BY <2>1, <2>3, <3>1 DEF InCooldown
    <3>3. setBack = FALSE => Current(t) \notin Range(signals[t])
      BY <2>1, <2>3 DEF Armed
    <3> QED
      BY <2>1, <3>1, <3>2, <3>3 DEF Armed, Once
  <2> QED
    BY <1>5, <2>2, <2>3 DEF PostEvent
<1>6. CASE Detect(t)
  <2>1. Trying(t) /\ signals' = signals /\ pc[t] = "detect"
    BY <1>6 DEF Detect, Trying
  <2>2. CASE Succeed(t) /\ setBack' = setBack
    BY <2>1, <2>2, SucceedShape, ArmedAtRest DEF Trying
  <2>3. CASE Arms(t)
    <3>1. /\ pc'[t] = "signal" /\ Current(t)' = Current(t) /\ StampOf(t)' = StampOf(t)
      BY <1>6, <2>3 DEF Detect, Arms, Go, Types, Current, StampOf, End
    <3>2. StampOf(t) \in Nat
      BY <2>1, StampShape
    <3>3. InCooldown(t)'
      <4>1. signalAt' = StampOf(t) /\ StampOf(t) # None
        BY <2>3, <3>2, StampAssumption DEF Arms
      <4>2. StampOf(t) - StampOf(t) < Cooldown
        BY <3>2, CooldownAssumption
      <4> QED
        BY <3>1, <4>1, <4>2 DEF InCooldown
    <3>4. setBack' = FALSE => setBack = FALSE
      BY <2>3 DEF Arms, Types
    <3> QED
      BY <2>1, <3>1, <3>3, <3>4 DEF Armed, Once
  <2> QED
    BY <1>6, <2>2, <2>3, DetectShape
<1>7. CASE PostSignal(t)
  <2>1. Trying(t) /\ pc[t] = "signal" /\ setBack' = setBack /\ signalAt' = signalAt
        /\ Current(t) \in 1..End
    BY <1>7, InHand DEF PostSignal
  <2>2. /\ file' = file /\ pos' = pos /\ ending' = ending
        /\ pc'[t] \in {"mapping", "gaveup", "harvest", "read"}
        /\ pc'[t] = "mapping" => last' = last
    BY <1>7, <2>1, FailShape, SucceedShape DEF PostSignal
  <2>3. setBack = FALSE => /\ Current(t) \notin Range(signals[t]) /\ InCooldown(t) /\ Once(t)
    BY <2>1 DEF Armed
  <2>4. setBack' = FALSE => Once(t)'
    <3>1. CASE signals' = signals
      BY <2>1, <2>3, <3>1 DEF Once
    <3>2. CASE Signal(t)
      <4> SUFFICES ASSUME setBack = FALSE PROVE Once(t)'
        BY <2>1
      <4>1. Len(signals[t]) \in Nat /\ DOMAIN signals[t] = 1..Len(signals[t])
        BY DEF Types
      <4>2. /\ \A i \in 1..Len(signals[t]) : signals'[t][i] = signals[t][i]
            /\ DOMAIN signals'[t] = 1..(Len(signals[t]) + 1)
            /\ signals'[t][Len(signals[t]) + 1] = Current(t)
        BY <2>1, <3>2, SignalShape
      <4>3. \A i \in DOMAIN signals'[t] : i \in DOMAIN signals[t] \/ i = Len(signals[t]) + 1
        BY <4>1, <4>2
      <4>4. \A i \in DOMAIN signals[t] : signals[t][i] # Current(t)
        BY <2>3 DEF Range
      <4>5. \A i, j \in DOMAIN signals[t] : i # j => signals[t][i] # signals[t][j]
        BY <2>3 DEF Once
      <4>6. \A i, j \in DOMAIN signals'[t] : i # j => signals'[t][i] # signals'[t][j]
        BY <4>1, <4>2, <4>3, <4>4, <4>5
      <4> QED
        BY <4>6 DEF Once
    <3> QED
      BY <1>7, <3>1, <3>2 DEF PostSignal
  <2>5. pc'[t] = "mapping" /\ setBack = FALSE => InCooldown(t)'
    <3>1. pc'[t] = "mapping" => StampOf(t)' = StampOf(t)
      BY <2>2 DEF StampOf
    <3> QED
      BY <2>1, <2>3, <3>1 DEF InCooldown
  <2> QED
    BY <2>1, <2>2, <2>4, <2>5 DEF Armed, Trying
<1>8. CASE Harvest(t) \/ Publish(t) \/ SubmitCandidate(t) \/ Forget(t)
  <2>1. signals' = signals /\ setBack' = setBack
        /\ pc'[t] \in {"forget", "publish", "dead", "submit", "quiet"}
    BY <1>8 DEF Harvest, Publish, SubmitCandidate, Forget, Go, Types
  <2> QED
    BY <2>1, ArmedAtRest DEF Trying
<1> QED
  BY <1>1, <1>2, <1>3, <1>4, <1>5, <1>6, <1>7, <1>8 DEF Own, Proceed

\* What a thread delivers it has heard, once the event is no longer in hand.
LEMMA HeardKept ==
    ASSUME IInv, NEW t \in Tailers, Own(t)
    PROVE  Heard(t)'
<1> Types /\ Placed(t)
  BY DEF IInv
<1> USE DEF IInv, Types, Heard, Working, Left, Placed, place, cursor, detector, server, history
<1>1. CASE StartTail(t)
  <2>1. log'[t] = << >>
    BY <1>1 DEF StartTail
  <2> QED
    BY <2>1, NothingSent
<1>2. CASE ReadTornLine(t)
  BY <1>2 DEF ReadTornLine
<1>3. CASE ReadLine(t)
  BY <1>3 DEF ReadLine, Go
<1>4. CASE Quiet(t)
  BY <1>4 DEF Quiet, Go
<1>5. CASE GetMapping(t)
  <2>1. /\ log' = log /\ heard' = heard /\ file' = file /\ Current(t)' = Current(t)
        /\ pc[t] = "mapping" /\ pc'[t] \in {"start", "post"}
    BY <1>5 DEF GetMapping, Go, Current, End
  <2> HIDE DEF Types, Placed, IInv
  <2>2. Heard(t)
    BY DEF IInv
  <2> QED
    BY <2>1, <2>2
<1>6. CASE StartSession(t)
  <2> HIDE DEF Types, Placed, IInv
  <2>1. /\ Current(t) \in 1..End /\ Heard(t) /\ pc[t] = "start"
    BY <1>6, InHand DEF StartSession, IInv
  <2>2. /\ log' = log /\ heard' = heard /\ file' = file /\ Current(t)' = Current(t)
        /\ pc'[t] \in {"post", "mapping", "gaveup"}
    BY <1>6, <2>1, FailShape DEF StartSession, Go, Current, End, Types
  <2> QED
    BY <2>1, <2>2
<1>7. CASE PostEvent(t)
  <2> HIDE DEF Types, Placed, IInv, Working, Left
  <2>1. /\ Current(t) \in 1..End /\ file[t] \in Files /\ Heard(t) /\ pc[t] = "post"
    BY <1>7, InHand DEF PostEvent, IInv
  <2>2. /\ Range(log'[t]) = Range(log[t]) \cup {Current(t)} /\ file' = file
        /\ heard'[file[t]] = heard[file[t]] \cup {Current(t)}
    BY <1>7, <2>1, DeliverShape, HearShape DEF PostEvent
  <2> QED
    BY <2>1, <2>2 DEF Working
<1>8. CASE PostEventFails(t)
  <2> HIDE DEF Types, Placed, IInv, Working, Left
  <2>1. /\ Current(t) \in 1..End /\ file[t] \in Files /\ Heard(t) /\ pc[t] = "post"
    BY <1>8, InHand DEF PostEventFails, IInv
  <2>2. /\ Range(log'[t]) \subseteq Range(log[t]) \cup {Current(t)} /\ file' = file
        /\ heard[file[t]] \subseteq heard'[file[t]]
    BY <1>8, <2>1, DeliverShape, HearShape DEF PostEventFails
  <2>3. /\ pc'[t] \in {"mapping", "gaveup"} /\ Current(t)' = Current(t)
    BY <1>8, <2>1, FailShape DEF PostEventFails, Current, End
  <2> QED
    BY <2>1, <2>2, <2>3 DEF Working
<1>9. CASE DetectorRaises(t)
  BY <1>9, InHand, FailShape DEF DetectorRaises
<1>10. CASE PostSignal(t)
  BY <1>10, InHand, FailShape, SucceedShape, SignalShape DEF PostSignal, Go
<1>11. CASE Harvest(t)
  BY <1>11 DEF Harvest, Go
<1>12. CASE Publish(t)
  BY <1>12 DEF Publish, Go
<1>13. CASE SubmitCandidate(t)
  BY <1>13 DEF SubmitCandidate, Go
<1>14. CASE Forget(t)
  BY <1>14 DEF Forget, Go
<1>15. CASE ReadRaises(t)
  BY <1>15 DEF ReadRaises, Go
<1>16. CASE Detect(t)
  BY <1>16, DetectShape, SucceedShape DEF Detect, Arms, Go
<1> QED
  BY <1>1, <1>2, <1>3, <1>4, <1>5, <1>6, <1>7, <1>8, <1>9, <1>10, <1>11, <1>12, <1>13,
     <1>14, <1>15, <1>16 DEF Own, Proceed

\* What is heard was delivered.
LEMMA HeardStays ==
    ASSUME Types, HeardIsDelivered, NEW t \in Tailers, pc'[t] # "idle" \/ pc'[t] = pc[t],
           \A u \in Tailers \ {t} : log'[u] = log[u] /\ pc'[u] = pc[u],
           Range(log[t]) \subseteq Range(log'[t]),
           file' = file \/ (pc[t] = "idle" /\ \A u \in Tailers \ {t} : file'[u] = file[u]),
           heard' = heard
    PROVE  HeardIsDelivered'
<1> SUFFICES ASSUME NEW f \in Files, NEW i \in heard[f]
             PROVE  \E u \in Tailers : pc'[u] # "idle" /\ file'[u] = f /\ i \in Range(log'[u])
  BY DEF HeardIsDelivered
<1>1. PICK u \in Tailers : pc[u] # "idle" /\ file[u] = f /\ i \in Range(log[u])
  BY DEF HeardIsDelivered
<1> QED
  BY <1>1

\* No step of a thread lets the harvester see what was not delivered.
LEMMA HeardIsDeliveredKept ==
    ASSUME IInv, NEW t \in Tailers, Own(t)
    PROVE  HeardIsDelivered'
<1> Types /\ Placed(t) /\ HeardIsDelivered
  BY DEF IInv
<1>1. \A u \in Tailers \ {t} : log'[u] = log[u] /\ pc'[u] = pc[u] /\ file'[u] = file[u]
  BY Others DEF Same
<1>2. CASE PostEvent(t)
  <2>1. /\ Current(t) \in 1..End /\ file[t] \in Files /\ file' = file /\ Deliver(t) /\ Hear(t)
    BY <1>2, InHand DEF PostEvent, place
  <2>2. pc'[t] # "idle"
    BY <1>2, <2>1, SucceedShape, FailShape DEF PostEvent, Go, Types
  <2>3. Range(log'[t]) = Range(log[t]) \cup {Current(t)}
    BY <2>1, DeliverShape
  <2>4. /\ heard'[file[t]] = heard[file[t]] \cup {Current(t)}
        /\ \A f \in Files \ {file[t]} : heard'[f] = heard[f]
    BY <2>1, HearShape
  <2> SUFFICES ASSUME NEW f \in Files, NEW i \in heard'[f]
               PROVE  \E u \in Tailers : pc'[u] # "idle" /\ file'[u] = f /\ i \in Range(log'[u])
    BY DEF HeardIsDelivered
  <2>5. CASE f = file[t] /\ i = Current(t)
    BY <2>1, <2>2, <2>3, <2>5
  <2>6. CASE i \in heard[f]
    <3>1. PICK u \in Tailers : pc[u] # "idle" /\ file[u] = f /\ i \in Range(log[u])
      BY <2>6 DEF HeardIsDelivered
    <3> QED
      BY <1>1, <2>1, <2>2, <2>3, <3>1
  <2> QED
    BY <2>4, <2>5, <2>6
<1>3. CASE ~PostEvent(t)
  <2>1. heard' = heard
    BY <1>3 DEF Own, Proceed, StartTail, ReadTornLine, ReadRaises, ReadLine, Quiet,
       GetMapping, StartSession, PostEventFails, Detect, DetectorRaises, PostSignal, Harvest, Publish, SubmitCandidate, Forget
  <2>2. Range(log[t]) \subseteq Range(log'[t])
    <3>1. CASE PostEventFails(t)
      BY <3>1, InHand, DeliverShape DEF PostEventFails
    <3>2. CASE ~PostEventFails(t)
      BY <1>3, <3>2 DEF Own, Proceed, StartTail, ReadTornLine, ReadRaises, ReadLine, Quiet,
         GetMapping, StartSession, Detect, DetectorRaises, PostSignal, Harvest, Publish, SubmitCandidate, Forget, server
    <3> QED
      BY <3>1, <3>2
  <2>3. file' = file \/ pc[t] = "idle"
    BY DEF Own, Proceed, StartTail, ReadTornLine, ReadRaises, ReadLine, Quiet, GetMapping, StartSession,
       PostEvent, PostEventFails, Detect, DetectorRaises, PostSignal, Harvest, Publish,
       SubmitCandidate, Forget, place
  <2>4. pc'[t] # "idle" \/ pc'[t] = pc[t]
    BY InHand, FailShape, SucceedShape
       DEF Types, Own, Proceed, StartTail, ReadTornLine, ReadRaises, ReadLine, Quiet, GetMapping,
       StartSession, PostEvent, PostEventFails, Detect, DetectorRaises, PostSignal, Harvest, Publish,
       SubmitCandidate, Forget, Go
  <2> QED
    BY <1>1, <2>1, <2>2, <2>3, <2>4, HeardStays
<1> QED
  BY <1>2, <1>3

\* A thread goes on accounting for its mapping until it forgets it.
LEMMA HoldsKept ==
    ASSUME IInv, NEW t \in Tailers, Own(t)
    PROVE  Holds(t) => file'[t] = file[t] /\ (Holds(t)' \/ Forget(t))
<1> Types /\ Placed(t)
  BY DEF IInv
<1> USE DEF Types, Placed, Trying, Holds, Working, Left, place, cursor, detector, server, history
<1>1. CASE StartTail(t)
  BY <1>1 DEF StartTail, Go
<1>2. CASE ReadTornLine(t)
  BY <1>2 DEF ReadTornLine
<1>3. CASE ReadLine(t)
  BY <1>3 DEF ReadLine, Go
<1>4. CASE Quiet(t)
  BY <1>4 DEF Quiet, Go
<1>5. CASE GetMapping(t)
  BY <1>5 DEF GetMapping, Go
<1>6. CASE StartSession(t)
  BY <1>6, InHand, FailShape DEF StartSession, Go
<1>7. CASE PostEvent(t)
  <2>1. Current(t) \in 1..End /\ file' = file
    BY <1>7, InHand DEF PostEvent
  <2>2. ending[t] = FALSE => pos[t] # 0
    BY <1>7 DEF PostEvent
  <2>3. CASE Succeed(t)
    BY <2>1, <2>2, <2>3, SucceedShape
  <2>4. CASE pc'[t] \in {"detect", "signal", "mapping", "gaveup"}
    BY <2>1, <2>4
  <2>5. Succeed(t) \/ pc'[t] \in {"detect", "signal", "mapping", "gaveup"}
    BY <1>7, <2>1, FailShape DEF PostEvent, Go
  <2> QED
    BY <2>3, <2>4, <2>5
<1>8. CASE PostEventFails(t)
  BY <1>8, InHand, FailShape, DeliverShape DEF PostEventFails
<1>9. CASE DetectorRaises(t)
  BY <1>9, InHand, FailShape DEF DetectorRaises
<1>10. CASE PostSignal(t)
  <2>1. Current(t) \in 1..End /\ file' = file
    BY <1>10, InHand DEF PostSignal
  <2>2. ending[t] = FALSE => pos[t] # 0
    BY <1>10 DEF PostSignal
  <2>3. CASE Succeed(t)
    BY <2>1, <2>2, <2>3, SucceedShape
  <2>4. CASE pc'[t] \in {"detect", "signal", "mapping", "gaveup"}
    BY <2>1, <2>4
  <2>5. Succeed(t) \/ pc'[t] \in {"detect", "signal", "mapping", "gaveup"}
    BY <1>10, <2>1, FailShape DEF PostSignal, Go
  <2> QED
    BY <2>3, <2>4, <2>5
<1>11. CASE Harvest(t)
  BY <1>11 DEF Harvest, Go
<1>12. CASE Publish(t)
  BY <1>12 DEF Publish, Go
<1>13. CASE SubmitCandidate(t)
  BY <1>13 DEF SubmitCandidate, Go
<1>14. CASE Forget(t)
  BY <1>14 DEF Forget, Go
<1>15. CASE ReadRaises(t)
  BY <1>15 DEF ReadRaises, Go
<1>16. CASE Detect(t)
  <2>1. Current(t) \in 1..End /\ file' = file
    BY <1>16, InHand DEF Detect
  <2>2. ending[t] = FALSE => pos[t] # 0
    BY <1>16 DEF Detect
  <2>3. CASE Succeed(t)
    BY <2>1, <2>2, <2>3, SucceedShape
  <2>4. CASE pc'[t] = "signal"
    BY <2>1, <2>4
  <2> QED
    BY <1>16, <2>3, <2>4, DetectShape DEF Arms, Go
<1> QED
  BY <1>1, <1>2, <1>3, <1>4, <1>5, <1>6, <1>7, <1>8, <1>9, <1>10, <1>11, <1>12, <1>13,
     <1>14, <1>15, <1>16 DEF Own, Proceed

\* No step of a thread leaves a mapping unaccounted for.
LEMMA MappingsHeldKept ==
    ASSUME IInv, NEW t \in Tailers, Own(t)
    PROVE  MappingsHeld'
<1> Types /\ Placed(t) /\ MappingsHeld
  BY DEF IInv
<1> SUFFICES ASSUME NEW f \in mapped' PROVE \E u \in Tailers : file'[u] = f /\ Holds(u)'
  BY DEF MappingsHeld
<1>1. ASSUME NEW u \in Tailers \ {t}, file[u] = f, Holds(u) PROVE file'[u] = f /\ Holds(u)'
  BY <1>1, Others DEF Same, Holds
<1>2. CASE f \in mapped
  <2>1. PICK u \in Tailers : file[u] = f /\ Holds(u)
    BY <1>2 DEF MappingsHeld
  <2>2. CASE u # t
    BY <1>1, <2>1, <2>2
  <2>3. CASE u = t /\ Forget(t)
    BY <2>1, <2>3 DEF Forget
  <2>4. CASE u = t /\ ~Forget(t)
    BY <2>1, <2>4, HoldsKept
  <2> QED
    BY <2>2, <2>3, <2>4
<1>3. CASE f \notin mapped
  <2>1. StartSession(t) /\ f = file[t] /\ file' = file
    BY <1>3 DEF Types, Own, Proceed, StartTail, ReadTornLine, ReadRaises, ReadLine, Quiet, GetMapping,
       StartSession, PostEvent, PostEventFails, Detect, DetectorRaises, PostSignal, Harvest, Publish,
       SubmitCandidate, Forget, place
  <2>2. pc'[t] \in {"post", "mapping", "gaveup"}
    BY <2>1, InHand, FailShape DEF StartSession, Go, Types
  <2> QED
    BY <2>1, <2>2 DEF Holds, Working, Left
<1> QED
  BY <1>2, <1>3

-----------------------------------------------------------------------------
(* The steps that are of no thread.                                        *)

\* A longer file leaves the lines that were read as they are.
LEMMA AppendLineKeeps ==
    ASSUME IInv, NEW f \in Files, AppendLine(f)
    PROVE  IInv'
<1> Types
  BY DEF IInv
<1>1. PICK b \in BOOLEAN : lines' = [lines EXCEPT ![f] = Append(@, b)]
  BY DEF AppendLine
<1>2. /\ lines[f] \in Seq(BOOLEAN) /\ Len(lines[f]) \in 0..MaxLines /\ Len(lines[f]) < MaxLines
      /\ lines'[f] = Append(lines[f], b) /\ \A g \in Files \ {f} : lines'[g] = lines[g]
  BY <1>1 DEF Types, AppendLine
<1>3. /\ Append(lines[f], b) \in Seq(BOOLEAN) /\ Len(Append(lines[f], b)) = Len(lines[f]) + 1
      /\ \A i \in 1..Len(lines[f]) : Append(lines[f], b)[i] = lines[f][i]
  BY <1>2
<1>4. lines' \in [Files -> Seq(BOOLEAN)] /\ \A g \in Files : Len(lines'[g]) \in 0..MaxLines
  BY <1>1, <1>2, <1>3, MaxLinesAssumption DEF Types
<1>5. \A g \in Files : /\ Len(lines[g]) <= Len(lines'[g])
                       /\ \A i \in 1..Len(lines[g]) : lines'[g][i] = lines[g][i]
  <2> SUFFICES ASSUME NEW g \in Files
               PROVE  /\ Len(lines[g]) <= Len(lines'[g])
                      /\ \A i \in 1..Len(lines[g]) : lines'[g][i] = lines[g][i]
    OBVIOUS
  <2>1. CASE g = f
    BY <1>2, <1>3, <2>1
  <2>2. CASE g # f
    <3>1. lines'[g] = lines[g] /\ Len(lines[g]) \in 0..MaxLines
      BY <1>2, <2>2 DEF Types
    <3> QED
      BY <3>1
  <2> QED
    BY <2>1, <2>2
<1>6. UNCHANGED <<mapped, heard, place, pc, cursor, detector, server, history>> /\ End' = End
  BY DEF AppendLine, End
<1>7. Types'
  BY <1>4, <1>6 DEF Types, place, cursor, detector, server, history
<1>8. ASSUME NEW t \in Tailers
      PROVE  Placed(t)' /\ Behind(t)' /\ Covered(t)' /\ Armed(t)' /\ Heard(t)'
  <2>1. Placed(t) /\ Behind(t) /\ Covered(t) /\ Armed(t) /\ Heard(t)
    BY DEF IInv
  <2>2. /\ from[t] \in Nat /\ pos[t] \in Nat
        /\ \A g \in Files : Len(lines[g]) \in Nat /\ Len(lines'[g]) \in Nat
    BY <1>4 DEF Types
  <2>3. Current(t)' = Current(t)
    BY <1>6 DEF Current, place, cursor
  <2>4. Covered(t)' /\ Armed(t)' /\ Heard(t)'
    <3>1. Covered(t)' /\ Heard(t)'
      BY <1>6, <2>1, <2>3 DEF Covered, Heard, place, cursor, server, history
    <3>2. /\ InCooldown(t)' = InCooldown(t) /\ Trying(t)' = Trying(t) /\ Once(t)' = Once(t)
          /\ overtaken' = overtaken /\ setBack' = setBack
          /\ signals' = signals /\ pc' = pc
      BY <1>6 DEF InCooldown, StampOf, Trying, Once, place, cursor, detector, server
    <3>3. Armed(t)'
      BY <2>1, <2>3, <3>2 DEF Armed
    <3> QED
      BY <3>1, <3>3
  <2>5. CASE pc[t] = "idle"
    <3>1. log[t] = << >> /\ signals[t] = << >> /\ log' = log /\ signals' = signals /\ pc' = pc
      BY <1>6, <2>1, <2>5 DEF Placed, server
    <3>2. Behind(t)'
      BY <3>1, NothingSent DEF Behind
    <3>3. Placed(t)'
      BY <1>6, <2>1, <2>5, <3>1 DEF Placed, Trying, Closing, cursor
    <3> QED
      BY <2>4, <3>2, <3>3
  <2>6. CASE pc[t] # "idle"
    <3>1. /\ file[t] \in Files /\ from[t] <= pos[t] /\ pos[t] <= Len(lines[file[t]])
      BY <2>1, <2>6 DEF Placed
    <3>2. \A i \in 1..pos[t] : lines'[file[t]][i] = lines[file[t]][i]
      BY <1>5, <2>2, <3>1
    <3>3. pos[t] <= Len(lines'[file[t]])
      BY <1>5, <2>2, <3>1
    <3>4. Trying(t) => \/ ending[t] = TRUE
                       \/ from[t] < pos[t] /\ lines'[file[t]][pos[t]] = TRUE
      BY <2>1, <2>2, <3>2 DEF Placed
    <3>5. Placed(t)'
      BY <1>6, <2>1, <2>6, <3>3, <3>4 DEF Placed, Trying, Closing, place, cursor, server
    <3>6. Behind(t)'
      BY <1>6, <2>1, <3>2 DEF Behind, place, cursor, server
    <3> QED
      BY <2>4, <3>5, <3>6
  <2> QED
    BY <2>5, <2>6
<1>9. HeardIsDelivered' /\ MappingsHeld'
  BY <1>6 DEF IInv, HeardIsDelivered, MappingsHeld, Holds, place, cursor, server
<1> QED
  BY <1>7, <1>8, <1>9 DEF IInv

\* A killed watcher leaves the server, the files and the mappings as they are.
LEMMA KillKeeps ==
    ASSUME IInv, Kill
    PROVE  IInv'
<1> Types
  BY DEF IInv
<1>1. /\ UNCHANGED <<lines, mapped, place, cursor, detector, server, history>> /\ End' = End
      /\ \A f \in Files : heard'[f] = {}
      /\ \A t \in Tailers : pc'[t] = IF pc[t] \in Working THEN "gone" ELSE pc[t]
  BY DEF Kill, End
<1>2. \A t \in Tailers : pc'[t] \notin Working /\ (pc'[t] = "idle" <=> pc[t] = "idle")
  BY <1>1 DEF Working, Types
<1>3. Types'
  BY <1>1 DEF Kill, Types, Left, place, cursor, detector, server, history
<1>4. ASSUME NEW t \in Tailers
      PROVE  Placed(t)' /\ Behind(t)' /\ Covered(t)' /\ Armed(t)' /\ Heard(t)'
  <2>1. Placed(t) /\ Behind(t) /\ Covered(t) /\ Armed(t) /\ Heard(t)
    BY DEF IInv
  <2>2. Current(t)' = Current(t) /\ pc'[t] \notin {"read", "detect", "signal"}
    BY <1>1, <1>2 DEF Current, Working, place, cursor
  <2>3. Placed(t)'
    BY <1>1, <1>2, <2>1 DEF Placed, Trying, Closing, Working, place, cursor, server
  <2>4. Behind(t)' /\ Heard(t)'
    BY <1>1, <1>2, <2>1 DEF Behind, Heard, place, cursor, server
  <2>5. Covered(t)'
    BY <1>1, <2>1, <2>2 DEF Covered, place, cursor, detector, server, history
  <2>6. Armed(t)'
    <3>1. ~Trying(t)' /\ signals' = signals /\ setBack' = setBack
      BY <1>1, <1>2 DEF Trying, Working, server, detector
    <3> QED
      BY <2>1, <3>1, ArmedAtRest
  <2> QED
    BY <2>3, <2>4, <2>5, <2>6
<1>5. HeardIsDelivered'
  BY <1>1 DEF HeardIsDelivered
<1>6. MappingsHeld'
  <2>1. \A t \in Tailers : Holds(t) => Holds(t)'
    BY <1>1 DEF Holds, Left
  <2> QED
    BY <1>1, <2>1 DEF IInv, MappingsHeld, place
<1> QED
  BY <1>3, <1>4, <1>5, <1>6 DEF IInv

-----------------------------------------------------------------------------
(* The theorems.                                                           *)

\* The invariant is true at the start ...
LEMMA Initially == Init => IInv
<1> SUFFICES ASSUME Init PROVE IInv
  OBVIOUS
<1>1. /\ << >> \in Seq(BOOLEAN) /\ << >> \in Seq(1..End) /\ Len(<< >>) = 0
      /\ 0 \in 0..MaxLines /\ 0 \in 0..End /\ 1 \in 1..Attempts
  BY MaxLinesAssumption, AttemptsAssumption DEF End
<1>2. Types
  BY <1>1 DEF Init, Types
<1>3. ASSUME NEW t \in Tailers
      PROVE  Placed(t) /\ Behind(t) /\ Covered(t) /\ Armed(t) /\ Heard(t)
  <2>1. /\ pc[t] = "idle" /\ log[t] = << >> /\ signals[t] = << >> /\ pos[t] = 0
        /\ from[t] = 0 /\ last[t] = 0 /\ ending[t] = FALSE
    BY DEF Init
  <2>2. Placed(t) /\ Behind(t) /\ Heard(t)
    BY <2>1, NothingSent DEF Placed, Behind, Heard, Trying, Closing, Working
  <2>3. \A j \in (from[t] + 1)..pos[t] : FALSE
    BY <2>1
  <2>4. Covered(t)
    BY <2>1, <2>3 DEF Covered
  <2>5. \A i \in DOMAIN signals[t] : FALSE
    BY <2>1
  <2>6. Armed(t)
    BY <2>1, <2>5 DEF Armed, Trying, Once
  <2> QED
    BY <2>2, <2>4, <2>6
<1>4. HeardIsDelivered /\ MappingsHeld
  BY DEF Init, HeardIsDelivered, MappingsHeld
<1> QED
  BY <1>2, <1>3, <1>4 DEF IInv

\* ... and every step keeps it.
LEMMA Invariant == Spec => []IInv
<1>1. Init => IInv
  BY Initially
<1>2. IInv /\ [Next]_vars => IInv'
  <2> SUFFICES ASSUME IInv, [Next]_vars PROVE IInv'
    OBVIOUS
  <2>1. ASSUME NEW f \in Files, AppendLine(f) PROVE IInv'
    BY <2>1, AppendLineKeeps
  <2>2. ASSUME NEW t \in Tailers, Own(t) PROVE IInv'
    <3>1. Types' /\ HeardIsDelivered' /\ MappingsHeld'
      BY <2>2, TypesKept, HeardIsDeliveredKept, MappingsHeldKept
    <3>2. Placed(t)' /\ Behind(t)' /\ Covered(t)' /\ Armed(t)' /\ Heard(t)'
      BY <2>2, PlacedKept, BehindKept, CoveredKept, ArmedKept, HeardKept
    <3>3. \A u \in Tailers \ {t} :
             Placed(u)' /\ Behind(u)' /\ Covered(u)' /\ Armed(u)' /\ Heard(u)'
      BY <2>2, OthersKept
    <3> QED
      BY <3>1, <3>2, <3>3 DEF IInv
  <2>3. CASE Kill
    BY <2>3, KillKeeps
  <2>4. CASE UNCHANGED vars
    <3>1. /\ UNCHANGED <<lines, mapped, heard, file, from, pos, pc, last, ending, attempt>>
          /\ UNCHANGED <<signalAt, overtaken, setBack, log, signals, published, failed, torn>>
      BY <2>4 DEF vars, place, cursor, detector, server, history
    <3>2. Types' /\ HeardIsDelivered' /\ MappingsHeld'
      BY <3>1 DEF IInv, Types, HeardIsDelivered, MappingsHeld, Holds, End
    <3>3. \A t \in Tailers : Current(t)' = Current(t)
      BY <3>1 DEF Current, End
    <3>4. \A t \in Tailers : Placed(t)' /\ Behind(t)'
      BY <3>1 DEF IInv, Placed, Behind, Trying, Closing, End
    <3>5. \A t \in Tailers : Covered(t)' /\ Heard(t)'
      BY <3>1, <3>3 DEF IInv, Covered, Heard
    <3>6. \A t \in Tailers :
             InCooldown(t)' = InCooldown(t) /\ Trying(t)' = Trying(t) /\ Once(t)' = Once(t)
      BY <3>1 DEF InCooldown, StampOf, Trying, Once
    <3>7. \A t \in Tailers : Armed(t)'
      BY <3>1, <3>3, <3>6 DEF IInv, Armed
    <3> QED
      BY <3>2, <3>4, <3>5, <3>7 DEF IInv
  <2> QED
    BY <2>1, <2>2, <2>3, <2>4 DEF Next, Own
<1> QED
  BY <1>1, <1>2, PTL DEF Spec

\* The state of the watcher, of the server and of the files is of its type.
THEOREM WatcherTypes == Spec => []TypeOK
<1>1. IInv => TypeOK
  BY DEF IInv, Types, TypeOK
<1> QED
  BY <1>1, Invariant, PTL

\* Nothing from outside of the allowed projects reaches the server, whatever fails, is
\* tried again or is killed, and however many threads tail one file.
THEOREM ForwardedIsAllowed == Spec => []OnlyAllowedForwarded
<1>1. IInv => OnlyAllowedForwarded
  BY DEF IInv, Behind, OnlyAllowedForwarded
<1> QED
  BY <1>1, Invariant, PTL

\* What the server got from a thread has no gaps: an event that is given up ends the
\* thread, so that nothing after it, the session_end included, is forwarded.
THEOREM DeliveryHasNoGaps == Spec => []NoGaps
<1>1. IInv => NoGaps
  <2> SUFFICES ASSUME IInv, NEW t \in Tailers, NEW i \in Range(log[t]),
                      NEW j \in (from[t] + 1)..(IF i = End THEN last[t] ELSE i)
               PROVE  j \in Range(log[t]) \/ j \in torn[t]
    BY DEF NoGaps
  <2>1. Types /\ Placed(t) /\ Behind(t) /\ Covered(t)
    BY DEF IInv
  <2>2. pc[t] # "idle"
    BY <2>1, NothingSent DEF Placed
  <2>3. /\ from[t] \in Nat /\ pos[t] \in Nat /\ last[t] \in Nat /\ last[t] <= pos[t]
    BY <2>1, <2>2 DEF Types, Placed
  <2>4. CASE i = End /\ ending[t] = TRUE
    <3>1. j \in (from[t] + 1)..pos[t]
      BY <2>3, <2>4
    <3> QED
      BY <2>1, <2>4, <3>1 DEF Covered
  <2>5. CASE i \in 1..pos[t]
    <3>1. i # End
      BY <2>1, <2>5, EndShape DEF Types
    <3>2. j \in (from[t] + 1)..pos[t] /\ (j = pos[t] => j = i)
      BY <2>3, <2>5, <3>1
    <3> QED
      BY <2>1, <3>2 DEF Covered
  <2> QED
    BY <2>1, <2>4, <2>5 DEF Behind
<1> QED
  BY <1>1, Invariant, PTL

\* An event is signalled twice only after the cooldown was set back.  An attempt that fails
\* after its signal was posted finds the cooldown set by the very event it tries again, or
\* set by another thread to a time that covers that event's as well, unless that thread had
\* looked at the cooldown before.
THEOREM SignalledOnce == Spec => []SignalOnce
<1>1. IInv => SignalOnce
  BY DEF IInv, Types, Armed, Once, SignalOnce
<1> QED
  BY <1>1, Invariant, PTL

\* The harvester looks at what the server got from the threads of the session's file, and
\* at all that the thread that ends it delivered.
THEOREM HarvestIsOfDelivered == Spec => []HarvestSeesDelivered
<1>1. IInv => HarvestSeesDelivered
  <2> SUFFICES ASSUME IInv, NEW t \in Tailers, pc[t] \in {"harvest", "publish", "submit"}
               PROVE  /\ End \in Range(log[t]) /\ Range(log[t]) \subseteq heard[file[t]]
                      /\ heard[file[t]] \subseteq
                           UNION {Range(log[u]) : u \in {u \in Tailers : file[u] = file[t]}}
    BY DEF HarvestSeesDelivered
  <2>1. file[t] \in Files /\ End \in Range(log[t])
    BY DEF IInv, Placed, Closing
  <2>2. Range(log[t]) \subseteq heard[file[t]]
    BY DEF IInv, Heard, Working
  <2>3. \A i \in heard[file[t]] : \E u \in Tailers : file[u] = file[t] /\ i \in Range(log[u])
    BY <2>1 DEF IInv, HeardIsDelivered
  <2> QED
    BY <2>1, <2>2, <2>3
<1> QED
  BY <1>1, Invariant, PTL

\* Every mapping is accounted for by a thread that is at work or ended early.
THEOREM MappingsAreHeld == Spec => []NoStaleMapping
<1>1. IInv => NoStaleMapping
  BY DEF IInv, MappingsHeld, Holds, NoStaleMapping, Left, Working
<1> QED
  BY <1>1, Invariant, PTL

-----------------------------------------------------------------------------
(* The refinement of EventDelivery.                                        *)

\* How often the event in hand was delivered is bounded by the attempts made: the attempt
\* under way has delivered it only where the detector has it or its signal is posted.
Counted(t) ==
    /\ pc[t] \in {"mapping", "start", "post"} =>
           Delivery!Times(Current(t), log[t]) < attempt[t]
    /\ pc[t] \in {"detect", "signal"} => Delivery!Times(Current(t), log[t]) <= attempt[t]

\* An event counts once more when it is appended, and it is no more than that often in the
\* log.
LEMMA TimesShape ==
    ASSUME NEW s \in Seq(1..End), NEW i \in 1..End
    PROVE  /\ Delivery!Times(i, s) \in Nat
           /\ Delivery!Times(i, Append(s, i)) = Delivery!Times(i, s) + 1
           /\ i \notin Range(s) => Delivery!Times(i, s) = 0
<1> DEFINE At(z) == {n \in DOMAIN z : z[n] = i}
<1>1. DOMAIN s = 1..Len(s) /\ Len(s) \in Nat
  OBVIOUS
<1>2. /\ DOMAIN Append(s, i) = 1..(Len(s) + 1) /\ Append(s, i)[Len(s) + 1] = i
      /\ \A n \in 1..Len(s) : Append(s, i)[n] = s[n]
  BY AppendEvent
<1>3. IsFiniteSet(At(s))
  <2>1. IsFiniteSet(1..Len(s))
    BY <1>1, FS_Interval
  <2>2. At(s) \in SUBSET (1..Len(s))
    BY <1>1
  <2> QED
    BY <2>1, <2>2, FS_Subset
<1>4. At(Append(s, i)) = At(s) \cup {Len(s) + 1} /\ Len(s) + 1 \notin At(s)
  BY <1>1, <1>2
<1>5. Cardinality(At(s)) \in Nat
  BY <1>3, FS_CardinalityType
<1>6. Cardinality(At(Append(s, i))) = Cardinality(At(s)) + 1
  BY <1>3, <1>4, FS_AddElement
<1>7. i \notin Range(s) => At(s) = {}
  BY DEF Range
<1>8. i \notin Range(s) => Cardinality(At(s)) = 0
  BY <1>7, FS_EmptySet
<1>9. Delivery!Times(i, s) = Cardinality(At(s))
  BY Zenon DEF Delivery!Times, Delivery!Cardinality, Cardinality
<1>10. Delivery!Times(i, Append(s, i)) = Cardinality(At(Append(s, i)))
  BY Zenon DEF Delivery!Times, Delivery!Cardinality, Cardinality
<1> HIDE DEF At
<1> QED
  BY <1>5, <1>6, <1>8, <1>9, <1>10

\* A failed attempt that is tried again is counted.
LEMMA FailCounts ==
    ASSUME Types, NEW t \in Tailers, Fail(t), pc'[t] # "gaveup"
    PROVE  pc'[t] = "mapping" /\ attempt'[t] = attempt[t] + 1
BY DEF Types, Fail, Go

\* An event that is newly in hand was not delivered before.
LEMMA NewInHand ==
    ASSUME IInv, NEW t \in Tailers, ReadLine(t) \/ Quiet(t)
    PROVE  Counted(t)'
<1> Types /\ Placed(t) /\ Behind(t)
  BY DEF IInv
<1>1. pc[t] = "read" /\ ending[t] = FALSE /\ log' = log /\ pos[t] \in 0..MaxLines
  BY DEF ReadLine, Quiet, Placed, Types, server
<1>2. pc'[t] \notin {"start", "post", "detect", "signal"}
  BY DEF ReadLine, Quiet, Go, Types
<1>3. CASE pc'[t] = "mapping"
  <2>1. attempt'[t] = 1
    BY <1>3 DEF ReadLine, Quiet, Go, Types
  <2>2. Current(t)' \in 1..End /\ Current(t)' > pos[t]
    <3>1. CASE ReadLine(t)
      <4>1. pos[t] + 1 \in 1..MaxLines /\ pos'[t] = pos[t] + 1 /\ ending'[t] = FALSE
        BY <1>1, <3>1, NextLine DEF ReadLine, Types
      <4> QED
        BY <1>1, <4>1, EndShape DEF Current, End
    <3>2. CASE Quiet(t)
      <4>1. ending'[t] = TRUE
        BY <1>3, <3>2 DEF Quiet, Go, Types
      <4> QED
        BY <1>1, <4>1, EndShape DEF Current, End
    <3> QED
      BY <3>1, <3>2
  <2>3. Current(t)' \notin Range(log[t])
    BY <1>1, <2>2, EndShape DEF Behind
  <2>4. Delivery!Times(Current(t)', log[t]) = 0
    BY <2>2, <2>3, TimesShape DEF Types
  <2> QED
    BY <1>1, <1>2, <2>1, <2>4 DEF Counted
<1> QED
  BY <1>2, <1>3 DEF Counted

\* The counts of a thread that makes a step ...
LEMMA CountedKept ==
    ASSUME IInv, NEW t \in Tailers, Own(t), Counted(t)
    PROVE  Counted(t)'
<1> Types /\ Placed(t)
  BY DEF IInv
<1>1. CASE ReadLine(t) \/ Quiet(t)
  BY <1>1, NewInHand
<1>2. CASE pc'[t] \notin {"mapping", "start", "post", "detect", "signal"}
  BY <1>2 DEF Counted
<1>3. CASE GetMapping(t)
  <2>1. /\ pc[t] = "mapping" /\ pc'[t] \in {"post", "start"}
        /\ log' = log /\ attempt' = attempt /\ Current(t)' = Current(t)
    BY <1>3 DEF GetMapping, Go, Types, Current, place, cursor, server, End
  <2> QED
    BY <2>1 DEF Counted
<1>4. ASSUME pc[t] \in {"start", "post", "detect", "signal"},
             pc'[t] \in {"mapping", "start", "post", "detect", "signal"}
      PROVE  Counted(t)'
  <2>1. Current(t) \in 1..End /\ log[t] \in Seq(1..End) /\ attempt[t] \in Nat
    BY <1>4, InHand, AttemptsAssumption DEF Types
  <2>2. /\ Delivery!Times(Current(t), log[t]) \in Nat
        /\ Delivery!Times(Current(t), Append(log[t], Current(t)))
             = Delivery!Times(Current(t), log[t]) + 1
    BY <2>1, TimesShape
  <2>3. \/ StartSession(t) \/ PostEvent(t) \/ PostEventFails(t)
        \/ Detect(t) \/ DetectorRaises(t) \/ PostSignal(t)
    BY <1>4 DEF Own, Proceed, StartTail, ReadTornLine, ReadRaises, ReadLine, Quiet, GetMapping, Harvest,
       Publish, SubmitCandidate, Forget
  <2>4. Current(t)' = Current(t)
    BY <2>3 DEF StartSession, PostEvent, PostEventFails, Detect, DetectorRaises, PostSignal, Fail,
       Succeed, Current, End, place
  <2>5. CASE StartSession(t)
    <3>1. log' = log /\ pc[t] = "start"
      BY <2>5 DEF StartSession, server
    <3>2. CASE Fail(t)
      BY <1>4, <2>1, <2>2, <2>4, <3>1, <3>2, FailCounts DEF Counted
    <3>3. CASE pc'[t] = "post" /\ attempt' = attempt
      BY <2>1, <2>2, <2>4, <3>1, <3>3 DEF Counted
    <3> QED
      BY <2>5, <3>2, <3>3 DEF StartSession, Go, Types
  <2>6. CASE PostEvent(t)
    <3>1. log'[t] = Append(log[t], Current(t)) /\ pc[t] = "post"
      BY <2>6 DEF PostEvent, Deliver, Types
    <3>2. pc'[t] = "detect" /\ attempt' = attempt
      BY <1>4, <2>6, SucceedShape DEF PostEvent, Go, Types
    <3> QED
      BY <2>1, <2>2, <2>4, <3>1, <3>2 DEF Counted
  <2>7. CASE PostEventFails(t)
    <3>1. (log'[t] = Append(log[t], Current(t)) \/ log' = log) /\ pc[t] = "post"
      BY <2>7 DEF PostEventFails, Deliver, Types
    <3>2. pc'[t] = "mapping" /\ attempt'[t] = attempt[t] + 1
      BY <1>4, <2>7, FailCounts DEF PostEventFails
    <3>3. CASE log'[t] = Append(log[t], Current(t))
      BY <2>1, <2>2, <2>4, <3>1, <3>2, <3>3 DEF Counted
    <3>4. CASE log' = log
      BY <2>1, <2>2, <2>4, <3>1, <3>2, <3>4 DEF Counted
    <3> QED
      BY <3>1, <3>3, <3>4
  <2>8. CASE PostSignal(t) \/ DetectorRaises(t)
    <3>1. log' = log /\ pc[t] \in {"detect", "signal"}
      BY <2>8 DEF PostSignal, DetectorRaises, server
    <3>2. pc'[t] = "mapping" /\ attempt'[t] = attempt[t] + 1
      BY <1>4, <2>8, FailCounts, SucceedShape DEF PostSignal, DetectorRaises
    <3> QED
      BY <2>1, <2>2, <2>4, <3>1, <3>2 DEF Counted
  <2>9. CASE Detect(t)
    <3>1. log' = log /\ pc[t] = "detect"
      BY <2>9 DEF Detect, server
    <3>2. pc'[t] = "signal" /\ attempt' = attempt
      BY <1>4, <2>9, DetectShape, SucceedShape DEF Arms, Go, Types
    <3> QED
      BY <2>1, <2>2, <2>4, <3>1, <3>2 DEF Counted
  <2> QED
    BY <2>3, <2>5, <2>6, <2>7, <2>8, <2>9
<1>5. pc[t] \notin {"start", "post", "detect", "signal"} =>
        ReadLine(t) \/ Quiet(t) \/ GetMapping(t)
          \/ pc'[t] \notin {"mapping", "start", "post", "detect", "signal"}
  BY DEF Own, Proceed, StartTail, ReadTornLine, ReadRaises, StartSession, PostEvent,
     PostEventFails, Detect, DetectorRaises, PostSignal, Harvest, Publish, SubmitCandidate, Forget, Go, Types, cursor
<1> QED
  BY <1>1, <1>2, <1>3, <1>4, <1>5

\* ... and of the others.
LEMMA OthersCounted ==
    ASSUME IInv, NEW t \in Tailers, Own(t), NEW u \in Tailers \ {t}, Counted(u)
    PROVE  Counted(u)'
<1> Types
  BY DEF IInv
<1>1. Same(u) /\ Current(u)' = Current(u)
  BY Others DEF Same, Current, End
<1>2. attempt'[u] = attempt[u]
  BY DEF Types, Own, Proceed, StartTail, ReadTornLine, ReadRaises, ReadLine, Quiet, GetMapping,
     StartSession, PostEvent, PostEventFails, Detect, DetectorRaises, PostSignal, Harvest, Publish,
     SubmitCandidate, Forget, Fail, Succeed, cursor
<1> QED
  BY <1>1, <1>2 DEF Counted, Same

\* No event is in the log more often than it was tried.
LEMMA CountsInvariant == Spec => [](\A t \in Tailers : Counted(t))
<1>1. Init => \A t \in Tailers : Counted(t)
  BY DEF Init, Counted
<1>2. IInv /\ (\A t \in Tailers : Counted(t)) /\ [Next]_vars => (\A t \in Tailers : Counted(t))'
  <2> SUFFICES ASSUME IInv, \A t \in Tailers : Counted(t), [Next]_vars
               PROVE  \A t \in Tailers : Counted(t)'
    OBVIOUS
  <2>1. CASE \E t \in Tailers : Own(t)
    BY <2>1, CountedKept, OthersCounted
  <2>2. CASE Kill
    BY <2>2 DEF Kill, Counted, Working
  <2>3. CASE UNCHANGED <<place, pc, cursor, server>>
    BY <2>3 DEF Counted, Current, End, place, cursor, server
  <2> QED
    BY <2>1, <2>2, <2>3 DEF Next, Own, AppendLine, vars
<1> QED
  BY <1>1, <1>2, Invariant, PTL DEF Spec

\* A delivery is one of the abstract tail: nothing larger was delivered before, and the
\* event not as often as it may be tried.
LEMMA DeliveryIsDelivery ==
    ASSUME IInv, NEW t \in Tailers, Counted(t), pc[t] = "post", Deliver(t)
    PROVE  Delivery!Next
<1> Types /\ Placed(t) /\ Behind(t)
  BY DEF IInv
<1>1. Current(t) \in 1..End
  BY InHand
<1>2. \A j \in Range(log[t]) : j <= Current(t)
  BY EndShape DEF Behind, Current, Types
<1>3. Delivery!Times(Current(t), log[t]) < Attempts
  <2>1. Delivery!Times(Current(t), log[t]) \in Nat /\ attempt[t] \in 1..Attempts
    BY <1>1, TimesShape DEF Types
  <2> QED
    BY <2>1, AttemptsAssumption DEF Counted
<1>4. Delivery!Deliver(t)
  BY <1>1, <1>2, <1>3 DEF Deliver, Delivery!Deliver, Delivery!Range, Range
<1> QED
  BY <1>4 DEF Delivery!Next

\* What the threads deliver is what EventDelivery promises, retries, lost answers, threads
\* that raise in the shared detector and kills included: the events of a file in its
\* order, none more than Attempts times, nothing after the session_end.
THEOREM ImplementsDelivery == Spec => DeliversInOrder
<1>1. Init => Delivery!Init
  BY DEF Init, Delivery!Init
<1>2. IInv /\ (\A t \in Tailers : Counted(t)) /\ [Next]_vars => [Delivery!Next]_log
  <2> SUFFICES ASSUME IInv, \A t \in Tailers : Counted(t), [Next]_vars
               PROVE  Delivery!Next \/ log' = log
    OBVIOUS
  <2>1. ASSUME NEW t \in Tailers, Own(t) PROVE Delivery!Next \/ log' = log
    <3>1. (pc[t] = "post" /\ Deliver(t)) \/ log' = log
      BY <2>1 DEF Own, Proceed, StartTail, ReadTornLine, ReadRaises, ReadLine, Quiet, GetMapping,
         StartSession, PostEvent, PostEventFails, Detect, DetectorRaises, PostSignal, Harvest, Publish,
         SubmitCandidate, Forget, server
    <3> QED
      BY <3>1, DeliveryIsDelivery
  <2>2. CASE UNCHANGED server
    BY <2>2 DEF server
  <2> QED
    BY <2>1, <2>2 DEF Next, Own, AppendLine, Kill, vars
<1> QED
  BY <1>1, <1>2, Invariant, CountsInvariant, PTL DEF Spec, DeliversInOrder, Delivery!Spec

=============================================================================
