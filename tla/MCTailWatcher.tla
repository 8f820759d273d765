----------------------------- MODULE MCTailWatcher -----------------------------
(* Small instances of TailWatcher, with threads and files that are numbers. *)
EXTENDS TailWatcher

\* The lines of the first file are a second apart, and the first of them a cooldown after
\* those of the other.
MCStamp == [f \in Files |-> [i \in 1..MaxLines |-> IF f = 1 THEN i + 1 ELSE 0]]

\* The first thread tails the first file, and sees it with MaxLines lines.  The second one
\* starts after it, on either file, with no more than SharedLines, and then the files stay
\* that short; the other file begins when it does.  No step of a started thread is kept
\* from being taken.
SharedLines == 1
Started == {t \in Tailers : pc[t] # "idle"}
Bounded ==
    /\ 1 \in Started' => file'[1] = 1
    /\ \A t \in Started', u \in Tailers : u < t => u \in Started'
    /\ Cardinality(Started') > 1 => \A f \in Files : Len(lines'[f]) <= SharedLines
    /\ \A f \in Files \ {1} : lines'[f] # << >> => \E t \in Started' : file'[t] = f

MCSpec == Init /\ [][Next /\ Bounded]_vars /\ \A t \in Tailers : WF_vars(Proceed(t))
=============================================================================
