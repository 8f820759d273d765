----------------------------- MODULE EventDelivery -----------------------------
(***************************************************************************)
(* What the tail of a session file promises to the server: the events it   *)
(* delivers arrive in the order of the file, each at most Attempts times,  *)
(* and nothing follows the end of the session.                             *)
(***************************************************************************)
EXTENDS Naturals, Sequences, FiniteSets, SequencesExt

CONSTANTS
    Tailers,     \* the tails of session files
    LastEvent,   \* a positive number: the events of a tail are 1..LastEvent, the last
                 \* one its session_end
    Attempts     \* a positive number: how often an event is tried

VARIABLE delivered    \* what the server got from each tail

Init == delivered = [t \in Tailers |-> << >>]

Times(i, log) == Cardinality({n \in DOMAIN log : log[n] = i})

Deliver(t) ==
    \E i \in 1..LastEvent :
        /\ \A j \in Range(delivered[t]) : j <= i
        /\ Times(i, delivered[t]) < Attempts
        /\ delivered' = [delivered EXCEPT ![t] = Append(@, i)]

Next == \E t \in Tailers : Deliver(t)

Spec == Init /\ [][Next]_delivered
=============================================================================
