---------------------------- MODULE MCSessionStart ----------------------------
(* Small instances of SessionStart: two identities share a persona id.     *)
EXTENDS SessionStart

MCIdentities == {"alice", "bob", "carol"}
MCPersonaId == [i \in MCIdentities |-> IF i = "carol" THEN 2 ELSE 1]

\* Requests are numbers and interchangeable: of the initial states that differ in the
\* names of the requests only, the one with the payloads in this order is enough.
Rank(p) == (CASE p.identity = "alice" -> 0 [] p.identity = "bob" -> 2 [] p.identity = "carol" -> 4)
           + (IF p.source = NoSource THEN 0 ELSE 1)
MCInit == Init /\ \A q, r \in Requests : q < r => Rank(payload[q]) <= Rank(payload[r])

MCSpec == MCInit /\ [][Next]_vars /\ \A r \in Requests : WF_vars(Proceed(r))
=============================================================================
