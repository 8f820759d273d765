-------------------------- MODULE SessionStartProofs --------------------------
(* Proofs, for any number of requests, identities and sources, of the safety *)
(* properties of SessionStart.                                               *)
EXTENDS SessionStart, TLAPS

USE NoneAssumption, NoSourceAssumption
USE DEF vars

\* Every action preserves the types.
LEMMA TypeStep == TypeOK /\ [Next]_vars => TypeOK'
<1> SUFFICES ASSUME TypeOK, [Next]_vars PROVE TypeOK'
    OBVIOUS
<1> USE DEF TypeOK, Working, Goto, Release
<1>1. ASSUME NEW r \in Requests, Arrive(r) PROVE TypeOK'
  <2>1. arrived' \in Seq(Requests)
    BY <1>1 DEF Arrive
  <2>2. answered' \in [Requests -> SUBSET Requests]
    BY <1>1 DEF Arrive
  <2>3. QED
    BY <1>1, <2>1, <2>2 DEF Arrive
<1>2. ASSUME NEW r \in Requests, SelectPersona(r) PROVE TypeOK'
    BY <1>2 DEF SelectPersona
<1>3. ASSUME NEW r \in Requests, InsertPersona(r) PROVE TypeOK'
  <2>1. payload[r].identity \in Identities
    BY DEF Payload
  <2>2. personas' \subseteq Identities
    BY <1>3, <2>1 DEF InsertPersona
  <2>3. QED
    BY <1>3, <2>2 DEF InsertPersona
<1>4. ASSUME NEW r \in Requests, Reselect(r) PROVE TypeOK'
    BY <1>4 DEF Reselect
<1>5. ASSUME NEW r \in Requests, LookupSession(r) PROVE TypeOK'
    BY <1>5 DEF LookupSession, SessionsForSource
<1>6. ASSUME NEW r \in Requests, TouchSession(r) PROVE TypeOK'
    BY <1>6 DEF TouchSession
<1>7. ASSUME NEW r \in Requests, CreateSession(r) PROVE TypeOK'
    BY <1>7 DEF CreateSession
<1>8. ASSUME NEW r \in Requests, BusyTimesOut(r) PROVE TypeOK'
    BY <1>8 DEF BusyTimesOut
<1>9. CASE Crash
    BY <1>9 DEF Crash
<1>10. CASE UNCHANGED vars
    BY <1>10
<1>11. QED
    BY <1>1, <1>2, <1>3, <1>4, <1>5, <1>6, <1>7, <1>8, <1>9, <1>10 DEF Next, Proceed

\* Asking for the session of the same source is transitive and symmetric.
LEMMA SameKeyTransitive ==
    ASSUME NEW p, NEW q, NEW r, SameKey(p, q), SameKey(q, r)
    PROVE  SameKey(p, r) /\ SameKey(q, p)
BY DEF SameKey

\* Once a request has been answered there is a session for its source, which a later
\* request for the same source finds.
LEMMA AnsweredHasSession ==
    ASSUME OwnSession, NEW q \in Requests, pc[q] = "answered", NEW r \in Requests,
           SameKey(q, r), sessions \subseteq Requests
    PROVE  SessionsForSource(r) # {}
<1>1. reply[q] \in sessions /\ (reply[q] = q \/ SameKey(reply[q], q))
    BY DEF OwnSession
<1>2. SameKey(reply[q], r)
    BY <1>1, SameKeyTransitive
<1>3. QED
    BY <1>1, <1>2 DEF SessionsForSource

\* The part of the invariant beside the types.
Agreement ==
    /\ RaceIsNoError
    /\ OwnSession
    /\ RetryReuses
    /\ \A r \in Requests : RequestAgrees(r)

\* Every action preserves what the requests know.
LEMMA AgreementStep == TypeOK /\ Agreement /\ [Next]_vars => Agreement'
<1> SUFFICES ASSUME TypeOK, Agreement, [Next]_vars PROVE Agreement'
    OBVIOUS
<1> USE DEF TypeOK, Working, Goto, Agreement
<1>a. ASSUME UNCHANGED payload
      PROVE  \A q, r : SameKey(q, r)' <=> SameKey(q, r)
    BY <1>a DEF SameKey
<1>1. ASSUME NEW r \in Requests, Arrive(r) PROVE Agreement'
  <2>0. \A p, q : SameKey(p, q)' <=> SameKey(p, q)
    BY <1>1, <1>a DEF Arrive
  <2>1. \A q \in Requests : pc'[q] = IF q = r THEN "persona" ELSE pc[q]
    BY <1>1 DEF Arrive
  <2>2. \A q \in Requests :
          answered'[q] = IF q = r THEN {p \in Requests : pc[p] = "answered"}
                         ELSE answered[q]
    BY <1>1 DEF Arrive
  <2>3. pc[r] = "idle" /\ r \notin sessions
    BY <1>1 DEF Arrive, RequestAgrees
  <2>4. RaceIsNoError' /\ OwnSession'
    BY <1>1, <2>0, <2>1 DEF Arrive, RaceIsNoError, OwnSession
  <2>5. RetryReuses'
    BY <1>1, <2>0, <2>2, <2>3 DEF Arrive, RetryReuses
  <2>6. ASSUME NEW q \in Requests PROVE RequestAgrees(q)'
    BY <1>1, <2>0, <2>1, <2>2, <2>3 DEF Arrive, RequestAgrees, Taken, SessionsForSource
  <2>7. QED
    BY <2>4, <2>5, <2>6
<1>2. ASSUME NEW r \in Requests, SelectPersona(r) PROVE Agreement'
  <2>0. \A p, q : SameKey(p, q)' <=> SameKey(p, q)
    BY <1>2, <1>a DEF SelectPersona
  <2>1. QED
    BY <1>2, <2>0 DEF SelectPersona, RaceIsNoError, OwnSession, RetryReuses,
                      RequestAgrees, Taken, SessionsForSource
<1>3. ASSUME NEW r \in Requests, InsertPersona(r) PROVE Agreement'
  <2>0. \A p, q : SameKey(p, q)' <=> SameKey(p, q)
    BY <1>3, <1>a DEF InsertPersona
  <2>1. personas \subseteq personas'
    BY <1>3 DEF InsertPersona
  <2>2. QED
    BY <1>3, <2>0, <2>1 DEF InsertPersona, RaceIsNoError, OwnSession, RetryReuses,
                      RequestAgrees, Taken, SessionsForSource
<1>4. ASSUME NEW r \in Requests, Reselect(r) PROVE Agreement'
  <2>0. \A p, q : SameKey(p, q)' <=> SameKey(p, q)
    BY <1>4, <1>a DEF Reselect
  <2>1. Taken(payload[r].identity)
    BY <1>4 DEF Reselect, RequestAgrees
  <2>2. RaceIsNoError'
    BY <1>4, <2>1 DEF Reselect, RaceIsNoError, Taken
  <2>3. QED
    BY <1>4, <2>0, <2>2 DEF Reselect, OwnSession, RetryReuses,
                      RequestAgrees, Taken, SessionsForSource
<1>5. ASSUME NEW r \in Requests, LookupSession(r) PROVE Agreement'
  <2>0. \A p, q : SameKey(p, q)' <=> SameKey(p, q)
    BY <1>5, <1>a DEF LookupSession
  <2>1. RaceIsNoError' /\ OwnSession' /\ RetryReuses'
    BY <1>5, <2>0 DEF LookupSession, RaceIsNoError, OwnSession, RetryReuses
  <2>2. ASSUME pc'[r] = "create" PROVE \A q \in answered[r] : ~SameKey(q, r)
    <3>1. SessionsForSource(r) = {}
      BY <1>5, <2>2 DEF LookupSession
    <3>2. \A q \in answered[r] : q \in Requests /\ pc[q] = "answered"
      BY DEF RequestAgrees
    <3>3. QED
      BY <3>1, <3>2, AnsweredHasSession
  <2>3. ASSUME NEW q \in Requests PROVE RequestAgrees(q)'
    BY <1>5, <2>0, <2>2 DEF LookupSession, RequestAgrees, Taken, SessionsForSource
  <2>4. QED
    BY <2>1, <2>3
<1>6. ASSUME NEW r \in Requests, TouchSession(r) PROVE Agreement'
  <2>0. \A p, q : SameKey(p, q)' <=> SameKey(p, q)
    BY <1>6, <1>a DEF TouchSession
  <2>1. found[r] \in sessions /\ SameKey(found[r], r)
    BY <1>6 DEF TouchSession, RequestAgrees, SessionsForSource
  <2>2. QED
    BY <1>6, <2>0, <2>1 DEF TouchSession, RaceIsNoError, OwnSession, RetryReuses,
                      RequestAgrees, Taken, SessionsForSource
<1>7. ASSUME NEW r \in Requests, CreateSession(r) PROVE Agreement'
  <2>0. \A p, q : SameKey(p, q)' <=> SameKey(p, q)
    BY <1>7, <1>a DEF CreateSession
  <2>1. \A q \in answered[r] : ~SameKey(q, r)
    BY <1>7 DEF CreateSession, RequestAgrees
  <2>2. RaceIsNoError' /\ OwnSession'
    BY <1>7, <2>0 DEF CreateSession, RaceIsNoError, OwnSession
  <2>3. RetryReuses'
    BY <1>7, <2>0, <2>1 DEF CreateSession, RetryReuses
  <2>4. ASSUME NEW q \in Requests PROVE RequestAgrees(q)'
    BY <1>7, <2>0 DEF CreateSession, RequestAgrees, Taken, SessionsForSource
  <2>5. QED
    BY <2>2, <2>3, <2>4
<1>8. ASSUME NEW r \in Requests, BusyTimesOut(r) PROVE Agreement'
  <2>0. \A p, q : SameKey(p, q)' <=> SameKey(p, q)
    BY <1>8, <1>a DEF BusyTimesOut
  <2>1. QED
    BY <1>8, <2>0 DEF BusyTimesOut, RaceIsNoError, OwnSession, RetryReuses,
                      RequestAgrees, Taken, SessionsForSource
<1>9. CASE Crash
  <2>0. \A p, q : SameKey(p, q)' <=> SameKey(p, q)
    BY <1>9, <1>a DEF Crash
  <2>1. \A q \in Requests : pc'[q] = IF pc[q] \in Working THEN "gone" ELSE pc[q]
    BY <1>9 DEF Crash
  <2>2. RaceIsNoError' /\ OwnSession' /\ RetryReuses'
    BY <1>9, <2>0, <2>1 DEF Crash, RaceIsNoError, OwnSession, RetryReuses
  <2>3. ASSUME NEW q \in Requests PROVE RequestAgrees(q)'
    BY <1>9, <2>0, <2>1 DEF Crash, RequestAgrees, Taken, SessionsForSource
  <2>4. QED
    BY <2>2, <2>3
<1>10. CASE UNCHANGED vars
    BY <1>10 DEF RaceIsNoError, OwnSession, RetryReuses, RequestAgrees, Taken,
                 SessionsForSource, SameKey
<1>11. QED
    BY <1>1, <1>2, <1>3, <1>4, <1>5, <1>6, <1>7, <1>8, <1>9, <1>10 DEF Next, Proceed

\* IndInv is an invariant: types and agreements are preserved by every step.
THEOREM Inductive == Spec => []IndInv
<1>1. Init => IndInv
    BY DEF Init, IndInv, TypeOK, RaceIsNoError, OwnSession, RetryReuses, RequestAgrees
<1>2. IndInv /\ [Next]_vars => IndInv'
    BY TypeStep, AgreementStep DEF IndInv, Agreement
<1>3. QED
    BY <1>1, <1>2, PTL DEF Spec

\* The types are preserved by every step.
THEOREM TypeCorrect == Spec => []TypeOK
<1>1. IndInv => TypeOK
    BY DEF IndInv
<1>2. QED
    BY <1>1, Inductive, PTL

\* However many requests race for a new persona, losing is never an error.
THEOREM RaceLostIsNoError == Spec => []RaceIsNoError
<1>1. IndInv => RaceIsNoError
    BY DEF IndInv
<1>2. QED
    BY <1>1, Inductive, PTL

\* An answer is a committed session of the caller's own persona and source.
THEOREM AnswersOwnSession == Spec => []OwnSession
<1>1. IndInv => OwnSession
    BY DEF IndInv
<1>2. QED
    BY <1>1, Inductive, PTL

\* A retry after an answer reuses the session, whatever other requests overlap.
THEOREM RetryIsIdempotent == Spec => []RetryReuses
<1>1. IndInv => RetryReuses
    BY DEF IndInv
<1>2. QED
    BY <1>1, Inductive, PTL
=============================================================================
