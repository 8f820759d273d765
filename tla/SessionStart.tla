----------------------------- MODULE SessionStart -----------------------------
(***************************************************************************)
(* POST /sessions/start (fixlog/api/sessions.py): concurrent requests find *)
(* or create the persona of an account, model and harness, and then the    *)
(* session of a source.  Every request has a database connection of its    *)
(* own; the database is SQLite, which has one writer at a time, and reads  *)
(* outside of a write transaction see what is committed.  A SAVEPOINT      *)
(* outside of a transaction commits when it is released, and keeps the     *)
(* write lock when it is rolled back.                                      *)
(***************************************************************************)
EXTENDS Naturals, Sequences

CONSTANTS
    Requests,     \* the calls of the route
    Identities,   \* <<account, model, harness>>, the unique key of a persona
    Sources,      \* source tool sessions
    NoSource,     \* a payload without source_tool_session_id
    PersonaId,    \* persona_id_for: the primary key, 8 hex digits of a digest
    None          \* no request

ASSUME NoneAssumption == None \notin Requests
ASSUME NoSourceAssumption == NoSource \notin Sources
ASSUME PersonaIdAssumption == DOMAIN PersonaId = Identities

VARIABLES
    personas,     \* committed: the identities with a row in agent_personas
    sessions,     \* committed: the requests that inserted a row in sessions
    writer,       \* the request whose connection keeps the write lock, or None
    pc,           \* where each request is
    payload,      \* its identity and its source
    arrived,      \* the requests in the order of their "now"
    found,        \* the row of sessions it found, or None
    reply,        \* the session it was answered with, or None
    answered,     \* history: the requests answered before a request arrived
    busy          \* history: the requests that waited too long for the write lock

vars == <<personas, sessions, writer, pc, payload, arrived, found, reply, answered, busy>>

Payload == [identity : Identities, source : Sources \cup {NoSource}]
Working == {"persona", "insert", "reselect", "lookup", "touch", "create"}

TypeOK ==
    /\ personas \subseteq Identities /\ sessions \subseteq Requests
    /\ writer \in Requests \cup {None}
    /\ pc \in [Requests -> Working \cup {"idle", "answered", "error", "gone"}]
    /\ payload \in [Requests -> Payload]
    /\ arrived \in Seq(Requests)
    /\ found \in [Requests -> Requests \cup {None}]
    /\ reply \in [Requests -> Requests \cup {None}]
    /\ answered \in [Requests -> SUBSET Requests]
    /\ busy \subseteq Requests

Init ==
    /\ personas = {} /\ sessions = {} /\ writer = None
    /\ pc = [r \in Requests |-> "idle"]
    /\ payload \in [Requests -> Payload]
    /\ arrived = << >>
    /\ found = [r \in Requests |-> None] /\ reply = [r \in Requests |-> None]
    /\ answered = [r \in Requests |-> {}] /\ busy = {}

-----------------------------------------------------------------------------
Goto(r, from, to) == pc[r] = from /\ pc' = [pc EXCEPT ![r] = to]

MayWrite(r) == writer \in {None, r}
Release(r) == writer' = IF writer = r THEN None ELSE writer

\* Two requests ask for the session of the same source.
SameKey(q, r) == payload[q] = payload[r] /\ payload[r].source # NoSource

\* The collector's token is good, and now = utc_now().
Arrive(r) ==
    /\ Goto(r, "idle", "persona")
    /\ arrived' = Append(arrived, r)
    /\ answered' = [answered EXCEPT ![r] = {q \in Requests : pc[q] = "answered"}]
    /\ UNCHANGED <<personas, sessions, writer, payload, found, reply, busy>>

\* _get_or_create_persona, the first select.
SelectPersona(r) ==
    /\ \/ payload[r].identity \in personas /\ Goto(r, "persona", "lookup")
       \/ payload[r].identity \notin personas /\ Goto(r, "persona", "insert")
    /\ UNCHANGED <<personas, sessions, writer, payload, arrived, found, reply, answered, busy>>

Taken(identity) == \E i \in personas : PersonaId[i] = PersonaId[identity]

InsertPersonaOrFail(r) ==
    /\ MayWrite(r)
    /\ \/ /\ ~Taken(payload[r].identity)
          /\ personas' = personas \cup {payload[r].identity}
          /\ Goto(r, "insert", "lookup")
       \/ /\ Taken(payload[r].identity)
          /\ Goto(r, "insert", "error")
          /\ UNCHANGED personas
    /\ UNCHANGED <<sessions, writer, payload, arrived, found, reply, answered, busy>>

\* The insert in a savepoint.  Its release commits the row; the IntegrityError of
\* another request's row rolls it back, and leaves this connection the writer.
InsertPersona(r) ==
    /\ MayWrite(r)
    /\ \/ /\ ~Taken(payload[r].identity)
          /\ personas' = personas \cup {payload[r].identity}
          /\ Goto(r, "insert", "lookup")
          /\ UNCHANGED writer
       \/ /\ Taken(payload[r].identity)
          /\ Goto(r, "insert", "reselect")
          /\ writer' = r
          /\ UNCHANGED personas
    /\ UNCHANGED <<sessions, payload, arrived, found, reply, answered, busy>>

ReselectKeepsLock(r) ==
    /\ \/ payload[r].identity \in personas /\ Goto(r, "reselect", "lookup")
       \/ payload[r].identity \notin personas /\ Goto(r, "reselect", "error")
    /\ UNCHANGED <<personas, sessions, writer, payload, arrived, found, reply, answered, busy>>

\* The loser of the race selects again.  Without a row of its own identity it was
\* only the id that was taken: the error is raised, and get_db closes the connection.
Reselect(r) ==
    /\ \/ /\ payload[r].identity \in personas
          /\ Goto(r, "reselect", "lookup")
          /\ UNCHANGED writer
       \/ /\ payload[r].identity \notin personas
          /\ Goto(r, "reselect", "error")
          /\ Release(r)
    /\ UNCHANGED <<personas, sessions, payload, arrived, found, reply, answered, busy>>

Before(q, r) == \E i, j \in DOMAIN arrived : i < j /\ arrived[i] = q /\ arrived[j] = r

NewestOfPersona(r) ==
    {s \in sessions :
        /\ SameKey(s, r)
        /\ \A q \in sessions : payload[q].identity = payload[r].identity => ~Before(s, q)}

OfAnyPersona(r) ==
    {s \in sessions : payload[r].source # NoSource /\ payload[s].source = payload[r].source}

\* _session_for_source: the sessions of the persona and the source.
SessionsForSource(r) == {s \in sessions : SameKey(s, r)}

\* It returns the one that started last.
LookupSession(r) ==
    /\ \/ \E s \in SessionsForSource(r) :
            /\ \A q \in SessionsForSource(r) : ~Before(s, q)
            /\ found' = [found EXCEPT ![r] = s]
            /\ Goto(r, "lookup", "touch")
       \/ /\ SessionsForSource(r) = {}
          /\ Goto(r, "lookup", "create")
          /\ UNCHANGED found
    /\ UNCHANGED <<personas, sessions, writer, payload, arrived, reply, answered, busy>>

\* Heartbeat of the existing session, commit, answer.
TouchSession(r) ==
    /\ MayWrite(r) /\ Release(r)
    /\ Goto(r, "touch", "answered")
    /\ reply' = [reply EXCEPT ![r] = found[r]]
    /\ UNCHANGED <<personas, sessions, payload, arrived, found, answered, busy>>

\* No uniqueness constraint covers the source: the insert always succeeds.
CreateSession(r) ==
    /\ MayWrite(r) /\ Release(r)
    /\ Goto(r, "create", "answered")
    /\ sessions' = sessions \cup {r}
    /\ reply' = [reply EXCEPT ![r] = r]
    /\ UNCHANGED <<personas, payload, arrived, found, answered, busy>>

\* "database is locked": some connection, of these or of any other route's requests,
\* was the writer for five seconds.
BusyTimesOut(r) ==
    /\ pc[r] \in {"insert", "touch", "create"} /\ writer # r
    /\ pc' = [pc EXCEPT ![r] = "error"]
    /\ busy' = busy \cup {r}
    /\ UNCHANGED <<personas, sessions, writer, payload, arrived, found, reply, answered>>

\* The server is killed and restarted: requests in progress are gone.
Crash ==
    /\ \E r \in Requests : pc[r] \in Working
    /\ pc' = [r \in Requests |-> IF pc[r] \in Working THEN "gone" ELSE pc[r]]
    /\ writer' = None
    /\ UNCHANGED <<personas, sessions, payload, arrived, found, reply, answered, busy>>

Proceed(r) ==
    \/ SelectPersona(r) \/ InsertPersona(r) \/ Reselect(r)
    \/ LookupSession(r) \/ TouchSession(r) \/ CreateSession(r)

Next ==
    \/ \E r \in Requests : Arrive(r) \/ Proceed(r) \/ BusyTimesOut(r)
    \/ Crash

Spec == Init /\ [][Next]_vars

\* A request thread goes on, and a waiting writer gets its turn; nobody has to send
\* requests, and no wait has to be too long.
LiveSpec == Spec /\ \A r \in Requests : WF_vars(Proceed(r))

-----------------------------------------------------------------------------
(* Properties.                                                             *)

\* The loser of the race for a persona is not answered with an error: only a database
\* that stays locked, or another identity with the same persona id, is one.
RaceIsNoError ==
    \A r \in Requests : pc[r] = "error" =>
        \/ r \in busy
        \/ \E i \in personas \ {payload[r].identity} :
             PersonaId[i] = PersonaId[payload[r].identity]

\* Nobody is answered with the session of another account, model, harness or source,
\* nor with one that is not committed.
OwnSession ==
    \A r \in Requests : pc[r] = "answered" =>
        /\ reply[r] \in sessions
        /\ reply[r] = r \/ SameKey(reply[r], r)

\* A retry that starts after an answer creates no second session for the source.
RetryReuses ==
    \A r \in sessions : \A q \in answered[r] : ~SameKey(q, r)

\* Every request is answered, or fails, or is killed, whoever holds the write lock.
RequestEnds == \A r \in Requests : pc[r] = "persona" ~> pc[r] \notin Working

\* "a retry returns the existing Fixlog session instead of creating duplicate
\* sessions": a source has one session.  Two requests that overlap, as a retry after
\* a client timeout does, both find none and both create one.
OneSessionPerSource == \A q, r \in sessions : SameKey(q, r) => q = r

-----------------------------------------------------------------------------
(* The inductive invariant behind the safety properties.                   *)

\* What a request knows at its place; sessions are those of answered requests.
RequestAgrees(r) ==
    /\ pc[r] = "reselect" => Taken(payload[r].identity)
    /\ pc[r] = "touch" => found[r] \in SessionsForSource(r)
    /\ r \in sessions => pc[r] = "answered"
    /\ \A q \in answered[r] : pc[q] = "answered"
    /\ pc[r] = "create" => \A q \in answered[r] : ~SameKey(q, r)

\* What every step preserves.
IndInv ==
    /\ TypeOK
    /\ RaceIsNoError
    /\ OwnSession
    /\ RetryReuses
    /\ \A r \in Requests : RequestAgrees(r)
=============================================================================
