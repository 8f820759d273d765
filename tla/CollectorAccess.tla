---------------------------- MODULE CollectorAccess ----------------------------
(***************************************************************************)
(* Who may call, and the rows that every call of a collector touches       *)
(* (fixlog/auth, fixlog/api/device_tokens.py, sessions.py, and the login   *)
(* and device pages of fixlog/web/routes.py): device tokens are created,   *)
(* used and revoked, browsers log in, and heartbeats, events, issues and   *)
(* starts of a session move last_heartbeat and last_used_at.  A time is    *)
(* taken before the commit that writes it, so commits may come in another  *)
(* order than times.  What else an issue and a start write is in           *)
(* KnowledgeBase and SessionStart.                                         *)
(***************************************************************************)
EXTENDS Naturals

CONSTANTS
    AccessRequests,  \* the calls
    Asks,            \* what clients may call
    Accounts,
    Devices,         \* device tokens, those that will be created included
    AgentSessions,   \* rows of sessions
    Owner,           \* the account of a device token and of a session
    Nobody,          \* no account
    Lifetime,        \* fixlog_web_session_ttl_seconds
    MaxClock         \* bound: the time

Credential ==
    [type : {"account"}, account : Accounts]
    \cup [type : {"device"}, device : Devices]
    \cup [type : {"cookie"}, login : AccessRequests]
Ask ==
    [kind : {"status"}, by : Credential]
    \cup [kind : {"heartbeat", "event"}, by : Credential, url : AgentSessions,
          header : AgentSessions]
    \cup [kind : {"issue"}, by : Credential, header : AgentSessions]
    \cup [kind : {"start"}, by : Credential, url : AgentSessions]
    \cup [kind : {"create", "revoke"}, by : Credential, device : Devices]
    \cup [kind : {"login"}, by : Credential]

ASSUME AsksAssumption == Asks \subseteq Ask
ASSUME OwnerAssumption ==
    /\ DOMAIN Owner = Devices \cup AgentSessions
    /\ \A d \in DOMAIN Owner : Owner[d] \in Accounts
ASSUME NobodyAssumption == Nobody \notin Accounts
ASSUME TimeAssumption == Lifetime \in Nat /\ MaxClock \in Nat \ {0}

VARIABLES
    clock,         \* utc_now, time.time
    issued,        \* committed: the rows of device_tokens
    revokedAt,     \* committed: revoked_at, 0 for NULL
    lastUsed,      \* committed: last_used_at, 0 for NULL
    lastHeartbeat, \* committed: sessions.last_heartbeat
    events,        \* committed: the requests that inserted a session event
    ask,           \* what a request asks for
    step,          \* where it is
    account,       \* who it is authenticated as
    now,           \* the time it took; of a login, when its cookie was made
    preceding      \* history: the requests answered before it arrived

accessRows == <<issued, revokedAt, lastUsed, lastHeartbeat, events>>
accessVars == <<clock, accessRows, ask, step, account, now, preceding>>

InProgress == {"auth", "load", "now", "commit"}
Done == {"answered", "refused", "missing", "failed"}

AccessTypeOK ==
    /\ clock \in 1..MaxClock
    /\ issued \subseteq Devices
    /\ revokedAt \in [Devices -> 0..MaxClock] /\ lastUsed \in [Devices -> 0..MaxClock]
    /\ lastHeartbeat \in [AgentSessions -> 0..MaxClock]
    /\ events \subseteq AccessRequests
    /\ ask \in [AccessRequests -> Ask \cup {Nobody}]
    /\ step \in [AccessRequests -> InProgress \cup Done \cup {"idle"}]
    /\ account \in [AccessRequests -> Accounts \cup {Nobody}]
    /\ now \in [AccessRequests -> 0..MaxClock]
    /\ preceding \in [AccessRequests -> SUBSET AccessRequests]

AccessInit ==
    /\ clock = 1
    /\ issued \in SUBSET Devices
    /\ revokedAt = [d \in Devices |-> 0] /\ lastUsed = [d \in Devices |-> 0]
    /\ lastHeartbeat = [s \in AgentSessions |-> 0]
    /\ events = {}
    /\ ask = [r \in AccessRequests |-> Nobody]
    /\ step = [r \in AccessRequests |-> "idle"]
    /\ account = [r \in AccessRequests |-> Nobody]
    /\ now = [r \in AccessRequests |-> 0]
    /\ preceding = [r \in AccessRequests |-> {}]

-----------------------------------------------------------------------------
Collecting == {"status", "heartbeat", "event", "issue", "start"}

Is(r, kinds, place) == step[r] = place /\ ask[r].kind \in kinds
Move(r, place) == step' = [step EXCEPT ![r] = place]
Reply(r) == Move(r, "answered") \/ Move(r, "failed")

\* A token is created once: it is a random string.
Presents(r, d) == ask[r].by.type = "device" /\ ask[r].by.device = d
Creates(r, d) == ask[r].kind = "create" /\ ask[r].device = d

Request(r) ==
    /\ step[r] = "idle" /\ Move(r, "auth")
    /\ \E a \in Asks :
         /\ a.kind = "create" =>
              a.device \notin issued /\ \A q \in AccessRequests : step[q] # "idle" => ~Creates(q, a.device)
         /\ ask' = [ask EXCEPT ![r] = a]
    /\ preceding' = [preceding EXCEPT ![r] = {q \in AccessRequests : step[q] = "answered"}]
    /\ UNCHANGED <<clock, accessRows, account, now>>

-----------------------------------------------------------------------------
(* Authentication.                                                         *)

\* The select of collector_auth_from_authorization.
Accepts(d) == d \in issued /\ revokedAt[d] = 0

\* account_from_web_cookie: login_submit answered with the cookie, for Lifetime.
CookieAccount(q) ==
    IF step[q] = "answered" /\ ask[q].kind = "login" /\ clock <= now[q] + Lifetime
    THEN account[q] ELSE Nobody

\* A collector's routes take a device token or an account's token; every other route
\* takes an account's token or, in the browser, a cookie.
AccountFor(r) ==
    LET by == ask[r].by IN
    CASE by.type = "account" -> by.account
      [] by.type = "device" /\ ask[r].kind \in Collecting /\ Accepts(by.device) -> Owner[by.device]
      [] by.type = "cookie" /\ ask[r].kind \in {"create", "revoke"} -> CookieAccount(by.login)
      [] OTHER -> Nobody

\* session_from_header, and the comparison of two of its routes with their URL.
SessionFits(r, a) ==
    /\ ask[r].kind \in {"heartbeat", "event", "issue"} => Owner[ask[r].header] = a
    /\ ask[r].kind \in {"heartbeat", "event"} => ask[r].url = ask[r].header

Authenticate(r) ==
    /\ step[r] = "auth"
    /\ LET a == AccountFor(r) IN
         \/ /\ a # Nobody /\ SessionFits(r, a)
            /\ account' = [account EXCEPT ![r] = a]
            /\ Move(r, IF ask[r].kind = "revoke" THEN "load" ELSE "now")
         \/ /\ ~(a # Nobody /\ SessionFits(r, a))
            /\ Move(r, "refused") /\ UNCHANGED account
    /\ UNCHANGED <<clock, accessRows, ask, now, preceding>>

-----------------------------------------------------------------------------
(* The handlers.                                                           *)

TakeNow(r) ==
    /\ step[r] = "now" /\ Move(r, "commit")
    /\ now' = [now EXCEPT ![r] = clock]
    /\ UNCHANGED <<clock, accessRows, ask, account, preceding>>

\* mark_device_token_used.  Only the columns that were set are written.
MarkUsedWholeRow(r) ==
    /\ lastUsed' = [d \in Devices |-> IF Presents(r, d) THEN now[r] ELSE lastUsed[d]]
    /\ revokedAt' = [d \in Devices |-> IF Presents(r, d) THEN 0 ELSE revokedAt[d]]
MarkUsed(r) ==
    /\ lastUsed' = [d \in Devices |-> IF Presents(r, d) THEN now[r] ELSE lastUsed[d]]
    /\ UNCHANGED revokedAt

Status(r) ==
    /\ Is(r, {"status"}, "commit") /\ MarkUsed(r) /\ Reply(r)
    /\ UNCHANGED <<clock, issued, lastHeartbeat, events, ask, account, now, preceding>>

FirstBeat(r) == lastHeartbeat' = [lastHeartbeat EXCEPT ![ask[r].url] = IF @ = 0 THEN now[r] ELSE @]
Beat(r) == lastHeartbeat' = [lastHeartbeat EXCEPT ![ask[r].url] = now[r]]

Heartbeat(r) ==
    /\ Is(r, {"heartbeat"}, "commit") /\ Beat(r) /\ MarkUsed(r) /\ Reply(r)
    /\ UNCHANGED <<clock, issued, events, ask, account, now, preceding>>

CreateEvent(r) ==
    /\ Is(r, {"event"}, "commit") /\ Beat(r) /\ MarkUsed(r) /\ Reply(r)
    /\ events' = events \cup {r}
    /\ UNCHANGED <<clock, issued, ask, account, now, preceding>>

\* create_collector_issue.
CreateIssue(r) ==
    /\ Is(r, {"issue"}, "commit") /\ MarkUsed(r) /\ Reply(r)
    /\ UNCHANGED <<clock, issued, lastHeartbeat, events, ask, account, now, preceding>>

\* start_session with the source of the session in url, which is found when it is the
\* account's own.
Finds(r) == Owner[ask[r].url] = account[r]
StartSession(r) ==
    /\ Is(r, {"start"}, "commit") /\ MarkUsed(r) /\ Reply(r)
    /\ \/ Finds(r) /\ Beat(r)
       \/ ~Finds(r) /\ UNCHANGED lastHeartbeat
    /\ UNCHANGED <<clock, issued, events, ask, account, now, preceding>>

CreateToken(r) ==
    /\ Is(r, {"create"}, "commit") /\ Reply(r)
    /\ issued' = issued \cup {ask[r].device}
    /\ UNCHANGED <<clock, revokedAt, lastUsed, lastHeartbeat, events, ask, account, now, preceding>>

\* login_submit answers with a cookie and writes nothing.
Login(r) ==
    /\ Is(r, {"login"}, "commit") /\ Reply(r)
    /\ UNCHANGED <<clock, accessRows, ask, account, now, preceding>>

\* The device token of the account; one that is revoked already is left as it is.
LoadToken(r) ==
    /\ step[r] = "load"
    /\ LET d == ask[r].device
           mine == d \in issued /\ Owner[d] = account[r] IN
         \/ mine /\ revokedAt[d] = 0 /\ Move(r, "now")
         \/ mine /\ revokedAt[d] # 0 /\ Reply(r)
         \/ ~mine /\ Move(r, "missing")
    /\ UNCHANGED <<clock, accessRows, ask, account, now, preceding>>

Revoke(r) ==
    /\ Is(r, {"revoke"}, "commit") /\ Reply(r)
    /\ revokedAt' = [revokedAt EXCEPT ![ask[r].device] = now[r]]
    /\ UNCHANGED <<clock, issued, lastUsed, lastHeartbeat, events, ask, account, now, preceding>>

\* "database is locked".
AccessLocked(r) ==
    /\ step[r] \in InProgress /\ Move(r, "failed")
    /\ UNCHANGED <<clock, accessRows, ask, account, now, preceding>>

\* The server is killed and restarted; cookies stay good.
AccessCrash ==
    /\ \E r \in AccessRequests : step[r] \in InProgress
    /\ step' = [r \in AccessRequests |-> IF step[r] \in InProgress THEN "failed" ELSE step[r]]
    /\ UNCHANGED <<clock, accessRows, ask, account, now, preceding>>

Tick ==
    /\ clock < MaxClock /\ clock' = clock + 1
    /\ UNCHANGED <<accessRows, ask, step, account, now, preceding>>

AccessProceed(r) ==
    \/ Authenticate(r) \/ TakeNow(r) \/ Status(r) \/ Heartbeat(r) \/ CreateEvent(r)
    \/ CreateIssue(r) \/ StartSession(r) \/ CreateToken(r) \/ Login(r) \/ LoadToken(r)
    \/ Revoke(r) \/ AccessLocked(r)

AccessNext == (\E r \in AccessRequests : Request(r) \/ AccessProceed(r)) \/ AccessCrash \/ Tick

AccessSpec == AccessInit /\ [][AccessNext]_accessVars

-----------------------------------------------------------------------------
(* Properties.                                                             *)

\* "Revoked device token is rejected": a call that arrives after a revocation was answered
\* is not served, and no call that was on its way then undoes the revocation.
RevocationStands ==
    \A q, r \in AccessRequests :
        step[q] = "answered" /\ step[r] # "idle" /\ ask[q].kind = "revoke" =>
            /\ revokedAt[ask[q].device] # 0
            /\ q \in preceding[r] /\ Presents(r, ask[q].device) => step[r] # "answered"

Together(q, r) == step[r] # "idle" /\ q \notin preceding[r] /\ r \notin preceding[q]

\* The request sets the last_heartbeat of the session in its url.
Beats(r) ==
    \/ ask[r].kind \in {"heartbeat", "event"}
    \/ ask[r].kind = "start" /\ Finds(r)

\* last_heartbeat and last_used_at are not older than an answered call that set them,
\* unless the call that set them since overlapped with that one.
TouchKept ==
    \A q \in AccessRequests : step[q] = "answered" =>
        /\ Beats(q) =>
             \/ lastHeartbeat[ask[q].url] >= now[q]
             \/ \E r \in AccessRequests \ {q} :
                  /\ Together(q, r) /\ Beats(r)
                  /\ ask[r].url = ask[q].url /\ lastHeartbeat[ask[q].url] = now[r]
        /\ \A d \in Devices : ask[q].kind \in Collecting /\ Presents(q, d) =>
             \/ lastUsed[d] >= now[q]
             \/ \E r \in AccessRequests \ {q} :
                  Together(q, r) /\ Presents(r, d) /\ lastUsed[d] = now[r]
=============================================================================
