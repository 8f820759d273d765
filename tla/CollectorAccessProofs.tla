------------------------- MODULE CollectorAccessProofs -------------------------
(* CollectorAccess: its inductive invariant, and what follows from it, for any   *)
(* number of calls of any kind, and any accounts, device tokens and sessions.    *)
EXTENDS CollectorAccess, TLAPS

\* A request that arrived asks for one of the things that clients ask for.
Asked == \A r \in AccessRequests : step[r] # "idle" => ask[r] \in Asks

\* A request has its time from the clock, and only a revocation loads its row before.
Timed ==
    \A r \in AccessRequests :
        /\ now[r] <= clock
        /\ step[r] \in {"idle", "auth", "load", "now"} => now[r] = 0
        /\ step[r] = "commit" => now[r] >= 1
        /\ step[r] = "load" => ask[r].kind = "revoke"

\* What precedes a request was answered, and has an earlier time.
Past ==
    \A r \in AccessRequests : \A q \in preceding[r] :
        /\ step[r] # "idle" /\ step[q] = "answered"
        /\ step[r] = "commit" => now[q] <= now[r]

\* An answered revocation is in the row.
Revoked ==
    \A q \in AccessRequests :
        step[q] = "answered" /\ ask[q].kind = "revoke" => revokedAt[ask[q].device] # 0

\* A call that presents a token that was revoked before does not get past its
\* authentication.
Rejected ==
    \A r \in AccessRequests : \A q \in preceding[r] :
        ask[q].kind = "revoke" /\ Presents(r, ask[q].device)
            => step[r] \in {"auth", "refused", "failed"}

\* last_heartbeat after q: not older than q's, or that of a call that overlapped with it.
BeatsKept(q) ==
    step[q] = "answered" /\ Beats(q) =>
        \/ lastHeartbeat[ask[q].url] >= now[q]
        \/ \E r \in AccessRequests \ {q} :
             /\ Together(q, r) /\ Beats(r)
             /\ ask[r].url = ask[q].url /\ lastHeartbeat[ask[q].url] = now[r] /\ now[r] # 0

\* last_used_at likewise.
UseKept(q, d) ==
    step[q] = "answered" /\ ask[q].kind \in Collecting /\ Presents(q, d) =>
        \/ lastUsed[d] >= now[q]
        \/ \E r \in AccessRequests \ {q} :
             Together(q, r) /\ Presents(r, d) /\ lastUsed[d] = now[r] /\ now[r] # 0

AccessInv ==
    /\ AccessTypeOK
    /\ Asked /\ Timed /\ Past /\ Revoked /\ Rejected
    /\ \A q \in AccessRequests : BeatsKept(q) /\ \A d \in Devices : UseKept(q, d)

-----------------------------------------------------------------------------
\* What clients ask for.
LEMMA AskShape ==
    ASSUME NEW a \in Asks
    PROVE  /\ a \in Ask /\ a.by \in Credential
           /\ a.kind \in {"status", "heartbeat", "event", "issue", "start", "create", "revoke",
                          "login"}
           /\ a.kind \in {"heartbeat", "event", "start"} => a.url \in AgentSessions
           /\ a.kind \in {"create", "revoke"} => a.device \in Devices
<1>1. a \in Ask
  BY AsksAssumption
<1>2. CASE a \in [kind : {"status"}, by : Credential]
  BY <1>1, <1>2
<1>3. CASE a \in [kind : {"heartbeat", "event"}, by : Credential, url : AgentSessions,
                  header : AgentSessions]
  BY <1>1, <1>3
<1>4. CASE a \in [kind : {"create", "revoke"}, by : Credential, device : Devices]
  BY <1>1, <1>4
<1>5. CASE a \in [kind : {"login"}, by : Credential]
  BY <1>1, <1>5
<1>6. CASE a \in [kind : {"issue"}, by : Credential, header : AgentSessions]
  BY <1>1, <1>6
<1>7. CASE a \in [kind : {"start"}, by : Credential, url : AgentSessions]
  BY <1>1, <1>7
<1> QED
  BY <1>1, <1>2, <1>3, <1>4, <1>5, <1>6, <1>7 DEF Ask

\* What a client calls with.
LEMMA CredentialShape ==
    ASSUME NEW by \in Credential
    PROVE  /\ by.type \in {"account", "device", "cookie"}
           /\ by.type = "account" => by.account \in Accounts
           /\ by.type = "device" => by.device \in Devices
           /\ by.type = "cookie" => by.login \in AccessRequests
BY DEF Credential

\* The account that a request is authenticated as.
LEMMA AccountShape ==
    ASSUME AccessTypeOK, NEW r \in AccessRequests, ask[r] \in Asks
    PROVE  AccountFor(r) \in Accounts \cup {Nobody}
<1> DEFINE by == ask[r].by
<1>1. by \in Credential
  BY AskShape
<1>2. by.type = "account" => by.account \in Accounts
  BY <1>1, CredentialShape
<1>3. by.type = "device" => Owner[by.device] \in Accounts
  BY <1>1, CredentialShape, OwnerAssumption
<1>4. by.type = "cookie" => CookieAccount(by.login) \in Accounts \cup {Nobody}
  BY <1>1, CredentialShape DEF CookieAccount, AccessTypeOK
<1> HIDE DEF by
<1> QED
  BY <1>2, <1>3, <1>4 DEF AccountFor, by

\* A revoked token authenticates nobody.
LEMMA RevokedIsNobody ==
    ASSUME NEW r \in AccessRequests, ask[r] \in Asks, NEW d, Presents(r, d), revokedAt[d] # 0
    PROVE  AccountFor(r) = Nobody
BY DEF AccountFor, Presents, Accepts

-----------------------------------------------------------------------------
\* Every step keeps the types.
LEMMA TypesKept == AccessInv /\ [AccessNext]_accessVars => AccessTypeOK'
<1> SUFFICES ASSUME AccessInv, [AccessNext]_accessVars PROVE AccessTypeOK'
  OBVIOUS
<1> AccessTypeOK /\ Asked /\ Timed
  BY DEF AccessInv
<1> USE DEF AccessTypeOK, accessRows, Move, Reply, InProgress, Done
<1>1. ASSUME NEW r \in AccessRequests, Request(r) PROVE AccessTypeOK'
  BY <1>1, AskShape DEF Request
<1>2. ASSUME NEW r \in AccessRequests, Authenticate(r) PROVE AccessTypeOK'
  BY <1>2, AccountShape DEF Authenticate, Asked
<1>3. ASSUME NEW r \in AccessRequests, TakeNow(r) PROVE AccessTypeOK'
  BY <1>3, TimeAssumption DEF TakeNow
<1>4. ASSUME NEW r \in AccessRequests, Status(r) PROVE AccessTypeOK'
  BY <1>4 DEF Status, MarkUsed, Is
<1>5. ASSUME NEW r \in AccessRequests, Heartbeat(r) PROVE AccessTypeOK'
  BY <1>5 DEF Heartbeat, MarkUsed, Beat, Is
<1>6. ASSUME NEW r \in AccessRequests, CreateEvent(r) PROVE AccessTypeOK'
  BY <1>6 DEF CreateEvent, MarkUsed, Beat, Is
<1>7. ASSUME NEW r \in AccessRequests, CreateToken(r) PROVE AccessTypeOK'
  BY <1>7, AskShape DEF CreateToken, Is, Asked
<1>8. ASSUME NEW r \in AccessRequests, Login(r) PROVE AccessTypeOK'
  BY <1>8 DEF Login, Is
<1>9. ASSUME NEW r \in AccessRequests, LoadToken(r) PROVE AccessTypeOK'
  BY <1>9 DEF LoadToken
<1>10. ASSUME NEW r \in AccessRequests, Revoke(r) PROVE AccessTypeOK'
  BY <1>10 DEF Revoke, Is
<1>11. ASSUME NEW r \in AccessRequests, AccessLocked(r) PROVE AccessTypeOK'
  BY <1>11 DEF AccessLocked
<1>12. ASSUME NEW r \in AccessRequests, CreateIssue(r) PROVE AccessTypeOK'
  BY <1>12 DEF CreateIssue, MarkUsed, Is
<1>13. ASSUME NEW r \in AccessRequests, StartSession(r) PROVE AccessTypeOK'
  BY <1>13 DEF StartSession, MarkUsed, Beat, Is
<1>14. CASE AccessCrash
  BY <1>14 DEF AccessCrash
<1>15. CASE Tick
  BY <1>15, TimeAssumption DEF Tick
<1>16. CASE UNCHANGED accessVars
  BY <1>16 DEF accessVars
<1> QED
  BY <1>1, <1>2, <1>3, <1>4, <1>5, <1>6, <1>7, <1>8, <1>9, <1>10, <1>11, <1>12, <1>13,
     <1>14, <1>15, <1>16 DEF AccessNext, AccessProceed

-----------------------------------------------------------------------------
(* What a step of one request does to the others, and to the rows.         *)

\* A step of r.
Own(r) == Request(r) \/ AccessProceed(r)

\* Nothing of the request changes.
Same(q) ==
    /\ step'[q] = step[q] /\ ask'[q] = ask[q] /\ now'[q] = now[q]
    /\ preceding'[q] = preceding[q] /\ account'[q] = account[q]

\* A step of a call leaves the clock and the other calls as they are.
LEMMA Others ==
    ASSUME AccessTypeOK, NEW r \in AccessRequests, Own(r)
    PROVE  clock' = clock /\ \A q \in AccessRequests \ {r} : Same(q)
<1> USE DEF AccessTypeOK, Same, Move, Reply
<1>1. CASE Request(r)
  BY <1>1 DEF Request
<1>2. CASE Authenticate(r)
  BY <1>2 DEF Authenticate
<1>3. CASE TakeNow(r)
  BY <1>3 DEF TakeNow
<1>4. CASE Status(r) \/ Heartbeat(r) \/ CreateEvent(r) \/ CreateIssue(r) \/ StartSession(r)
  BY <1>4 DEF Status, Heartbeat, CreateEvent, CreateIssue, StartSession
<1>5. CASE CreateToken(r) \/ Login(r) \/ Revoke(r) \/ AccessLocked(r)
  BY <1>5 DEF CreateToken, Login, Revoke, AccessLocked
<1>6. CASE LoadToken(r)
  BY <1>6 DEF LoadToken
<1> QED
  BY <1>1, <1>2, <1>3, <1>4, <1>5, <1>6 DEF Own, AccessProceed

\* The ways of a request from one step to the next.
LEMMA Ways ==
    ASSUME AccessTypeOK, NEW r \in AccessRequests, Own(r)
    PROVE  \/ /\ step[r] = "idle" /\ step'[r] = "auth" /\ ask'[r] \in Asks
              /\ now'[r] = now[r]
              /\ preceding'[r] = {q \in AccessRequests : step[q] = "answered"}
           \/ /\ step[r] = "auth"
              /\ \/ step'[r] = "refused"
                 \/ AccountFor(r) # Nobody /\ step'[r] = "load" /\ ask[r].kind = "revoke"
                 \/ AccountFor(r) # Nobody /\ step'[r] = "now"
              /\ UNCHANGED <<ask, now, preceding>>
           \/ /\ step[r] = "now" /\ step'[r] = "commit" /\ now'[r] = clock
              /\ UNCHANGED <<ask, preceding, account>>
           \/ /\ step[r] = "load" /\ step'[r] \in {"now", "answered", "missing"}
              /\ step'[r] = "answered" => revokedAt[ask[r].device] # 0
              /\ UNCHANGED <<ask, now, preceding, account>>
           \/ /\ step[r] = "commit" /\ step'[r] = "answered"
              /\ UNCHANGED <<ask, now, preceding, account>>
           \/ /\ step[r] \in InProgress /\ step'[r] = "failed"
              /\ UNCHANGED <<ask, now, preceding, account>>
<1> USE DEF AccessTypeOK, Move, Reply
<1>1. CASE Request(r)
  BY <1>1 DEF Request
<1>2. CASE Authenticate(r)
  BY <1>2 DEF Authenticate
<1>3. CASE TakeNow(r)
  BY <1>3 DEF TakeNow
<1>4. CASE Status(r) \/ Heartbeat(r) \/ CreateEvent(r) \/ CreateIssue(r) \/ StartSession(r)
  BY <1>4 DEF Status, Heartbeat, CreateEvent, CreateIssue, StartSession, Is, InProgress
<1>5. CASE CreateToken(r) \/ Login(r) \/ Revoke(r)
  BY <1>5 DEF CreateToken, Login, Revoke, Is, InProgress
<1>6. CASE LoadToken(r)
  BY <1>6 DEF LoadToken, InProgress
<1>7. CASE AccessLocked(r)
  BY <1>7 DEF AccessLocked
<1> QED
  BY <1>1, <1>2, <1>3, <1>4, <1>5, <1>6, <1>7 DEF Own, AccessProceed

\* Only the call of a collector moves last_heartbeat and last_used_at, as it commits; it
\* is not answered otherwise.
LEMMA Touches ==
    ASSUME AccessTypeOK, Timed, NEW r \in AccessRequests, Own(r)
    PROVE  \/ /\ UNCHANGED <<lastHeartbeat, lastUsed>>
              /\ step'[r] = "answered" => ask'[r].kind \notin Collecting
           \/ /\ step[r] = "commit" /\ UNCHANGED <<ask, now, preceding, account>>
              /\ \A d \in Devices : lastUsed'[d] = IF Presents(r, d) THEN now[r] ELSE lastUsed[d]
              /\ \/ ~Beats(r) /\ lastHeartbeat' = lastHeartbeat
                 \/ /\ Beats(r)
                    /\ lastHeartbeat' = [lastHeartbeat EXCEPT ![ask[r].url] = now[r]]
<1> USE DEF AccessTypeOK, Move, Reply, accessRows, Collecting
<1>1. CASE Request(r)
  BY <1>1 DEF Request
<1>2. CASE Authenticate(r)
  BY <1>2 DEF Authenticate
<1>3. CASE TakeNow(r)
  BY <1>3 DEF TakeNow
<1>4. CASE Status(r) \/ CreateIssue(r)
  BY <1>4 DEF Status, CreateIssue, MarkUsed, Is, Beats
<1>5. CASE Heartbeat(r) \/ CreateEvent(r) \/ StartSession(r)
  BY <1>5 DEF Heartbeat, CreateEvent, StartSession, MarkUsed, Beat, Is, Beats
<1>6. CASE CreateToken(r) \/ Login(r) \/ Revoke(r)
  BY <1>6 DEF CreateToken, Login, Revoke, Is
<1>7. CASE LoadToken(r)
  BY <1>7 DEF LoadToken, Timed
<1>8. CASE AccessLocked(r)
  BY <1>8 DEF AccessLocked
<1> QED
  BY <1>1, <1>2, <1>3, <1>4, <1>5, <1>6, <1>7, <1>8 DEF Own, AccessProceed

\* A row that is revoked stays revoked, and a revocation that is answered has revoked it.
LEMMA Revokes ==
    ASSUME AccessTypeOK, Asked, Timed, NEW r \in AccessRequests, Own(r)
    PROVE  /\ \A d \in Devices : revokedAt[d] # 0 => revokedAt'[d] # 0
           /\ step'[r] = "answered" /\ step[r] # "answered" /\ ask'[r].kind = "revoke"
                => revokedAt'[ask'[r].device] # 0
<1> USE DEF AccessTypeOK, Move, Reply, accessRows, Collecting
<1>1. CASE Request(r)
  BY <1>1 DEF Request
<1>2. CASE Authenticate(r)
  BY <1>2 DEF Authenticate
<1>3. CASE TakeNow(r)
  BY <1>3 DEF TakeNow
<1>4. CASE \/ Status(r) \/ Heartbeat(r) \/ CreateEvent(r) \/ CreateIssue(r) \/ StartSession(r)
           \/ CreateToken(r) \/ Login(r)
  BY <1>4 DEF Status, Heartbeat, CreateEvent, CreateIssue, StartSession, CreateToken, Login,
              MarkUsed, Is
<1>5. CASE Revoke(r)
  <2>1. ask[r].device \in Devices /\ now[r] # 0 /\ ask' = ask
    BY <1>5, AskShape DEF Revoke, Is, Asked, Timed
  <2>2. revokedAt' = [revokedAt EXCEPT ![ask[r].device] = now[r]]
    BY <1>5 DEF Revoke
  <2> QED
    BY <2>1, <2>2
<1>6. CASE LoadToken(r)
  BY <1>6 DEF LoadToken
<1>7. CASE AccessLocked(r)
  BY <1>7 DEF AccessLocked
<1> QED
  BY <1>1, <1>2, <1>3, <1>4, <1>5, <1>6, <1>7 DEF Own, AccessProceed

-----------------------------------------------------------------------------
(* A step of one request keeps the invariant.                              *)

\* A call that arrives asks for something, and takes its time from the clock.
LEMMA AskedTimedKept ==
    ASSUME AccessInv, NEW r \in AccessRequests, Own(r)
    PROVE  Asked' /\ Timed'
<1> AccessTypeOK /\ Asked /\ Timed
  BY DEF AccessInv
<1>1. Asked'
  <2>1. step'[r] # "idle" => ask'[r] \in Asks
    BY Ways DEF Asked, InProgress
  <2>2. \A q \in AccessRequests \ {r} : Same(q)
    BY Others
  <2> QED
    BY <2>1, <2>2 DEF Asked, Same
<1>2. /\ now'[r] <= clock'
      /\ step'[r] \in {"idle", "auth", "load", "now"} => now'[r] = 0
      /\ step'[r] = "commit" => now'[r] >= 1
      /\ step'[r] = "load" => ask'[r].kind = "revoke"
  BY Others, Ways, TimeAssumption DEF Timed, InProgress, AccessTypeOK
<1>3. \A q \in AccessRequests \ {r} : Same(q) /\ clock' = clock
  BY Others
<1>4. Timed'
  BY <1>2, <1>3 DEF Timed, Same
<1> QED
  BY <1>1, <1>4

\* What precedes a call stays answered and before it.
LEMMA PastKept ==
    ASSUME AccessInv, NEW r \in AccessRequests, Own(r)
    PROVE  Past'
<1> AccessTypeOK /\ Timed /\ Past
  BY DEF AccessInv
<1>1. step[r] # "answered"
  BY Ways DEF InProgress
<1>2. \A q \in AccessRequests : step[q] = "answered" => Same(q)
  BY <1>1, Others
<1>3. \A q \in preceding'[r] : /\ step'[r] # "idle" /\ step'[q] = "answered"
                               /\ step'[r] = "commit" => now'[q] <= now'[r]
  BY <1>2, Ways DEF Same, Past, Timed, AccessTypeOK, InProgress
<1>4. ASSUME NEW p \in AccessRequests \ {r}, NEW q \in preceding'[p]
      PROVE  /\ step'[p] # "idle" /\ step'[q] = "answered"
             /\ step'[p] = "commit" => now'[q] <= now'[p]
  <2>1. Same(p) /\ q \in preceding[p] /\ q \in AccessRequests
    BY <1>4, Others DEF Same, AccessTypeOK
  <2>2. step[q] = "answered" /\ Same(q)
    BY <1>2, <2>1 DEF Past
  <2> QED
    BY <2>1, <2>2 DEF Past, Same
<1> QED
  BY <1>3, <1>4 DEF Past

\* A step of a call undoes no revocation.
LEMMA RevokedKept ==
    ASSUME AccessInv, NEW r \in AccessRequests, Own(r)
    PROVE  Revoked'
<1> AccessTypeOK /\ Asked /\ Timed /\ Revoked
  BY DEF AccessInv
<1>1. step[r] # "answered"
  BY Ways DEF InProgress
<1>2. step'[r] = "answered" /\ ask'[r].kind = "revoke" => revokedAt'[ask'[r].device] # 0
  BY <1>1, Revokes
<1>3. ASSUME NEW q \in AccessRequests \ {r}, step'[q] = "answered", ask'[q].kind = "revoke"
      PROVE  revokedAt'[ask'[q].device] # 0
  <2>1. Same(q) /\ ask[q] \in Asks
    BY <1>3, Others DEF Same, Asked
  <2>2. ask[q].device \in Devices /\ revokedAt[ask[q].device] # 0
    BY <1>3, <2>1, AskShape DEF Revoked, Same
  <2> QED
    BY <2>1, <2>2, Revokes DEF Same
<1> QED
  BY <1>2, <1>3 DEF Revoked

\* A call does not get past its authentication with a token revoked before it.
LEMMA RejectedKept ==
    ASSUME AccessInv, NEW r \in AccessRequests, Own(r)
    PROVE  Rejected'
<1> AccessTypeOK /\ Asked /\ Timed /\ Past /\ Revoked /\ Rejected
  BY DEF AccessInv
<1>1. \A q \in AccessRequests : step[q] = "answered" => Same(q)
  BY Ways, Others DEF InProgress
<1>2. ASSUME NEW q \in preceding'[r], ask'[q].kind = "revoke", Presents(r, ask[q].device)'
      PROVE  step'[r] \in {"auth", "refused", "failed"}
  <2>1. CASE step[r] = "idle"
    BY <2>1, Ways DEF InProgress
  <2>2. CASE step[r] # "idle"
    <3>1. ask'[r] = ask[r] /\ preceding'[r] = preceding[r] /\ ask[r] \in Asks
      BY <2>2, Ways DEF Asked
    <3>2. q \in AccessRequests /\ step[q] = "answered" /\ ask'[q] = ask[q]
      BY <1>1, <1>2, <3>1 DEF Past, Same, AccessTypeOK
    <3>3. Presents(r, ask[q].device) /\ revokedAt[ask[q].device] # 0
      BY <1>2, <3>1, <3>2 DEF Presents, Revoked
    <3>4. AccountFor(r) = Nobody /\ step[r] \in {"auth", "refused", "failed"}
      BY <1>2, <3>1, <3>2, <3>3, RevokedIsNobody DEF Rejected
    <3> QED
      BY <3>4, Ways DEF InProgress
  <2> QED
    BY <2>1, <2>2
<1>3. ASSUME NEW p \in AccessRequests \ {r}, NEW q \in preceding'[p],
             ask'[q].kind = "revoke", Presents(p, ask[q].device)'
      PROVE  step'[p] \in {"auth", "refused", "failed"}
  <2>1. Same(p) /\ q \in preceding[p] /\ q \in AccessRequests
    BY <1>3, Others DEF Same, AccessTypeOK
  <2>2. Same(q)
    BY <1>1, <2>1 DEF Past
  <2> QED
    BY <1>3, <2>1, <2>2 DEF Same, Rejected, Presents
<1> QED
  BY <1>2, <1>3 DEF Rejected


\* The two parts of TouchKept, of which the second is the first for every device token.
LEMMA BeatsKeptKept ==
    ASSUME AccessInv, NEW r \in AccessRequests, Own(r), NEW q \in AccessRequests
    PROVE  BeatsKept(q)'
<1> AccessTypeOK /\ Asked /\ Timed /\ Past /\ BeatsKept(q)
  BY DEF AccessInv
<1> SUFFICES ASSUME step'[q] = "answered", Beats(q)'
             PROVE  \/ lastHeartbeat'[ask'[q].url] >= now'[q]
                    \/ \E s \in AccessRequests \ {q} :
                         /\ Together(q, s)' /\ Beats(s)'
                         /\ ask'[s].url = ask'[q].url
                         /\ lastHeartbeat'[ask'[q].url] = now'[s] /\ now'[s] # 0
  BY DEF BeatsKept
<1>1. \A p \in AccessRequests \ {r} : Same(p)
  BY Others
<1>2. CASE q = r
  <2>1. /\ step[r] = "commit" /\ UNCHANGED <<ask, now>> /\ Beats(r)
        /\ lastHeartbeat' = [lastHeartbeat EXCEPT ![ask[r].url] = now[r]]
    BY <1>2, Touches DEF Collecting, Beats, Finds
  <2>2. ask[r].url \in AgentSessions
    BY <2>1, AskShape DEF Asked, Beats
  <2>3. lastHeartbeat'[ask'[q].url] = now'[q] /\ now'[q] \in Nat
    BY <1>2, <2>1, <2>2 DEF AccessTypeOK
  <2> QED
    BY <2>3
<1>3. CASE q # r
  <2>1. /\ Same(q) /\ step[q] = "answered" /\ Beats(q)
        /\ ask[q].url \in AgentSessions
    BY <1>1, <1>3, AskShape DEF Same, Asked, Beats, Finds
  <2>2. CASE lastHeartbeat'[ask[q].url] = lastHeartbeat[ask[q].url]
    <3>1. CASE lastHeartbeat[ask[q].url] >= now[q]
      BY <2>1, <2>2, <3>1 DEF Same
    <3>2. ASSUME NEW s \in AccessRequests \ {q},
                 Together(q, s), Beats(s),
                 ask[s].url = ask[q].url, lastHeartbeat[ask[q].url] = now[s], now[s] # 0
          PROVE  /\ Together(q, s)' /\ Beats(s)'
                 /\ ask'[s].url = ask'[q].url
                 /\ lastHeartbeat'[ask'[q].url] = now'[s] /\ now'[s] # 0
      <4>1. /\ ask'[s] = ask[s] /\ now'[s] = now[s] /\ preceding'[s] = preceding[s]
            /\ step'[s] # "idle" /\ account'[s] = account[s]
        BY <1>1, <3>2, Ways DEF Same, Timed, Together, InProgress
      <4> QED
        BY <2>1, <2>2, <3>2, <4>1 DEF Same, Together, Beats, Finds
    <3> QED
      BY <2>1, <3>1, <3>2 DEF BeatsKept
  <2>3. CASE lastHeartbeat'[ask[q].url] # lastHeartbeat[ask[q].url]
    <3>1. /\ step[r] = "commit" /\ UNCHANGED <<ask, now, preceding, account>> /\ Beats(r)
          /\ lastHeartbeat' = [lastHeartbeat EXCEPT ![ask[r].url] = now[r]]
      BY <2>3, Touches
    <3>2. ask[r].url = ask[q].url /\ lastHeartbeat'[ask[q].url] = now[r] /\ now[r] # 0
      BY <2>1, <2>3, <3>1 DEF AccessTypeOK, Timed
    <3>3. CASE q \in preceding[r]
      BY <2>1, <3>1, <3>2, <3>3 DEF Past, Timed, AccessTypeOK
    <3>4. CASE q \notin preceding[r]
      <4>1. r \notin preceding[q] /\ step'[r] # "idle"
        BY <3>1, Ways DEF Past, InProgress
      <4> QED
        BY <1>3, <2>1, <3>1, <3>2, <3>4, <4>1 DEF Together, Beats, Finds
    <3> QED
      BY <3>3, <3>4
  <2> QED
    BY <2>2, <2>3
<1> QED
  BY <1>2, <1>3

\* A step of a call keeps UseKept of every other, and an answer establishes its own.
LEMMA UseKeptKept ==
    ASSUME AccessInv, NEW r \in AccessRequests, Own(r), NEW q \in AccessRequests, NEW d \in Devices
    PROVE  UseKept(q, d)'
<1> AccessTypeOK /\ Asked /\ Timed /\ Past /\ UseKept(q, d)
  BY DEF AccessInv
<1> SUFFICES ASSUME step'[q] = "answered", ask'[q].kind \in Collecting, Presents(q, d)'
             PROVE  \/ lastUsed'[d] >= now'[q]
                    \/ \E s \in AccessRequests \ {q} :
                         Together(q, s)' /\ Presents(s, d)' /\ lastUsed'[d] = now'[s] /\ now'[s] # 0
  BY DEF UseKept, Collecting
<1>1. \A p \in AccessRequests \ {r} : Same(p)
  BY Others
<1>2. CASE q = r
  <2>1. /\ UNCHANGED <<ask, now>> /\ Presents(r, d) /\ lastUsed'[d] = now[r]
    BY <1>2, Touches DEF Presents
  <2> QED
    BY <1>2, <2>1 DEF AccessTypeOK
<1>3. CASE q # r
  <2>1. Same(q) /\ step[q] = "answered" /\ ask[q].kind \in Collecting /\ Presents(q, d)
    BY <1>1, <1>3 DEF Same, Presents
  <2>2. CASE lastUsed'[d] = lastUsed[d]
    <3>1. CASE lastUsed[d] >= now[q]
      BY <2>1, <2>2, <3>1 DEF Same
    <3>2. ASSUME NEW s \in AccessRequests \ {q},
                 Together(q, s), Presents(s, d), lastUsed[d] = now[s], now[s] # 0
          PROVE  Together(q, s)' /\ Presents(s, d)' /\ lastUsed'[d] = now'[s] /\ now'[s] # 0
      <4>1. ask'[s] = ask[s] /\ now'[s] = now[s] /\ preceding'[s] = preceding[s] /\ step'[s] # "idle"
        BY <1>1, <3>2, Ways DEF Same, Timed, Together, InProgress
      <4> QED
        BY <2>1, <2>2, <3>2, <4>1 DEF Same, Together, Presents
    <3> QED
      BY <2>1, <3>1, <3>2 DEF UseKept
  <2>3. CASE lastUsed'[d] # lastUsed[d]
    <3>1. /\ step[r] = "commit" /\ UNCHANGED <<ask, now, preceding>>
          /\ Presents(r, d) /\ lastUsed'[d] = now[r] /\ now[r] # 0
      BY <2>3, Touches DEF Timed, AccessTypeOK
    <3>2. CASE q \in preceding[r]
      BY <2>1, <3>1, <3>2 DEF Past, AccessTypeOK
    <3>3. CASE q \notin preceding[r]
      <4>1. r \notin preceding[q] /\ step'[r] # "idle"
        BY <3>1, Ways DEF Past, InProgress
      <4> QED
        BY <1>3, <3>1, <3>3, <4>1 DEF Together, Presents
    <3> QED
      BY <3>2, <3>3
  <2> QED
    BY <2>2, <2>3
<1> QED
  BY <1>2, <1>3

-----------------------------------------------------------------------------
(* The steps of no request.                                                *)

\* A crash fails what is in progress; the rows stay.
LEMMA CrashKeeps ==
    ASSUME AccessInv, AccessCrash
    PROVE  Asked' /\ Timed' /\ Past' /\ Revoked' /\ Rejected'
           /\ \A q \in AccessRequests : BeatsKept(q)' /\ \A d \in Devices : UseKept(q, d)'
<1> AccessTypeOK /\ Asked /\ Timed /\ Past /\ Revoked /\ Rejected
  BY DEF AccessInv
<1>1. /\ UNCHANGED <<clock, accessRows, ask, account, now, preceding>>
      /\ \A r \in AccessRequests : step'[r] = IF step[r] \in InProgress THEN "failed" ELSE step[r]
  BY DEF AccessCrash
<1>2. \A r \in AccessRequests :
          /\ step'[r] \notin InProgress /\ (step'[r] = "idle" <=> step[r] = "idle")
          /\ step'[r] = "answered" <=> step[r] = "answered"
  BY <1>1 DEF InProgress
<1>3. Asked' /\ Revoked'
  BY <1>1, <1>2 DEF Asked, Revoked, accessRows
<1>4. Timed'
  BY <1>1, <1>2 DEF Timed, InProgress
<1>5. Past'
  BY <1>1, <1>2 DEF Past, InProgress, AccessTypeOK
<1>6. Rejected'
  BY <1>1 DEF Rejected, Presents, InProgress
<1>7. ASSUME NEW q \in AccessRequests PROVE BeatsKept(q)' /\ \A d \in Devices : UseKept(q, d)'
  <2>1. BeatsKept(q) /\ \A d \in Devices : UseKept(q, d)
    BY DEF AccessInv
  <2>2. \A r \in AccessRequests : Together(q, r) => Together(q, r)'
    BY <1>1, <1>2 DEF Together
  <2>3. BeatsKept(q)'
    BY <1>1, <1>2, <2>1, <2>2 DEF BeatsKept, Beats, Finds, accessRows
  <2>4. \A d \in Devices : UseKept(q, d)'
    BY <1>1, <1>2, <2>1, <2>2 DEF UseKept, Presents, accessRows
  <2> QED
    BY <2>3, <2>4
<1> QED
  BY <1>3, <1>4, <1>5, <1>6, <1>7

\* The invariant is true at the start ...
LEMMA Initially == AccessInit => AccessInv
<1> SUFFICES ASSUME AccessInit PROVE AccessInv
  OBVIOUS
<1>1. AccessTypeOK
  BY TimeAssumption DEF AccessInit, AccessTypeOK
<1>2. Asked /\ Timed /\ Past /\ Revoked /\ Rejected
  BY DEF AccessInit, Asked, Timed, Past, Revoked, Rejected
<1>3. \A q \in AccessRequests : step[q] # "answered"
  BY DEF AccessInit
<1> QED
  BY <1>1, <1>2, <1>3 DEF AccessInv, BeatsKept, UseKept

\* ... and every step keeps it.
LEMMA Invariant == AccessSpec => []AccessInv
<1>1. AccessInit => AccessInv
  BY Initially
<1>2. AccessInv /\ [AccessNext]_accessVars => AccessInv'
  <2> SUFFICES ASSUME AccessInv, [AccessNext]_accessVars PROVE AccessInv'
    OBVIOUS
  <2>1. AccessTypeOK'
    BY TypesKept
  <2>2. ASSUME NEW r \in AccessRequests, Own(r) PROVE AccessInv'
    <3>1. Asked' /\ Timed' /\ Past' /\ Revoked' /\ Rejected'
      BY <2>2, AskedTimedKept, PastKept, RevokedKept, RejectedKept
    <3>2. \A q \in AccessRequests : BeatsKept(q)' /\ \A d \in Devices : UseKept(q, d)'
      BY <2>2, BeatsKeptKept, UseKeptKept
    <3> QED
      BY <2>1, <3>1, <3>2 DEF AccessInv
  <2>3. CASE AccessCrash
    BY <2>1, <2>3, CrashKeeps DEF AccessInv
  <2>4. CASE Tick
    <3>1. clock' = clock + 1 /\ UNCHANGED <<accessRows, ask, step, account, now, preceding>>
      BY <2>4 DEF Tick
    <3>2. Timed'
      BY <3>1 DEF AccessInv, Timed, AccessTypeOK
    <3>3. Asked' /\ Past' /\ Revoked' /\ Rejected'
      BY <3>1 DEF AccessInv, Asked, Past, Revoked, Rejected, Presents, accessRows
    <3>4. \A q \in AccessRequests : BeatsKept(q)' /\ \A d \in Devices : UseKept(q, d)'
      BY <3>1 DEF AccessInv, BeatsKept, Beats, Finds, UseKept, Together, Presents, accessRows
    <3> QED
      BY <2>1, <3>2, <3>3, <3>4 DEF AccessInv
  <2>5. CASE UNCHANGED accessVars
    <3>1. UNCHANGED <<clock, accessRows, ask, step, account, now, preceding>>
      BY <2>5 DEF accessVars
    <3>2. Asked' /\ Timed' /\ Past' /\ Revoked' /\ Rejected'
      BY <3>1 DEF AccessInv, Asked, Timed, Past, Revoked, Rejected, Presents, accessRows
    <3>3. \A q \in AccessRequests : BeatsKept(q)' /\ \A d \in Devices : UseKept(q, d)'
      BY <3>1 DEF AccessInv, BeatsKept, Beats, Finds, UseKept, Together, Presents, accessRows
    <3> QED
      BY <2>1, <3>2, <3>3 DEF AccessInv
  <2> QED
    BY <2>2, <2>3, <2>4, <2>5 DEF AccessNext, Own
<1> QED
  BY <1>1, <1>2, PTL DEF AccessSpec

\* The rows and the calls keep their types: every call is by nobody or by an account.
THEOREM AccessTypes == AccessSpec => []AccessTypeOK
<1>1. AccessInv => AccessTypeOK
  BY DEF AccessInv
<1> QED
  BY <1>1, Invariant, PTL

\* A revocation that was answered is not undone by a call that was on its way, and no call
\* that arrives later is served with the token, whatever else is created, used, revoked,
\* locked or crashes in between.
THEOREM RevocationsStand == AccessSpec => []RevocationStands
<1>1. AccessInv => RevocationStands
  BY DEF AccessInv, Revoked, Rejected, RevocationStands
<1> QED
  BY <1>1, Invariant, PTL

\* last_heartbeat and last_used_at only go back for calls that overlap.
THEOREM TouchesAreKept == AccessSpec => []TouchKept
<1>1. AccessInv => TouchKept
  <2> SUFFICES ASSUME AccessInv, NEW q \in AccessRequests, step[q] = "answered"
               PROVE  /\ Beats(q) =>
                           \/ lastHeartbeat[ask[q].url] >= now[q]
                           \/ \E r \in AccessRequests \ {q} :
                                /\ Together(q, r) /\ Beats(r)
                                /\ ask[r].url = ask[q].url /\ lastHeartbeat[ask[q].url] = now[r]
                      /\ \A d \in Devices : ask[q].kind \in Collecting /\ Presents(q, d) =>
                           \/ lastUsed[d] >= now[q]
                           \/ \E r \in AccessRequests \ {q} :
                                Together(q, r) /\ Presents(r, d) /\ lastUsed[d] = now[r]
    BY DEF TouchKept
  <2>1. BeatsKept(q) /\ \A d \in Devices : UseKept(q, d)
    BY DEF AccessInv
  <2> QED
    BY <2>1 DEF BeatsKept, UseKept
<1> QED
  BY <1>1, Invariant, PTL

================================================================================
