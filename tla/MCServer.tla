------------------------------- MODULE MCServer -------------------------------
(* A small server: KnowledgeBase and CollectorAccess.  They share no row, so that *)
(* interleaving their steps shows nothing new: a behaviour is one of either.      *)
EXTENDS KnowledgeBase, CollectorAccess, TLC

MCInput(h, ex) == [hash |-> h, examples |-> ex]
MCEntry(h, ex, also) ==
    [kind |-> "entry", input |-> MCInput(h, ex), also |-> also, text |-> "a"]
MCKBCalls == {
    MCEntry("h2", {}, <<MCInput("h1", {"y"})>>),
    MCEntry("h1", {"x"}, <<MCInput("h1", {"y"}), MCInput("h2", {})>>),
    MCEntry("h1", {}, <<MCInput("h2", {}), MCInput("h2", {})>>),
    [kind |-> "issue", input |-> MCInput("h1", {"x"}), session |-> "s"],
    [kind |-> "issue", input |-> MCInput("h2", {"y"}), session |-> "s"],
    [kind |-> "patch", entry |-> "e0", new |-> "a"],
    [kind |-> "patch", entry |-> "e0", new |-> "b"],
    [kind |-> "supersede", entry |-> "e0", new |-> "r1"],
    [kind |-> "verify", entry |-> "r1"],
    [kind |-> "link", question |-> "q0", entry |-> "e0"]}
MCEarlier ==
    "e0" :> [kind |-> "entry", input |-> MCInput("h1", {}), also |-> << >>, text |-> "a"]
    @@ "q0" :> [kind |-> "question", input |-> MCInput("h1", {}), session |-> "s"]

MCDevice == [type |-> "device", device |-> "d1"]
MCAccount(a) == [type |-> "account", account |-> a]
MCAsks == {
    [kind |-> "status", by |-> MCDevice],
    [kind |-> "heartbeat", by |-> MCDevice, url |-> "s1", header |-> "s1"],
    [kind |-> "event", by |-> MCAccount("alice"), url |-> "s1", header |-> "s1"],
    [kind |-> "event", by |-> MCAccount("bob"), url |-> "s1", header |-> "s1"],
    [kind |-> "issue", by |-> MCDevice, header |-> "s1"],
    [kind |-> "start", by |-> MCDevice, url |-> "s1"],
    [kind |-> "start", by |-> MCAccount("bob"), url |-> "s1"],
    [kind |-> "create", by |-> MCAccount("alice"), device |-> "d1"],
    [kind |-> "revoke", by |-> [type |-> "cookie", login |-> "r1"], device |-> "d1"],
    [kind |-> "revoke", by |-> MCAccount("alice"), device |-> "d1"],
    [kind |-> "login", by |-> MCAccount("alice")]}
MCOwner == [x \in {"d1", "s1"} |-> "alice"]

\* Requests arrive in the order of their names.
Names == <<"e0", "q0", "r1", "r2", "r3">>
InOrder(at, R) ==
    \A i, j \in DOMAIN Names :
        i < j /\ Names[i] \in R /\ Names[j] \in R /\ at[Names[j]] # "idle" => at[Names[i]] # "idle"

\* A request that fails tells the others nothing: one is enough.
OneFails(at, R) == \A q, r \in R : at[q] = "failed" /\ at[r] = "failed" => q = r

\* Calls of a kind that another kind stands for, or of a stranger: one is enough.
Minor(r) ==
    /\ step[r] # "idle"
    /\ ask[r].kind \in {"status", "issue", "event"} \/ ask[r].by = MCAccount("bob")
OneMinor == \A q, r \in AccessRequests : Minor(q) /\ Minor(r) => q = r

KBUntouched == \A r \in KBRequests \ DOMAIN Earlier : stage[r] = "idle"
AccessUntouched == clock = 1 /\ \A r \in AccessRequests : step[r] = "idle"

MCInit == KBInit /\ AccessInit
MCNext ==
    \/ AccessUntouched /\ KBNext /\ InOrder(stage', KBRequests) /\ OneFails(stage', KBRequests)
       /\ UNCHANGED accessVars
    \/ KBUntouched /\ AccessNext /\ InOrder(step', AccessRequests) /\ OneFails(step', AccessRequests)
       /\ OneMinor'
       /\ UNCHANGED kbVars
MCSpec == MCInit /\ [][MCNext]_<<kbVars, accessVars>>
=============================================================================
