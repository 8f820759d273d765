----------------------------- MODULE KnowledgeBase -----------------------------
(***************************************************************************)
(* The shared knowledge base (fixlog/api): entries with their edits,       *)
(* supersessions and verifications, questions with their linked entries,   *)
(* and the error signatures that all of them share.                        *)
(*                                                                         *)
(* Every request has a database connection of its own.  What a handler     *)
(* reads before its first INSERT or UPDATE it reads from the last commit,  *)
(* one statement at a time; from then on it holds the write lock of SQLite *)
(* until it commits or fails.  All it does under the lock is one action,   *)
(* as others still see the commit before.  A row is named by the request   *)
(* that inserts it.                                                        *)
(***************************************************************************)
EXTENDS Naturals, Sequences

CONSTANTS
    KBRequests,   \* the calls of the routes
    KBCalls,      \* what clients may call
    Earlier,      \* the requests that were answered before, with their calls
    Hashes,       \* error signatures, by hash
    Examples,     \* raw examples of an error
    Sessions,
    Texts,        \* values of a patchable field
    Nothing       \* no row, NULL

Input == [hash : Hashes, examples : SUBSET Examples]
Call ==
    [kind : {"entry"}, input : Input, also : Seq(Input), text : Texts]
    \cup [kind : {"question", "issue"}, input : Input, session : Sessions]
    \cup [kind : {"patch"}, entry : KBRequests, new : Texts]
    \cup [kind : {"supersede"}, entry : KBRequests, new : KBRequests]
    \cup [kind : {"verify"}, entry : KBRequests]
    \cup [kind : {"link"}, entry : KBRequests, question : KBRequests]

ASSUME NothingAssumption == Nothing \notin KBRequests \cup Texts \cup Call
ASSUME KBCallsAssumption == KBCalls \subseteq Call
ASSUME EarlierAssumption ==
    /\ DOMAIN Earlier \subseteq KBRequests
    /\ \A e \in DOMAIN Earlier : Earlier[e] \in Call /\ Earlier[e].kind \in {"entry", "question"}

VARIABLES
    inserted,     \* committed: the requests that inserted their row
    known,        \* committed: the hashes with a row in error_signatures
    examples,     \* committed: their raw_examples
    fields,       \* committed: the patchable field and superseded_by of the entries
    edits,        \* committed: the requests that inserted an edit, oldest first
    call,         \* what a request asks for
    stage,        \* where it is
    found,        \* it saw the signature's row, or the link's
    read,         \* the raw_examples it saw
    match,        \* the question it found, or Nothing
    old,          \* the value of the field it saw: old_value of its edit
    before        \* history: the requests answered before it arrived

kbVars == <<inserted, known, examples, fields, edits,
            call, stage, found, read, match, old, before>>

Working == {"select", "lookup", "write"}
Ended == {"answered", "missing", "conflict", "failed"}
Value == Texts \cup KBRequests \cup {Nothing}

KBTypeOK ==
    /\ inserted \subseteq KBRequests
    /\ known \subseteq Hashes
    /\ examples \in [Hashes -> SUBSET Examples]
    /\ fields \in [KBRequests -> [{"text", "superseded_by"} -> Value]]
    /\ edits \in Seq(KBRequests)
    /\ call \in [KBRequests -> Call \cup {Nothing}]
    /\ stage \in [KBRequests -> Working \cup Ended \cup {"idle"}]
    /\ found \in [KBRequests -> BOOLEAN]
    /\ read \in [KBRequests -> SUBSET Examples]
    /\ match \in [KBRequests -> KBRequests \cup {Nothing}]
    /\ old \in [KBRequests -> Value]
    /\ before \in [KBRequests -> SUBSET KBRequests]

-----------------------------------------------------------------------------
(* The rows, and what a call asks for.                                     *)

Entries == {r \in inserted : call[r].kind = "entry"}
Questions == {r \in inserted : call[r].kind \in {"question", "issue"}}

\* The signatures in the body of a call.
Inputs(c) ==
    IF c.kind = "entry" THEN {c.input} \cup {c.also[i] : i \in DOMAIN c.also} ELSE {c.input}

Given(c, h) == UNION {i.examples : i \in {i \in Inputs(c) : i.hash = h}}
HashesOf(c) == {i.hash : i \in Inputs(c)}
Hash(r) == call[r].input.hash

\* Calls that upsert a signature, and calls that change a field of an entry.
Posts == {"entry", "question", "issue"}
Edits == {"patch", "supersede"}

Field(r) == IF call[r].kind = "patch" THEN "text" ELSE "superseded_by"
SameCell(q, r) == call[q].entry = call[r].entry /\ Field(q) = Field(r)
SameIssue(q, r) == call[q].session = call[r].session /\ Hash(q) = Hash(r)
SameLink(q, r) == call[q].question = call[r].question /\ call[q].entry = call[r].entry

\* The fields of an entry as it was created.
Original(c) == [f \in {"text", "superseded_by"} |-> IF f = "text" THEN c.text ELSE Nothing]

\* A database with the rows of the earlier requests.
KBInit ==
    /\ inserted = DOMAIN Earlier
    /\ known = UNION {HashesOf(Earlier[e]) : e \in DOMAIN Earlier}
    /\ examples = [h \in Hashes |-> UNION {Given(Earlier[e], h) : e \in DOMAIN Earlier}]
    /\ fields = [r \in KBRequests |->
                   IF r \in DOMAIN Earlier /\ Earlier[r].kind = "entry" THEN Original(Earlier[r])
                   ELSE [f \in {"text", "superseded_by"} |-> Nothing]]
    /\ edits = << >>
    /\ call = [r \in KBRequests |-> IF r \in DOMAIN Earlier THEN Earlier[r] ELSE Nothing]
    /\ stage = [r \in KBRequests |-> IF r \in DOMAIN Earlier THEN "answered" ELSE "idle"]
    /\ found = [r \in KBRequests |-> FALSE] /\ read = [r \in KBRequests |-> {}]
    /\ match = [r \in KBRequests |-> Nothing] /\ old = [r \in KBRequests |-> Nothing]
    /\ before = [r \in KBRequests |-> {}]

-----------------------------------------------------------------------------
At(r, kinds, place) == stage[r] = place /\ call[r].kind \in kinds
Goto(r, place) == stage' = [stage EXCEPT ![r] = place]

\* A handler that has committed answers, unless the server is killed or the client
\* gone by then.
Answer(r) == Goto(r, "answered") \/ Goto(r, "failed")

rows == <<inserted, known, examples, fields, edits>>
seen == <<found, read, match, old>>

\* The token and the session are good.
Arrive(r) ==
    /\ stage[r] = "idle" /\ Goto(r, "select")
    /\ \E c \in KBCalls : call' = [call EXCEPT ![r] = c]
    /\ before' = [before EXCEPT ![r] = {q \in KBRequests : stage[q] = "answered"}]
    /\ UNCHANGED <<rows, seen>>

-----------------------------------------------------------------------------
(* upsert_error_signature.                                                 *)

\* The select by hash.  Only a signature that is there can have a question.
SelectSignature(r) ==
    /\ At(r, Posts, "select")
    /\ found' = [found EXCEPT ![r] = Hash(r) \in known]
    /\ read' = [read EXCEPT ![r] = examples[Hash(r)]]
    /\ Goto(r, IF call[r].kind = "issue" /\ Hash(r) \in known THEN "lookup" ELSE "write")
    /\ UNCHANGED <<rows, call, match, old, before>>

WrittenOver(r, h) ==
    IF Given(call[r], h) \subseteq read[r] THEN examples[h] ELSE Given(call[r], h)

\* The canonical signature was read before the lock was taken: its list is written back
\* as read and extended, or not at all when there is nothing new.  The also_matches
\* are read under the lock.
Written(r, h) ==
    IF h # Hash(r) THEN examples[h] \cup Given(call[r], h)
    ELSE IF Given(call[r], h) \subseteq read[r] THEN examples[h]
    ELSE read[r] \cup Given(call[r], h)

SaveSignatures(r) ==
    /\ known' = known \cup HashesOf(call[r])
    /\ examples' = [h \in Hashes |->
                      IF h \in HashesOf(call[r]) THEN Written(r, h) ELSE examples[h]]

\* error_signatures.hash is unique.
SignatureTaken(r) == ~found[r] /\ Hash(r) \in known

-----------------------------------------------------------------------------
\* Two also_matches, other than the canonical signature, with one hash: the primary key
\* of entry_also_matches is taken.
TwiceMatched(r) ==
    \E i, j \in DOMAIN call[r].also :
        i < j /\ call[r].also[i].hash = call[r].also[j].hash /\ call[r].also[i].hash # Hash(r)

\* create_entry, up to the commit; VerifierWorker goes on from there.
WriteEntry(r) ==
    /\ At(r, {"entry"}, "write") /\ ~SignatureTaken(r) /\ ~TwiceMatched(r)
    /\ inserted' = inserted \cup {r} /\ SaveSignatures(r)
    /\ fields' = [fields EXCEPT ![r] = Original(call[r])]
    /\ Answer(r)
    /\ UNCHANGED <<edits, call, seen, before>>

OfCollector(r) == {q \in Questions : call[q].kind = "issue" /\ SameIssue(q, r)}

\* The questions of the session with the signature.
SameQuestions(r) == {q \in Questions : SameIssue(q, r)}

\* create_collector_issue looks for one; created_at is taken before the lock, so the
\* newest may be any of them.
LookupQuestion(r) ==
    /\ At(r, {"issue"}, "lookup") /\ Goto(r, "write")
    /\ match' \in {[match EXCEPT ![r] = q] :
                     q \in IF SameQuestions(r) = {} THEN {Nothing} ELSE SameQuestions(r)}
    /\ UNCHANGED <<rows, call, found, read, old, before>>

\* create_question, and create_collector_issue: a new question, or only the signature's
\* examples when there is one already.
WriteQuestion(r) ==
    /\ At(r, {"question", "issue"}, "write") /\ ~SignatureTaken(r)
    /\ inserted' = IF match[r] = Nothing THEN inserted \cup {r} ELSE inserted
    /\ SaveSignatures(r)
    /\ Answer(r)
    /\ UNCHANGED <<fields, edits, call, seen, before>>

-----------------------------------------------------------------------------
Missing(r) == Goto(r, "missing") /\ UNCHANGED old

ReadField(r) == old' = [old EXCEPT ![r] = fields[call[r].entry][Field(r)]] /\ Goto(r, "write")

\* patch_entry loads the entry; its old_value is the value loaded.
SelectPatched(r) ==
    /\ At(r, {"patch"}, "select")
    /\ \/ call[r].entry \in Entries /\ ReadField(r)
       \/ call[r].entry \notin Entries /\ Missing(r)
    /\ UNCHANGED <<rows, call, found, read, match, before>>

\* supersede_entry loads both entries.
SelectSuperseded(r) ==
    /\ At(r, {"supersede"}, "select")
    /\ \/ {call[r].entry, call[r].new} \subseteq Entries /\ ReadField(r)
       \/ ~({call[r].entry, call[r].new} \subseteq Entries) /\ Missing(r)
    /\ UNCHANGED <<rows, call, found, read, match, before>>

SetAlways(r) == fields' = [fields EXCEPT ![call[r].entry][Field(r)] = call[r].new]

\* A field that is set to the value it was loaded with is not written.
SetField(r) ==
    fields' = IF call[r].new = old[r] THEN fields
              ELSE [fields EXCEPT ![call[r].entry][Field(r)] = call[r].new]

ReplaceEdit(r) == edits' = Append(SelectSeq(edits, LAMBDA q : ~SameCell(q, r)), r)

AddEdit(r) == edits' = Append(edits, r)

\* The commit of patch_entry.
PatchEntry(r) ==
    /\ At(r, {"patch"}, "write")
    /\ SetField(r) /\ AddEdit(r)
    /\ Answer(r)
    /\ UNCHANGED <<inserted, known, examples, call, seen, before>>

\* The commit of supersede_entry.
SupersedeEntry(r) ==
    /\ At(r, {"supersede"}, "write")
    /\ SetField(r) /\ AddEdit(r)
    /\ Answer(r)
    /\ UNCHANGED <<inserted, known, examples, call, seen, before>>

-----------------------------------------------------------------------------
\* confirm_entry, reject_entry and create_verification look for the entry.
SelectVerified(r) ==
    /\ At(r, {"verify"}, "select")
    /\ Goto(r, IF call[r].entry \in Entries THEN "write" ELSE "missing")
    /\ UNCHANGED <<rows, call, seen, before>>

WriteVerification(r) ==
    /\ At(r, {"verify"}, "write")
    /\ inserted' = inserted \cup {r}
    /\ Answer(r)
    /\ UNCHANGED <<known, examples, fields, edits, call, seen, before>>

Linked(r) == \E q \in inserted : call[q].kind = "link" /\ SameLink(q, r)

\* link_entry_to_question: the question, the entry and a link of theirs.
SelectLink(r) ==
    /\ At(r, {"link"}, "select")
    /\ \/ /\ call[r].question \in Questions /\ call[r].entry \in Entries
          /\ found' = [found EXCEPT ![r] = Linked(r)]
          /\ Goto(r, "write")
       \/ /\ ~(call[r].question \in Questions /\ call[r].entry \in Entries)
          /\ Goto(r, "missing") /\ UNCHANGED found
    /\ UNCHANGED <<rows, call, read, match, old, before>>

LinkTakenAlways(r) == Linked(r)

LinkTaken(r) == ~found[r] /\ Linked(r)

\* A link that was there is left as it is.
WriteLink(r) ==
    /\ At(r, {"link"}, "write") /\ ~LinkTaken(r)
    /\ inserted' = IF found[r] THEN inserted ELSE inserted \cup {r}
    /\ Answer(r)
    /\ UNCHANGED <<known, examples, fields, edits, call, seen, before>>

-----------------------------------------------------------------------------
\* An IntegrityError: nothing catches it, and get_db rolls back.
IntegrityError(r) ==
    /\ \/ At(r, Posts, "write") /\ SignatureTaken(r)
       \/ At(r, {"entry"}, "write") /\ TwiceMatched(r)
       \/ At(r, {"link"}, "write") /\ LinkTaken(r)
    /\ Goto(r, "conflict")
    /\ UNCHANGED <<rows, call, seen, before>>

\* "database is locked": another connection did not give the lock back in time.
KBLocked(r) ==
    /\ stage[r] \in Working /\ Goto(r, "failed")
    /\ UNCHANGED <<rows, call, seen, before>>

\* The server is killed and restarted.
KBCrash ==
    /\ \E r \in KBRequests : stage[r] \in Working
    /\ stage' = [r \in KBRequests |-> IF stage[r] \in Working THEN "failed" ELSE stage[r]]
    /\ UNCHANGED <<rows, call, seen, before>>

KBProceed(r) ==
    \/ SelectSignature(r) \/ LookupQuestion(r) \/ WriteEntry(r) \/ WriteQuestion(r)
    \/ SelectPatched(r) \/ SelectSuperseded(r) \/ PatchEntry(r) \/ SupersedeEntry(r)
    \/ SelectVerified(r) \/ WriteVerification(r) \/ SelectLink(r) \/ WriteLink(r)
    \/ IntegrityError(r) \/ KBLocked(r)

KBNext == (\E r \in KBRequests : Arrive(r) \/ KBProceed(r)) \/ KBCrash

KBSpec == KBInit /\ [][KBNext]_kbVars
-----------------------------------------------------------------------------
(* Readers.                                                                *)

\* search (fixlog/api/search.py): the entries whose canonical signature or also_matches have
\* the hash.  The web page shows the newest 25 of them.
SearchEntries(h) == IF h \in known THEN {e \in Entries : h \in HashesOf(call[e])} ELSE {}

\* The edit changed the value that its request had loaded.
Effective(q) == call[q].new # old[q]

\* Edit i, of the cell that request r edits.  The value after it; 0 is the entry's creation.
IsEditOf(i, r) == SameCell(edits[i], r) /\ Effective(edits[i])
ValueAfter(i, r) == IF i = 0 THEN Original(call[call[r].entry])[Field(r)] ELSE call[edits[i]].new

-----------------------------------------------------------------------------
(* Properties.                                                             *)

\* The loser of a race gets an IntegrityError, and nobody else: there was an overlapping
\* request that inserted the same signature or the same link, or the call itself has an
\* also_match twice.
ConflictHasRival ==
    \A r \in KBRequests : stage[r] = "conflict" =>
        \/ call[r].kind = "entry" /\ TwiceMatched(r)
        \/ \E q \in inserted \ (before[r] \cup {r}) :
              \/ call[r].kind \in Posts /\ call[q].kind \in Posts /\ Hash(r) \in HashesOf(call[q])
              \/ call[r].kind = "link" /\ call[q].kind = "link" /\ SameLink(q, r)

\* The issue endpoint does not repeat a question: one that arrives after an answer for
\* the same session and signature inserts none.
IssueReused ==
    \A r \in Questions : call[r].kind = "issue" =>
        \A q \in before[r] : ~(call[q].kind \in {"question", "issue"} /\ SameIssue(q, r))

\* Request r loaded the value that edit i of the first n left, and the edits of that
\* field between i and n are those of requests that overlapped with r.
Saw(r, n) ==
    \E i \in 0..n :
        /\ i > 0 => IsEditOf(i, r)
        /\ old[r] = ValueAfter(i, r)
        /\ \A k \in (i + 1)..n : IsEditOf(k, r) => edits[k] \notin before[r]

\* The edit history is a chain: the old_value of an edit is the value that the edits
\* before it left, but for those of requests that overlapped with it.
HistoryIsChain == \A j \in DOMAIN edits : Saw(edits[j], j - 1)

\* A field of an entry has the value that its last effective edit tells.
LastEdit(e, f, i) ==
    /\ i > 0 => /\ call[edits[i]].entry = e /\ Field(edits[i]) = f /\ Effective(edits[i])
                /\ fields[e][f] = call[edits[i]].new
    /\ i = 0 => fields[e][f] = Original(call[e])[f]
    /\ \A k \in (i + 1)..Len(edits) :
         ~(call[edits[k]].entry = e /\ Field(edits[k]) = f /\ Effective(edits[k]))
RowMatchesHistory ==
    \A e \in Entries, f \in {"text", "superseded_by"} :
        \E i \in 0..Len(edits) : LastEdit(e, f, i)

\* The requests overlapped: neither was answered when the other one arrived.
Overlap(p, q) == p # q /\ "idle" \notin {stage[p], stage[q]} /\ p \notin before[q] /\ q \notin before[p]

\* What an answered call brought is found again: its entry under each of its signatures,
\* and its examples, unless a call that overlapped wrote the list of that signature.
ContributionKept ==
    \A q \in KBRequests : stage[q] = "answered" /\ call[q].kind \in Posts =>
        \A i \in Inputs(call[q]) :
            /\ call[q].kind = "entry" => q \in SearchEntries(i.hash)
            /\ \/ i.examples \subseteq examples[i.hash]
               \/ \E p \in KBRequests : Overlap(p, q) /\ call[p].kind \in Posts /\ Hash(p) = i.hash

-----------------------------------------------------------------------------
(* The inductive invariant behind all of these but ContributionKept, whose *)
(* own is in KnowledgeBaseProofs.                                          *)

\* Rows and edits are those of calls that have written.
RowsAgree ==
    /\ \A r \in inserted : stage[r] \in {"answered", "failed"} /\ call[r].kind \notin Edits
    /\ \A i \in DOMAIN edits :
         /\ stage[edits[i]] \in {"answered", "failed"}
         /\ call[edits[i]].kind \in Edits /\ call[edits[i]].entry \in Entries
    /\ \A h \in known : \E q \in inserted : call[q].kind \in Posts /\ h \in HashesOf(call[q])
    /\ \A q \in inserted : call[q].kind \in Posts => HashesOf(call[q]) \subseteq known

\* What a call knows: the answers that came before it, and what it has seen of them.
CallAgrees(r) ==
    /\ stage[r] # "idle" => call[r] \in Call
    /\ \A q \in before[r] : stage[q] = "answered"
    /\ stage[r] = "lookup" => call[r].kind = "issue" /\ found[r]
    /\ stage[r] \in {"idle", "select", "lookup"} => match[r] = Nothing
    /\ match[r] # Nothing => match[r] \in Questions /\ SameIssue(match[r], r)

\* An answered question or issue has its question.
QuestionThere(r) ==
    stage[r] = "answered" /\ call[r].kind \in {"question", "issue"} =>
        \E q \in Questions : SameIssue(q, r)

\* What a writer has not seen was not there before it arrived.
WriterAgrees(r) ==
    stage[r] = "write" =>
        /\ call[r].kind \in Posts /\ ~found[r] =>
             \A q \in before[r] \cap inserted :
                 call[q].kind \in Posts => Hash(r) \notin HashesOf(call[q])
        /\ call[r].kind = "link" /\ ~found[r] =>
             \A q \in before[r] \cap inserted : call[q].kind = "link" => ~SameLink(q, r)
        /\ call[r].kind = "issue" /\ match[r] = Nothing =>
             \A q \in before[r] : ~(call[q].kind \in {"question", "issue"} /\ SameIssue(q, r))
        /\ call[r].kind \in Edits => call[r].entry \in Entries /\ Saw(r, Len(edits))

KBIndInv ==
    /\ KBTypeOK
    /\ RowsAgree
    /\ \A r \in KBRequests : CallAgrees(r) /\ QuestionThere(r) /\ WriterAgrees(r)
    /\ ConflictHasRival
    /\ IssueReused
    /\ HistoryIsChain
    /\ RowMatchesHistory
=============================================================================
