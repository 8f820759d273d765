-------------------------- MODULE KnowledgeBaseProofs --------------------------
(* KnowledgeBase: its inductive invariant, and what follows from it, for any *)
(* number of requests, any calls and any database to begin with.             *)
EXTENDS KnowledgeBase, TLAPS

\* What a call of each kind carries.
LEMMA CallShape ==
    ASSUME NEW c \in Call
    PROVE  /\ c # Nothing
           /\ c.kind \in Posts \cup Edits \cup {"verify", "link"}
           /\ c.kind \in Posts => c.input \in Input
           /\ c.kind = "entry" => c.also \in Seq(Input) /\ c.text \in Texts
           /\ c.kind \in Edits => c.entry \in KBRequests /\ c.new \in Value
<1>1. CASE c \in [kind : {"entry"}, input : Input, also : Seq(Input), text : Texts]
  BY <1>1, NothingAssumption DEF Posts, Edits, Call
<1>2. CASE c \in [kind : {"question", "issue"}, input : Input, session : Sessions]
  BY <1>2, NothingAssumption DEF Posts, Edits, Call
<1>3. CASE c \in [kind : {"patch"}, entry : KBRequests, new : Texts]
  BY <1>3, NothingAssumption DEF Posts, Edits, Value, Call
<1>4. CASE c \in [kind : {"supersede"}, entry : KBRequests, new : KBRequests]
  BY <1>4, NothingAssumption DEF Posts, Edits, Value, Call
<1>5. CASE c \in [kind : {"verify"}, entry : KBRequests]
  BY <1>5, NothingAssumption DEF Posts, Edits, Call
<1>6. CASE c \in [kind : {"link"}, entry : KBRequests, question : KBRequests]
  BY <1>6, NothingAssumption DEF Posts, Edits, Call
<1> QED
  BY <1>1, <1>2, <1>3, <1>4, <1>5, <1>6 DEF Call

\* The signatures of a call are hashes and examples, its own among them.
LEMMA InputsShape ==
    ASSUME NEW c \in Call, c.kind \in Posts
    PROVE  /\ Inputs(c) \subseteq Input /\ c.input \in Inputs(c)
           /\ HashesOf(c) \subseteq Hashes /\ c.input.hash \in HashesOf(c)
           /\ \A h : Given(c, h) \subseteq Examples
<1>1. Inputs(c) \subseteq Input /\ c.input \in Inputs(c)
  <2>1. CASE c.kind = "entry"
    BY <2>1, CallShape DEF Inputs
  <2>2. CASE c.kind # "entry"
    BY <2>2, CallShape DEF Inputs
  <2> QED BY <2>1, <2>2
<1> QED
  BY <1>1 DEF HashesOf, Given, Input

LEMMA OriginalShape ==
    ASSUME NEW c \in Call, c.kind = "entry"
    PROVE  Original(c) \in [{"text", "superseded_by"} -> Value]
BY CallShape DEF Original, Value

-----------------------------------------------------------------------------
\* KBTypeOK is true at the start ...
LEMMA TypeInit == KBInit => KBTypeOK
<1> SUFFICES ASSUME KBInit PROVE KBTypeOK
  OBVIOUS
<1>1. \A e \in DOMAIN Earlier : Earlier[e] \in Call /\ Earlier[e].kind \in Posts
  BY EarlierAssumption DEF Posts
<1>2. known \subseteq Hashes
  BY <1>1, InputsShape DEF KBInit
<1>3. examples \in [Hashes -> SUBSET Examples]
  BY <1>1, InputsShape DEF KBInit
<1>4. fields \in [KBRequests -> [{"text", "superseded_by"} -> Value]]
  <2>1. \A r \in KBRequests : r \in DOMAIN Earlier /\ Earlier[r].kind = "entry" =>
          Original(Earlier[r]) \in [{"text", "superseded_by"} -> Value]
    BY <1>1, OriginalShape
  <2>2. [f \in {"text", "superseded_by"} |-> Nothing] \in [{"text", "superseded_by"} -> Value]
    BY DEF Value
  <2> QED BY <2>1, <2>2 DEF KBInit
<1>5. inserted \subseteq KBRequests /\ edits \in Seq(KBRequests)
  BY EarlierAssumption DEF KBInit
<1>6. call \in [KBRequests -> Call \cup {Nothing}]
  BY <1>1 DEF KBInit
<1>7. /\ stage \in [KBRequests -> Working \cup Ended \cup {"idle"}]
      /\ found \in [KBRequests -> BOOLEAN] /\ read \in [KBRequests -> SUBSET Examples]
      /\ match \in [KBRequests -> KBRequests \cup {Nothing}] /\ old \in [KBRequests -> Value]
      /\ before \in [KBRequests -> SUBSET KBRequests]
  BY DEF KBInit, Working, Ended, Value
<1> QED
  BY <1>2, <1>3, <1>4, <1>5, <1>6, <1>7 DEF KBTypeOK

\* ... and kept by every step.
LEMMA TypeNext ==
    ASSUME KBTypeOK, KBNext, \A r \in KBRequests : stage[r] # "idle" => call[r] \in Call
    PROVE  KBTypeOK'
<1>1. ASSUME NEW r \in KBRequests, Arrive(r) PROVE KBTypeOK'
  BY <1>1, KBCallsAssumption DEF KBTypeOK, Arrive, Goto, Working, rows, seen
<1>2. ASSUME NEW r \in KBRequests, SelectSignature(r) PROVE KBTypeOK'
  <2>1. Hash(r) \in Hashes
    BY <1>2, CallShape DEF SelectSignature, At, Hash, Posts, Input
  <2>2. read[r]' = examples[Hash(r)] /\ examples[Hash(r)] \subseteq Examples
    BY <1>2, <2>1 DEF SelectSignature, KBTypeOK
  <2> QED
    BY <1>2, <2>1, <2>2 DEF KBTypeOK, SelectSignature, Goto, Working, rows
<1>3. ASSUME NEW r \in KBRequests, LookupQuestion(r) PROVE KBTypeOK'
  BY SMTT(30), <1>3 DEF KBTypeOK, LookupQuestion, Goto, Working, SameQuestions, Questions, rows
<1>4. ASSUME NEW r \in KBRequests, At(r, Posts, "write"), SaveSignatures(r)
      PROVE  known' \subseteq Hashes /\ examples' \in [Hashes -> SUBSET Examples]
  <2>1. call[r] \in Call /\ call[r].kind \in Posts
    BY <1>4 DEF At, Posts
  <2>2. ASSUME NEW h \in Hashes PROVE Written(r, h) \subseteq Examples
    BY <2>1, InputsShape DEF Written, KBTypeOK
  <2> QED
    BY <1>4, <2>1, <2>2, InputsShape DEF SaveSignatures, KBTypeOK
<1>5. ASSUME NEW r \in KBRequests, WriteEntry(r) PROVE KBTypeOK'
  <2>1. known' \subseteq Hashes /\ examples' \in [Hashes -> SUBSET Examples]
    BY <1>5, <1>4 DEF WriteEntry, At, Posts
  <2>2. fields' \in [KBRequests -> [{"text", "superseded_by"} -> Value]]
    BY <1>5, OriginalShape DEF WriteEntry, At, KBTypeOK
  <2> QED
    BY <1>5, <2>1, <2>2 DEF KBTypeOK, WriteEntry, Answer, Goto, Ended, seen
<1>6. ASSUME NEW r \in KBRequests, WriteQuestion(r) PROVE KBTypeOK'
  <2>1. known' \subseteq Hashes /\ examples' \in [Hashes -> SUBSET Examples]
    BY <1>6, <1>4 DEF WriteQuestion, At, Posts
  <2> QED
    BY <1>6, <2>1 DEF KBTypeOK, WriteQuestion, Answer, Goto, Ended, seen
<1>7. ASSUME NEW r \in KBRequests, SelectPatched(r) \/ SelectSuperseded(r) PROVE KBTypeOK'
  <2>1. call[r] \in Call /\ call[r].kind \in Edits
    BY <1>7 DEF SelectPatched, SelectSuperseded, At, Edits
  <2>2. fields[call[r].entry][Field(r)] \in Value
    BY <2>1, CallShape DEF KBTypeOK, Field
  <2> QED
    BY <1>7, <2>2 DEF KBTypeOK, SelectPatched, SelectSuperseded, ReadField, Missing, Goto,
                      Working, Ended, rows
<1>8. ASSUME NEW r \in KBRequests, PatchEntry(r) \/ SupersedeEntry(r) PROVE KBTypeOK'
  <2>1. call[r] \in Call /\ call[r].kind \in Edits
    BY <1>8 DEF PatchEntry, SupersedeEntry, At, Edits
  <2>2. /\ call[r].entry \in KBRequests /\ call[r].new \in Value
        /\ Field(r) \in {"text", "superseded_by"}
    BY <2>1, CallShape DEF Field
  <2>3. fields \in [KBRequests -> [{"text", "superseded_by"} -> Value]]
    BY DEF KBTypeOK
  <2>4. SetField(r)
    BY <1>8 DEF PatchEntry, SupersedeEntry
  <2>5. fields' \in [KBRequests -> [{"text", "superseded_by"} -> Value]]
    BY <2>2, <2>3, <2>4 DEF SetField
  <2>6. edits' \in Seq(KBRequests)
    <3>1. edits' = Append(edits, r)
      BY <1>8 DEF PatchEntry, SupersedeEntry, AddEdit
    <3>2. edits \in Seq(KBRequests)
      BY DEF KBTypeOK
    <3> QED BY <3>1, <3>2
  <2>7. stage' \in [KBRequests -> Working \cup Ended \cup {"idle"}]
    BY <1>8 DEF PatchEntry, SupersedeEntry, Answer, Goto, Ended, KBTypeOK
  <2>8. UNCHANGED <<inserted, known, examples, call, seen, before>>
    BY <1>8 DEF PatchEntry, SupersedeEntry
  <2> QED
    BY <2>5, <2>6, <2>7, <2>8 DEF KBTypeOK, seen
<1>9. ASSUME NEW r \in KBRequests, SelectVerified(r) \/ SelectLink(r) PROVE KBTypeOK'
  BY <1>9 DEF KBTypeOK, SelectVerified, SelectLink, Linked, Goto, Working, Ended, rows, seen
<1>10. ASSUME NEW r \in KBRequests, WriteVerification(r) \/ WriteLink(r) PROVE KBTypeOK'
  BY <1>10 DEF KBTypeOK, WriteVerification, WriteLink, Answer, Goto, Ended, seen
<1>11. ASSUME NEW r \in KBRequests, IntegrityError(r) \/ KBLocked(r) PROVE KBTypeOK'
  BY <1>11 DEF KBTypeOK, IntegrityError, KBLocked, Goto, Ended, rows, seen
<1>12. ASSUME KBCrash PROVE KBTypeOK'
  BY <1>12 DEF KBTypeOK, KBCrash, Ended, rows, seen
<1> QED
  BY <1>1, <1>2, <1>3, <1>5, <1>6, <1>7, <1>8, <1>9, <1>10, <1>11, <1>12 DEF KBNext, KBProceed

-----------------------------------------------------------------------------
\* What every step leaves as it is: calls in progress, ended calls, rows.
Frame ==
    /\ \A q \in KBRequests : stage[q] # "idle" =>
         stage'[q] # "idle" /\ call'[q] = call[q] /\ before'[q] = before[q]
    /\ \A q \in KBRequests : stage[q] \in Ended => stage'[q] = stage[q]
    /\ inserted \subseteq inserted' /\ known \subseteq known'
    /\ \A q \in KBRequests : stage[q] \notin {"idle", "select"} =>
         old'[q] = old[q] /\ found'[q] = found[q]
    /\ \A q \in KBRequests : stage[q] \notin {"idle", "lookup"} => match'[q] = match[q]
    /\ \A q \in KBRequests : stage[q] = "write" => stage'[q] \in Ended \cup {"write"}
    /\ \A q \in KBRequests : stage'[q] = "answered" => stage[q] \in {"write", "answered"}

LEMMA FrameNext == ASSUME KBTypeOK, KBNext PROVE Frame
<1> USE DEF KBTypeOK
<1>1. ASSUME NEW r \in KBRequests, Arrive(r) PROVE Frame
  BY <1>1 DEF Frame, Arrive, Goto, Ended, rows, seen
<1>2. ASSUME NEW r \in KBRequests, SelectSignature(r) PROVE Frame
  BY <1>2 DEF Frame, SelectSignature, At, Goto, Ended, rows
<1>3. ASSUME NEW r \in KBRequests, LookupQuestion(r) PROVE Frame
  BY <1>3 DEF Frame, LookupQuestion, At, Goto, Ended, rows
<1>4. ASSUME NEW r \in KBRequests, WriteEntry(r) PROVE Frame
  BY <1>4 DEF Frame, WriteEntry, SaveSignatures, At, Answer, Goto, Ended, seen
<1>5. ASSUME NEW r \in KBRequests, WriteQuestion(r) PROVE Frame
  BY <1>5 DEF Frame, WriteQuestion, SaveSignatures, At, Answer, Goto, Ended, seen
<1>6. ASSUME NEW r \in KBRequests, SelectPatched(r) \/ SelectSuperseded(r) PROVE Frame
  BY <1>6 DEF Frame, SelectPatched, SelectSuperseded, ReadField, Missing, At, Goto, Ended, rows
<1>7. ASSUME NEW r \in KBRequests, PatchEntry(r) \/ SupersedeEntry(r) PROVE Frame
  BY <1>7 DEF Frame, PatchEntry, SupersedeEntry, At, Answer, Goto, Ended, seen
<1>8. ASSUME NEW r \in KBRequests, SelectVerified(r) \/ SelectLink(r) PROVE Frame
  BY <1>8 DEF Frame, SelectVerified, SelectLink, At, Goto, Ended, rows, seen
<1>9. ASSUME NEW r \in KBRequests, WriteVerification(r) \/ WriteLink(r) PROVE Frame
  BY <1>9 DEF Frame, WriteVerification, WriteLink, At, Answer, Goto, Ended, seen
<1>10. ASSUME NEW r \in KBRequests, IntegrityError(r) \/ KBLocked(r) PROVE Frame
  BY <1>10 DEF Frame, IntegrityError, KBLocked, At, Goto, Working, Ended, rows, seen
<1>11. ASSUME KBCrash PROVE Frame
  BY <1>11 DEF Frame, KBCrash, Working, Ended, rows, seen
<1> QED
  BY <1>1, <1>2, <1>3, <1>4, <1>5, <1>6, <1>7, <1>8, <1>9, <1>10, <1>11 DEF KBNext, KBProceed

\* A step inserts no row, or that of one call that writes.
Inserts(r) ==
    /\ inserted' = inserted \cup {r} /\ UNCHANGED edits
    /\ stage[r] = "write" /\ stage'[r] \in {"answered", "failed"}
    /\ call[r].kind \in Posts \cup {"verify", "link"}
    /\ call[r].kind \in Posts => known' = known \cup HashesOf(call[r])
    /\ call[r].kind \notin Posts => known' = known
    /\ call[r].kind = "issue" => match[r] = Nothing

\* ... or that of a signature's new examples or of an edit.
Keeps == inserted' = inserted /\ known' = known

LEMMA RowsNext ==
    ASSUME KBTypeOK, KBNext,
           \A q \in inserted : call[q].kind \in Posts => HashesOf(call[q]) \subseteq known,
           \A r \in KBRequests : CallAgrees(r)
    PROVE  Keeps \/ \E r \in KBRequests : Inserts(r)
<1> USE DEF KBTypeOK
<1>1. ASSUME NEW r \in KBRequests, Arrive(r) \/ SelectSignature(r) \/ LookupQuestion(r)
                                   \/ SelectPatched(r) \/ SelectSuperseded(r)
      PROVE  Keeps
  BY <1>1 DEF Keeps, Arrive, SelectSignature, LookupQuestion, SelectPatched, SelectSuperseded, rows
<1>2. ASSUME NEW r \in KBRequests, WriteEntry(r) PROVE Inserts(r)
  BY <1>2 DEF Inserts, WriteEntry, SaveSignatures, At, Answer, Goto, Posts
<1>3. ASSUME NEW r \in KBRequests, WriteQuestion(r), match[r] = Nothing PROVE Inserts(r)
  BY <1>3 DEF Inserts, WriteQuestion, SaveSignatures, At, Answer, Goto, Posts
<1>4. ASSUME NEW r \in KBRequests, WriteQuestion(r), match[r] # Nothing PROVE Keeps
  <2>1. match[r] \in Questions /\ SameIssue(match[r], r)
    BY <1>4 DEF CallAgrees
  <2>2. Hash(match[r]) = Hash(r) /\ match[r] \in inserted /\ call[match[r]].kind \in Posts
    BY <2>1 DEF Questions, SameIssue, Posts
  <2>3. call[r].kind \in {"question", "issue"} /\ call[match[r]].kind \in {"question", "issue"}
    BY <1>4, <2>1 DEF WriteQuestion, At, Questions
  <2>4. HashesOf(call[r]) = {Hash(r)} /\ HashesOf(call[match[r]]) = {Hash(match[r])}
    BY <2>3 DEF HashesOf, Inputs, Hash
  <2> QED
    BY <1>4, <2>2, <2>4 DEF Keeps, WriteQuestion, SaveSignatures
<1>5. ASSUME NEW r \in KBRequests, PatchEntry(r) \/ SupersedeEntry(r) PROVE Keeps
  BY <1>5 DEF Keeps, PatchEntry, SupersedeEntry
<1>6. ASSUME NEW r \in KBRequests, SelectVerified(r) \/ SelectLink(r) \/ IntegrityError(r)
                                   \/ KBLocked(r)
      PROVE  Keeps
  BY <1>6 DEF Keeps, SelectVerified, SelectLink, IntegrityError, KBLocked, rows
<1>7. ASSUME NEW r \in KBRequests, WriteVerification(r) PROVE Inserts(r)
  BY <1>7 DEF Inserts, WriteVerification, At, Answer, Goto, Posts
<1>8. ASSUME NEW r \in KBRequests, WriteLink(r) PROVE Keeps \/ Inserts(r)
  BY <1>8 DEF Keeps, Inserts, WriteLink, At, Answer, Goto, Posts
<1>9. ASSUME KBCrash PROVE Keeps
  BY <1>9 DEF Keeps, KBCrash, rows
<1> QED
  BY <1>1, <1>2, <1>3, <1>4, <1>5, <1>6, <1>7, <1>8, <1>9 DEF KBNext, KBProceed

\* The step that brings a call to a stage.
Enters ==
    /\ \A q \in KBRequests : stage'[q] = "idle" => stage[q] = "idle" /\ before'[q] = before[q]
    /\ \A q \in KBRequests : stage[q] = "idle" /\ stage'[q] # "idle" => Arrive(q)
    /\ \A q \in KBRequests : stage'[q] = "lookup" /\ stage[q] # "lookup" => SelectSignature(q)
    /\ \A q \in KBRequests : stage'[q] = "write" /\ stage[q] # "write" =>
         \/ SelectSignature(q) \/ LookupQuestion(q) \/ SelectPatched(q) \/ SelectSuperseded(q)
         \/ SelectVerified(q) \/ SelectLink(q)
    /\ \A q \in KBRequests : stage'[q] = "conflict" /\ stage[q] # "conflict" => IntegrityError(q)
    /\ \A q \in KBRequests : match'[q] # match[q] => LookupQuestion(q)
    /\ \A q \in KBRequests :
         /\ stage'[q] = "answered" /\ stage[q] # "answered"
         /\ call[q].kind \in {"question", "issue"}
         => WriteQuestion(q)

LEMMA EntersNext == ASSUME KBTypeOK, KBNext PROVE Enters
<1> USE DEF KBTypeOK
<1>1. ASSUME NEW r \in KBRequests, Arrive(r) PROVE Enters
  BY <1>1 DEF Enters, Arrive, Goto, rows, seen
<1>2. ASSUME NEW r \in KBRequests, SelectSignature(r) PROVE Enters
  BY <1>2 DEF Enters, SelectSignature, At, Goto, rows
<1>3. ASSUME NEW r \in KBRequests, LookupQuestion(r) PROVE Enters
  BY <1>3 DEF Enters, LookupQuestion, At, Goto, rows
<1>4. ASSUME NEW r \in KBRequests, WriteEntry(r) PROVE Enters
  BY <1>4 DEF Enters, WriteEntry, At, Answer, Goto, seen
<1>5. ASSUME NEW r \in KBRequests, WriteQuestion(r) PROVE Enters
  BY <1>5 DEF Enters, WriteQuestion, At, Answer, Goto, seen
<1>6. ASSUME NEW r \in KBRequests, SelectPatched(r) \/ SelectSuperseded(r) PROVE Enters
  BY <1>6 DEF Enters, SelectPatched, SelectSuperseded, ReadField, Missing, At, Goto, rows
<1>7. ASSUME NEW r \in KBRequests, PatchEntry(r) \/ SupersedeEntry(r) PROVE Enters
  BY <1>7 DEF Enters, PatchEntry, SupersedeEntry, At, Answer, Goto, seen
<1>8. ASSUME NEW r \in KBRequests, SelectVerified(r) \/ SelectLink(r) PROVE Enters
  BY <1>8 DEF Enters, SelectVerified, SelectLink, At, Goto, rows, seen
<1>9. ASSUME NEW r \in KBRequests, WriteVerification(r) \/ WriteLink(r) PROVE Enters
  BY <1>9 DEF Enters, WriteVerification, WriteLink, At, Answer, Goto, seen
<1>10. ASSUME NEW r \in KBRequests, IntegrityError(r) \/ KBLocked(r) PROVE Enters
  BY <1>10 DEF Enters, IntegrityError, KBLocked, At, Goto, Working, rows, seen
<1>11. ASSUME KBCrash PROVE Enters
  BY <1>11 DEF Enters, KBCrash, Working, rows, seen
<1> QED
  BY <1>1, <1>2, <1>3, <1>4, <1>5, <1>6, <1>7, <1>8, <1>9, <1>10, <1>11 DEF KBNext, KBProceed

\* A step leaves entries and edits alone, or creates one entry, or edits one.
Still == UNCHANGED <<fields, edits>> /\ Entries' = Entries
Creates(r) ==
    /\ UNCHANGED edits /\ fields' = [fields EXCEPT ![r] = Original(call[r])]
    /\ Entries' = Entries \cup {r} /\ stage[r] = "write" /\ call' = call
Edited(r) ==
    /\ SetField(r) /\ AddEdit(r) /\ stage[r] = "write" /\ call[r].kind \in Edits
    /\ stage'[r] \in {"answered", "failed"}
    /\ UNCHANGED <<inserted, known, call, old, before>>

LEMMA FieldsNext ==
    ASSUME KBTypeOK, KBNext, \A q \in inserted : stage[q] # "idle"
    PROVE  Still \/ \E r \in KBRequests : Creates(r) \/ Edited(r)
<1> USE DEF KBTypeOK
<1>1. ASSUME NEW r \in KBRequests, Arrive(r) PROVE Still
  BY <1>1 DEF Still, Entries, Arrive, rows
<1>2. ASSUME NEW r \in KBRequests, SelectSignature(r) \/ LookupQuestion(r) \/ SelectPatched(r)
             \/ SelectSuperseded(r) \/ SelectVerified(r) \/ SelectLink(r)
      PROVE  Still
  BY <1>2 DEF Still, Entries, SelectSignature, LookupQuestion, SelectPatched, SelectSuperseded,
              SelectVerified, SelectLink, rows
<1>3. ASSUME NEW r \in KBRequests, WriteEntry(r) PROVE Creates(r)
  BY <1>3 DEF Creates, Entries, WriteEntry, At, seen
<1>4. ASSUME NEW r \in KBRequests, WriteQuestion(r) \/ WriteVerification(r) \/ WriteLink(r)
      PROVE  Still
  BY <1>4 DEF Still, Entries, WriteQuestion, WriteVerification, WriteLink, At
<1>5. ASSUME NEW r \in KBRequests, PatchEntry(r) \/ SupersedeEntry(r) PROVE Edited(r)
  BY <1>5 DEF Edited, Edits, PatchEntry, SupersedeEntry, At, Answer, Goto, seen
<1>6. ASSUME NEW r \in KBRequests, IntegrityError(r) \/ KBLocked(r) PROVE Still
  BY <1>6 DEF Still, Entries, IntegrityError, KBLocked, rows
<1>7. ASSUME KBCrash PROVE Still
  BY <1>7 DEF Still, Entries, KBCrash, rows
<1> QED
  BY <1>1, <1>2, <1>3, <1>4, <1>5, <1>6, <1>7 DEF KBNext, KBProceed

-----------------------------------------------------------------------------
\* KBIndInv is true at the start.
LEMMA InvInit == KBInit => KBIndInv
<1> SUFFICES ASSUME KBInit PROVE KBIndInv
  OBVIOUS
<1>1. KBTypeOK
  BY TypeInit
<1>2. \A e \in DOMAIN Earlier :
        /\ e \in KBRequests /\ call[e] = Earlier[e] /\ stage[e] = "answered"
        /\ Earlier[e] \in Call /\ Earlier[e].kind \in {"entry", "question"}
  BY EarlierAssumption DEF KBInit
<1>3. \A r \in KBRequests : stage[r] \in {"idle", "answered"} /\ before[r] = {} /\ match[r] = Nothing
  BY DEF KBInit
<1>4. \A r \in KBRequests : stage[r] = "answered" => r \in DOMAIN Earlier
  BY DEF KBInit
<1>5. inserted = DOMAIN Earlier /\ edits = << >> /\ Len(edits) = 0 /\ DOMAIN edits = {}
  BY DEF KBInit
<1>6. known = UNION {HashesOf(Earlier[e]) : e \in DOMAIN Earlier}
  BY DEF KBInit
<1>7. RowsAgree
  BY <1>2, <1>5, <1>6 DEF RowsAgree, Edits, Posts
<1>8. ASSUME NEW r \in KBRequests PROVE CallAgrees(r) /\ QuestionThere(r) /\ WriterAgrees(r)
  BY <1>2, <1>3, <1>4, <1>5 DEF CallAgrees, QuestionThere, WriterAgrees, Questions, SameIssue
<1>9. ConflictHasRival /\ IssueReused /\ HistoryIsChain
  BY <1>3, <1>5, <1>1 DEF ConflictHasRival, IssueReused, HistoryIsChain, Questions, KBTypeOK
<1>10. RowMatchesHistory
  <2> SUFFICES ASSUME NEW e \in Entries, NEW f \in {"text", "superseded_by"} PROVE LastEdit(e, f, 0)
    BY <1>5 DEF RowMatchesHistory
  <2>1. e \in DOMAIN Earlier /\ Earlier[e].kind = "entry"
    BY <1>2, <1>5 DEF Entries
  <2>2. fields[e] = Original(call[e])
    BY <1>2, <2>1 DEF KBInit
  <2> QED
    BY <1>5, <2>2 DEF LastEdit
<1> QED
  BY <1>1, <1>7, <1>8, <1>9, <1>10 DEF KBIndInv

\* The facts about the step that the next lemmas use.
LEMMA StepFacts ==
    ASSUME KBIndInv, KBNext
    PROVE  /\ KBTypeOK /\ KBTypeOK' /\ Frame /\ Enters
           /\ Keeps \/ \E r \in KBRequests : Inserts(r)
           /\ Still \/ \E r \in KBRequests : Creates(r) \/ Edited(r)
           /\ \A q \in inserted : /\ q \in KBRequests /\ stage[q] \in {"answered", "failed"}
                                  /\ call'[q] = call[q]
           /\ \A r \in KBRequests : \A q \in before[r] :
                  q \in KBRequests /\ stage[q] = "answered" /\ call'[q] = call[q]
<1>1. KBTypeOK /\ \A r \in KBRequests : stage[r] # "idle" => call[r] \in Call
  BY DEF KBIndInv, CallAgrees
<1>2. KBTypeOK' /\ Frame /\ Enters
  BY <1>1, TypeNext, FrameNext, EntersNext
<1>3. \A q \in inserted : q \in KBRequests /\ stage[q] \in {"answered", "failed"}
  BY <1>1 DEF KBIndInv, RowsAgree, KBTypeOK
<1>4. \A r \in KBRequests : \A q \in before[r] : q \in KBRequests /\ stage[q] = "answered"
  BY <1>1 DEF KBIndInv, CallAgrees, KBTypeOK
<1>5. Keeps \/ \E r \in KBRequests : Inserts(r)
  BY <1>1, RowsNext DEF KBIndInv, RowsAgree
<1>6. Still \/ \E r \in KBRequests : Creates(r) \/ Edited(r)
  BY <1>1, <1>3, FieldsNext
<1>7. \A q \in KBRequests : stage[q] # "idle" => call'[q] = call[q]
  BY <1>2 DEF Frame
<1> QED
  BY <1>1, <1>2, <1>3, <1>4, <1>5, <1>6, <1>7

LEMMA RowsKept == ASSUME KBIndInv, KBNext PROVE RowsAgree'
<1>1. RowsAgree
  BY DEF KBIndInv
<1>2. \A r \in inserted' : stage'[r] \in {"answered", "failed"} /\ call'[r].kind \notin Edits
  <2>1. ASSUME NEW r \in inserted PROVE stage'[r] \in {"answered", "failed"} /\ call'[r].kind \notin Edits
    BY <1>1, StepFacts DEF RowsAgree, Frame, Ended
  <2>2. ASSUME NEW r \in KBRequests, Inserts(r)
        PROVE  stage'[r] \in {"answered", "failed"} /\ call'[r].kind \notin Edits
    BY <2>2, StepFacts DEF Inserts, Frame, Posts, Edits
  <2> QED BY <2>1, <2>2, StepFacts DEF Keeps, Inserts
<1>3. \A i \in DOMAIN edits' :
        /\ stage'[edits'[i]] \in {"answered", "failed"}
        /\ call'[edits'[i]].kind \in Edits /\ call'[edits'[i]].entry \in Entries'
  <2>1. Entries \subseteq Entries'
    BY StepFacts DEF Entries, Frame
  <2>2. ASSUME NEW q \in KBRequests, stage[q] \in {"answered", "failed"}
        PROVE  stage'[q] = stage[q] /\ call'[q] = call[q]
    BY <2>2, StepFacts DEF Frame, Ended
  <2>3. edits \in Seq(KBRequests) /\ edits' \in Seq(KBRequests)
    BY StepFacts DEF KBTypeOK
  <2>4. CASE edits' = edits
    BY <1>1, <2>1, <2>2, <2>3, <2>4 DEF RowsAgree
  <2>5. ASSUME NEW r \in KBRequests, Edited(r)
        PROVE  \A i \in DOMAIN edits' :
                 /\ stage'[edits'[i]] \in {"answered", "failed"}
                 /\ call'[edits'[i]].kind \in Edits /\ call'[edits'[i]].entry \in Entries'
    <3>1. edits' = Append(edits, r)
      BY <2>5 DEF Edited, AddEdit
    <3>2. call[r].entry \in Entries
      BY <2>5 DEF KBIndInv, WriterAgrees, Edited
    <3>3. /\ stage'[r] \in {"answered", "failed"} /\ call'[r].kind \in Edits
          /\ call'[r].entry \in Entries'
      BY <2>5, <2>1, <3>2 DEF Edited
    <3>4. ASSUME NEW i \in DOMAIN edits', edits'[i] # r PROVE i \in DOMAIN edits /\ edits'[i] = edits[i]
      BY <3>1, <3>4, <2>3
    <3> QED
      BY <1>1, <2>1, <2>2, <2>3, <3>3, <3>4 DEF RowsAgree
  <2> QED
    BY <2>4, <2>5, StepFacts DEF Still, Creates
<1>4. \A h \in known' : \E q \in inserted' : call'[q].kind \in Posts /\ h \in HashesOf(call'[q])
  <2>1. \A h \in known : \E q \in inserted' : call'[q].kind \in Posts /\ h \in HashesOf(call'[q])
    BY <1>1, StepFacts DEF RowsAgree, Frame
  <2>2. ASSUME NEW r \in KBRequests, Inserts(r), NEW h \in known' \ known
        PROVE  r \in inserted' /\ call'[r].kind \in Posts /\ h \in HashesOf(call'[r])
    BY <2>2, StepFacts DEF Inserts, Frame
  <2> QED BY <2>1, <2>2, StepFacts DEF Keeps
<1>5. \A q \in inserted' : call'[q].kind \in Posts => HashesOf(call'[q]) \subseteq known'
  <2>1. ASSUME NEW q \in inserted, call'[q].kind \in Posts PROVE HashesOf(call'[q]) \subseteq known'
    BY <1>1, <2>1, StepFacts DEF RowsAgree, Frame
  <2>2. ASSUME NEW r \in KBRequests, Inserts(r), call'[r].kind \in Posts
        PROVE  HashesOf(call'[r]) \subseteq known'
    BY <2>2, StepFacts DEF Inserts, Frame
  <2> QED BY <2>1, <2>2, StepFacts DEF Keeps, Inserts
<1> QED
  BY <1>2, <1>3, <1>4, <1>5 DEF RowsAgree

LEMMA CallKept == ASSUME KBIndInv, KBNext, NEW r \in KBRequests PROVE CallAgrees(r)'
<1>1. CallAgrees(r)
  BY DEF KBIndInv
<1>2. stage'[r] # "idle" => call'[r] \in Call
  <2>1. CASE stage[r] # "idle"
    BY <1>1, <2>1, StepFacts DEF CallAgrees, Frame
  <2>2. CASE stage[r] = "idle" /\ stage'[r] # "idle"
    BY <2>2, StepFacts, KBCallsAssumption DEF Enters, Arrive, KBTypeOK
  <2> QED BY <2>1, <2>2
<1>3. \A q \in before'[r] : stage'[q] = "answered"
  <2>1. before'[r] = before[r] \/ (stage[r] = "idle" /\ Arrive(r))
    BY StepFacts DEF Frame, Enters
  <2>2. CASE before'[r] = before[r]
    BY <2>2, StepFacts DEF Frame, Ended
  <2>3. CASE stage[r] = "idle" /\ Arrive(r)
    BY <2>3, StepFacts DEF Arrive, Goto, KBTypeOK
  <2> QED BY <2>1, <2>2, <2>3
<1>4. stage'[r] = "lookup" => call'[r].kind = "issue" /\ found'[r]
  <2>1. CASE stage[r] = "lookup"
    BY <1>1, <2>1, StepFacts DEF CallAgrees, Frame
  <2>2. CASE SelectSignature(r) /\ stage'[r] = "lookup"
    BY <2>2, StepFacts DEF SelectSignature, Goto, KBTypeOK
  <2> QED BY <2>1, <2>2, StepFacts DEF Enters
<1>5. CASE match'[r] = match[r]
  <2>1. stage'[r] \in {"idle", "select", "lookup"} => match'[r] = Nothing
    <3>1. stage'[r] \in {"idle", "select", "lookup"} => stage[r] \in {"idle", "select", "lookup"}
      <4>1. stage[r] \in Working \cup Ended \cup {"idle"}
        BY StepFacts DEF KBTypeOK
      <4>2. CASE stage[r] \in Ended
        BY <4>2, StepFacts DEF Frame, Ended
      <4>3. CASE stage[r] = "write"
        BY <4>3, StepFacts DEF Frame, Ended
      <4> QED BY <4>1, <4>2, <4>3 DEF Working
    <3> QED BY <1>1, <1>5, <3>1 DEF CallAgrees
  <2>2. match'[r] # Nothing => match'[r] \in Questions' /\ SameIssue(match[r], r)'
    <3> SUFFICES ASSUME match'[r] # Nothing
                 PROVE  match'[r] \in Questions' /\ SameIssue(match[r], r)'
      OBVIOUS
    <3>1. match[r] \in Questions /\ SameIssue(match[r], r) /\ stage[r] # "idle"
      BY <1>1, <1>5 DEF CallAgrees
    <3>2. call'[r] = call[r] /\ call'[match[r]] = call[match[r]] /\ match[r] \in inserted'
      BY <3>1, StepFacts DEF Questions, Frame
    <3> QED BY <1>5, <3>1, <3>2 DEF Questions, SameIssue, Hash
  <2> QED BY <1>2, <1>3, <1>4, <2>1, <2>2 DEF CallAgrees
<1>6. CASE LookupQuestion(r)
  <2>1. stage'[r] = "write" /\ call' = call /\ inserted' = inserted
    BY <1>6, StepFacts DEF LookupQuestion, Goto, KBTypeOK, rows
  <2>2. match'[r] = Nothing \/ match'[r] \in SameQuestions(r)
    BY <1>6, StepFacts DEF LookupQuestion, KBTypeOK
  <2>3. match'[r] # Nothing => match'[r] \in Questions' /\ SameIssue(match[r], r)'
    BY <2>1, <2>2 DEF SameQuestions, Questions, SameIssue, Hash
  <2> QED BY <1>2, <1>3, <1>4, <2>1, <2>3 DEF CallAgrees
<1> QED
  BY <1>5, <1>6, StepFacts DEF Enters

LEMMA QuestionKept == ASSUME KBIndInv, KBNext, NEW r \in KBRequests PROVE QuestionThere(r)'
<1> SUFFICES ASSUME stage'[r] = "answered", call'[r].kind \in {"question", "issue"}
             PROVE  \E q \in Questions' : SameIssue(q, r)'
  BY DEF QuestionThere
<1>1. call'[r] = call[r] /\ stage[r] \in {"write", "answered"}
  BY StepFacts DEF Frame
<1>2. \A q \in Questions : SameIssue(q, r) => q \in Questions' /\ SameIssue(q, r)'
  BY <1>1, StepFacts DEF Frame, Questions, SameIssue, Hash
<1>3. CASE stage[r] = "answered"
  BY <1>1, <1>2, <1>3 DEF KBIndInv, QuestionThere
<1>4. CASE WriteQuestion(r) /\ match[r] = Nothing
  BY <1>1, <1>4 DEF WriteQuestion, Questions, SameIssue
<1>5. CASE match[r] # Nothing
  BY <1>2, <1>5 DEF KBIndInv, CallAgrees
<1> QED
  BY <1>1, <1>3, <1>4, <1>5, StepFacts DEF Enters

LEMMA ConflictKept == ASSUME KBIndInv, KBNext PROVE ConflictHasRival'
<1> DEFINE Rival(q, r) == /\ q # r
                          /\ \/ /\ call[r].kind \in Posts /\ call[q].kind \in Posts
                                /\ Hash(r) \in HashesOf(call[q])
                             \/ call[r].kind = "link" /\ call[q].kind = "link" /\ SameLink(q, r)
<1> SUFFICES ASSUME NEW r \in KBRequests, stage'[r] = "conflict"
             PROVE  \/ call'[r].kind = "entry" /\ TwiceMatched(r)'
                    \/ \E q \in inserted' \ before'[r] : Rival(q, r)'
  BY DEF ConflictHasRival
<1>1. stage[r] # "idle" /\ call'[r] = call[r] /\ before'[r] = before[r]
  BY StepFacts DEF Frame, Enters, Arrive, Goto, KBTypeOK
<1>2. TwiceMatched(r)' <=> TwiceMatched(r)
  BY <1>1 DEF TwiceMatched, Hash
<1>3. \A q \in inserted \ before[r] : Rival(q, r) => q \in inserted' \ before'[r] /\ Rival(q, r)'
  BY <1>1, StepFacts DEF Frame, Hash, SameLink
<1>4. CASE stage[r] = "conflict"
  BY <1>1, <1>2, <1>3, <1>4 DEF KBIndInv, ConflictHasRival
<1>5. CASE IntegrityError(r)
  <2>1. stage[r] = "write" /\ r \notin inserted /\ WriterAgrees(r)
    BY <1>5, StepFacts DEF IntegrityError, At, KBIndInv
  <2>2. CASE At(r, Posts, "write") /\ SignatureTaken(r)
    <3>1. PICK q \in inserted : call[q].kind \in Posts /\ Hash(r) \in HashesOf(call[q])
      BY <2>2 DEF SignatureTaken, KBIndInv, RowsAgree
    <3>2. q \notin before[r]
      BY <2>1, <2>2, <3>1 DEF WriterAgrees, At, SignatureTaken
    <3> QED BY <1>3, <2>1, <2>2, <3>1, <3>2 DEF At
  <2>3. CASE At(r, {"entry"}, "write") /\ TwiceMatched(r)
    BY <1>1, <1>2, <2>3 DEF At
  <2>4. CASE At(r, {"link"}, "write") /\ LinkTaken(r)
    <3>1. PICK q \in inserted : call[q].kind = "link" /\ SameLink(q, r)
      BY <2>4 DEF LinkTaken, Linked
    <3>2. q \notin before[r]
      BY <2>1, <2>4, <3>1 DEF WriterAgrees, At, LinkTaken
    <3> QED BY <1>3, <2>1, <2>4, <3>1, <3>2 DEF At
  <2> QED BY <1>5, <2>2, <2>3, <2>4 DEF IntegrityError
<1> QED
  BY <1>4, <1>5, StepFacts DEF Enters

LEMMA IssueKept == ASSUME KBIndInv, KBNext PROVE IssueReused'
<1> SUFFICES ASSUME NEW r \in Questions', call'[r].kind = "issue", NEW q \in before'[r],
                    call'[q].kind \in {"question", "issue"}, SameIssue(q, r)'
             PROVE  FALSE
  BY DEF IssueReused
<1>1. r \in KBRequests /\ r \in inserted'
  BY StepFacts DEF Questions, KBTypeOK
<1>2. r \in inserted \/ Inserts(r)
  BY <1>1, StepFacts DEF Keeps, Inserts
<1>3. stage[r] # "idle" /\ call'[r] = call[r] /\ before'[r] = before[r]
  BY <1>1, <1>2, StepFacts DEF Frame, Inserts
<1>4. call'[q] = call[q]
  BY <1>1, <1>3, StepFacts
<1>5. call[r].kind = "issue" /\ call[q].kind \in {"question", "issue"} /\ SameIssue(q, r)
  BY <1>3, <1>4 DEF SameIssue, Hash
<1>6. CASE r \in inserted
  BY <1>3, <1>5, <1>6 DEF KBIndInv, IssueReused, Questions
<1>7. CASE Inserts(r)
  BY <1>1, <1>3, <1>5, <1>7 DEF KBIndInv, WriterAgrees, Inserts
<1> QED BY <1>2, <1>6, <1>7

-----------------------------------------------------------------------------
\* A step appends to the edits at most, and leaves what an edit was about.
LEMMA EditsFacts ==
    ASSUME KBIndInv, KBNext
    PROVE  /\ edits \in Seq(KBRequests) /\ edits' \in Seq(KBRequests)
           /\ Len(edits) \in Nat /\ DOMAIN edits = 1..Len(edits) /\ DOMAIN edits' = 1..Len(edits')
           /\ \/ edits' = edits
              \/ /\ Len(edits') = Len(edits) + 1 /\ Edited(edits'[Len(edits) + 1])
                 /\ edits'[Len(edits) + 1] \in KBRequests
           /\ \A k \in 1..Len(edits) :
                /\ k \in 1..Len(edits') /\ edits'[k] = edits[k] /\ edits[k] \in KBRequests
                /\ call'[edits[k]] = call[edits[k]] /\ old'[edits[k]] = old[edits[k]]
                /\ stage[edits[k]] \in {"answered", "failed"}
                /\ call[edits[k]].kind \in Edits /\ call[edits[k]].entry \in Entries
<1>1. /\ edits \in Seq(KBRequests) /\ edits' \in Seq(KBRequests)
      /\ Len(edits) \in Nat /\ DOMAIN edits = 1..Len(edits) /\ DOMAIN edits' = 1..Len(edits')
  BY StepFacts DEF KBTypeOK
<1>2. ASSUME NEW r \in KBRequests, Edited(r)
      PROVE  /\ Len(edits') = Len(edits) + 1 /\ edits'[Len(edits) + 1] = r
             /\ \A k \in 1..Len(edits) : k \in 1..Len(edits') /\ edits'[k] = edits[k]
  BY <1>1, <1>2 DEF Edited, AddEdit
<1>3. edits' = edits \/ \E r \in KBRequests : Edited(r)
  BY StepFacts DEF Still, Creates
<1>4. \A k \in 1..Len(edits) :
        /\ edits[k] \in KBRequests /\ stage[edits[k]] \in {"answered", "failed"}
        /\ call[edits[k]].kind \in Edits /\ call[edits[k]].entry \in Entries
  BY <1>1 DEF KBIndInv, RowsAgree
<1>5. \A k \in 1..Len(edits) : call'[edits[k]] = call[edits[k]] /\ old'[edits[k]] = old[edits[k]]
  BY <1>4, StepFacts DEF Frame
<1> QED
  BY <1>1, <1>2, <1>3, <1>4, <1>5

\* What a request saw of the first n edits stays so.
LEMMA SawKept ==
    ASSUME KBIndInv, KBNext, NEW r \in KBRequests, NEW n \in 0..Len(edits),
           Saw(r, n), stage[r] \notin {"idle", "select"}, call[r].entry \in Entries
    PROVE  Saw(r, n)'
<1>1. /\ call'[r] = call[r] /\ before'[r] = before[r] /\ old'[r] = old[r]
      /\ call'[call[r].entry] = call[call[r].entry]
  BY StepFacts DEF Frame, Entries
<1>2. ASSUME NEW k \in 1..n
      PROVE  /\ IsEditOf(k, r)' <=> IsEditOf(k, r)
             /\ ValueAfter(k, r)' = ValueAfter(k, r) /\ edits'[k] = edits[k]
  <2>1. k \in 1..Len(edits) /\ k # 0
    <3>1. Len(edits) \in Nat
      BY EditsFacts
    <3> QED BY <3>1
  <2>2. edits'[k] = edits[k] /\ call'[edits[k]] = call[edits[k]] /\ old'[edits[k]] = old[edits[k]]
    BY <2>1, EditsFacts
  <2> QED
    BY <1>1, <2>1, <2>2 DEF IsEditOf, ValueAfter, SameCell, Field, Effective
<1>3. ValueAfter(0, r)' = ValueAfter(0, r)
  BY <1>1 DEF ValueAfter, Original, Field
<1>4. PICK i \in 0..n :
        /\ i > 0 => IsEditOf(i, r)
        /\ old[r] = ValueAfter(i, r)
        /\ \A k \in (i + 1)..n : IsEditOf(k, r) => edits[k] \notin before[r]
  BY DEF Saw
<1>5. /\ i > 0 => IsEditOf(i, r)'
      /\ old'[r] = ValueAfter(i, r)'
  BY <1>1, <1>2, <1>3, <1>4
<1>6. \A k \in (i + 1)..n : IsEditOf(k, r)' => edits'[k] \notin before'[r]
  BY <1>1, <1>2, <1>4
<1> QED
  BY <1>5, <1>6 DEF Saw

LEMMA HistoryKept == ASSUME KBIndInv, KBNext PROVE HistoryIsChain'
<1> SUFFICES ASSUME NEW j \in 1..Len(edits') PROVE Saw(edits[j], j - 1)'
  BY EditsFacts DEF HistoryIsChain
<1>1. CASE j \in 1..Len(edits)
  <2>1. /\ Saw(edits[j], j - 1) /\ edits[j] \in KBRequests /\ edits'[j] = edits[j]
        /\ stage[edits[j]] \in {"answered", "failed"} /\ call[edits[j]].entry \in Entries
        /\ j - 1 \in 0..Len(edits)
    BY <1>1, EditsFacts DEF KBIndInv, HistoryIsChain
  <2>2. PICK r \in KBRequests : r = edits[j]
    BY <2>1
  <2>3. Saw(r, j - 1)'
    BY <2>1, <2>2, SawKept
  <2> QED BY <2>1, <2>2, <2>3
<1>2. CASE j \notin 1..Len(edits)
  <2>1. j = Len(edits) + 1 /\ Edited(edits'[j]) /\ edits'[j] \in KBRequests
    <3>1. /\ Len(edits) \in Nat
          /\ \/ edits' = edits
             \/ /\ Len(edits') = Len(edits) + 1 /\ Edited(edits'[Len(edits) + 1])
                /\ edits'[Len(edits) + 1] \in KBRequests
      BY EditsFacts
    <3>2. edits' # edits
      BY <1>2
    <3>3. j = Len(edits) + 1
      BY <1>2, <3>1, <3>2
    <3> QED BY <3>1, <3>2, <3>3
  <2>2. PICK r \in KBRequests : r = edits'[j]
    BY <2>1
  <2>3. Saw(r, Len(edits)) /\ call[r].entry \in Entries /\ stage[r] = "write"
    BY <2>1, <2>2 DEF Edited, KBIndInv, WriterAgrees
  <2>4. j - 1 = Len(edits) /\ j - 1 \in 0..Len(edits)
    <3>1. Len(edits) \in Nat
      BY EditsFacts
    <3> QED BY <2>1, <3>1
  <2>5. Saw(r, j - 1)'
    BY <2>3, <2>4, SawKept
  <2> QED BY <2>2, <2>5
<1> QED BY <1>1, <1>2

LEMMA RowHistoryKept == ASSUME KBIndInv, KBNext PROVE RowMatchesHistory'
<1> SUFFICES ASSUME NEW e \in Entries', NEW f \in {"text", "superseded_by"}
             PROVE  \E i \in 0..Len(edits') : LastEdit(e, f, i)'
  BY DEF RowMatchesHistory
<1> DEFINE Of(k) == call[edits[k]].entry = e /\ Field(edits[k]) = f /\ Effective(edits[k])
<1>1. \A k \in 1..Len(edits) : /\ Of(k)' <=> Of(k)
                               /\ call'[edits'[k]] = call[edits[k]]
  BY EditsFacts DEF Field, Effective
<1>2. ASSUME e \in Entries, edits' = edits, fields'[e][f] = fields[e][f], call'[e] = call[e]
      PROVE  \E i \in 0..Len(edits') : LastEdit(e, f, i)'
  <2>1. PICK i \in 0..Len(edits) : LastEdit(e, f, i)
    BY <1>2 DEF KBIndInv, RowMatchesHistory
  <2>2. LastEdit(e, f, i)'
    BY <1>1, <1>2, <2>1, EditsFacts DEF LastEdit, Original
  <2> QED BY <1>2, <2>1, <2>2
<1>3. CASE Still
  <2>1. e \in Entries /\ call'[e] = call[e]
    BY <1>3, StepFacts DEF Still, Entries
  <2> QED BY <1>2, <1>3, <2>1 DEF Still
<1>4. ASSUME NEW r \in KBRequests, Creates(r) PROVE \E i \in 0..Len(edits') : LastEdit(e, f, i)'
  <2>1. CASE e = r
    <3>1. r \notin Entries
      BY <1>4, StepFacts DEF Creates, Entries
    <3>2. \A k \in 1..Len(edits) : ~Of(k)
      BY <2>1, <3>1, EditsFacts
    <3>3. fields'[e][f] = Original(call'[e])[f] /\ edits' = edits
      BY <1>4, <2>1, StepFacts DEF Creates, KBTypeOK
    <3>4. LastEdit(e, f, 0)'
      BY <1>1, <3>2, <3>3, EditsFacts DEF LastEdit, Original
    <3> QED BY <3>3, <3>4, EditsFacts
  <2>2. CASE e # r
    <3>1. e \in Entries /\ edits' = edits /\ fields'[e] = fields[e] /\ call'[e] = call[e]
      BY <1>4, <2>2, StepFacts DEF Creates, KBTypeOK, Entries
    <3> QED BY <1>2, <3>1
  <2> QED BY <2>1, <2>2
<1>5. ASSUME NEW r \in KBRequests, Edited(r) PROVE \E i \in 0..Len(edits') : LastEdit(e, f, i)'
  <2>1. e \in Entries /\ call' = call /\ old' = old
    BY <1>5 DEF Edited, Entries
  <2>2. PICK n \in Nat : n = Len(edits)
    BY EditsFacts
  <2>3. Len(edits') = n + 1 /\ edits'[n + 1] = r
    <3>1. edits' = Append(edits, r) /\ edits \in Seq(KBRequests)
      BY <1>5, EditsFacts DEF Edited, AddEdit
    <3> QED BY <2>2, <3>1
  <2>4. CASE call[r].entry = e /\ Field(r) = f /\ Effective(r)
    <3>1. Of(n + 1)'
      BY <2>1, <2>3, <2>4 DEF Field, Effective
    <3>2. fields'[e][f] = call[r].new
      <4>1. fields' = [fields EXCEPT ![e][f] = call[r].new]
        BY <1>5, <2>4 DEF Edited, SetField, Effective
      <4>2. fields \in [KBRequests -> [{"text", "superseded_by"} -> Value]] /\ e \in KBRequests
        BY <2>1, StepFacts DEF KBTypeOK, Entries
      <4> QED BY <4>1, <4>2
    <3>3. LastEdit(e, f, n + 1)'
      BY <2>1, <2>3, <3>1, <3>2 DEF LastEdit
    <3> QED BY <2>3, <3>3
  <2>5. CASE ~(call[r].entry = e /\ Field(r) = f /\ Effective(r))
    <3>1. fields'[e][f] = fields[e][f]
      <4>1. CASE call[r].new = old[r]
        BY <1>5, <4>1 DEF Edited, SetField
      <4>2. CASE ~(call[r].entry = e /\ Field(r) = f)
        <5>1. /\ fields \in [KBRequests -> [{"text", "superseded_by"} -> Value]]
              /\ e \in KBRequests
          BY <2>1, StepFacts DEF KBTypeOK, Entries
        <5>2. \/ fields' = fields
              \/ fields' = [fields EXCEPT ![call[r].entry][Field(r)] = call[r].new]
          BY <1>5 DEF Edited, SetField
        <5> QED BY <4>2, <5>1, <5>2
      <4> QED BY <2>5, <4>1, <4>2 DEF Effective
    <3>2. ~Of(n + 1)'
      BY <2>1, <2>3, <2>5 DEF Field, Effective
    <3>3. PICK i \in 0..n : LastEdit(e, f, i)
      BY <2>1, <2>2 DEF KBIndInv, RowMatchesHistory
    <3>4. \A k \in (i + 1)..(n + 1) : ~Of(k)'
      BY <1>1, <2>2, <3>2, <3>3 DEF LastEdit
    <3>5. i > 0 => /\ Of(i)' /\ fields'[e][f] = call'[edits'[i]].new
      BY <1>1, <2>2, <3>1, <3>3 DEF LastEdit
    <3>6. i = 0 => fields'[e][f] = Original(call[e])[f]'
      BY <2>1, <3>1, <3>3 DEF LastEdit, Original
    <3>7. LastEdit(e, f, i)'
      BY <2>3, <3>4, <3>5, <3>6 DEF LastEdit
    <3> QED BY <2>3, <3>3, <3>7
  <2> QED BY <2>4, <2>5
<1> QED
  BY <1>3, <1>4, <1>5, StepFacts

\* A writer saw all the edits but those of requests that overlap with it.
LEMMA SawAll ==
    ASSUME KBIndInv, KBNext, NEW r \in KBRequests, stage[r] = "write", stage'[r] = "write",
           Saw(r, Len(edits)), call[r].entry \in Entries
    PROVE  Saw(r, Len(edits))'
<1>1. PICK n \in Nat : n = Len(edits)
  BY EditsFacts
<1>2. Saw(r, n)'
  <2>1. Saw(r, n) /\ n \in 0..Len(edits)
    BY <1>1
  <2> QED BY <2>1, SawKept
<1>3. CASE edits' = edits
  BY <1>1, <1>2, <1>3
<1>4. CASE edits' # edits
  <2>1. Len(edits') = n + 1 /\ Edited(edits'[n + 1])
    BY <1>1, <1>4, EditsFacts
  <2>2. edits'[n + 1] \notin before'[r]
    BY <2>1, StepFacts DEF Edited, Frame
  <2>3. PICK i \in 0..n :
          /\ (i > 0 => IsEditOf(i, r))' /\ (old[r] = ValueAfter(i, r))'
          /\ \A k \in (i + 1)..n : (IsEditOf(k, r) => edits[k] \notin before[r])'
    BY <1>2 DEF Saw
  <2>4. \A k \in (i + 1)..(n + 1) : (IsEditOf(k, r) => edits[k] \notin before[r])'
    BY <2>2, <2>3
  <2>5. Saw(r, n + 1)'
    BY <2>3, <2>4 DEF Saw
  <2> QED BY <2>1, <2>5
<1> QED BY <1>3, <1>4

\* The select of an edit sees the value of the last effective one.
LEMMA SawLast ==
    ASSUME KBIndInv, KBNext, NEW r \in KBRequests, ReadField(r), stage[r] = "select",
           call[r].entry \in Entries, UNCHANGED <<fields, edits, call, before>>
    PROVE  Saw(r, Len(edits))'
<1>1. PICK n \in Nat : n = Len(edits)
  BY EditsFacts
<1>2. Field(r) \in {"text", "superseded_by"}
  BY DEF Field
<1>3. PICK i \in 0..n : LastEdit(call[r].entry, Field(r), i)
  BY <1>1, <1>2 DEF KBIndInv, RowMatchesHistory
<1>4. \A k \in 1..n : /\ k # 0 /\ edits'[k] = edits[k]
                      /\ IsEditOf(k, r)' <=> IsEditOf(k, r)
  BY <1>1, EditsFacts DEF IsEditOf, SameCell, Field, Effective
<1>5. old'[r] = fields[call[r].entry][Field(r)]
  BY StepFacts DEF ReadField, KBTypeOK
<1>6. i > 0 => IsEditOf(i, r)'
  BY <1>3, <1>4 DEF LastEdit, IsEditOf, SameCell
<1>7. old'[r] = ValueAfter(i, r)'
  BY <1>3, <1>5 DEF LastEdit, ValueAfter, Original, Field
<1>8. \A k \in (i + 1)..n : ~IsEditOf(k, r)'
  BY <1>1, <1>3, <1>4 DEF LastEdit, IsEditOf, SameCell
<1>9. Saw(r, n)'
  BY <1>6, <1>7, <1>8 DEF Saw
<1> QED BY <1>1, <1>9

LEMMA WriterKept == ASSUME KBIndInv, KBNext, NEW r \in KBRequests PROVE WriterAgrees(r)'
<1> SUFFICES ASSUME stage'[r] = "write" PROVE WriterAgrees(r)'
  BY DEF WriterAgrees
<1> DEFINE Asks(q) == call[q].kind \in {"question", "issue"} /\ SameIssue(q, r)
<1>1. stage[r] # "idle" /\ call'[r] = call[r] /\ before'[r] = before[r]
  BY StepFacts DEF Frame, Enters, Arrive, Goto, KBTypeOK
<1>2. \A q \in before[r] : /\ stage[q] = "answered" /\ call'[q] = call[q] /\ q \in KBRequests
                           /\ q \in inserted' => q \in inserted
  BY StepFacts DEF Inserts, Keeps
<1>3. ASSUME NEW q \in before[r], Asks(q)
      PROVE  \E p \in Questions : SameIssue(p, r) /\ Hash(r) \in known
  <2>1. PICK p \in Questions : SameIssue(p, q)
    <3>1. stage[q] = "answered" /\ call[q].kind \in {"question", "issue"} /\ q \in KBRequests
      BY <1>2, <1>3
    <3>2. QuestionThere(q)
      BY <3>1 DEF KBIndInv
    <3> QED BY <3>1, <3>2 DEF QuestionThere
  <2>2. SameIssue(p, r) /\ Hash(p) = Hash(r)
    BY <1>3, <2>1 DEF SameIssue
  <2>3. call[p].kind \in Posts /\ p \in inserted /\ HashesOf(call[p]) = {Hash(p)}
    BY <2>1 DEF Questions, Posts, HashesOf, Inputs, Hash
  <2>4. Hash(r) \in known
    BY <2>2, <2>3 DEF KBIndInv, RowsAgree
  <2> QED BY <2>2, <2>4
<1>4. CASE stage[r] = "write"
  <2>1. match'[r] = match[r] /\ found'[r] = found[r]
    BY <1>4, StepFacts DEF Frame
  <2>2. WriterAgrees(r)
    BY DEF KBIndInv
  <2>3. ASSUME call'[r].kind \in Posts, ~found'[r], NEW q \in before'[r] \cap inserted',
               call'[q].kind \in Posts
        PROVE  Hash(r)' \notin HashesOf(call[q])'
    <3>1. q \in before[r] \cap inserted /\ call'[q] = call[q] /\ call[q].kind \in Posts
      BY <1>1, <1>2, <2>3
    <3>2. call[r].kind \in Posts /\ ~found[r]
      BY <1>1, <2>1, <2>3
    <3>3. Hash(r) \notin HashesOf(call[q])
      BY <1>4, <2>2, <3>1, <3>2 DEF WriterAgrees
    <3> QED BY <1>1, <3>1, <3>3 DEF Hash
  <2>4. ASSUME call'[r].kind = "link", ~found'[r], NEW q \in before'[r] \cap inserted',
               call'[q].kind = "link"
        PROVE  ~SameLink(q, r)'
    <3>1. q \in before[r] \cap inserted /\ call'[q] = call[q] /\ call[q].kind = "link"
      BY <1>1, <1>2, <2>4
    <3>2. call[r].kind = "link" /\ ~found[r]
      BY <1>1, <2>1, <2>4
    <3>3. ~SameLink(q, r)
      BY <1>4, <2>2, <3>1, <3>2 DEF WriterAgrees
    <3> QED BY <1>1, <3>1, <3>3 DEF SameLink
  <2>5. ASSUME call'[r].kind = "issue", match'[r] = Nothing, NEW q \in before'[r], Asks(q)'
        PROVE  FALSE
    <3>1. q \in before[r] /\ call'[q] = call[q] /\ Asks(q)
      BY <1>1, <1>2, <2>5 DEF SameIssue, Hash
    <3>2. call[r].kind = "issue" /\ match[r] = Nothing
      BY <1>1, <2>1, <2>5
    <3> QED BY <1>4, <2>2, <3>1, <3>2 DEF WriterAgrees
  <2>6. call'[r].kind \in Edits => call'[r].entry \in Entries' /\ Saw(r, Len(edits))'
    <3> SUFFICES ASSUME call[r].kind \in Edits
                 PROVE  call'[r].entry \in Entries' /\ Saw(r, Len(edits))'
      BY <1>1
    <3>1. call[r].entry \in Entries /\ Saw(r, Len(edits))
      BY <1>4, <2>2 DEF WriterAgrees
    <3>2. call'[r].entry \in Entries'
      BY <1>1, <3>1, StepFacts DEF Entries, Frame
    <3>3. Saw(r, Len(edits))'
      BY <1>4, <3>1, SawAll
    <3> QED BY <3>2, <3>3
  <2> QED BY <2>3, <2>4, <2>5, <2>6 DEF WriterAgrees
<1>5. CASE SelectSignature(r)
  <2>1. /\ call[r].kind \in Posts /\ found'[r] = (Hash(r) \in known)
        /\ call[r].kind = "issue" => Hash(r) \notin known
        /\ call' = call /\ inserted' = inserted
    BY <1>5, StepFacts DEF SelectSignature, At, Goto, KBTypeOK, rows
  <2>2. ~found'[r] => \A q \in inserted : call[q].kind \in Posts => Hash(r) \notin HashesOf(call[q])
    BY <2>1 DEF KBIndInv, RowsAgree
  <2>3. call[r].kind = "issue" => \A q \in before[r] : ~Asks(q)
    BY <1>3, <2>1
  <2> QED BY <1>1, <2>1, <2>2, <2>3 DEF WriterAgrees, Posts, Edits, Hash, SameIssue
<1>6. CASE LookupQuestion(r)
  <2>1. call[r].kind = "issue" /\ found[r] /\ found' = found /\ call' = call
    BY <1>6 DEF LookupQuestion, At, KBIndInv, CallAgrees
  <2>2. match'[r] = Nothing => SameQuestions(r) = {}
    <3>1. Nothing \notin KBRequests /\ SameQuestions(r) \subseteq KBRequests
      BY NothingAssumption, StepFacts DEF SameQuestions, Questions
    <3> QED BY <1>6, <3>1, StepFacts DEF LookupQuestion, KBTypeOK
  <2>3. match'[r] = Nothing => \A q \in before[r] : ~Asks(q)
    BY <1>3, <2>2 DEF SameQuestions
  <2> QED BY <1>1, <2>1, <2>3 DEF WriterAgrees, Edits, SameIssue, Hash
<1>7. CASE SelectPatched(r) \/ SelectSuperseded(r)
  <2>1. call[r].kind \in Edits /\ UNCHANGED <<fields, edits, call, before, inserted>> /\ stage[r] = "select"
    BY <1>7 DEF SelectPatched, SelectSuperseded, At, Edits, rows
  <2>2. call[r].entry \in Entries /\ ReadField(r)
    BY <1>7, StepFacts DEF SelectPatched, SelectSuperseded, Missing, Goto, KBTypeOK
  <2>3. Saw(r, Len(edits))'
    BY <2>1, <2>2, SawLast
  <2>4. call[r].entry \in Entries'
    BY <2>1, <2>2 DEF Entries
  <2> QED BY <2>1, <2>3, <2>4 DEF WriterAgrees, Edits, Posts
<1>8. CASE SelectVerified(r)
  <2>1. call'[r].kind = "verify"
    BY <1>1, <1>8 DEF SelectVerified, At
  <2> QED BY <2>1 DEF WriterAgrees, Edits, Posts
<1>9. CASE SelectLink(r)
  <2>1. call'[r].kind = "link" /\ call' = call /\ inserted' = inserted
    BY <1>1, <1>9 DEF SelectLink, At, rows
  <2>2. found'[r] = Linked(r)
    BY <1>9, StepFacts DEF SelectLink, Goto, KBTypeOK
  <2> QED BY <2>1, <2>2 DEF WriterAgrees, Edits, Posts, Linked, SameLink
<1> QED
  BY <1>4, <1>5, <1>6, <1>7, <1>8, <1>9, StepFacts DEF Enters

-----------------------------------------------------------------------------
(* The results.                                                            *)

LEMMA InvNext == KBIndInv /\ [KBNext]_kbVars => KBIndInv'
<1> SUFFICES ASSUME KBIndInv, [KBNext]_kbVars PROVE KBIndInv'
  OBVIOUS
<1>1. CASE KBNext
  <2>1. KBTypeOK'
    BY <1>1, StepFacts
  <2>2. \A r \in KBRequests : CallAgrees(r)' /\ QuestionThere(r)' /\ WriterAgrees(r)'
    BY <1>1, CallKept, QuestionKept, WriterKept
  <2> QED
    BY <1>1, <2>1, <2>2, RowsKept, ConflictKept, IssueKept, HistoryKept, RowHistoryKept DEF KBIndInv
<1>2. CASE UNCHANGED kbVars
  <2>1. /\ KBTypeOK' /\ RowsAgree' /\ Entries' = Entries /\ Questions' = Questions
        /\ call' = call /\ before' = before /\ stage' = stage /\ match' = match
        /\ found' = found /\ inserted' = inserted /\ edits' = edits
    BY <1>2 DEF KBIndInv, kbVars, KBTypeOK, RowsAgree, Entries, Questions
  <2>2. /\ \A q, r : SameIssue(q, r)' <=> SameIssue(q, r)
        /\ \A q, r : SameLink(q, r)' <=> SameLink(q, r)
        /\ \A r : Hash(r)' = Hash(r) /\ TwiceMatched(r)' = TwiceMatched(r)
        /\ \A r, n : Saw(r, n)' <=> Saw(r, n)
        /\ \A e, f, i : LastEdit(e, f, i)' <=> LastEdit(e, f, i)
    BY <1>2 DEF kbVars, SameIssue, SameLink, SameCell, Field, Hash, TwiceMatched, Saw,
                LastEdit, IsEditOf, ValueAfter, Effective, Original
  <2>3. \A r \in KBRequests : CallAgrees(r)' /\ QuestionThere(r)'
    BY <2>1, <2>2 DEF KBIndInv, CallAgrees, QuestionThere
  <2>4. \A r \in KBRequests : WriterAgrees(r)'
    BY <2>1, <2>2 DEF KBIndInv, WriterAgrees
  <2>5. ConflictHasRival' /\ IssueReused' /\ HistoryIsChain' /\ RowMatchesHistory'
    BY <2>1, <2>2 DEF KBIndInv, ConflictHasRival, IssueReused, HistoryIsChain,
                      RowMatchesHistory
  <2> QED BY <2>1, <2>3, <2>4, <2>5 DEF KBIndInv
<1> QED BY <1>1, <1>2

\* The rows, the calls and what each call has seen agree, as KBIndInv says, in every
\* state of every server: what the routes of entries, questions, edits and links write
\* is consistent however their requests interleave, are locked out or are cut short.
THEOREM KBInductive == KBSpec => []KBIndInv
BY InvInit, InvNext, PTL DEF KBSpec

\* Every row and every call has its type.
THEOREM KBTypeCorrect == KBSpec => []KBTypeOK
<1>1. KBIndInv => KBTypeOK
  BY DEF KBIndInv
<1> QED BY <1>1, KBInductive, PTL

\* The 500 of an IntegrityError is only for the loser of a race with a request that
\* overlapped, or for a call that names an also_match twice.
THEOREM KBConflicts == KBSpec => []ConflictHasRival
<1>1. KBIndInv => ConflictHasRival
  BY DEF KBIndInv
<1> QED BY <1>1, KBInductive, PTL

\* create_collector_issue does not repeat a question that was answered before it arrived.
THEOREM KBIssues == KBSpec => []IssueReused
<1>1. KBIndInv => IssueReused
  BY DEF KBIndInv
<1> QED BY <1>1, KBInductive, PTL

\* The edits of a field are a chain, but for those of requests that overlapped.
THEOREM KBHistory == KBSpec => []HistoryIsChain
<1>1. KBIndInv => HistoryIsChain
  BY DEF KBIndInv
<1> QED BY <1>1, KBInductive, PTL
-----------------------------------------------------------------------------
(* What the saved signatures keep.                                         *)

\* A call that overlapped with q and wrote the list of signature h, or may.
Rival(q, h) == \E p \in KBRequests : Overlap(p, q) /\ call[p].kind \in Posts /\ Hash(p) = h

\* A call that is to write its signature's list has seen in it what the calls that were
\* answered before it arrived brought, and what it has seen is still there, but for what a
\* call that overlapped may have overwritten.
ReadAgrees(r) ==
    stage[r] \in {"lookup", "write"} /\ call[r].kind \in Posts =>
        /\ \A q \in before[r] : call[q].kind \in Posts =>
             \A i \in Inputs(call[q]) :
                 i.hash = Hash(r) => i.examples \subseteq read[r] \/ Rival(q, Hash(r))
        /\ read[r] \subseteq examples[Hash(r)] \/ Rival(r, Hash(r))

KeptInv == ContributionKept /\ \A r \in KBRequests : ReadAgrees(r)

\* The call saves its signatures.
Saves(r) ==
    /\ At(r, Posts, "write") /\ SaveSignatures(r)
    /\ UNCHANGED <<call, seen, before>>
    /\ stage'[r] \in {"answered", "failed"} /\ \A q \in KBRequests \ {r} : stage'[q] = stage[q]
    /\ call[r].kind = "entry" => r \in inserted'

\* The lists of examples change only where a call saves its signatures, an answer of such a
\* call is one of these steps, and what a call has seen it does not see again.
Lists ==
    /\ examples' = examples \/ \E r \in KBRequests : Saves(r)
    /\ \A q \in KBRequests :
         stage'[q] = "answered" /\ stage[q] # "answered" /\ call[q].kind \in Posts => Saves(q)
    /\ \A q \in KBRequests : stage[q] \notin {"idle", "select"} => read'[q] = read[q]

LEMMA ListsNext == ASSUME KBTypeOK, KBNext PROVE Lists
<1> USE DEF KBTypeOK
<1>1. ASSUME NEW r \in KBRequests, Arrive(r) PROVE Lists
  BY <1>1 DEF Lists, Arrive, Goto, rows, seen
<1>2. ASSUME NEW r \in KBRequests, SelectSignature(r) \/ LookupQuestion(r) \/ SelectPatched(r)
             \/ SelectSuperseded(r) \/ SelectVerified(r) \/ SelectLink(r)
      PROVE  Lists
  BY <1>2 DEF Lists, SelectSignature, LookupQuestion, SelectPatched, SelectSuperseded,
              SelectVerified, SelectLink, ReadField, Missing, At, Goto, rows, seen
<1>3. ASSUME NEW r \in KBRequests, WriteEntry(r) \/ WriteQuestion(r) PROVE Lists
  <2>1. Saves(r)
    BY <1>3 DEF Saves, WriteEntry, WriteQuestion, At, Answer, Goto, Posts
  <2> QED BY <2>1 DEF Lists, Saves, seen
<1>4. ASSUME NEW r \in KBRequests, PatchEntry(r) \/ SupersedeEntry(r) \/ WriteVerification(r)
                                   \/ WriteLink(r)
      PROVE  Lists
  BY <1>4 DEF Lists, PatchEntry, SupersedeEntry, WriteVerification, WriteLink, At, Answer, Goto,
              Posts, seen
<1>5. ASSUME NEW r \in KBRequests, IntegrityError(r) \/ KBLocked(r) PROVE Lists
  BY <1>5 DEF Lists, IntegrityError, KBLocked, Goto, rows, seen
<1>6. ASSUME KBCrash PROVE Lists
  BY <1>6 DEF Lists, KBCrash, rows, seen
<1> QED
  BY <1>1, <1>2, <1>3, <1>4, <1>5, <1>6 DEF KBNext, KBProceed

\* Calls that overlapped do so ever after.
LEMMA RivalStays ==
    ASSUME KBIndInv, KBNext, NEW q \in KBRequests, NEW h, Rival(q, h)
    PROVE  Rival(q, h)'
<1>1. PICK p \in KBRequests : Overlap(p, q) /\ call[p].kind \in Posts /\ Hash(p) = h
  BY DEF Rival
<1>2. \A x \in {p, q} : /\ stage'[x] # "idle" /\ call'[x] = call[x] /\ before'[x] = before[x]
  BY <1>1, StepFacts DEF Overlap, Frame
<1> QED
  BY <1>1, <1>2 DEF Overlap, Rival, Hash

\* Two calls that are at work at once overlap, and so do one at work and one that was
\* answered and that it did not find answered when it arrived.
LEMMA AtWorkOverlaps ==
    ASSUME KBIndInv, NEW p \in KBRequests, NEW q \in KBRequests, p # q,
           At(p, Posts, "write"), stage[q] # "idle", q \notin before[p]
    PROVE  Rival(q, Hash(p))
<1>1. p \notin before[q]
  BY DEF KBIndInv, CallAgrees, At
<1> QED
  BY <1>1 DEF Overlap, Rival, At

\* What a save leaves of a list.
LEMMA SavedLists ==
    ASSUME KBIndInv, NEW r \in KBRequests, Saves(r), NEW h \in Hashes
    PROVE  /\ h # Hash(r) => examples[h] \subseteq examples'[h]
           /\ h # Hash(r) /\ h \in HashesOf(call[r]) => Given(call[r], h) \subseteq examples'[h]
           /\ h = Hash(r) => \/ examples'[h] = examples[h] /\ Given(call[r], h) \subseteq read[r]
                             \/ examples'[h] = read[r] \cup Given(call[r], h)
<1>1. examples'[h] = IF h \in HashesOf(call[r]) THEN Written(r, h) ELSE examples[h]
  BY DEF Saves, SaveSignatures
<1>2. Hash(r) \in HashesOf(call[r])
  BY InputsShape DEF Saves, At, KBIndInv, CallAgrees, Hash, Posts
<1> QED
  BY <1>1, <1>2 DEF Written

\* What an answered call brought stays in the lists of its signatures.
LEMMA KeptKept == ASSUME KBIndInv, KeptInv, KBNext PROVE ContributionKept'
<1> SUFFICES ASSUME NEW q \in KBRequests, stage'[q] = "answered", call'[q].kind \in Posts,
                    NEW i \in Inputs(call'[q])
             PROVE  /\ call'[q].kind = "entry" => q \in SearchEntries(i.hash)'
                    /\ i.examples \subseteq examples'[i.hash] \/ Rival(q, i.hash)'
  BY DEF ContributionKept, Rival
<1>0. Lists
  BY StepFacts, ListsNext
<1>1. /\ stage[q] \in {"write", "answered"} /\ call'[q] = call[q] /\ call[q] \in Call
      /\ before'[q] = before[q]
  BY StepFacts DEF Frame, KBIndInv, CallAgrees
<1>2. i \in Input /\ i.hash \in Hashes /\ i.hash \in HashesOf(call[q])
      /\ i.examples \subseteq Given(call[q], i.hash)
  BY <1>1, InputsShape DEF Input, HashesOf, Given
<1>3. ASSUME call[q].kind = "entry" PROVE q \in SearchEntries(i.hash)'
  <2>1. q \in inserted'
    <3>1. CASE stage[q] = "answered"
      <4>1. q \in SearchEntries(i.hash)
        BY <1>1, <1>3, <3>1 DEF KeptInv, ContributionKept
      <4> QED BY <4>1, StepFacts DEF SearchEntries, Entries, Frame
    <3>2. CASE stage[q] # "answered"
      BY <1>0, <1>1, <1>3, <3>2 DEF Lists, Saves
    <3> QED BY <3>1, <3>2
  <2>2. HashesOf(call'[q]) \subseteq known'
    BY <1>1, <1>3, <2>1, RowsKept DEF RowsAgree, Posts
  <2> QED BY <1>1, <1>2, <1>3, <2>1, <2>2 DEF SearchEntries, Entries
<1>4. i.examples \subseteq examples'[i.hash] \/ Rival(q, i.hash)'
  <2>1. CASE Saves(q)
    <3>1. CASE i.hash # Hash(q)
      BY <1>2, <2>1, <3>1, SavedLists
    <3>2. CASE i.hash = Hash(q)
      <4>1. \/ examples'[i.hash] = examples[i.hash] /\ i.examples \subseteq read[q]
            \/ i.examples \subseteq examples'[i.hash]
        BY <1>2, <2>1, <3>2, SavedLists
      <4>2. read[q] \subseteq examples[i.hash] \/ Rival(q, i.hash)
        BY <2>1, <3>2 DEF KeptInv, ReadAgrees, Saves, At
      <4> QED BY <4>1, <4>2, RivalStays
    <3> QED BY <3>1, <3>2
  <2>2. CASE ~Saves(q)
    <3>1. stage[q] = "answered"
      BY <1>0, <1>1, <2>2 DEF Lists
    <3>2. i.examples \subseteq examples[i.hash] \/ Rival(q, i.hash)
      BY <1>1, <3>1 DEF KeptInv, ContributionKept, Rival
    <3>3. CASE Rival(q, i.hash)
      BY <3>3, RivalStays
    <3>4. CASE examples' = examples
      BY <3>2, <3>4, RivalStays
    <3>5. ASSUME NEW r \in KBRequests, Saves(r), i.examples \subseteq examples[i.hash]
          PROVE  i.examples \subseteq examples'[i.hash] \/ Rival(q, i.hash)'
      <4>1. r # q /\ At(r, Posts, "write")
        BY <2>2, <3>5 DEF Saves
      <4>2. CASE i.hash # Hash(r)
        BY <1>2, <3>5, <4>2, SavedLists
      <4>3. CASE i.hash = Hash(r) /\ q \notin before[r]
        BY <3>1, <4>1, <4>3, AtWorkOverlaps, RivalStays
      <4>4. CASE i.hash = Hash(r) /\ q \in before[r]
        <5>1. i.examples \subseteq read[r] \/ Rival(q, i.hash)
          BY <1>1, <4>1, <4>4 DEF KeptInv, ReadAgrees, At
        <5>2. examples'[i.hash] = examples[i.hash] \/ read[r] \subseteq examples'[i.hash]
          BY <1>2, <3>5, <4>4, SavedLists
        <5> QED BY <3>5, <5>1, <5>2, RivalStays
      <4> QED BY <4>2, <4>3, <4>4
    <3> QED BY <1>0, <3>2, <3>3, <3>4, <3>5 DEF Lists
  <2> QED BY <2>1, <2>2
<1> QED BY <1>1, <1>3, <1>4

\* What a writer has seen stays, but for what an overlapping call overwrites.
LEMMA ReadKept == ASSUME KBIndInv, KeptInv, KBNext, NEW r \in KBRequests PROVE ReadAgrees(r)'
<1> SUFFICES ASSUME stage'[r] \in {"lookup", "write"}, call'[r].kind \in Posts
             PROVE  ReadAgrees(r)'
  BY DEF ReadAgrees
<1>0. Lists
  BY StepFacts, ListsNext
<1>1. stage[r] # "idle" /\ call'[r] = call[r] /\ before'[r] = before[r] /\ Hash(r)' = Hash(r)
  BY StepFacts DEF Frame, Enters, Arrive, Goto, KBTypeOK, Hash
<1>2. \A q \in before[r] : q \in KBRequests /\ stage[q] = "answered" /\ call'[q] = call[q]
  BY StepFacts
<1> PICK h : h = Hash(r)
  OBVIOUS
<1>1a. \A q \in KBRequests : Rival(q, Hash(r))' <=> Rival(q, h)'
  BY <1>1 DEF Rival
<1>3. CASE SelectSignature(r)
  <2>1. read'[r] = examples[Hash(r)] /\ examples' = examples
    BY <1>3, StepFacts DEF SelectSignature, KBTypeOK, rows
  <2>2. ASSUME NEW q \in before[r], call[q].kind \in Posts, NEW i \in Inputs(call[q]),
               i.hash = Hash(r)
        PROVE  i.examples \subseteq read'[r] \/ Rival(q, h)'
    <3>1. q \in KBRequests /\ stage[q] = "answered"
      BY <1>2
    <3>2. i.examples \subseteq examples[i.hash] \/ Rival(q, i.hash)
      BY <2>2, <3>1 DEF KeptInv, ContributionKept, Rival
    <3> QED BY <2>1, <2>2, <3>1, <3>2, RivalStays
  <2> QED BY <1>1, <1>1a, <1>2, <2>1, <2>2 DEF ReadAgrees
<1>4. CASE stage[r] \in {"lookup", "write"}
  <2>1. read'[r] = read[r] /\ ReadAgrees(r) /\ call[r].kind \in Posts /\ Hash(r) \in Hashes
    <3>1. call[r] \in Call /\ call[r].kind \in Posts
      BY <1>1, <1>4 DEF KBIndInv, CallAgrees
    <3>2. Hash(r) \in Hashes
      BY <3>1, CallShape DEF Hash, Input
    <3> QED BY <1>0, <1>4, <3>1, <3>2 DEF Lists, KeptInv
  <2>2. ASSUME NEW q \in before[r], call[q].kind \in Posts, NEW i \in Inputs(call[q]),
               i.hash = Hash(r)
        PROVE  i.examples \subseteq read'[r] \/ Rival(q, h)'
    BY <1>2, <1>4, <2>1, <2>2, RivalStays DEF ReadAgrees
  <2>3. read[r] \subseteq examples[Hash(r)] \/ Rival(r, h)
    BY <1>4, <2>1 DEF ReadAgrees
  <2>4. read[r] \subseteq examples'[Hash(r)] \/ Rival(r, h)'
    <3>1. CASE examples' = examples \/ Rival(r, h)
      BY <2>3, <3>1, RivalStays
    <3>2. ASSUME NEW p \in KBRequests, Saves(p), read[r] \subseteq examples[Hash(r)]
          PROVE  read[r] \subseteq examples'[Hash(r)] \/ Rival(r, h)'
      <4>1. p # r /\ At(p, Posts, "write")
        BY <3>2 DEF Saves
      <4>2. CASE Hash(r) # Hash(p)
        BY <2>1, <3>2, <4>2, SavedLists
      <4>3. CASE Hash(r) = Hash(p)
        <5>1. r \notin before[p]
          BY <1>4 DEF KBIndInv, CallAgrees
        <5> QED BY <1>4, <4>1, <4>3, <5>1, AtWorkOverlaps, RivalStays
      <4> QED BY <4>2, <4>3
    <3> QED BY <1>0, <2>3, <3>1, <3>2 DEF Lists
  <2> QED BY <1>1, <1>1a, <1>2, <2>1, <2>2, <2>4 DEF ReadAgrees
<1>5. CASE SelectPatched(r) \/ SelectSuperseded(r) \/ SelectVerified(r) \/ SelectLink(r)
  BY <1>1, <1>5 DEF SelectPatched, SelectSuperseded, SelectVerified, SelectLink, At, Posts
<1>6. CASE LookupQuestion(r)
  BY <1>4, <1>6 DEF LookupQuestion, At
<1> QED
  BY <1>3, <1>4, <1>5, <1>6, StepFacts DEF Enters

\* What an answered call brought is found again by its signatures, whatever fails, is killed
\* or runs at the same time; the lists of examples, read before the lock and written back
\* under it, lose some only to a call that overlapped.
THEOREM KBContributions == KBSpec => []ContributionKept
<1>1. KBInit => KeptInv
  <2> SUFFICES ASSUME KBInit PROVE KeptInv
    OBVIOUS
  <2>1. KBIndInv /\ \A r \in KBRequests : ReadAgrees(r)
    BY InvInit DEF KBInit, ReadAgrees
  <2>2. ASSUME NEW q \in KBRequests, stage[q] = "answered", call[q].kind \in Posts,
               NEW i \in Inputs(call[q])
        PROVE  /\ call[q].kind = "entry" => q \in SearchEntries(i.hash)
               /\ i.examples \subseteq examples[i.hash]
    <3>1. q \in DOMAIN Earlier /\ call[q] = Earlier[q] /\ q \in inserted /\ call[q] \in Call
      BY <2>2, EarlierAssumption DEF KBInit
    <3>2. i.hash \in Hashes /\ i.hash \in HashesOf(call[q])
          /\ i.examples \subseteq Given(call[q], i.hash)
      BY <2>2, <3>1, InputsShape DEF Input, HashesOf, Given
    <3>3. i.examples \subseteq examples[i.hash]
      BY <3>1, <3>2 DEF KBInit
    <3>4. i.hash \in known
      BY <3>1, <3>2 DEF KBInit
    <3> QED BY <3>1, <3>2, <3>3, <3>4 DEF SearchEntries, Entries
  <2> QED BY <2>1, <2>2 DEF KeptInv, ContributionKept
<1>2. KBIndInv /\ KeptInv /\ [KBNext]_kbVars => KeptInv'
  <2> SUFFICES ASSUME KBIndInv, KeptInv, [KBNext]_kbVars PROVE KeptInv'
    OBVIOUS
  <2>1. CASE KBNext
    BY <2>1, KeptKept, ReadKept DEF KeptInv
  <2>2. CASE UNCHANGED kbVars
    BY <2>2 DEF kbVars, KeptInv, ContributionKept, ReadAgrees, Rival, Overlap, SearchEntries,
                Entries, Hash
  <2> QED BY <2>1, <2>2
<1>3. KeptInv => ContributionKept
  BY DEF KeptInv
<1> QED BY <1>1, <1>2, <1>3, KBInductive, PTL DEF KBSpec
=============================================================================
