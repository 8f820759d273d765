----------------------------- MODULE HarnessFiles -----------------------------
(***************************************************************************)
(* The files of the harness: the session map, which every pipeline (fixlog *)
(* watch, fixlog replay) loads once and its threads rewrite, and the       *)
(* directory of pending harvests, which pipelines fill and the commands of *)
(* fixlog harvest empty.  A file is opened, which truncates it, and then   *)
(* written; anything may happen in between.                                *)
(***************************************************************************)
EXTENDS Naturals, FiniteSets

CONSTANTS
    Pipelines,    \* processes with a HarnessPipeline
    Tails,        \* the calls of tail_file and replay_file
    PipelineOf,   \* their processes
    Sources,      \* source sessions, the keys of the session map
    Harvests,     \* the calls of fixlog harvest
    SubmitAtOnce, \* the pipelines with auto_submit_harvests
    Empty,        \* content: truncated,
    Torn          \* ... or a text with the rest of a longer one behind it

ASSUME PipelineOfAssumption == PipelineOf \in [Tails -> Pipelines]
ASSUME SubmitAtOnceAssumption == SubmitAtOnce \subseteq Pipelines
ASSUME NamesAssumption == Sources # {} /\ Tails # {} /\ Tails \cap Harvests = {}
ASSUME ContentAssumption == Empty # Torn /\ \A S \in SUBSET Sources : S \notin {Empty, Torn}

\* A pending harvest is named by the tail that wrote it.
Wanted == [kind : {"review", "submit", "discard"}, id : Tails]

VARIABLES
    up,           \* the pipelines that run
    mappings,     \* SessionMapStore._mappings of each pipeline
    mapFile,      \* the session map on disk; one that is not there is empty
    tail,         \* where a tail is
    source,       \* its source session
    removing,     \* its save() is that of remove(), not of put()
    payload,      \* the mappings that its save() saw
    pending,      \* the files of the pending harvests
    harvest,      \* where a fixlog harvest command is
    want,         \* what it is to do
    listed,       \* the files it found
    stored,       \* the server: the tails and commands whose submission made an entry
    disturbed,    \* history: saves overlapped, or one was cut off
    complete,     \* history: the pending harvests that were written
    discarded,    \* history: the ones that were discarded
    earlier       \* history: the commands that had ended well when this one began

mapVars == <<up, mappings, mapFile, tail, source, removing, payload, disturbed>>
harvestVars == <<harvest, want, listed, discarded, earlier>>
fileVars == <<mapVars, harvestVars, pending, stored, complete>>

Saving == {"iterate", "open", "write"}
Tailing == Saving \cup {"mapped", "pending", "submit", "remove"}

FilesTypeOK ==
    /\ up \subseteq Pipelines
    /\ mappings \in [Pipelines -> SUBSET Sources]
    /\ mapFile \in {Empty, Torn} \/ mapFile \subseteq Sources
    /\ tail \in [Tails -> Tailing \cup {"idle", "ended", "gone"}]
    /\ source \in [Tails -> Sources] /\ removing \in [Tails -> BOOLEAN]
    /\ payload \in [Tails -> SUBSET Sources]
    /\ pending \in [Tails -> {"none", "torn", "whole"}]
    /\ harvest \in [Harvests -> {"idle", "read", "submit", "unlink", "done", "failed"}]
    /\ want \in [Harvests -> Wanted] /\ listed \in [Harvests -> SUBSET Tails]
    /\ stored \subseteq Tails \cup Harvests
    /\ disturbed \in BOOLEAN
    /\ complete \subseteq Tails /\ discarded \subseteq Tails
    /\ earlier \in [Harvests -> SUBSET Harvests]

FilesInit ==
    /\ up = {} /\ mappings = [p \in Pipelines |-> {}] /\ mapFile = {}
    /\ tail = [t \in Tails |-> "idle"] /\ source = [t \in Tails |-> CHOOSE s \in Sources : TRUE]
    /\ removing = [t \in Tails |-> FALSE] /\ payload = [t \in Tails |-> {}]
    /\ pending = [t \in Tails |-> "none"]
    /\ harvest = [c \in Harvests |-> "idle"] 
    /\ want = [c \in Harvests |-> CHOOSE w \in Wanted : TRUE]
    /\ listed = [c \in Harvests |-> {}]
    /\ stored = {} /\ disturbed = FALSE /\ complete = {} /\ discarded = {}
    /\ earlier = [c \in Harvests |-> {}]

-----------------------------------------------------------------------------
(* Pipelines and the session map.                                          *)

Store(t) == mappings[PipelineOf[t]]
To(t, place) == tail' = [tail EXCEPT ![t] = place]
NobodySaves == \A t \in Tails : tail[t] \notin Saving

\* SessionMapStore._load.  One that finds no JSON raises: there is no pipeline then.
StartPipeline(p) ==
    /\ p \notin up /\ mapFile \notin {Empty, Torn}
    /\ up' = up \cup {p}
    /\ mappings' = [mappings EXCEPT ![p] = mapFile]
    /\ disturbed' = (disturbed \/ up # {})
    /\ UNCHANGED <<mapFile, tail, source, removing, payload, harvestVars, pending, stored, complete>>

\* The process is killed, or ends after a replay.
StopPipeline(p) ==
    /\ p \in up /\ up' = up \ {p}
    /\ mappings' = [mappings EXCEPT ![p] = {}]
    /\ tail' = [t \in Tails |->
                  IF PipelineOf[t] = p /\ tail[t] \in Tailing THEN "gone" ELSE tail[t]]
    /\ disturbed' = (disturbed \/ \E t \in Tails : PipelineOf[t] = p /\ tail[t] \in Saving)
    /\ UNCHANGED <<mapFile, source, removing, payload, harvestVars, pending, stored, complete>>

RemoveUnsaved(t, new, last) ==
    /\ mappings' = [mappings EXCEPT ![PipelineOf[t]] = new]
    /\ To(t, IF last THEN "ended" ELSE "iterate")
    /\ payload' = [payload EXCEPT ![t] = new]
    /\ removing' = [removing EXCEPT ![t] = last]
    /\ disturbed' = (disturbed \/ ~NobodySaves)
    /\ UNCHANGED <<up, mapFile>>

\* put() or remove() has changed the mappings and save() begins to go through them.
Change(t, new, last) ==
    /\ mappings' = [mappings EXCEPT ![PipelineOf[t]] = new]
    /\ To(t, "iterate")
    /\ payload' = [payload EXCEPT ![t] = new]
    /\ removing' = [removing EXCEPT ![t] = last]
    /\ disturbed' = (disturbed \/ ~NobodySaves)
    /\ UNCHANGED <<up, mapFile>>

\* The first event: _mapping_for finds the mapping or puts a new one.
FirstEvent(t) ==
    /\ tail[t] = "idle" /\ PipelineOf[t] \in up
    /\ \E s \in Sources :
         /\ source' = [source EXCEPT ![t] = s]
         /\ \/ s \in Store(t) /\ To(t, "mapped")
               /\ UNCHANGED <<up, mappings, mapFile, removing, payload, disturbed>>
            \/ s \notin Store(t) /\ Change(t, Store(t) \cup {s}, FALSE)
    /\ UNCHANGED <<harvestVars, pending, stored, complete>>

\* save() has its payload, unless another thread changed the dictionary meanwhile: then
\* it raises, or has some of the changes.
Iterate(t) ==
    /\ tail[t] = "iterate" /\ To(t, "open")
    /\ \E seen \in SUBSET Sources :
         /\ payload[t] \cap Store(t) \subseteq seen /\ seen \subseteq payload[t] \cup Store(t)
         /\ payload' = [payload EXCEPT ![t] = seen]
    /\ UNCHANGED <<up, mappings, mapFile, source, removing, disturbed,
                   harvestVars, pending, stored, complete>>

\* A put() that raised is repeated with its event, which finds the mapping there; a
\* remove() that raised ends the thread.
SaveRaises(t) ==
    /\ tail[t] = "iterate" /\ payload[t] # Store(t)
    /\ To(t, IF removing[t] THEN "gone" ELSE "mapped")
    /\ UNCHANGED <<up, mappings, mapFile, source, removing, payload, disturbed,
                   harvestVars, pending, stored, complete>>

\* write_text opens the file, which is no JSON until something is written.
OpenMap(t) ==
    /\ tail[t] = "open" /\ To(t, "write") /\ mapFile' = Empty
    /\ UNCHANGED <<up, mappings, source, removing, payload, disturbed,
                   harvestVars, pending, stored, complete>>

\* What is in the file after new is written over old: the rest of a longer text stays
\* behind it.  Texts of equally many mappings may differ in length.
Overwrite(old, new) ==
    IF old \in {Empty, new} THEN {new}
    ELSE IF old = Torn \/ Cardinality(old) = Cardinality(new) THEN {new, Torn}
    ELSE IF Cardinality(old) < Cardinality(new) THEN {new}
    ELSE {Torn}

WriteMap(t) ==
    /\ tail[t] = "write" /\ To(t, IF removing[t] THEN "ended" ELSE "mapped")
    /\ mapFile' \in Overwrite(mapFile, payload[t])
    /\ UNCHANGED <<up, mappings, source, removing, payload, disturbed,
                   harvestVars, pending, stored, complete>>

-----------------------------------------------------------------------------
(* The end of a session; TailWatcher has its calls of the server.          *)

files == <<up, mappings, mapFile, source, removing, payload, disturbed>>

\* The tail raises, gives up or meets an event from outside of the allowed projects.
BreakOff(t) ==
    /\ tail[t] \in {"mapped", "submit"} /\ To(t, "gone")
    /\ UNCHANGED <<files, harvestVars, pending, stored, complete>>

\* harvest(): nothing, or a candidate to submit or to write to a file of its own.
HarvestSession(t) ==
    /\ tail[t] = "mapped"
    /\ \/ To(t, "remove") /\ UNCHANGED pending
       \/ PipelineOf[t] \in SubmitAtOnce /\ To(t, "submit") /\ UNCHANGED pending
       \/ PipelineOf[t] \notin SubmitAtOnce /\ To(t, "pending")
          /\ pending' = [pending EXCEPT ![t] = "torn"]
    /\ UNCHANGED <<files, harvestVars, stored, complete>>

WritePending(t) ==
    /\ tail[t] = "pending" /\ To(t, "remove")
    /\ pending' = [pending EXCEPT ![t] = "whole"]
    /\ complete' = complete \cup {t}
    /\ UNCHANGED <<files, harvestVars, stored>>

\* submit_candidate; its answer may be lost.
SubmitCandidate(t) ==
    /\ tail[t] = "submit" /\ (To(t, "remove") \/ To(t, "gone"))
    /\ stored' = stored \cup {t}
    /\ UNCHANGED <<files, harvestVars, pending, complete>>

RemoveMapping(t) ==
    /\ tail[t] = "remove" /\ Change(t, Store(t) \ {source[t]}, TRUE)
    /\ UNCHANGED <<source, harvestVars, pending, stored, complete>>

-----------------------------------------------------------------------------
(* fixlog harvest.                                                         *)

Become(c, place) == harvest' = [harvest EXCEPT ![c] = place]

\* load_pending_harvests: the files in the directory,
ListPending(c) ==
    /\ harvest[c] = "idle" /\ Become(c, "read")
    /\ listed' = [listed EXCEPT ![c] = {t \in Tails : pending[t] # "none"}]
    /\ \E w \in Wanted : want' = [want EXCEPT ![c] = w]
    /\ earlier' = [earlier EXCEPT ![c] = {d \in Harvests : harvest[d] = "done"}]
    /\ UNCHANGED <<mapVars, discarded, pending, stored, complete>>

\* ... and their contents.  A file that has gone or is not whole makes the command fail,
\* whichever harvest it is for.
ReadPending(c) ==
    /\ harvest[c] = "read"
    /\ Become(c, IF \E t \in listed[c] : pending[t] # "whole" THEN "failed"
                 ELSE IF want[c].kind = "review" THEN "done"
                 ELSE IF want[c].id \notin listed[c] THEN "failed"
                 ELSE IF want[c].kind = "submit" THEN "submit" ELSE "unlink")
    /\ UNCHANGED <<mapVars, want, listed, discarded, earlier, pending, stored, complete>>

SubmitAndUnlink(c) ==
    /\ harvest[c] = "submit" /\ stored' \in {stored, stored \cup {c}}
    /\ Become(c, "unlink")
    /\ UNCHANGED <<mapVars, want, listed, discarded, earlier, pending, complete>>

\* submit_candidate, which raises when the server did not do it, or its answer is lost.
SubmitPending(c) ==
    /\ harvest[c] = "submit"
    /\ \/ Become(c, "unlink") /\ stored' = stored \cup {c}
       \/ Become(c, "failed") /\ stored' \in {stored, stored \cup {c}}
    /\ UNCHANGED <<mapVars, want, listed, discarded, earlier, pending, complete>>

KeepFile(c) ==
    /\ harvest[c] = "unlink" /\ Become(c, "done")
    /\ discarded' = IF want[c].kind = "discard" THEN discarded \cup {want[c].id} ELSE discarded
    /\ UNCHANGED <<mapVars, want, listed, earlier, pending, stored, complete>>

\* unlink(missing_ok)
UnlinkPending(c) ==
    /\ harvest[c] = "unlink" /\ Become(c, "done")
    /\ pending' = [pending EXCEPT ![want[c].id] = "none"]
    /\ discarded' = IF want[c].kind = "discard" THEN discarded \cup {want[c].id} ELSE discarded
    /\ UNCHANGED <<mapVars, want, listed, earlier, stored, complete>>

KillHarvest(c) ==
    /\ harvest[c] \in {"read", "submit", "unlink"} /\ Become(c, "failed")
    /\ UNCHANGED <<mapVars, want, listed, discarded, earlier, pending, stored, complete>>

-----------------------------------------------------------------------------
FilesNext ==
    \/ \E p \in Pipelines : StartPipeline(p) \/ StopPipeline(p)
    \/ \E t \in Tails :
         \/ FirstEvent(t) \/ Iterate(t) \/ SaveRaises(t) \/ OpenMap(t) \/ WriteMap(t)
         \/ BreakOff(t) \/ HarvestSession(t) \/ WritePending(t) \/ SubmitCandidate(t)
         \/ RemoveMapping(t)
    \/ \E c \in Harvests :
         \/ ListPending(c) \/ ReadPending(c) \/ SubmitPending(c) \/ UnlinkPending(c)
         \/ KillHarvest(c)

FilesSpec == FilesInit /\ [][FilesNext]_fileVars

-----------------------------------------------------------------------------
(* Properties.                                                             *)

\* What a restart would load is what the pipeline has in memory, and never a torn file,
\* unless saves overlapped, one was cut off, or two pipelines ran at once: whatever the
\* tails did, gave up or raised before.
MapCurrent ==
    ~disturbed /\ NobodySaves =>
        /\ mapFile \notin {Empty, Torn}
        /\ \A p \in up : mapFile = mappings[p]

\* A pending harvest that was written is not lost, whichever command is killed or loses
\* an answer: it is there, or the server has it, or it was discarded.
HarvestKept ==
    \A t \in complete :
        \/ pending[t] = "whole" \/ t \in discarded
        \/ \E c \in stored \cap Harvests : want[c] = [kind |-> "submit", id |-> t]

\* A harvest that was submitted or discarded is settled: no later command submits it
\* (one that overlapped with the first or follows one that failed may submit it again).
SettledOnce ==
    \A c \in stored \cap Harvests : \A d \in earlier[c] :
        want[d].kind = "review" \/ want[d].id # want[c].id
=============================================================================
