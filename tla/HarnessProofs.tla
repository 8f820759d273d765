----------------------------- MODULE HarnessProofs -----------------------------
(* HarnessFiles: its inductive invariant, and what follows from it, for any     *)
(* number of pipelines, tails, source sessions and commands.                    *)
(*                                                                              *)
(* EventAnalysis: what the detector, the harvester and the dashboard conclude   *)
(* from the events, for logs of any length, any windows and any cooldown.       *)
EXTENDS HarnessFiles, EventAnalysis, FiniteSetTheorems, WellFoundedInduction, TLAPS

-----------------------------------------------------------------------------
(* HarnessFiles.                                                              *)

\* A tail at work has its pipeline.
TailsRun == \A t \in Tails : tail[t] \in Tailing => PipelineOf[t] \in up

\* As long as nothing disturbed the saves: there is one pipeline, one thread saves, it
\* saves what is in memory to a file that it has emptied, and in between the file is what
\* is in memory.
Orderly ==
    disturbed = FALSE =>
        /\ \A p, q \in up : p = q
        /\ \A t, u \in Tails : tail[t] \in Saving /\ tail[u] \in Saving => t = u
        /\ \A t \in Tails : tail[t] \in Saving => payload[t] = mappings[PipelineOf[t]]
        /\ \A t \in Tails : tail[t] = "write" => mapFile = Empty
        /\ NobodySaves => /\ mapFile # Empty /\ mapFile # Torn
                          /\ \A p \in up : mapFile = mappings[p]

\* A tail that has a pending harvest behind it writes no other one.
Later(t) ==
    \/ tail[t] \in {"remove", "ended", "gone"}
    \/ tail[t] \in Saving /\ removing[t] = TRUE
Written ==
    /\ \A t \in complete : Later(t)
    /\ \A t \in Tails : pending[t] = "whole" => t \in complete

\* A command takes only what it found whole, and unlinks only what it submitted or
\* discards.
Commands ==
    \A c \in Harvests :
        /\ harvest[c] \in {"submit", "unlink"} =>
             want[c].id \in listed[c] /\ want[c].id \in complete
        /\ harvest[c] = "submit" => want[c].kind = "submit"
        /\ harvest[c] = "unlink" =>
             want[c].kind = "discard" \/ (want[c].kind = "submit" /\ c \in stored)
        /\ harvest[c] = "done" /\ want[c].kind # "review" =>
             want[c].id \in complete /\ pending[want[c].id] = "none"
        /\ c \in stored => want[c].id \in listed[c] /\ harvest[c] # "idle"

\* What an earlier command settled is not among the files that a later one finds.
Earlier ==
    \A c \in Harvests : \A d \in earlier[c] :
        /\ harvest[d] = "done" /\ harvest[c] # "idle"
        /\ want[d].kind = "review" \/ want[d].id \notin listed[c]

FilesInv ==
    /\ FilesTypeOK
    /\ TailsRun /\ Orderly /\ Written /\ Commands /\ Earlier /\ HarvestKept

-----------------------------------------------------------------------------
\* A step of a tail.
TailStep(t) ==
    \/ FirstEvent(t) \/ Iterate(t) \/ SaveRaises(t) \/ OpenMap(t) \/ WriteMap(t)
    \/ BreakOff(t) \/ HarvestSession(t) \/ WritePending(t) \/ SubmitCandidate(t)
    \/ RemoveMapping(t)

\* A step of a command.
CommandStep(c) ==
    \/ ListPending(c) \/ ReadPending(c) \/ SubmitPending(c) \/ UnlinkPending(c)
    \/ KillHarvest(c)

\* What a save leaves in the file.
LEMMA OverwriteShape ==
    ASSUME NEW old, NEW new
    PROVE  /\ Overwrite(old, new) \subseteq {new, Torn}
           /\ old = Empty => Overwrite(old, new) = {new}
BY DEF Overwrite

\* Every step keeps the types.
LEMMA FilesTypesKept == FilesInv /\ [FilesNext]_fileVars => FilesTypeOK'
<1> SUFFICES ASSUME FilesInv, [FilesNext]_fileVars PROVE FilesTypeOK'
  OBVIOUS
<1> FilesTypeOK
  BY DEF FilesInv
<1> USE PipelineOfAssumption DEF FilesTypeOK, To, Become, Store, Change, Tailing, Saving,
        mapVars, harvestVars, files
<1>1. ASSUME NEW p \in Pipelines, StartPipeline(p) PROVE FilesTypeOK'
  BY <1>1 DEF StartPipeline
<1>2. ASSUME NEW p \in Pipelines, StopPipeline(p) PROVE FilesTypeOK'
  BY <1>2 DEF StopPipeline
<1>3. ASSUME NEW t \in Tails, FirstEvent(t) PROVE FilesTypeOK'
  <2>1. PICK s \in Sources :
           /\ source' = [source EXCEPT ![t] = s]
           /\ \/ To(t, "mapped") /\ UNCHANGED <<up, mappings, mapFile, removing, payload, disturbed>>
              \/ Change(t, Store(t) \cup {s}, FALSE)
    BY <1>3 DEF FirstEvent
  <2>2. Store(t) \cup {s} \subseteq Sources
    OBVIOUS
  <2> HIDE DEF Store
  <2>3. CASE To(t, "mapped") /\ UNCHANGED <<up, mappings, mapFile, removing, payload, disturbed>>
    BY <1>3, <2>1, <2>3 DEF FirstEvent
  <2>4. CASE Change(t, Store(t) \cup {s}, FALSE)
    BY <1>3, <2>1, <2>2, <2>4 DEF FirstEvent
  <2> QED
    BY <2>1, <2>3, <2>4
<1>4. ASSUME NEW t \in Tails, Iterate(t) PROVE FilesTypeOK'
  BY <1>4 DEF Iterate
<1>5. ASSUME NEW t \in Tails, SaveRaises(t) PROVE FilesTypeOK'
  BY <1>5 DEF SaveRaises
<1>6. ASSUME NEW t \in Tails, OpenMap(t) PROVE FilesTypeOK'
  BY <1>6 DEF OpenMap
<1>7. ASSUME NEW t \in Tails, WriteMap(t) PROVE FilesTypeOK'
  BY <1>7, OverwriteShape DEF WriteMap
<1>8. ASSUME NEW t \in Tails, BreakOff(t) PROVE FilesTypeOK'
  BY <1>8 DEF BreakOff
<1>9. ASSUME NEW t \in Tails, HarvestSession(t) PROVE FilesTypeOK'
  BY <1>9 DEF HarvestSession
<1>10. ASSUME NEW t \in Tails, WritePending(t) PROVE FilesTypeOK'
  BY <1>10 DEF WritePending
<1>11. ASSUME NEW t \in Tails, SubmitCandidate(t) PROVE FilesTypeOK'
  BY <1>11 DEF SubmitCandidate
<1>12. ASSUME NEW t \in Tails, RemoveMapping(t) PROVE FilesTypeOK'
  BY <1>12 DEF RemoveMapping
<1>13. ASSUME NEW c \in Harvests, ListPending(c) PROVE FilesTypeOK'
  BY <1>13 DEF ListPending
<1>14. ASSUME NEW c \in Harvests, ReadPending(c) PROVE FilesTypeOK'
  BY <1>14 DEF ReadPending
<1>15. ASSUME NEW c \in Harvests, SubmitPending(c) PROVE FilesTypeOK'
  BY <1>15 DEF SubmitPending
<1>16. ASSUME NEW c \in Harvests, UnlinkPending(c) PROVE FilesTypeOK'
  <2>1. want[c].id \in Tails
    BY DEF Wanted
  <2> QED
    BY <1>16, <2>1 DEF UnlinkPending
<1>17. ASSUME NEW c \in Harvests, KillHarvest(c) PROVE FilesTypeOK'
  BY <1>17 DEF KillHarvest
<1>18. CASE UNCHANGED fileVars
  BY <1>18 DEF fileVars
<1> QED
  BY <1>1, <1>2, <1>3, <1>4, <1>5, <1>6, <1>7, <1>8, <1>9, <1>10, <1>11, <1>12, <1>13,
     <1>14, <1>15, <1>16, <1>17, <1>18 DEF FilesNext

-----------------------------------------------------------------------------
(* The session map.                                                        *)

\* A tail that goes on without saving disturbs nothing.
LEMMA TailGoesOn ==
    ASSUME FilesTypeOK, TailsRun, Orderly, NEW t \in Tails,
           UNCHANGED <<up, mappings, mapFile, removing, payload, disturbed>>,
           NEW to, To(t, to), to \notin Saving, tail[t] \notin Saving,
           to \in Tailing => PipelineOf[t] \in up
    PROVE  TailsRun' /\ Orderly'
<1>1. tail'[t] = to /\ \A u \in Tails \ {t} : tail'[u] = tail[u]
  BY DEF FilesTypeOK, To
<1>2. TailsRun'
  BY <1>1 DEF TailsRun
<1>3. \A u \in Tails : /\ tail'[u] \in Saving <=> tail[u] \in Saving
                       /\ tail'[u] \in Saving => tail'[u] = tail[u]
  BY <1>1
<1>4. \A u \in Tails : tail'[u] = "write" => tail[u] = "write"
  BY <1>1 DEF Saving
<1>5. Orderly'
  BY <1>3, <1>4 DEF Orderly, NobodySaves
<1> QED
  BY <1>2, <1>5

\* A change begins a save; nothing else saves, or the files are disturbed.
LEMMA ChangeKeeps ==
    ASSUME FilesTypeOK, TailsRun, Orderly, NEW t \in Tails, PipelineOf[t] \in up,
           NEW new, NEW last, Change(t, new, last)
    PROVE  TailsRun' /\ Orderly'
<1>1. /\ tail'[t] = "iterate" /\ \A u \in Tails \ {t} : tail'[u] = tail[u]
      /\ payload'[t] = new /\ mappings'[PipelineOf[t]] = new /\ up' = up
      /\ disturbed' = FALSE => disturbed = FALSE /\ NobodySaves
  BY PipelineOfAssumption DEF FilesTypeOK, Change, To
<1>2. TailsRun'
  BY <1>1 DEF TailsRun
<1>3. Orderly'
  <2> SUFFICES ASSUME disturbed' = FALSE
               PROVE  /\ \A p, q \in up' : p = q
                      /\ \A u, v \in Tails : tail'[u] \in Saving /\ tail'[v] \in Saving => u = v
                      /\ \A u \in Tails : tail'[u] \in Saving => payload'[u] = mappings'[PipelineOf[u]]
                      /\ \A u \in Tails : tail'[u] = "write" => mapFile' = Empty
                      /\ ~NobodySaves'
    BY DEF Orderly
  <2>1. \A u \in Tails : tail'[u] \in Saving => u = t
    BY <1>1 DEF NobodySaves
  <2>2. tail'[t] \in Saving /\ tail'[t] # "write" /\ ("write" \in Saving)
    BY <1>1 DEF Saving
  <2> QED
    BY <1>1, <2>1, <2>2 DEF Orderly, NobodySaves
<1> QED
  BY <1>2, <1>3

\* A step of a tail.
LEMMA MapKept ==
    ASSUME FilesInv, NEW t \in Tails, TailStep(t)
    PROVE  TailsRun' /\ Orderly'
<1> FilesTypeOK /\ TailsRun /\ Orderly
  BY DEF FilesInv
<1> DEFINE Same == UNCHANGED <<up, mappings, mapFile, removing, payload, disturbed>>
<1>1. CASE FirstEvent(t)
  <2>1. PICK s \in Sources : \/ To(t, "mapped") /\ Same
                             \/ Change(t, Store(t) \cup {s}, FALSE)
    BY <1>1 DEF FirstEvent
  <2>2. tail[t] = "idle" /\ PipelineOf[t] \in up
    BY <1>1 DEF FirstEvent
  <2>3. CASE To(t, "mapped") /\ Same
    BY <2>2, <2>3, TailGoesOn DEF Saving
  <2>4. CASE Change(t, Store(t) \cup {s}, FALSE)
    BY <2>2, <2>4, ChangeKeeps
  <2> QED
    BY <2>1, <2>3, <2>4
<1>2. CASE Iterate(t)
  <2>1. PICK seen \in SUBSET Sources :
           /\ payload[t] \cap Store(t) \subseteq seen /\ seen \subseteq payload[t] \cup Store(t)
           /\ payload' = [payload EXCEPT ![t] = seen]
    BY <1>2 DEF Iterate
  <2>2. /\ tail[t] = "iterate" /\ tail'[t] = "open" /\ \A u \in Tails \ {t} : tail'[u] = tail[u]
        /\ UNCHANGED <<up, mappings, mapFile, disturbed>>
    BY <1>2 DEF Iterate, To, FilesTypeOK
  <2>3. TailsRun'
    BY <2>2 DEF TailsRun, Tailing, Saving
  <2>4. disturbed = FALSE => payload' = payload
    <3>1. disturbed = FALSE => payload[t] = Store(t)
      BY <2>2 DEF Orderly, Store, Saving
    <3>2. disturbed = FALSE => seen = payload[t]
      BY <2>1, <3>1
    <3> QED
      BY <2>1, <3>2 DEF FilesTypeOK
  <2>5. /\ \A u \in Tails : tail'[u] \in Saving <=> tail[u] \in Saving
        /\ \A u \in Tails : tail'[u] = "write" <=> tail[u] = "write"
    BY <2>2 DEF Saving
  <2>6. Orderly'
    BY <2>2, <2>4, <2>5 DEF Orderly, NobodySaves
  <2> QED
    BY <2>3, <2>6
<1>3. CASE SaveRaises(t)
  <2>1. /\ tail[t] = "iterate" /\ tail'[t] \in {"gone", "mapped"}
        /\ \A u \in Tails \ {t} : tail'[u] = tail[u]
        /\ payload[t] # Store(t) /\ up' = up /\ disturbed' = disturbed
    BY <1>3 DEF SaveRaises, To, FilesTypeOK
  <2>2. TailsRun'
    BY <2>1 DEF TailsRun, Tailing, Saving
  <2>3. disturbed # FALSE
    BY <2>1 DEF Orderly, Store, Saving
  <2> QED
    BY <2>1, <2>2, <2>3 DEF Orderly
<1>4. CASE OpenMap(t)
  <2>1. /\ tail[t] = "open" /\ tail'[t] = "write" /\ mapFile' = Empty
        /\ \A u \in Tails \ {t} : tail'[u] = tail[u]
        /\ UNCHANGED <<up, mappings, payload, disturbed>>
    BY <1>4 DEF OpenMap, To, FilesTypeOK
  <2>2. TailsRun'
    BY <2>1 DEF TailsRun, Tailing, Saving
  <2>3. tail[t] \in Saving /\ \A u \in Tails : tail'[u] \in Saving <=> tail[u] \in Saving
    BY <2>1 DEF Saving
  <2>4. Orderly'
    BY <2>1, <2>3 DEF Orderly, NobodySaves
  <2> QED
    BY <2>2, <2>4
<1>5. CASE WriteMap(t)
  <2>1. /\ tail[t] = "write" /\ tail'[t] \in {"ended", "mapped"}
        /\ mapFile' \in Overwrite(mapFile, payload[t])
        /\ \A u \in Tails \ {t} : tail'[u] = tail[u]
        /\ UNCHANGED <<up, mappings, payload, disturbed>>
    BY <1>5 DEF WriteMap, To, FilesTypeOK
  <2>2. TailsRun' /\ PipelineOf[t] \in up
    BY <2>1 DEF TailsRun, Tailing, Saving
  <2>3. Orderly'
    <3> SUFFICES ASSUME disturbed = FALSE
                 PROVE  /\ \A p, q \in up : p = q
                        /\ \A u \in Tails : tail'[u] \notin Saving
                        /\ \A u \in Tails : tail'[u] # "write"
                        /\ mapFile' # Empty /\ mapFile' # Torn
                        /\ \A p \in up : mapFile' = mappings[p]
      BY <2>1 DEF Orderly
    <3>1. "write" \in Saving /\ "ended" \notin Saving /\ "mapped" \notin Saving
      BY DEF Saving
    <3>2. \A u \in Tails : tail'[u] \notin Saving
      BY <2>1, <3>1 DEF Orderly
    <3>3. mapFile' = payload[t] /\ payload[t] = mappings[PipelineOf[t]]
      BY <2>1, <3>1, OverwriteShape DEF Orderly
    <3>4. payload[t] \in SUBSET Sources
      BY DEF FilesTypeOK
    <3>5. mapFile' # Empty /\ mapFile' # Torn
      BY <3>3, <3>4, ContentAssumption
    <3> QED
      BY <2>2, <3>1, <3>2, <3>3, <3>5 DEF Orderly
  <2> QED
    BY <2>2, <2>3
<1>6. CASE RemoveMapping(t)
  <2>1. PipelineOf[t] \in up /\ Change(t, Store(t) \ {source[t]}, TRUE)
    BY <1>6 DEF RemoveMapping, TailsRun, Tailing
  <2> QED
    BY <2>1, ChangeKeeps
<1>7. CASE BreakOff(t) \/ HarvestSession(t) \/ WritePending(t) \/ SubmitCandidate(t)
  <2>1. Same
    BY <1>7 DEF BreakOff, HarvestSession, WritePending, SubmitCandidate, files
  <2>2. \/ To(t, "gone") \/ To(t, "remove") \/ To(t, "submit") \/ To(t, "pending")
    BY <1>7 DEF BreakOff, HarvestSession, WritePending, SubmitCandidate
  <2>3. tail[t] \in {"mapped", "submit", "pending"}
    BY <1>7 DEF BreakOff, HarvestSession, WritePending, SubmitCandidate
  <2>4. PipelineOf[t] \in up /\ tail[t] \notin Saving
    BY <2>3 DEF TailsRun, Tailing, Saving
  <2>5. "gone" \notin Saving /\ "remove" \notin Saving /\ "submit" \notin Saving /\ "pending" \notin Saving
    BY DEF Saving
  <2> QED
    BY <2>1, <2>2, <2>4, <2>5, TailGoesOn
<1> QED
  BY <1>1, <1>2, <1>3, <1>4, <1>5, <1>6, <1>7 DEF TailStep

\* A pipeline that starts beside another one disturbs the files; the first one loads them.
LEMMA StartKeepsMap ==
    ASSUME FilesInv, NEW p \in Pipelines, StartPipeline(p)
    PROVE  TailsRun' /\ Orderly'
<1> FilesTypeOK /\ TailsRun /\ Orderly
  BY DEF FilesInv
<1>1. /\ up' = up \cup {p} /\ mappings'[p] = mapFile /\ mapFile # Empty /\ mapFile # Torn
      /\ UNCHANGED <<mapFile, tail, payload>>
      /\ disturbed' = FALSE => up = {}
  BY DEF StartPipeline, FilesTypeOK
<1>2. TailsRun'
  BY <1>1 DEF TailsRun
<1>3. disturbed' = FALSE => \A t \in Tails : tail[t] \notin Saving
  BY <1>1 DEF TailsRun, Tailing
<1>4. "write" \in Saving
  BY DEF Saving
<1>5. Orderly'
  BY <1>1, <1>3, <1>4 DEF Orderly, NobodySaves
<1> QED
  BY <1>2, <1>5

\* A pipeline that stops between two saves leaves the file as it is.
LEMMA StopKeepsMap ==
    ASSUME FilesInv, NEW p \in Pipelines, StopPipeline(p)
    PROVE  TailsRun' /\ Orderly'
<1> FilesTypeOK /\ TailsRun /\ Orderly
  BY DEF FilesInv
<1>1. /\ up' = up \ {p} /\ \A q \in Pipelines \ {p} : mappings'[q] = mappings[q]
      /\ UNCHANGED <<mapFile, payload>>
      /\ \A t \in Tails : tail'[t] = IF PipelineOf[t] = p /\ tail[t] \in Tailing
                                     THEN "gone" ELSE tail[t]
      /\ disturbed' = FALSE =>
           disturbed = FALSE /\ \A t \in Tails : PipelineOf[t] = p => tail[t] \notin Saving
  BY DEF StopPipeline, FilesTypeOK
<1>2. TailsRun'
  BY <1>1 DEF TailsRun, Tailing, Saving
<1>3. disturbed' = FALSE => \A t \in Tails : tail'[t] \in Saving <=> tail[t] \in Saving
  BY <1>1 DEF Saving
<1>4. \A t \in Tails : PipelineOf[t] \in Pipelines
  BY PipelineOfAssumption
<1>5. \A t \in Tails : tail'[t] = "write" => tail[t] = "write"
  BY <1>1
<1>6. Orderly'
  BY <1>1, <1>3, <1>4, <1>5 DEF Orderly, NobodySaves, FilesTypeOK
<1> QED
  BY <1>2, <1>6

\* A command leaves the map and the tails alone.
LEMMA CommandKeepsMap ==
    ASSUME FilesInv, UNCHANGED mapVars
    PROVE  TailsRun' /\ Orderly'
<1> TailsRun /\ Orderly
  BY DEF FilesInv
<1>1. UNCHANGED <<up, mappings, mapFile, tail, payload, disturbed>>
  BY DEF mapVars
<1> QED
  BY <1>1 DEF TailsRun, Orderly, NobodySaves

-----------------------------------------------------------------------------
(* The pending harvests.                                                   *)

\* A tail that has got past its harvest stays there.
LEMMA LaterKept ==
    ASSUME FilesTypeOK, NEW t \in Tails, TailStep(t), NEW u \in Tails, Later(u)
    PROVE  Later(u)'
<1>1. /\ \A v \in Tails \ {t} : tail'[v] = tail[v] /\ removing'[v] = removing[v]
  BY DEF TailStep, FirstEvent, Iterate, SaveRaises, OpenMap, WriteMap, BreakOff, HarvestSession,
         WritePending, SubmitCandidate, RemoveMapping, Change, To, files, FilesTypeOK
<1>2. CASE u # t
  BY <1>1, <1>2 DEF Later
<1>3. CASE u = t
  <2>1. tail[t] \in {"remove", "ended", "gone", "iterate", "open", "write"}
    BY <1>3 DEF Later, Saving
  <2>2. CASE Iterate(t) \/ SaveRaises(t) \/ OpenMap(t) \/ WriteMap(t)
    <3>1. tail[t] \in Saving /\ removing[t] = TRUE /\ removing' = removing
      BY <1>3, <2>2 DEF Later, Saving, Iterate, SaveRaises, OpenMap, WriteMap
    <3>2. tail'[t] \in {"open", "write", "gone", "ended"}
      BY <2>2, <3>1 DEF Iterate, SaveRaises, OpenMap, WriteMap, To, FilesTypeOK
    <3> QED
      BY <1>3, <3>1, <3>2 DEF Later, Saving
  <2>3. CASE RemoveMapping(t)
    <3>1. tail'[t] = "iterate" /\ removing'[t] = TRUE
      BY <2>3 DEF RemoveMapping, Change, To, FilesTypeOK
    <3> QED
      BY <1>3, <3>1 DEF Later, Saving
  <2>4. ~FirstEvent(t) /\ ~BreakOff(t) /\ ~HarvestSession(t) /\ ~WritePending(t) /\ ~SubmitCandidate(t)
    BY <2>1 DEF FirstEvent, BreakOff, HarvestSession, WritePending, SubmitCandidate
  <2> QED
    BY <2>2, <2>3, <2>4 DEF TailStep
<1> QED
  BY <1>2, <1>3

\* What a step of a tail does to the pending harvests and to the server.
LEMMA TailWrites ==
    ASSUME FilesInv, NEW t \in Tails, TailStep(t)
    PROVE  /\ UNCHANGED harvestVars
           /\ complete \subseteq complete' /\ complete' \subseteq complete \cup {t}
           /\ \A u \in Tails : u # t \/ t \in complete => pending'[u] = pending[u]
           /\ pending'[t] = "whole" => t \in complete'
           /\ t \in complete' /\ t \notin complete => pending'[t] = "whole" /\ tail'[t] = "remove"
           /\ \A c \in Harvests : c \in stored' <=> c \in stored
<1> FilesTypeOK /\ Written
  BY DEF FilesInv
<1>1. t \in complete => tail[t] \notin {"mapped", "pending"}
  BY DEF Written, Later, Saving
<1>2. pending[t] = "whole" => t \in complete
  BY DEF Written
<1>3. CASE FirstEvent(t) \/ Iterate(t) \/ SaveRaises(t) \/ OpenMap(t) \/ WriteMap(t)
           \/ BreakOff(t) \/ RemoveMapping(t)
  BY <1>2, <1>3 DEF FirstEvent, Iterate, SaveRaises, OpenMap, WriteMap, BreakOff, RemoveMapping
<1>4. CASE HarvestSession(t)
  <2>1. pending' = pending \/ pending' = [pending EXCEPT ![t] = "torn"]
    BY <1>4 DEF HarvestSession
  <2>2. tail[t] = "mapped" /\ UNCHANGED <<harvestVars, stored, complete>>
    BY <1>4 DEF HarvestSession
  <2> QED
    BY <1>1, <1>2, <2>1, <2>2 DEF FilesTypeOK
<1>5. CASE WritePending(t)
  <2>1. /\ tail[t] = "pending" /\ tail'[t] = "remove" /\ UNCHANGED <<harvestVars, stored>>
        /\ pending' = [pending EXCEPT ![t] = "whole"] /\ complete' = complete \cup {t}
    BY <1>5 DEF WritePending, To, FilesTypeOK
  <2> QED
    BY <1>1, <2>1 DEF FilesTypeOK
<1>6. CASE SubmitCandidate(t)
  <2>1. stored' = stored \cup {t} /\ UNCHANGED <<harvestVars, pending, complete>>
    BY <1>6 DEF SubmitCandidate
  <2>2. t \notin Harvests
    BY NamesAssumption
  <2> QED
    BY <1>2, <2>1, <2>2
<1> QED
  BY <1>3, <1>4, <1>5, <1>6 DEF TailStep

\* A tail neither takes back what it wrote nor writes what a command has unlinked.
LEMMA TailKeepsHarvests ==
    ASSUME FilesInv, NEW t \in Tails, TailStep(t)
    PROVE  Written' /\ Commands' /\ Earlier' /\ HarvestKept'
<1> FilesTypeOK /\ Written /\ Commands /\ Earlier /\ HarvestKept
  BY DEF FilesInv
<1>1. /\ UNCHANGED <<harvest, want, listed, discarded, earlier>>
      /\ complete \subseteq complete' /\ complete' \subseteq complete \cup {t}
      /\ \A u \in Tails : u # t \/ t \in complete => pending'[u] = pending[u]
      /\ pending'[t] = "whole" => t \in complete'
      /\ t \in complete' /\ t \notin complete => pending'[t] = "whole" /\ tail'[t] = "remove"
      /\ \A c \in Harvests : c \in stored' <=> c \in stored
  BY TailWrites DEF harvestVars
<1>2. complete \subseteq Tails /\ complete' \subseteq Tails
  BY <1>1 DEF FilesTypeOK
<1>3. \A u \in complete : pending'[u] = pending[u]
  BY <1>1, <1>2
<1>4. Written'
  <2>1. \A u \in complete : Later(u)'
    BY <1>2, LaterKept DEF Written
  <2>2. t \in complete' /\ t \notin complete => Later(t)'
    BY <1>1 DEF Later
  <2>3. \A u \in complete' : Later(u)'
    BY <1>1, <2>1, <2>2
  <2>4. \A u \in Tails : pending'[u] = "whole" => u \in complete'
    BY <1>1 DEF Written
  <2> QED
    BY <2>3, <2>4 DEF Written
<1>5. Commands'
  BY <1>1, <1>3 DEF Commands
<1>6. Earlier'
  BY <1>1 DEF Earlier
<1>7. HarvestKept'
  <2> SUFFICES ASSUME NEW u \in complete'
               PROVE  \/ pending'[u] = "whole" \/ u \in discarded'
                      \/ \E c \in stored' \cap Harvests : want'[c] = [kind |-> "submit", id |-> u]
    BY DEF HarvestKept
  <2>1. CASE u \in complete
    BY <1>1, <1>3, <2>1 DEF HarvestKept
  <2>2. CASE u \notin complete
    BY <1>1, <2>2
  <2> QED
    BY <2>1, <2>2
<1> QED
  BY <1>4, <1>5, <1>6, <1>7

\* A pipeline that starts or stops leaves the pending harvests alone.
LEMMA PipelineKeepsHarvests ==
    ASSUME FilesInv, NEW p \in Pipelines, StartPipeline(p) \/ StopPipeline(p)
    PROVE  Written' /\ Commands' /\ Earlier' /\ HarvestKept'
<1> FilesTypeOK /\ Written /\ Commands /\ Earlier /\ HarvestKept
  BY DEF FilesInv
<1>1. UNCHANGED <<harvest, want, listed, discarded, earlier, pending, stored, complete, removing>>
  BY DEF StartPipeline, StopPipeline, harvestVars
<1>2. \A t \in Tails : tail'[t] = tail[t] \/ tail'[t] = "gone"
  BY DEF StartPipeline, StopPipeline
<1>3. \A t \in complete : Later(t)'
  BY <1>1, <1>2 DEF Written, Later, FilesTypeOK
<1> QED
  BY <1>1, <1>3 DEF Written, Commands, Earlier, HarvestKept

-----------------------------------------------------------------------------
(* The commands.                                                           *)

\* What every step of a command c leaves as it was.
Others(c) ==
    /\ UNCHANGED <<tail, removing, complete>>
    /\ \A d \in Harvests \ {c} :
         /\ harvest'[d] = harvest[d] /\ want'[d] = want[d] /\ listed'[d] = listed[d]
         /\ earlier'[d] = earlier[d] /\ (d \in stored' <=> d \in stored)
    /\ \A t \in Tails : pending'[t] = pending[t] \/ (pending'[t] = "none" /\ t \in complete)
    /\ stored \subseteq stored' /\ discarded \subseteq discarded'
    /\ harvest[c] # "done"
    /\ harvest[c] # "idle" => /\ want'[c] = want[c] /\ listed'[c] = listed[c]
                              /\ earlier'[c] = earlier[c] /\ harvest'[c] # "idle"

\* Every step of a command does.
LEMMA CommandTouches ==
    ASSUME FilesInv, NEW c \in Harvests, CommandStep(c)
    PROVE  Others(c)
<1> FilesTypeOK /\ Commands
  BY DEF FilesInv
<1> USE DEF Become, harvestVars, mapVars, FilesTypeOK, Others
<1>1. CASE ListPending(c)
  BY <1>1 DEF ListPending
<1>2. CASE ReadPending(c)
  BY <1>2 DEF ReadPending
<1>3. CASE SubmitPending(c)
  <2>1. stored \subseteq stored' /\ stored' \subseteq stored \cup {c}
    BY <1>3 DEF SubmitPending
  <2> QED
    BY <1>3, <2>1 DEF SubmitPending
<1>4. CASE UnlinkPending(c)
  <2>1. want[c].id \in complete /\ want[c].id \in Tails
    BY <1>4 DEF UnlinkPending, Commands
  <2>2. \A t \in Tails : pending'[t] = pending[t] \/ (pending'[t] = "none" /\ t \in complete)
    BY <1>4, <2>1 DEF UnlinkPending
  <2>3. discarded \subseteq discarded'
    BY <1>4 DEF UnlinkPending
  <2> QED
    BY <1>4, <2>2, <2>3 DEF UnlinkPending
<1>5. CASE KillHarvest(c)
  BY <1>5 DEF KillHarvest
<1> QED
  BY <1>1, <1>2, <1>3, <1>4, <1>5 DEF CommandStep

\* A command writes no harvest.
LEMMA CommandKeepsWritten ==
    ASSUME FilesInv, NEW c \in Harvests, Others(c)
    PROVE  Written'
<1> Written
  BY DEF FilesInv
<1> QED
  BY DEF Written, Later, Others

\* A command goes on to submit what it found whole, and to unlink what it submitted.
LEMMA CommandsKept ==
    ASSUME FilesInv, NEW c \in Harvests, CommandStep(c), Others(c)
    PROVE  Commands'
<1> FilesTypeOK /\ Commands /\ Written
  BY DEF FilesInv
<1> DEFINE Right(d) ==
      /\ harvest'[d] \in {"submit", "unlink"} =>
           want'[d].id \in listed'[d] /\ want'[d].id \in complete'
      /\ harvest'[d] = "submit" => want'[d].kind = "submit"
      /\ harvest'[d] = "unlink" =>
           want'[d].kind = "discard" \/ (want'[d].kind = "submit" /\ d \in stored')
      /\ harvest'[d] = "done" /\ want'[d].kind # "review" =>
           want'[d].id \in complete' /\ pending'[want'[d].id] = "none"
      /\ d \in stored' => want'[d].id \in listed'[d] /\ harvest'[d] # "idle"
<1>1. ASSUME NEW d \in Harvests \ {c} PROVE Right(d)
  <2>1. /\ harvest'[d] = harvest[d] /\ want'[d] = want[d] /\ listed'[d] = listed[d]
        /\ (d \in stored' <=> d \in stored) /\ complete' = complete
        /\ \A t \in Tails : pending'[t] = pending[t] \/ pending'[t] = "none"
    BY DEF Others
  <2>2. want[d].id \in Tails
    BY DEF FilesTypeOK, Wanted
  <2> QED
    BY <2>1, <2>2 DEF Commands
<1>2. Right(c)
  <2> want[c] \in Wanted /\ harvest \in [Harvests -> {"idle", "read", "submit", "unlink", "done", "failed"}]
    BY DEF FilesTypeOK
  <2> complete' = complete
    BY DEF Others
  <2>1. CASE ListPending(c)
    <3>1. harvest[c] = "idle" /\ harvest'[c] = "read" /\ stored' = stored
      BY <2>1 DEF ListPending, Become
    <3> QED
      BY <3>1 DEF Commands
  <2>2. CASE ReadPending(c)
    <3>1. /\ harvest[c] = "read" /\ UNCHANGED <<stored, want, listed, pending>>
          /\ harvest'[c] \in {"failed", "done", "submit", "unlink"}
          /\ harvest'[c] # "failed" => \A t \in listed[c] : pending[t] = "whole"
          /\ harvest'[c] = "done" => want[c].kind = "review"
          /\ harvest'[c] \in {"submit", "unlink"} => want[c].id \in listed[c]
          /\ harvest'[c] = "submit" => want[c].kind = "submit"
          /\ harvest'[c] = "unlink" => want[c].kind = "discard"
      BY <2>2 DEF ReadPending, Become, Wanted
    <3>2. want[c].id \in Tails
      BY DEF Wanted
    <3> QED
      BY <3>1, <3>2 DEF Commands, Written
  <2>3. CASE SubmitPending(c)
    <3>1. /\ harvest[c] = "submit" /\ UNCHANGED <<want, listed>>
          /\ harvest'[c] = "failed" \/ (harvest'[c] = "unlink" /\ c \in stored')
      BY <2>3 DEF SubmitPending, Become
    <3> QED
      BY <3>1 DEF Commands
  <2>4. CASE UnlinkPending(c)
    <3>1. /\ harvest[c] = "unlink" /\ harvest'[c] = "done" /\ UNCHANGED <<want, listed, stored>>
          /\ pending' = [pending EXCEPT ![want[c].id] = "none"]
      BY <2>4 DEF UnlinkPending, Become
    <3>2. pending'[want[c].id] = "none"
      BY <3>1 DEF FilesTypeOK, Wanted
    <3> QED
      BY <3>1, <3>2 DEF Commands
  <2>5. CASE KillHarvest(c)
    <3>1. /\ harvest[c] # "idle" /\ harvest'[c] = "failed" /\ UNCHANGED <<want, listed, stored>>
      BY <2>5 DEF KillHarvest, Become
    <3> QED
      BY <3>1 DEF Commands
  <2> QED
    BY <2>1, <2>2, <2>3, <2>4, <2>5 DEF CommandStep
<1>3. \A d \in Harvests : Right(d)
  BY <1>1, <1>2
<1> QED
  BY <1>3 DEF Commands

\* What was settled before a command began is not among the files it finds.
LEMMA EarlierKept ==
    ASSUME FilesInv, NEW c \in Harvests, CommandStep(c), Others(c)
    PROVE  Earlier'
<1> FilesTypeOK /\ Commands /\ Earlier
  BY DEF FilesInv
<1>1. \A d \in Harvests : harvest[d] = "done" => harvest'[d] = "done" /\ want'[d] = want[d]
  BY DEF Others
<1>2. \A d \in Harvests : earlier[d] \subseteq Harvests
  BY DEF FilesTypeOK
<1>3. ASSUME NEW e \in Harvests, NEW d \in earlier'[e],
             earlier'[e] = earlier[e], listed'[e] = listed[e], harvest[e] # "idle" => harvest'[e] # "idle"
      PROVE  /\ harvest'[d] = "done" /\ harvest'[e] # "idle"
             /\ want'[d].kind = "review" \/ want'[d].id \notin listed'[e]
  <2>1. d \in earlier[e] /\ d \in Harvests
    BY <1>2, <1>3
  <2> QED
    BY <1>1, <1>3, <2>1 DEF Earlier
<1>4. ASSUME ListPending(c), NEW d \in earlier'[c]
      PROVE  /\ harvest'[d] = "done" /\ harvest'[c] # "idle"
             /\ want'[d].kind = "review" \/ want'[d].id \notin listed'[c]
  <2>1. /\ d \in Harvests /\ harvest[d] = "done" /\ harvest'[c] = "read"
        /\ listed'[c] = {t \in Tails : pending[t] # "none"}
    BY <1>4 DEF ListPending, Become, FilesTypeOK
  <2> QED
    BY <1>1, <2>1 DEF Commands
<1>5. ~ListPending(c) => harvest[c] # "idle"
  BY DEF CommandStep, ReadPending, SubmitPending, UnlinkPending, KillHarvest
<1>6. \A e \in Harvests \ {c} : /\ earlier'[e] = earlier[e] /\ listed'[e] = listed[e]
                                /\ harvest'[e] = harvest[e]
  BY DEF Others
<1>7. ~ListPending(c) => /\ earlier'[c] = earlier[c] /\ listed'[c] = listed[c]
                         /\ harvest'[c] # "idle"
  BY <1>5 DEF Others
<1> QED
  BY <1>3, <1>4, <1>6, <1>7 DEF Earlier

\* Only a harvest that was submitted or is discarded is unlinked.
LEMMA HarvestKeptKept ==
    ASSUME FilesInv, NEW c \in Harvests, CommandStep(c), Others(c)
    PROVE  HarvestKept'
<1> FilesTypeOK /\ Commands /\ HarvestKept
  BY DEF FilesInv
<1>1. complete' = complete /\ complete \subseteq Tails /\ discarded \subseteq discarded'
  BY DEF Others, FilesTypeOK
<1>2. \A d \in stored \cap Harvests : d \in stored' /\ want'[d] = want[d]
  BY DEF Others, Commands
<1>3. ASSUME NEW t \in complete
      PROVE  \/ pending'[t] = "whole" \/ t \in discarded'
             \/ \E d \in stored' \cap Harvests : want'[d] = [kind |-> "submit", id |-> t]
  <2>1. CASE t \in discarded \/ \E d \in stored \cap Harvests : want[d] = [kind |-> "submit", id |-> t]
    BY <1>1, <1>2, <2>1
  <2>2. CASE pending[t] = "whole" /\ pending'[t] = pending[t]
    BY <2>2
  <2>3. CASE pending[t] = "whole" /\ pending'[t] # pending[t]
    <3>1. UnlinkPending(c)
      BY <2>3 DEF CommandStep, ListPending, ReadPending, SubmitPending, KillHarvest
    <3>2. t = want[c].id
      BY <1>1, <2>3, <3>1 DEF UnlinkPending, FilesTypeOK
    <3>3. CASE want[c].kind = "discard"
      BY <3>1, <3>2, <3>3 DEF UnlinkPending
    <3>4. CASE want[c].kind # "discard"
      <4>1. want[c].kind = "submit" /\ c \in stored
        BY <3>1, <3>4 DEF UnlinkPending, Commands
      <4>2. want[c] = [kind |-> "submit", id |-> t]
        BY <3>2, <4>1 DEF FilesTypeOK, Wanted
      <4> QED
        BY <1>2, <4>1, <4>2
    <3> QED
      BY <3>3, <3>4
  <2> QED
    BY <2>1, <2>2, <2>3 DEF HarvestKept
<1> QED
  BY <1>1, <1>3 DEF HarvestKept

-----------------------------------------------------------------------------
(* The invariant and its theorems.                                         *)

\* The invariant holds at the start,
LEMMA FilesInitially == FilesInit => FilesInv
<1> SUFFICES ASSUME FilesInit PROVE FilesInv
  OBVIOUS
<1>1. (CHOOSE s \in Sources : TRUE) \in Sources
  BY NamesAssumption
<1>2. (CHOOSE w \in Wanted : TRUE) \in Wanted
  <2>1. PICK t \in Tails : TRUE
    BY NamesAssumption
  <2>2. [kind |-> "review", id |-> t] \in Wanted
    BY DEF Wanted
  <2> QED
    BY <2>2
<1>3. FilesTypeOK
  BY <1>1, <1>2 DEF FilesInit, FilesTypeOK
<1>4. TailsRun
  BY DEF FilesInit, TailsRun, Tailing, Saving
<1>5. Orderly
  <2>1. mapFile # Empty /\ mapFile # Torn
    BY ContentAssumption DEF FilesInit
  <2> QED
    BY <2>1 DEF FilesInit, Orderly, Saving
<1>6. Written /\ Commands /\ Earlier /\ HarvestKept
  BY DEF FilesInit, Written, Commands, Earlier, HarvestKept
<1> QED
  BY <1>3, <1>4, <1>5, <1>6 DEF FilesInv

\* ... every step keeps it,
LEMMA FilesPreserved == FilesInv /\ [FilesNext]_fileVars => FilesInv'
<1> SUFFICES ASSUME FilesInv, [FilesNext]_fileVars PROVE FilesInv'
  OBVIOUS
<1>1. FilesTypeOK'
  BY FilesTypesKept
<1>2. CASE \E p \in Pipelines : StartPipeline(p) \/ StopPipeline(p)
  BY <1>1, <1>2, StartKeepsMap, StopKeepsMap, PipelineKeepsHarvests DEF FilesInv
<1>3. CASE \E t \in Tails : TailStep(t)
  BY <1>1, <1>3, MapKept, TailKeepsHarvests DEF FilesInv
<1>4. CASE \E c \in Harvests : CommandStep(c)
  <2>1. PICK c \in Harvests : CommandStep(c)
    BY <1>4
  <2>2. Others(c)
    BY <2>1, CommandTouches
  <2>3. UNCHANGED mapVars
    BY <2>1 DEF CommandStep, ListPending, ReadPending, SubmitPending, UnlinkPending, KillHarvest
  <2> QED
    BY <1>1, <2>1, <2>2, <2>3, CommandKeepsMap, CommandKeepsWritten, CommandsKept, EarlierKept,
       HarvestKeptKept DEF FilesInv
<1>5. CASE UNCHANGED fileVars
  <2>1. UNCHANGED <<up, mappings, mapFile, tail, removing, payload, disturbed, harvest, want,
                    listed, discarded, earlier, pending, stored, complete>>
    BY <1>5 DEF fileVars, mapVars, harvestVars
  <2>2. UNCHANGED mapVars
    BY <1>5 DEF fileVars
  <2>3. Written' /\ Commands' /\ Earlier' /\ HarvestKept'
    BY <2>1 DEF FilesInv, Written, Later, Commands, Earlier, HarvestKept
  <2> QED
    BY <1>1, <2>2, <2>3, CommandKeepsMap DEF FilesInv
<1> QED
  BY <1>2, <1>3, <1>4, <1>5 DEF FilesNext, TailStep, CommandStep

\* ... and so it holds always.
LEMMA FilesInvariant == FilesSpec => []FilesInv
<1> QED
  BY FilesInitially, FilesPreserved, PTL DEF FilesSpec

\* The types of the files, the tails and the commands (HarnessPipeline, fixlog harvest).
THEOREM FilesTypes == FilesSpec => []FilesTypeOK
<1>1. FilesInv => FilesTypeOK
  BY DEF FilesInv
<1> QED
  BY <1>1, FilesInvariant, PTL

\* The session map on disk is the one in memory whenever no save is under way, if saves
\* never overlapped and none was cut off (SessionMapStore).
THEOREM MapIsCurrent == FilesSpec => []MapCurrent
<1>1. FilesInv => MapCurrent
  BY DEF FilesInv, FilesTypeOK, Orderly, MapCurrent
<1> QED
  BY <1>1, FilesInvariant, PTL

\* No pending harvest that was written is lost, whichever command is killed (the submit and
\* unlink of fixlog harvest).
THEOREM HarvestsAreKept == FilesSpec => []HarvestKept
<1>1. FilesInv => HarvestKept
  BY DEF FilesInv
<1> QED
  BY <1>1, FilesInvariant, PTL

\* A harvest that a command settled is not submitted by a later one (fixlog harvest).
THEOREM SettledForGood == FilesSpec => []SettledOnce
<1>1. FilesInv => SettledOnce
  BY DEF FilesInv, Commands, Earlier, SettledOnce
<1> QED
  BY <1>1, FilesInvariant, PTL

-----------------------------------------------------------------------------
(* EventAnalysis.                                                             *)

\* The types, with the sequences as sequences.
Signal == [at : Nat, kind : {"repeated_error", "thrashing"}, cites : SUBSET Nat]
Typed ==
    /\ events \in Seq(Event)
    /\ armed \in BOOLEAN /\ lastSignal \in 0..MaxTime
    /\ signals \in Seq(Signal)
    /\ \A n \in DOMAIN signals :
         signals[n].at \in DOMAIN events /\ signals[n].cites \subseteq DOMAIN events

\* The cooldown counts from the last signal.
CooldownOfLast ==
    /\ armed = FALSE => signals = << >>
    /\ armed => /\ signals # << >>
                /\ lastSignal = events[signals[Len(signals)].at].ts

\* A tool_use has an id that was not heard before, or is retried.
FreshCalls ==
    \A j \in DOMAIN events : IsCall(events[j]) =>
        \/ \A i \in DOMAIN events : i < j => events[i].id # events[j].id
        \/ \E i \in DOMAIN events : i < j /\ events[i] = events[j]

\* No signal without a reason, and none in the cooldown of the one before it.
SignalsAreDue ==
    /\ \A n \in DOMAIN signals, i \in DOMAIN events : signals[n].at = i => StuckAt(i)
    /\ \A n \in DOMAIN signals :
         n > 1 => events[signals[n].at].ts - events[signals[n - 1].at].ts >= Cooldown

AnalysisInv ==
    Typed /\ CooldownOfLast /\ FreshCalls /\ StuckIsSignalled /\ SignalsAreDue

-----------------------------------------------------------------------------
(* Numbers and sets.                                                        *)

\* A set of naturals that is not empty has a least element.
LEMMA Least ==
    ASSUME NEW T, T \subseteq Nat, T # {}
    PROVE  \E x \in T : \A y \in T : x <= y
<1> DEFINE R == OpToRel(<, Nat)
<1>1. IsWellFoundedOn(R, Nat)
  BY NatLessThanWellFounded
<1>2. R = {ss \in Nat \X Nat : ss[1] < ss[2]}
  BY DEF OpToRel
<1>3. \A x, y \in Nat : y < x => <<y, x>> \in R
  BY <1>2
<1> HIDE DEF R
<1>4. PICK x \in T : \A y \in T : ~ (<<y, x>> \in R)
  BY <1>1, WFMin
<1>5. \A y \in T : x <= y
  <2> TAKE y \in T
  <2>1. x \in Nat /\ y \in Nat
    BY <1>4
  <2>2. ~ (y < x)
    BY <1>3, <1>4, <2>1
  <2> QED BY <2>1, <2>2
<1> QED BY <1>4, <1>5

\* A finite set has a subset of every smaller size.
LEMMA SubsetOfSize ==
    ASSUME NEW S, IsFiniteSet(S), NEW k \in Nat, Cardinality(S) >= k
    PROVE  \E s \in SUBSET S : Cardinality(s) = k
<1> DEFINE Big == {s \in SUBSET S : Cardinality(s) >= k}
           Sizes == {Cardinality(s) : s \in Big}
<1>1. \A s \in SUBSET S : IsFiniteSet(s) /\ Cardinality(s) \in Nat
  BY FS_Subset, FS_CardinalityType
<1>2. Sizes \subseteq Nat /\ Cardinality(S) \in Sizes
  BY <1>1
<1>3. PICK m \in Sizes : \A x \in Sizes : m <= x
  BY <1>2, Least
<1>4. PICK s \in Big : m = Cardinality(s)
  BY <1>3
<1>5. ASSUME m # k PROVE FALSE
  <2>1. m > k /\ m \in Nat
    BY <1>1, <1>4, <1>5
  <2>2. s # {}
    BY <1>4, <2>1, FS_EmptySet
  <2>3. PICK x \in s : TRUE
    BY <2>2
  <2>4. Cardinality(s \ {x}) = m - 1
    BY <1>1, <1>4, <2>3, FS_RemoveElement
  <2>5. s \ {x} \in Big /\ Cardinality(s \ {x}) \in Sizes
    BY <1>4, <2>1, <2>4
  <2>6. m <= m - 1
    BY <1>3, <2>4, <2>5
  <2> QED BY <2>1, <2>6
<1> QED BY <1>4, <1>5

\* There are at least k of the members of a finite set that satisfy a condition when it
\* has a subset of k that do.
LEMMA EnoughOf ==
    ASSUME NEW V, IsFiniteSet(V), NEW M, M \subseteq V, NEW k \in Nat
    PROVE  Cardinality(M) >= k <=> \E S \in kSubset(k, V) : S \subseteq M
<1>1. IsFiniteSet(M)
  BY FS_Subset
<1>2. ASSUME Cardinality(M) >= k PROVE \E S \in kSubset(k, V) : S \subseteq M
  <2>1. PICK S \in SUBSET M : Cardinality(S) = k
    BY <1>1, <1>2, SubsetOfSize
  <2> QED BY <2>1 DEF kSubset
<1>3. ASSUME NEW S \in kSubset(k, V), S \subseteq M PROVE Cardinality(M) >= k
  <2>1. Cardinality(S) = k /\ S \in SUBSET M
    BY <1>3 DEF kSubset
  <2> QED BY <1>1, <2>1, FS_Subset, FS_CardinalityType
<1> QED BY <1>2, <1>3

-----------------------------------------------------------------------------
(* The steps.                                                               *)

\* An event has an id, a time, and is a call or a result.
LEMMA EventShape ==
    ASSUME NEW e \in Event
    PROVE  /\ e.ts \in 0..MaxTime /\ e.ts \in Nat /\ e.id \in Ids
           /\ IsCall(e) \/ IsResult(e)
           /\ ~ (IsCall(e) /\ IsResult(e))
BY BoundsAssumption DEF Event, IsCall, IsResult

\* Every step processes an event, a call with an id that is new or one that was processed.
LEMMA NextProcesses ==
    ASSUME Typed, AnalysisNext
    PROVE  \E e \in Event :
              /\ Process(e)
              /\ \/ IsCall(e) => \A i \in DOMAIN events : events[i].id # e.id
                 \/ \E i \in DOMAIN events : events[i] = e
<1>1. \/ \E id \in Ids, ts \in 0..MaxTime, command \in AgentCommands \cup {NoValue} :
            ToolUse(id, ts, command)
      \/ \E id \in Ids, ts \in 0..MaxTime, c \in Content : ToolResultArrives(id, ts, c)
      \/ \E n \in DOMAIN signals : EventRetried(n)
  BY DEF AnalysisNext
<1>2. ASSUME NEW id \in Ids, NEW ts \in 0..MaxTime, NEW command \in AgentCommands \cup {NoValue},
             ToolUse(id, ts, command)
      PROVE  \E e \in Event :
                /\ Process(e)
                /\ IsCall(e) => \A i \in DOMAIN events : events[i].id # e.id
  <2> DEFINE e == [kind |-> "call", ts |-> ts, id |-> id, command |-> command]
  <2>1. e \in [kind : {"call"}, ts : 0..MaxTime, id : Ids, command : AgentCommands \cup {NoValue}]
    OBVIOUS
  <2>2. e \in Event
    BY <2>1 DEF Event
  <2>3. Process(e) /\ \A i \in DOMAIN events : events[i].id # e.id
    BY <1>2 DEF ToolUse
  <2> HIDE DEF e
  <2> QED BY <2>2, <2>3
<1>3. ASSUME NEW id \in Ids, NEW ts \in 0..MaxTime, NEW c \in Content,
             ToolResultArrives(id, ts, c)
      PROVE  \E e \in Event :
                /\ Process(e)
                /\ IsCall(e) => \A i \in DOMAIN events : events[i].id # e.id
  <2> DEFINE e == ToolResult(id, ts, c)
  <2>1. e \in Event /\ ~ IsCall(e)
    <3>1. /\ c.python \in Signatures \cup {NoValue}
          /\ c.other \in BOOLEAN /\ c.passed \in BOOLEAN
      BY DEF Content
    <3>2. IsErrorContent(c) \in BOOLEAN
      BY <3>1 DEF IsErrorContent
    <3> QED BY <3>1, <3>2 DEF Event, ToolResult, IsCall
  <2>2. Process(e)
    BY <1>3 DEF ToolResultArrives
  <2> HIDE DEF e
  <2> QED BY <2>1, <2>2
<1>4. ASSUME NEW n \in DOMAIN signals, EventRetried(n)
      PROVE  \E i \in DOMAIN events : events[i] \in Event /\ Process(events[i])
  <2>1. signals[n].at \in DOMAIN events
    BY DEF Typed
  <2>2. events[signals[n].at] \in Event
    BY <2>1 DEF Typed
  <2> QED BY <1>4, <2>1, <2>2 DEF EventRetried
<1> QED BY <1>1, <1>2, <1>3, <1>4

\* What a processed event does to the state: it is the last event, and there is a new
\* signal, which is its, or nothing else changes.
LEMMA ProcessShape ==
    ASSUME Typed, NEW e \in Event, Process(e)
    PROVE  /\ events' = Append(events, e)
           /\ Len(events') = Len(events) + 1 /\ events'[Len(events')] = e
           /\ \A i \in DOMAIN events : i \in DOMAIN events' /\ events'[i] = events[i]
           /\ DOMAIN events' = DOMAIN events \cup {Len(events')}
           /\ \/ \E s \in Signal :
                   /\ s.at = Len(events') /\ s.cites \subseteq DOMAIN events'
                   /\ signals' = Append(signals, s)
                   /\ ~ InCooldown(e)
                   /\ RepeatedError(events', e) \/ Thrashing(events')
                   /\ armed' = TRUE /\ lastSignal' = e.ts
              \/ /\ InCooldown(e) \/ ~ (RepeatedError(events', e) \/ Thrashing(events'))
                 /\ UNCHANGED <<armed, lastSignal, signals>>
<1> DEFINE h == Append(events, e)
<1>1. events' = h /\ Detect(h, e)
  BY DEF Process
<1>2. /\ h \in Seq(Event) /\ Len(h) = Len(events) + 1 /\ h[Len(h)] = e
      /\ \A i \in DOMAIN events : i \in DOMAIN h /\ h[i] = events[i]
      /\ DOMAIN h = DOMAIN events \cup {Len(h)} /\ DOMAIN h \subseteq Nat
  BY DEF Typed
<1> HIDE DEF h
<1>3. ASSUME NEW kind \in {"repeated_error", "thrashing"},
             NEW S, S \subseteq DOMAIN h, NEW k, Emit(h, kind, LastIn(S, k))
      PROVE  \E s \in Signal :
                /\ s.at = Len(h) /\ s.cites \subseteq DOMAIN h
                /\ signals' = Append(signals, s)
                /\ armed' = TRUE /\ lastSignal' = e.ts
  <2> DEFINE s == [at |-> Len(h), kind |-> kind, cites |-> LastIn(S, k)]
  <2>1. LastIn(S, k) \subseteq DOMAIN h
    BY <1>3 DEF LastIn
  <2>2. s \in Signal
    BY <1>2, <2>1 DEF Signal
  <2> QED BY <1>2, <1>3, <2>1, <2>2 DEF Emit
<1>4. Matches(h, e) \subseteq DOMAIN h /\ ErrorEvents(h) \subseteq DOMAIN h
  BY DEF Matches, ErrorEvents, LastOf
<1>5. \/ \E s \in Signal :
           /\ s.at = Len(h) /\ s.cites \subseteq DOMAIN h
           /\ signals' = Append(signals, s)
           /\ ~ InCooldown(e)
           /\ RepeatedError(h, e) \/ Thrashing(h)
           /\ armed' = TRUE /\ lastSignal' = e.ts
      \/ /\ InCooldown(e) \/ ~ (RepeatedError(h, e) \/ Thrashing(h))
         /\ UNCHANGED <<armed, lastSignal, signals>>
  <2>1. CASE /\ ~ InCooldown(e) /\ RepeatedError(h, e)
             /\ Emit(h, "repeated_error", LastIn(Matches(h, e), Repeats))
    BY <1>3, <1>4, <2>1
  <2>2. CASE /\ ~ InCooldown(e) /\ ~ RepeatedError(h, e) /\ Thrashing(h)
             /\ Emit(h, "thrashing", LastIn(ErrorEvents(h), Errors))
    BY <1>3, <1>4, <2>2
  <2>3. CASE /\ InCooldown(e) \/ ~ (RepeatedError(h, e) \/ Thrashing(h))
             /\ UNCHANGED <<armed, lastSignal, signals>>
    BY <2>3
  <2> QED BY <1>1, <2>1, <2>2, <2>3 DEF Detect
<1> QED BY <1>1, <1>2, <1>5

\* The types are kept.
LEMMA TypesKept ==
    ASSUME Typed, NEW e \in Event, Process(e)
    PROVE  Typed'
<1>1. events' \in Seq(Event) /\ DOMAIN events \subseteq DOMAIN events'
      /\ Len(events') \in DOMAIN events'
  <2>1. events' = Append(events, e)
    BY ProcessShape
  <2> QED BY <2>1 DEF Typed
<1>2. CASE UNCHANGED <<armed, lastSignal, signals>>
  BY <1>1, <1>2 DEF Typed
<1>3. ASSUME NEW s \in Signal, s.at = Len(events'), s.cites \subseteq DOMAIN events',
             signals' = Append(signals, s), armed' = TRUE, lastSignal' = e.ts
      PROVE  Typed'
  <2>1. signals' \in Seq(Signal)
    BY <1>3 DEF Typed
  <2>2. \A n \in DOMAIN signals' :
           signals'[n].at \in DOMAIN events' /\ signals'[n].cites \subseteq DOMAIN events'
    <3> TAKE n \in DOMAIN signals'
    <3>1. CASE n \in DOMAIN signals
      <4>1. signals'[n] = signals[n]
        BY <1>3, <3>1 DEF Typed
      <4>2. signals[n].at \in DOMAIN events /\ signals[n].cites \subseteq DOMAIN events
        BY <3>1 DEF Typed
      <4> QED BY <1>1, <4>1, <4>2
    <3>2. CASE n \notin DOMAIN signals
      <4>1. signals'[n] = s
        BY <1>3, <3>2 DEF Typed
      <4> QED BY <1>1, <1>3, <4>1
    <3> QED BY <3>1, <3>2
  <2> QED BY <1>1, <1>3, <2>1, <2>2, EventShape DEF Typed
<1> QED BY <1>2, <1>3, ProcessShape

\* Every tool_use stays new or retried.
LEMMA FreshKept ==
    ASSUME Typed, FreshCalls, NEW e \in Event, Process(e),
           \/ IsCall(e) => \A i \in DOMAIN events : events[i].id # e.id
           \/ \E i \in DOMAIN events : events[i] = e
    PROVE  FreshCalls'
<1>1. SUFFICES ASSUME NEW j \in DOMAIN events', IsCall(events'[j])
               PROVE  \/ \A i \in DOMAIN events' : i < j => events'[i].id # events'[j].id
                      \/ \E i \in DOMAIN events' : i < j /\ events'[i] = events'[j]
  BY DEF FreshCalls
<1>2. /\ \A i \in DOMAIN events : i \in DOMAIN events' /\ events'[i] = events[i] /\ i \in Nat
      /\ \A i \in DOMAIN events : i < Len(events')
      /\ DOMAIN events' = DOMAIN events \cup {Len(events')} /\ events'[Len(events')] = e
      /\ Len(events') \in Nat
  <2>1. events' = Append(events, e)
    BY ProcessShape
  <2> QED BY <2>1 DEF Typed
<1>3. CASE j \in DOMAIN events
  <2>1. \A i \in DOMAIN events' : i < j => i \in DOMAIN events
    <3>1. j \in Nat /\ j < Len(events')
      BY <1>2, <1>3
    <3>2. ~ (Len(events') < j)
      <4>1. \A k \in Nat : j < k => ~ (k < j)
        BY <3>1
      <4>2. Len(events') \in Nat
        BY <1>2
      <4> QED BY <3>1, <4>1, <4>2
    <3>3. ASSUME NEW i \in DOMAIN events', i < j PROVE i \in DOMAIN events
      <4>1. i # Len(events')
        BY <3>3, <3>2
      <4> QED BY <1>2, <4>1, Zenon
    <3> QED BY <3>3
  <2>2. events'[j] = events[j] /\ IsCall(events[j])
    BY <1>1, <1>2, <1>3
  <2>3. CASE \A i \in DOMAIN events : i < j => events[i].id # events[j].id
    BY <1>2, <2>1, <2>2, <2>3
  <2>4. CASE \E i \in DOMAIN events : i < j /\ events[i] = events[j]
    BY <1>2, <2>2, <2>4
  <2> QED BY <1>3, <2>2, <2>3, <2>4 DEF FreshCalls
<1>4. CASE j = Len(events')
  <2>1. \A i \in DOMAIN events' : i < j => i \in DOMAIN events
    <3>1. ~ (Len(events') < j)
      <4>1. j \in Nat
        BY <1>2, <1>4
      <4>2. ~ (j < j)
        BY <4>1
      <4> QED BY <1>4, <4>2
    <3>2. ASSUME NEW i \in DOMAIN events', i < j PROVE i \in DOMAIN events
      <4>1. i # Len(events')
        BY <3>2, <3>1
      <4> QED BY <1>2, <4>1, Zenon
    <3> QED BY <3>2
  <2>2. CASE \A i \in DOMAIN events : events[i].id # e.id
    BY <1>2, <1>4, <2>1, <2>2
  <2>3. CASE \E i \in DOMAIN events : events[i] = e
    BY <1>2, <1>4, <2>3
  <2>4. IsCall(e)
    BY <1>1, <1>2, <1>4
  <2> QED BY <2>2, <2>3, <2>4
<1> QED BY <1>2, <1>3, <1>4

\* The cooldown goes on counting from the last signal.
LEMMA CooldownKept ==
    ASSUME Typed, CooldownOfLast, NEW e \in Event, Process(e)
    PROVE  CooldownOfLast'
<1>1. CASE UNCHANGED <<armed, lastSignal, signals>>
  <2>1. SUFFICES ASSUME armed PROVE CooldownOfLast'
    BY <1>1 DEF CooldownOfLast, Typed
  <2>2. signals # << >> /\ lastSignal = events[signals[Len(signals)].at].ts
    BY <2>1 DEF CooldownOfLast
  <2>3. Len(signals) \in DOMAIN signals
    BY <2>2 DEF Typed
  <2>4. signals[Len(signals)].at \in DOMAIN events
    BY <2>3 DEF Typed
  <2> QED BY <1>1, <2>2, <2>4, ProcessShape DEF CooldownOfLast
<1>2. ASSUME NEW s \in Signal, s.at = Len(events'), signals' = Append(signals, s),
             armed' = TRUE, lastSignal' = e.ts
      PROVE  CooldownOfLast'
  <2>1. signals' # << >> /\ signals'[Len(signals')] = s
    BY <1>2 DEF Typed
  <2> QED BY <1>2, <2>1, ProcessShape DEF CooldownOfLast
<1> QED BY <1>1, <1>2, ProcessShape

-----------------------------------------------------------------------------
(* The detector.                                                            *)

\* A new event does not change that there was reason to signal at an earlier one.
LEMMA StuckStays ==
    ASSUME Typed, NEW e \in Event, events' = Append(events, e), NEW i \in DOMAIN events
    PROVE  StuckAt(i)' <=> StuckAt(i)
<1> DEFINE W(n) == (i - n + 1)..i \cap DOMAIN events
<1>1. /\ i \in Nat /\ i <= Len(events) /\ events'[i] = events[i]
      /\ DOMAIN events' = 1..(Len(events) + 1) /\ DOMAIN events = 1..Len(events)
      /\ \A j \in DOMAIN events : events'[j] = events[j]
  BY DEF Typed
<1>2. \A n \in Nat : (i - n + 1)..i \cap DOMAIN events' = W(n)
  BY <1>1
<1>3. Kept \in Nat /\ ThrashingWindow \in Nat
  BY DetectorAssumption
<1>4. /\ (i - Kept + 1)..i \cap DOMAIN events' = W(Kept)
      /\ (i - ThrashingWindow + 1)..i \cap DOMAIN events' = W(ThrashingWindow)
  BY <1>2, <1>3
<1>5. \A n, k : \A S \in kSubset(k, W(n)) : \A j \in S : events'[j] = events[j]
  BY <1>1 DEF kSubset
<1>6. \A n : \A j \in W(n) : events'[j] = events[j]
  BY <1>1
<1> HIDE DEF W
<1>7. StuckAt(i) <=>
         \/ /\ IsResult(events[i])
            /\ \E S \in kSubset(Repeats, W(Kept)) :
                 \A j \in S : HasSignature(events[j], events[i].error_signature)
                              /\ events[i].ts - events[j].ts <= ErrorWindow
         \/ /\ \E S \in kSubset(Errors, W(ThrashingWindow)) : \A j \in S : IsError(events[j])
            /\ ~ \E j \in W(ThrashingWindow) : SuccessfulTest(events[j])
  BY DEF StuckAt, W
<1>8. StuckAt(i)' <=>
         \/ /\ IsResult(events'[i])
            /\ \E S \in kSubset(Repeats, W(Kept)) :
                 \A j \in S : HasSignature(events'[j], events'[i].error_signature)
                              /\ events'[i].ts - events'[j].ts <= ErrorWindow
         \/ /\ \E S \in kSubset(Errors, W(ThrashingWindow)) : \A j \in S : IsError(events'[j])
            /\ ~ \E j \in W(ThrashingWindow) : SuccessfulTest(events'[j])
  BY <1>4 DEF StuckAt
<1>9. ASSUME NEW S \in kSubset(Repeats, W(Kept))
      PROVE  (\A j \in S : HasSignature(events'[j], events'[i].error_signature)
                           /\ events'[i].ts - events'[j].ts <= ErrorWindow)
             <=> (\A j \in S : HasSignature(events[j], events[i].error_signature)
                               /\ events[i].ts - events[j].ts <= ErrorWindow)
  <2>1. \A j \in S : events'[j] = events[j]
    BY <1>5
  <2> QED BY <1>1, <2>1
<1>10. ASSUME NEW S \in kSubset(Errors, W(ThrashingWindow))
       PROVE  (\A j \in S : IsError(events'[j])) <=> (\A j \in S : IsError(events[j]))
  <2>1. \A j \in S : events'[j] = events[j]
    BY <1>5
  <2> QED BY <2>1
<1>11. (\E j \in W(ThrashingWindow) : SuccessfulTest(events'[j]))
       <=> (\E j \in W(ThrashingWindow) : SuccessfulTest(events[j]))
  BY <1>6
<1> QED BY <1>1, <1>7, <1>8, <1>9, <1>10, <1>11

\* Nor whether it lags.
LEMMA LagStays ==
    ASSUME Typed, NEW e \in Event, Process(e), NEW i \in DOMAIN events, Lagging(i)
    PROVE  Lagging(i)'
<1>1. PICK n \in DOMAIN signals :
         /\ signals[n].at < i /\ events[signals[n].at].ts > events[i].ts
         /\ \A m \in DOMAIN signals : signals[m].at < i => m <= n
  BY DEF Lagging
<1>2. /\ \A k \in DOMAIN events : events'[k] = events[k] /\ k < Len(events') /\ k \in Nat
      /\ Len(events') \in Nat
  <2>1. events' = Append(events, e)
    BY ProcessShape
  <2> QED BY <2>1 DEF Typed
<1>3. /\ n \in DOMAIN signals' /\ signals'[n] = signals[n] /\ signals[n].at \in DOMAIN events
      /\ \A m \in DOMAIN signals' : signals'[m].at < i => m \in DOMAIN signals /\ signals'[m] = signals[m]
  <2>1. signals[n].at \in DOMAIN events
    BY DEF Typed
  <2>2. CASE UNCHANGED signals
    BY <2>1, <2>2
  <2>3. ASSUME NEW s \in Signal, s.at = Len(events'), signals' = Append(signals, s)
        PROVE  /\ n \in DOMAIN signals' /\ signals'[n] = signals[n]
               /\ \A m \in DOMAIN signals' :
                     signals'[m].at < i => m \in DOMAIN signals /\ signals'[m] = signals[m]
    <3>1. \A m \in DOMAIN signals' : (m \in DOMAIN signals /\ signals'[m] = signals[m]) \/ signals'[m] = s
      BY <2>3 DEF Typed
    <3>2. n \in DOMAIN signals' /\ signals'[n] = signals[n]
      BY <2>3 DEF Typed
    <3>3. ~ (s.at < i)
      BY <1>2, <2>3
    <3> QED BY <3>1, <3>2, <3>3
  <2> QED BY <2>1, <2>2, <2>3, ProcessShape
<1> QED BY <1>1, <1>2, <1>3 DEF Lagging

\* The positions in a sequence that a window of it reaches back to.
LEMMA WindowIs ==
    ASSUME NEW h \in Seq(Event), NEW n \in Nat
    PROVE  /\ LastOf(h, n) = (Len(h) - n + 1)..Len(h) \cap DOMAIN h
           /\ LastOf(h, n) \subseteq DOMAIN h /\ IsFiniteSet(LastOf(h, n))
<1>1. LastOf(h, n) = (Len(h) - n + 1)..Len(h) \cap DOMAIN h
  BY DEF LastOf
<1>2. IsFiniteSet(1..Len(h)) /\ DOMAIN h = 1..Len(h)
  BY FS_Interval
<1> QED BY <1>1, <1>2, FS_Subset

\* The detector has a signal for the last event exactly when there is reason to signal at
\* it: the counts over its deque reach their limits.
LEMMA DueWhenStuck ==
    Typed /\ events # << >> =>
        (RepeatedError(events, events[Len(events)]) \/ Thrashing(events)
         <=> StuckAt(Len(events)))
<1> SUFFICES ASSUME Typed, events # << >>
             PROVE  RepeatedError(events, events[Len(events)]) \/ Thrashing(events)
                    <=> StuckAt(Len(events))
  OBVIOUS
<1>1. PICK h \in Seq(Event) : h = events
  BY DEF Typed
<1>2. PICK i \in DOMAIN h : i = Len(h)
  BY <1>1
<1>3. PICK e \in Event : e = h[i]
  BY <1>1, <1>2
<1> DEFINE W(n) == (i - n + 1)..i \cap DOMAIN h
<1>4. \A n \in Nat : LastOf(h, n) = W(n) /\ W(n) \subseteq DOMAIN h /\ IsFiniteSet(W(n))
  BY <1>2, WindowIs
<1>5. /\ Kept \in Nat /\ ThrashingWindow \in Nat /\ Repeats \in Nat /\ Errors \in Nat
      /\ ErrorWindow \in Nat
  BY DetectorAssumption
<1>6. \A j \in DOMAIN h : h[j] \in Event /\ h[j].ts \in Nat
  BY EventShape
<1> HIDE DEF W
<1>7. RepeatedError(h, e) <=>
        /\ IsResult(e)
        /\ \E S \in kSubset(Repeats, W(Kept)) :
             \A j \in S : HasSignature(h[j], e.error_signature)
                          /\ e.ts - h[j].ts <= ErrorWindow
  <2>1. Matches(h, e) = {j \in W(Kept) : HasSignature(h[j], e.error_signature)
                                         /\ e.ts - h[j].ts <= ErrorWindow}
    <3>1. \A j \in W(Kept) : e.ts \in Nat /\ h[j].ts \in Nat
      BY <1>4, <1>5, <1>6, EventShape
    <3>2. \A j \in W(Kept) :
             h[j].ts >= e.ts - ErrorWindow <=> e.ts - h[j].ts <= ErrorWindow
      BY <1>5, <3>1
    <3> QED BY <1>4, <1>5, <3>2 DEF Matches
  <2>2. Cardinality(Matches(h, e)) >= Repeats
        <=> \E S \in kSubset(Repeats, W(Kept)) : S \subseteq Matches(h, e)
    BY <1>4, <1>5, <2>1, EnoughOf
  <2>3. \A S \in kSubset(Repeats, W(Kept)) :
           S \subseteq Matches(h, e)
           <=> \A j \in S : HasSignature(h[j], e.error_signature)
                            /\ e.ts - h[j].ts <= ErrorWindow
    BY <2>1 DEF kSubset
  <2> QED BY <2>2, <2>3 DEF RepeatedError
<1>8. Thrashing(h) <=>
        /\ \E S \in kSubset(Errors, W(ThrashingWindow)) : \A j \in S : IsError(h[j])
        /\ ~ \E j \in W(ThrashingWindow) : SuccessfulTest(h[j])
  <2>1. ErrorEvents(h) = {j \in W(ThrashingWindow) : IsError(h[j])}
    BY <1>4, <1>5 DEF ErrorEvents
  <2>2. Cardinality(ErrorEvents(h)) >= Errors
        <=> \E S \in kSubset(Errors, W(ThrashingWindow)) : S \subseteq ErrorEvents(h)
    BY <1>4, <1>5, <2>1, EnoughOf
  <2>3. \A S \in kSubset(Errors, W(ThrashingWindow)) :
           S \subseteq ErrorEvents(h) <=> \A j \in S : IsError(h[j])
    BY <2>1 DEF kSubset
  <2> QED BY <1>4, <1>5, <2>2, <2>3 DEF Thrashing
<1>9. StuckAt(i) <=>
        \/ /\ IsResult(e)
           /\ \E S \in kSubset(Repeats, W(Kept)) :
                \A j \in S : HasSignature(h[j], e.error_signature)
                             /\ e.ts - h[j].ts <= ErrorWindow
        \/ /\ \E S \in kSubset(Errors, W(ThrashingWindow)) : \A j \in S : IsError(h[j])
           /\ ~ \E j \in W(ThrashingWindow) : SuccessfulTest(h[j])
  BY <1>1, <1>3 DEF StuckAt, W
<1> QED BY <1>1, <1>2, <1>3, <1>7, <1>8, <1>9

\* The same, of the events once another one has been processed.
LEMMA DueWhenStuckNext ==
    (Typed /\ events # << >> =>
        (RepeatedError(events, events[Len(events)]) \/ Thrashing(events)
         <=> StuckAt(Len(events))))'
BY DueWhenStuck, PTL

\* An event that does not lag behind the last signal before it has a signal, if there is
\* reason to give one: its own, or one that is less than a cooldown older.
LEMMA SignalledKept ==
    ASSUME Typed, CooldownOfLast, StuckIsSignalled, NEW e \in Event, Process(e)
    PROVE  StuckIsSignalled'
<1>1. /\ events' = Append(events, e) /\ events'[Len(events')] = e
      /\ Len(events') = Len(events) + 1 /\ Len(events') \in Nat
      /\ \A j \in DOMAIN events : events'[j] = events[j]
      /\ DOMAIN events' = DOMAIN events \cup {Len(events')}
  <2>1. Len(events) \in Nat
    BY DEF Typed
  <2>2. Len(events') = Len(events) + 1
    BY ProcessShape
  <2>3. Len(events') \in Nat
    BY <2>1, <2>2
  <2> QED BY <2>3, ProcessShape
<1>2. \A n \in DOMAIN signals :
         /\ n \in DOMAIN signals' /\ signals'[n] = signals[n]
         /\ signals[n].at \in DOMAIN events
  <2>1. ASSUME NEW s \in Signal, signals' = Append(signals, s), NEW n \in DOMAIN signals
        PROVE  n \in DOMAIN signals' /\ signals'[n] = signals[n]
    BY <2>1 DEF Typed
  <2>2. \A n \in DOMAIN signals : signals[n].at \in DOMAIN events
    BY DEF Typed
  <2> QED BY <2>1, <2>2, ProcessShape
<1>3. SUFFICES ASSUME NEW i \in DOMAIN events', StuckAt(i)', ~Lagging(i)'
               PROVE  \E n \in DOMAIN signals' :
                         /\ signals'[n].at <= i
                         /\ events'[i].ts - events'[signals'[n].at].ts \in 0..(Cooldown - 1)
  BY DEF StuckIsSignalled
<1>4. CASE i \in DOMAIN events
  <2>1. StuckAt(i) /\ ~Lagging(i)
    BY <1>1, <1>3, <1>4, StuckStays, LagStays
  <2>2. PICK n \in DOMAIN signals :
           signals[n].at <= i /\ events[i].ts - events[signals[n].at].ts \in 0..(Cooldown - 1)
    BY <1>4, <2>1 DEF StuckIsSignalled
  <2> QED BY <1>1, <1>2, <1>4, <2>2
<1>5. CASE i = Len(events')
  <2>1. RepeatedError(events', e) \/ Thrashing(events')
    <3>1. events' # << >>
      BY <1>1 DEF Typed
    <3> QED BY <1>1, <1>3, <1>5, <3>1, TypesKept, DueWhenStuckNext
  <2>2. CASE InCooldown(e)
    <3>1. PICK n : n = Len(signals)
      OBVIOUS
    <3>2. n \in DOMAIN signals /\ lastSignal = events[signals[n].at].ts
      BY <2>2, <3>1 DEF CooldownOfLast, InCooldown, Typed
    <3>3. signals[n].at < i /\ events'[i] = e /\ events'[signals[n].at] = events[signals[n].at]
      BY <1>1, <1>2, <1>5, <3>2 DEF Typed
    <3>4. /\ e.ts \in Nat /\ lastSignal \in Nat /\ Cooldown \in Nat /\ e.ts - lastSignal < Cooldown
      <4>1. e.ts \in Nat /\ Cooldown \in Nat
        BY EventShape, DetectorAssumption
      <4>2. lastSignal \in Nat
        BY BoundsAssumption DEF Typed
      <4> QED BY <2>2, <4>1, <4>2 DEF InCooldown
    <3>5. CASE ~ (lastSignal > e.ts)
      <4>1. e.ts - lastSignal \in 0..(Cooldown - 1)
        BY <3>4, <3>5
      <4>2. /\ n \in DOMAIN signals' /\ signals'[n].at <= i
            /\ events'[i].ts - events'[signals'[n].at].ts = e.ts - lastSignal
        <5>1. signals[n].at \in Nat /\ i \in Nat
          BY <1>1, <1>5, <3>2 DEF Typed
        <5>2. signals[n].at <= i
          BY <3>3, <5>1
        <5> QED BY <1>2, <3>2, <3>3, <5>2
      <4> QED BY <4>1, <4>2
    <3>6. CASE lastSignal > e.ts
      <4>1. UNCHANGED signals
        BY <2>2, ProcessShape
      <4>2. \A m \in DOMAIN signals : m <= n
        BY <3>1 DEF Typed
      <4> QED BY <1>3, <3>2, <3>3, <3>6, <4>1, <4>2 DEF Lagging
    <3> QED BY <3>5, <3>6
  <2>3. ASSUME NEW s \in Signal, s.at = Len(events'), signals' = Append(signals, s)
        PROVE  \E n \in DOMAIN signals' :
                  /\ signals'[n].at <= i
                  /\ events'[i].ts - events'[signals'[n].at].ts \in 0..(Cooldown - 1)
    <3>1. PICK n : n = Len(signals')
      OBVIOUS
    <3>2. n \in DOMAIN signals' /\ signals'[n] = s
      BY <2>3, <3>1 DEF Typed
    <3>3. e.ts - e.ts \in 0..(Cooldown - 1)
      BY EventShape, DetectorAssumption
    <3> QED BY <1>1, <1>5, <2>3, <3>2, <3>3
  <2> QED BY <2>1, <2>2, <2>3, ProcessShape
<1> QED BY <1>1, <1>4, <1>5

\* A signal has a reason, and the cooldown of the one before it is over.
LEMMA DueKept ==
    ASSUME Typed, CooldownOfLast, SignalsAreDue, NEW e \in Event, Process(e)
    PROVE  SignalsAreDue'
<1>1. /\ events' = Append(events, e) /\ events'[Len(events')] = e
      /\ \A j \in DOMAIN events : events'[j] = events[j]
      /\ Len(events') = Len(events) + 1 /\ Len(events') \in Nat
      /\ DOMAIN events' = DOMAIN events \cup {Len(events')}
      /\ Len(events') \notin DOMAIN events
  <2>1. Len(events) \in Nat /\ DOMAIN events = 1..Len(events)
    BY DEF Typed
  <2>2. Len(events') = Len(events) + 1
    BY ProcessShape
  <2>3. Len(events') \in Nat /\ Len(events') \notin DOMAIN events
    BY <2>1, <2>2
  <2> QED BY <2>3, ProcessShape
<1>2. \A n \in DOMAIN signals :
         signals[n].at \in DOMAIN events /\ (n > 1 => n - 1 \in DOMAIN signals)
  BY DEF Typed
<1>3. \A n \in DOMAIN signals, i \in DOMAIN events' : signals[n].at = i => StuckAt(i)'
  BY <1>1, <1>2, StuckStays DEF SignalsAreDue
<1>4. \A n \in DOMAIN signals :
         n > 1 => events'[signals[n].at].ts - events'[signals[n - 1].at].ts >= Cooldown
  BY <1>1, <1>2 DEF SignalsAreDue
<1>5. CASE UNCHANGED <<armed, lastSignal, signals>>
  BY <1>3, <1>4, <1>5 DEF SignalsAreDue
<1>6. ASSUME NEW s \in Signal, s.at = Len(events'), signals' = Append(signals, s),
             ~ InCooldown(e), RepeatedError(events', e) \/ Thrashing(events')
      PROVE  SignalsAreDue'
  <2>1. /\ \A n \in DOMAIN signals : signals'[n] = signals[n]
        /\ DOMAIN signals' = DOMAIN signals \cup {Len(signals')}
        /\ Len(signals') = Len(signals) + 1 /\ signals'[Len(signals')] = s
    BY <1>6 DEF Typed
  <2>2. \A i \in DOMAIN events' : s.at = i => StuckAt(i)'
    <3>1. events' # << >>
      BY <1>1 DEF Typed
    <3> QED BY <1>1, <1>6, <3>1, TypesKept, DueWhenStuckNext
  <2>3. ASSUME NEW n \in DOMAIN signals', n = Len(signals'), n > 1
        PROVE  events'[s.at].ts - events'[signals[n - 1].at].ts >= Cooldown
    <3>1. Len(signals) \in Nat /\ n - 1 = Len(signals) /\ n - 1 \in DOMAIN signals
      BY <2>1, <2>3 DEF Typed
    <3>2. CASE armed
      <4>1. lastSignal = events[signals[n - 1].at].ts
        BY <3>1, <3>2 DEF CooldownOfLast
      <4>2. e.ts - lastSignal >= Cooldown
        <5>1. lastSignal \in Nat /\ e.ts \in Nat /\ Cooldown \in Nat
          BY BoundsAssumption, DetectorAssumption, EventShape DEF Typed
        <5> QED BY <1>6, <3>2, <5>1 DEF InCooldown
      <4> QED BY <1>1, <1>2, <1>6, <3>1, <4>1, <4>2
    <3>3. CASE ~ armed
      BY <3>1, <3>3 DEF CooldownOfLast, Typed
    <3> QED BY <3>2, <3>3
  <2>4. \A n \in DOMAIN signals', i \in DOMAIN events' : signals'[n].at = i => StuckAt(i)'
    BY <1>3, <2>1, <2>2
  <2>5. ASSUME NEW n \in DOMAIN signals', n > 1
        PROVE  events'[signals'[n].at].ts - events'[signals'[n - 1].at].ts >= Cooldown
    <3>1. n - 1 \in DOMAIN signals
      BY <2>1, <2>5 DEF Typed
    <3> QED BY <1>4, <2>1, <2>3, <2>5, <3>1
  <2> QED BY <2>4, <2>5 DEF SignalsAreDue
<1> QED BY <1>5, <1>6, ProcessShape

-----------------------------------------------------------------------------
(* The dashboard.                                                           *)

\* In a sequential session the timestamps do not go back.
LEMMA TimesGrow ==
    ASSUME Typed, Sequential, NEW i \in DOMAIN events, NEW j \in DOMAIN events, i <= j
    PROVE  events[i].ts <= events[j].ts
<1>1. PICK h \in Seq(Event) : h = events
  BY DEF Typed
<1>2. \A k \in DOMAIN h : k \in Nat /\ k >= 1 /\ h[k].ts \in Nat
  BY EventShape
<1>3. \A k \in DOMAIN h : k > 1 => k - 1 \in DOMAIN h /\ h[k - 1].ts <= h[k].ts
  BY <1>1 DEF Sequential
<1> DEFINE Before == {k \in DOMAIN h : i <= k /\ h[k].ts < h[i].ts}
<1>4. ASSUME Before # {} PROVE FALSE
  <2>1. PICK k \in Before : \A m \in Before : k <= m
    BY <1>2, <1>4, Least
  <2>2. k \in Nat /\ i \in Nat /\ k > i /\ k > 1 /\ h[i].ts \in Nat /\ h[k].ts \in Nat
    BY <1>1, <1>2
  <2>3. k - 1 \in DOMAIN h /\ h[k - 1].ts <= h[k].ts /\ h[k - 1].ts \in Nat
    BY <1>2, <1>3, <2>2
  <2>4. k - 1 \in Before
    BY <2>1, <2>2, <2>3
  <2> QED BY <2>1, <2>2, <2>4
<1> QED BY <1>1, <1>2, <1>4

\* In a sequential session no call is heard again: each is later than what was before it.
LEMMA NewInSequence ==
    ASSUME Typed, FreshCalls, Sequential, NEW i \in DOMAIN events, NEW j \in DOMAIN events,
           i < j, IsCall(events[j])
    PROVE  events[i].id # events[j].id
<1>1. \A k \in DOMAIN events : k \in Nat /\ k >= 1 /\ events[k].ts \in Nat
  BY EventShape DEF Typed
<1>2. j > 1 /\ j - 1 \in DOMAIN events /\ events[j - 1].ts < events[j].ts
  BY <1>1 DEF Sequential, Typed
<1>3. ASSUME NEW k \in DOMAIN events, k < j, events[k] = events[j] PROVE FALSE
  <2>1. k <= j - 1
    BY <1>1, <1>3
  <2>2. events[k].ts <= events[j - 1].ts
    BY <1>2, <2>1, TimesGrow
  <2> QED BY <1>1, <1>2, <1>3, <2>2
<1> QED BY <1>3 DEF FreshCalls

\* In a sequential session that the harness heard from the beginning, a result's call is
\* the event before it, and the only call of its id.
LEMMA CallIsBefore ==
    ASSUME Typed, FreshCalls, Sequential, NEW i \in DOMAIN events, IsResult(events[i])
    PROVE  /\ i - 1 \in DOMAIN events /\ IsCall(events[i - 1])
           /\ Calls(events[i].id) = {i - 1}
<1>1. /\ i - 1 \in DOMAIN events /\ IsCall(events[i - 1])
      /\ events[i - 1].id = events[i].id
  BY DEF Sequential, Typed
<1>2. ASSUME NEW k \in DOMAIN events, IsCall(events[k]), events[k].id = events[i].id
      PROVE  k = i - 1
  <2>1. k \in Nat /\ i - 1 \in Nat
    BY <1>1 DEF Typed
  <2>2. ~ (k < i - 1) /\ ~ (i - 1 < k)
    BY <1>1, <1>2, NewInSequence
  <2> QED BY <2>1, <2>2
<1> QED BY <1>1, <1>2 DEF Calls

\* In a sequential session an event that is as new as every error is after them all: its
\* call is the newest call of any of them.
LEMMA NewestIsLast ==
    ASSUME Typed, FreshCalls, Sequential, NEW i \in IssuePreview, NEW k \in DOMAIN events,
           IsCall(events[k]), NEW j \in ErrorResults, events[k].id = events[j].id,
           events[i - 1].ts <= events[k].ts
    PROVE  k = i - 1
<1>1. /\ i \in DOMAIN events /\ j \in DOMAIN events
      /\ IsResult(events[i]) /\ IsResult(events[j]) /\ events[j].ts <= events[i].ts
  BY DEF IssuePreview, Newest, ErrorResults, IsError
<1>2. /\ i - 1 \in DOMAIN events /\ IsCall(events[i - 1])
      /\ j - 1 \in DOMAIN events /\ k = j - 1 /\ IsCall(events[j - 1])
  BY <1>1, CallIsBefore DEF Calls
<1>3. \A n \in DOMAIN events : n \in Nat /\ n >= 1 /\ events[n].ts \in Nat
  BY EventShape DEF Typed
<1>4. \A n \in DOMAIN events : n > 1 =>
         /\ n - 1 \in DOMAIN events
         /\ IsCall(events[n]) => events[n - 1].ts < events[n].ts
  BY DEF Sequential, Typed
<1>5. CASE j < i
  <2>1. i - 1 > 1 /\ j - 1 <= i - 2 /\ i - 2 = (i - 1) - 1
    BY <1>1, <1>2, <1>3, <1>5
  <2>2. i - 2 \in DOMAIN events /\ events[i - 2].ts < events[i - 1].ts
    BY <1>2, <1>4, <2>1
  <2>3. events[j - 1].ts <= events[i - 2].ts
    BY <1>2, <2>1, <2>2, TimesGrow
  <2> QED BY <1>2, <1>3, <2>2, <2>3
<1>6. CASE j > i
  <2>1. j - 1 # i
    BY <1>1, <1>2, EventShape DEF IsCall, IsResult
  <2>2. j - 1 > 1 /\ i <= j - 2 /\ j - 2 = (j - 1) - 1
    BY <1>1, <1>2, <1>3, <1>6, <2>1
  <2>3. j - 2 \in DOMAIN events /\ events[j - 2].ts < events[j - 1].ts
    BY <1>2, <1>4, <2>2
  <2>4. events[i].ts <= events[j - 2].ts /\ events[j - 1].ts <= events[j].ts
    BY <1>1, <1>2, <1>3, <2>2, <2>3, TimesGrow
  <2> QED BY <1>1, <1>2, <1>3, <2>3, <2>4
<1>7. i \in Nat /\ j \in Nat
  BY <1>1, <1>3
<1> QED BY <1>2, <1>5, <1>6, <1>7

\* The row of a sequential session shows the command of the error that it shows.
LEMMA RowIsOfOneIssue ==
    ASSUME Typed, FreshCalls
    PROVE  RowShowsOneIssue
<1>1. SUFFICES ASSUME Sequential, NEW i \in IssuePreview, NEW c \in FailingCommand
               PROVE  c = CommandFor(i)
  BY DEF RowShowsOneIssue
<1>2. i \in ErrorResults /\ i \in DOMAIN events /\ IsResult(events[i])
  BY DEF IssuePreview, Newest, ErrorResults, IsError
<1>3. /\ i - 1 \in DOMAIN events /\ IsCall(events[i - 1])
      /\ Calls(events[i].id) = {i - 1}
  BY <1>1, <1>2, CallIsBefore
<1>4. events[i - 1].id = events[i].id
  BY <1>3 DEF Calls
<1>5. PICK k \in DOMAIN events :
         /\ c = events[k].command /\ IsCall(events[k])
         /\ \E j \in ErrorResults : events[k].id = events[j].id
         /\ \A m \in DOMAIN events :
              IsCall(events[m]) /\ (\E j \in ErrorResults : events[m].id = events[j].id)
                => events[m].ts <= events[k].ts
  BY DEF FailingCommand, Newest
<1>6. events[i - 1].ts <= events[k].ts
  BY <1>2, <1>3, <1>4, <1>5
<1>7. k = i - 1
  BY <1>1, <1>5, <1>6, NewestIsLast
<1>8. CommandFor(i) = events[i - 1].command
  <2>1. Max({i - 1}) = i - 1
    BY <1>2 DEF Max, Typed
  <2> QED BY <1>3, <2>1 DEF CommandFor
<1> QED BY <1>5, <1>7, <1>8

-----------------------------------------------------------------------------
(* The theorems.                                                            *)

\* The invariant holds of the empty log and is kept by every event.
LEMMA AnalysisInvariant == AnalysisSpec => []AnalysisInv
<1>1. AnalysisInit => AnalysisInv
  <2> SUFFICES ASSUME AnalysisInit PROVE AnalysisInv
    OBVIOUS
  <2>1. /\ events = << >> /\ DOMAIN events = {} /\ armed = FALSE
        /\ signals = << >> /\ DOMAIN signals = {} /\ lastSignal \in 0..MaxTime
    BY BoundsAssumption DEF AnalysisInit
  <2>2. Typed
    <3>1. events \in Seq(Event) /\ signals \in Seq(Signal)
      BY <2>1
    <3> QED BY <2>1, <3>1 DEF Typed
  <2>3. CooldownOfLast /\ FreshCalls /\ StuckIsSignalled /\ SignalsAreDue
    BY <2>1 DEF CooldownOfLast, FreshCalls, StuckIsSignalled, SignalsAreDue
  <2> QED BY <2>2, <2>3 DEF AnalysisInv
<1>2. AnalysisInv /\ [AnalysisNext]_analysisVars => AnalysisInv'
  <2> SUFFICES ASSUME AnalysisInv, [AnalysisNext]_analysisVars PROVE AnalysisInv'
    OBVIOUS
  <2>1. CASE AnalysisNext
    <3>1. PICK e \in Event :
             /\ Process(e)
             /\ \/ IsCall(e) => \A i \in DOMAIN events : events[i].id # e.id
                \/ \E i \in DOMAIN events : events[i] = e
      BY <2>1, NextProcesses DEF AnalysisInv
    <3> QED BY <3>1, TypesKept, CooldownKept, FreshKept, SignalledKept, DueKept
            DEF AnalysisInv
  <2>2. CASE UNCHANGED analysisVars
    BY <2>2 DEF analysisVars, AnalysisInv, Typed, CooldownOfLast, FreshCalls,
       StuckIsSignalled, SignalsAreDue, StuckAt, Lagging
  <2> QED BY <2>1, <2>2
<1> QED BY <1>1, <1>2, PTL DEF AnalysisSpec

\* The types of the detector's state.
THEOREM AnalysisTypes == AnalysisSpec => []AnalysisTypeOK
<1>1. AnalysisInv => AnalysisTypeOK
  <2> SUFFICES ASSUME Typed PROVE AnalysisTypeOK
    BY DEF AnalysisInv
  <2>1. \A i \in DOMAIN events : events[i] \in Event
    BY DEF Typed
  <2>2. \A n \in DOMAIN signals : signals[n].kind \in {"repeated_error", "thrashing"}
    <3>1. \A n \in DOMAIN signals : signals[n] \in Signal
      BY DEF Typed
    <3> QED BY <3>1 DEF Signal
  <2> QED BY <2>1, <2>2 DEF Typed, AnalysisTypeOK
<1> QED BY <1>1, AnalysisInvariant, PTL

\* StuckDetector.process: an agent that is stuck is noticed, by a signal for the event or one
\* less than a cooldown older, unless its session lags behind the last signal.
THEOREM StuckSignalled == AnalysisSpec => []StuckIsSignalled
<1>1. AnalysisInv => StuckIsSignalled
  BY DEF AnalysisInv
<1> QED BY <1>1, AnalysisInvariant, PTL

\* StuckDetector.process: there is no signal without a reason, and none in the cooldown of
\* the one before it.
THEOREM SignalsDue == AnalysisSpec => []SignalsAreDue
<1>1. AnalysisInv => SignalsAreDue
  BY DEF AnalysisInv
<1> QED BY <1>1, AnalysisInvariant, PTL

\* build_active_sessions: when the calls do not overlap and the harness missed none, the
\* row's error and its command are of the same issue, however many issues there were.
THEOREM OneIssuePerRow == AnalysisSpec => []RowShowsOneIssue
<1>1. AnalysisInv => RowShowsOneIssue
  BY RowIsOfOneIssue DEF AnalysisInv
<1> QED BY <1>1, AnalysisInvariant, PTL
================================================================================
