--------------------------- MODULE TelemetryExport ---------------------------
(* One export of the telemetry (telemetry/export/): the sessions' files are    *)
(* merged by timestamp and written as JSON or as an OTLP zip, to a temporary   *)
(* file that replaces the target in the end. The lines of a file are chosen    *)
(* when they are read; a day is one unit of time.                              *)
EXTENDS Naturals, Sequences, FiniteSets

CONSTANTS ExSessions,   \* numbers that stand for the session ids
          MaxParts,     \* files of a session that the listing finds
          MaxLines,     \* bound of the model on lines per session
          MaxBuffered   \* MAX_BUFFERED_METRIC_POINTS

ASSUME ExportAssumption ==
  /\ ExSessions \subseteq Nat /\ IsFiniteSet(ExSessions)
  /\ {MaxParts, MaxLines, MaxBuffered} \subseteq Nat \ {0}

VARIABLES exStage,      \* the await the export is at
          exFormat, exCancelled,
          exNeeds,      \* iterators that advanceCursor must read
          exPart, exLines, exRead,  \* per session: file, lines read, events in range
          exFrontier,   \* the next event of each session
          exOut,        \* what was written, in order
          exBuffer,     \* metricBuffer
          exBlock,      \* the open resource block: a session and a day
          exRecords,    \* metric records and the block they were written under
          exLeft,       \* temporary file and staging directory that exist
          exReported,   \* and those whose removal failed
          exTarget      \* the file at the chosen path

exVars == <<exStage, exFormat, exCancelled, exNeeds, exPart, exLines, exRead, exFrontier,
            exOut, exBuffer, exBlock, exRecords, exLeft, exReported, exTarget>>
exSource == <<exPart, exLines, exRead, exFrontier, exNeeds>>
exContent == <<exOut, exBuffer, exBlock, exRecords>>
exFiles == <<exLeft, exReported, exTarget>>

Times == 0 .. 3
InRange(time) == time >= 1 /\ time < 3     \* isTimestampInRange: [start, end)
ExportEvents == [session: ExSessions, time: Times, metric: BOOLEAN]
NoBlock == <<>>
BlockOf(event) == <<event.session, event.time>>

ExportTypeOK ==
  /\ exStage \in {"idle", "flush", "list", "open", "merge", "pack", "rename", "empty", "done", "failed"}
  /\ exFormat \in {"json", "otlp"} /\ exCancelled \in BOOLEAN
  /\ exNeeds \subseteq ExSessions
  /\ exPart \in [ExSessions -> 1 .. MaxParts + 1] /\ exLines \in [ExSessions -> 0 .. MaxLines]
  /\ \A s \in ExSessions : exRead[s] \in Seq(ExportEvents)
  /\ exFrontier \subseteq ExportEvents /\ exOut \in Seq(ExportEvents)
  /\ exBuffer \in Seq(ExportEvents) /\ Len(exBuffer) <= MaxBuffered
  /\ exReported \subseteq exLeft /\ exLeft \subseteq {"temp", "staging"}
  /\ exTarget \in {"old", "new", "none"}

ExInit ==
  /\ exStage = "idle" /\ exFormat = "json" /\ exCancelled = FALSE /\ exNeeds = {}
  /\ exPart = [s \in ExSessions |-> 1] /\ exLines = [s \in ExSessions |-> 0]
  /\ exRead = [s \in ExSessions |-> <<>>] /\ exFrontier = {}
  /\ exOut = <<>> /\ exBuffer = <<>> /\ exBlock = NoBlock /\ exRecords = <<>>
  /\ exLeft = {} /\ exReported = {} /\ exTarget = "old"

\* promptForExport has an answer
StartExport(format) ==
  /\ exStage = "idle" /\ exStage' = "flush" /\ exFormat' = format
  /\ UNCHANGED <<exCancelled, exSource, exContent, exFiles>>

\* the user cancels the progress
CancelExport ==
  /\ exStage \notin {"idle", "done", "failed"} /\ ~exCancelled
  /\ exCancelled' = TRUE
  /\ UNCHANGED <<exStage, exFormat, exSource, exContent, exFiles>>

-----------------------------------------------------------------------------
(* The writers.                                                              *)

\* safeRemove, and the catch of writeAtomically: everything temporary is removed
Removable == exLeft \ exReported

\* what cannot be removed is reported
CleansUp(removed) ==
  \E stays \in SUBSET removed :
    /\ exLeft' = (exLeft \ removed) \union stays
    /\ exReported' = exReported \union stays

ExportFails ==
  /\ exStage' = "failed"
  /\ CleansUp(Removable)
  /\ UNCHANGED <<exFormat, exCancelled, exSource, exContent, exTarget>>

\* flushTelemetry: an incomplete flush warns and goes on
Flushed ==
  /\ exStage = "flush"
  /\ exStage' = IF exCancelled THEN "failed" ELSE "list"
  /\ UNCHANGED <<exFormat, exCancelled, exSource, exContent, exFiles>>

\* listTelemetryFilesForRange: the sessions whose files have dates in the range
Listed(sessions) ==
  /\ exStage = "list"
  /\ exStage' = IF sessions = {} THEN "done" ELSE "open"
  /\ exNeeds' = sessions
  /\ UNCHANGED <<exFormat, exCancelled, exPart, exLines, exRead, exFrontier, exContent, exFiles>>

\* the temporary file and the channels are opened
Opened ==
  /\ exStage = "open" /\ ~(exFormat = "otlp" /\ exCancelled)
  /\ exStage' = "merge"
  /\ exLeft' = IF exFormat = "otlp" THEN {"temp", "staging"} ELSE {"temp"}
  /\ UNCHANGED <<exFormat, exCancelled, exSource, exContent, exReported, exTarget>>

\* an I/O error of the listing or of a writer; the staging directory of a zip
\* is gone at its rename
Breaks == exStage \in {"list", "open", "merge", "pack", "rename"} /\ ExportFails

\* a cancelled export stops before its next event and its next chunk
StopsCancelled ==
  /\ exCancelled
  /\ \/ exStage = "open" /\ exFormat = "otlp"
     \/ exStage = "merge" /\ exNeeds = {} /\ exFrontier # {}
     \/ exStage = "pack"
  /\ ExportFails

-----------------------------------------------------------------------------
(* The merge.                                                                *)

Least(S) == CHOOSE s \in S : \A t \in S : s <= t

\* the next line of a session's file: events outside of the range are skipped
ReadExportLine(time, metric) ==
  LET s == Least(exNeeds)
      event == [session |-> s, time |-> time, metric |-> metric]
  IN /\ exStage = "merge" /\ exNeeds # {} /\ exLines[s] < MaxLines
     /\ exLines' = [exLines EXCEPT ![s] = @ + 1]
     /\ IF InRange(time)
        THEN /\ exRead' = [exRead EXCEPT ![s] = Append(@, event)]
             /\ exFrontier' = exFrontier \union {event}
             /\ exNeeds' = exNeeds \ {s}
        ELSE UNCHANGED <<exRead, exFrontier, exNeeds>>
     /\ UNCHANGED <<exStage, exFormat, exCancelled, exPart, exContent, exFiles>>

\* the file has ended, or a bad line ends it: the session's next file follows
ExportFileEnds ==
  LET s == Least(exNeeds)
  IN /\ exStage = "merge" /\ exNeeds # {}
     /\ exPart' = [exPart EXCEPT ![s] = @ + 1]
     /\ exNeeds' = IF exPart[s] = MaxParts THEN exNeeds \ {s} ELSE exNeeds
     /\ UNCHANGED <<exStage, exFormat, exCancelled, exLines, exRead, exFrontier, exContent, exFiles>>

\* compareCursors
Precedes(a, b) == a.time < b.time \/ (a.time = b.time /\ a.session <= b.session)

\* takeNextCursor
NextCursor(frontier) == CHOOSE c \in frontier : \A d \in frontier : Precedes(c, d)

\* flushMetricBlock: drained records go under the block that is open
UnderBlock(buffer, block) == [i \in 1 .. Len(buffer) |-> [event |-> buffer[i], block |-> block]]

\* MetricBlockBuffer.add; the grouping into series is left out
AddPoint(buffer, event) == IF event.metric THEN Append(buffer, event) ELSE buffer

\* Mutant: the buffered metrics wait for the next flush although the block changes.
ChangesBlock(event) == [block |-> BlockOf(event), buffer |-> exBuffer, records |-> exRecords]

\* openEventBlock: the metrics of the block before are flushed first
OpenEventBlock(event) ==
  IF exBlock = BlockOf(event) THEN [block |-> exBlock, buffer |-> exBuffer, records |-> exRecords]
  ELSE [block |-> BlockOf(event), buffer |-> <<>>, records |-> exRecords \o UnderBlock(exBuffer, exBlock)]

\* routeEvent: metrics are buffered, up to a bound
RouteEvent(event) ==
  LET open == OpenEventBlock(event)
      buffer == AddPoint(open.buffer, event)
      full == Len(buffer) >= MaxBuffered
  IN /\ exBlock' = open.block
     /\ exBuffer' = IF full THEN <<>> ELSE buffer
     /\ exRecords' = IF full THEN open.records \o UnderBlock(buffer, open.block) ELSE open.records

\* either writer takes the events one by one, in the order they come
WriteEvent(event) ==
  /\ exOut' = Append(exOut, event)
  /\ IF exFormat = "otlp" THEN RouteEvent(event) ELSE UNCHANGED <<exBuffer, exBlock, exRecords>>

\* streamTelemetryEventsSorted yields an event and the writer takes it
TakeNextCursor ==
  LET c == NextCursor(exFrontier)
  IN /\ exStage = "merge" /\ exNeeds = {} /\ exFrontier # {} /\ ~exCancelled
     /\ WriteEvent(c)
     /\ exFrontier' = exFrontier \ {c} /\ exNeeds' = {c.session}
     /\ UNCHANGED <<exStage, exFormat, exCancelled, exPart, exLines, exRead, exFiles>>

\* the stream is at its end: the last metrics and the manifest are staged
MergeEnds ==
  /\ exStage = "merge" /\ exNeeds = {} /\ exFrontier = {}
  /\ exStage' = IF exFormat = "otlp" THEN "pack" ELSE "rename"
  /\ exRecords' = exRecords \o UnderBlock(exBuffer, exBlock) /\ exBuffer' = <<>>
  /\ UNCHANGED <<exFormat, exCancelled, exSource, exOut, exBlock, exFiles>>

\* packZip; then the staging directory goes
Packed ==
  /\ exStage = "pack" /\ ~exCancelled /\ exStage' = "rename"
  /\ CleansUp({"staging"})
  /\ UNCHANGED <<exFormat, exCancelled, exSource, exContent, exTarget>>

\* renameWithRetry: the export replaces the target
Renamed ==
  /\ exStage = "rename"
  /\ exStage' = IF exOut = <<>> THEN "empty" ELSE "done"
  /\ exLeft' = exLeft \ {"temp"} /\ exTarget' = "new"
  /\ UNCHANGED <<exFormat, exCancelled, exSource, exContent, exReported>>

\* removeEmptyExport, which only reports a failure
EmptyRemoved ==
  /\ exStage = "empty" /\ exStage' = "done"
  /\ exTarget' \in {"none", "new"}
  /\ UNCHANGED <<exFormat, exCancelled, exSource, exContent, exLeft, exReported>>

ExNext ==
  \/ CancelExport \/ Flushed \/ Opened \/ Breaks \/ StopsCancelled
  \/ ExportFileEnds \/ TakeNextCursor \/ MergeEnds \/ Packed \/ Renamed \/ EmptyRemoved
  \/ \E format \in {"json", "otlp"} : StartExport(format)
  \/ \E sessions \in SUBSET ExSessions : Listed(sessions)
  \/ \E time \in Times, metric \in BOOLEAN : ReadExportLine(time, metric)

-----------------------------------------------------------------------------
\* how many of the first n events written are of session s
WrittenOf(s, n) == Cardinality({k \in 1 .. n : exOut[k].session = s})
Written(s) == WrittenOf(s, Len(exOut))

MetricsWritten == Cardinality({k \in 1 .. Len(exOut) : exOut[k].metric})

Monotonic(seq) == \A i, j \in 1 .. Len(seq) : i < j => seq[i].time <= seq[j].time

(* The merge keeps each session's own order: the events written of a session   *)
(* are those first read of it, each once. It is sorted when no session's clock *)
(* went back, and a finished export holds each event that could be read.       *)
MergeIsComplete ==
  /\ \A s \in ExSessions : Written(s) <= Len(exRead[s])
  /\ \A k \in 1 .. Len(exOut) :
       LET s == exOut[k].session IN exOut[k] = exRead[s][WrittenOf(s, k)]
  /\ (\A s \in ExSessions : Monotonic(exRead[s])) => Monotonic(exOut)
  /\ exStage = "done" => \A s \in ExSessions : Written(s) = Len(exRead[s])

(* Metrics are written under the session and the day that produced them,       *)
(* however the buffer fills up and sessions alternate, and none is left over.  *)
MetricsKeepTheirBlock ==
  /\ \A i \in 1 .. Len(exRecords) : exRecords[i].block = BlockOf(exRecords[i].event)
  /\ exStage = "done" /\ exFormat = "otlp" => Len(exRecords) = MetricsWritten

(* An export that fails or is cancelled leaves the target alone, and every end *)
(* removes the temporary file and the staging directory or reports them.       *)
ExportIsAtomic ==
  /\ exStage = "failed" => exTarget = "old"
  /\ exStage \in {"done", "failed"} => exLeft \subseteq exReported
  /\ exTarget # "old" => exFrontier = {} /\ exNeeds = {}
=============================================================================
