------------------------------ MODULE Telemetry ------------------------------
(* The telemetry of one VS Code session: spans of TelemetryService             *)
(* (telemetry/service.ts), the buffer and the coalesced flushes of the sink    *)
(* (telemetry/sinks/localJsonlSink.ts) and the segments it appends to. An      *)
(* extension host that restarts loses all of it but the files.                 *)
EXTENDS Sequences, Naturals

CONSTANTS MaxEvents,     \* bound of the model on events
          MaxSegments,   \* bound of the model on files
          BufferLimit, FlushBatchSize,
          MaxFileSize    \* maxFileBytes, in lines

ASSUME TelemetryAssumption ==
  /\ {MaxEvents, MaxSegments, BufferLimit, FlushBatchSize, MaxFileSize} \subseteq Nat \ {0}

VARIABLES tlLevel,     \* #level: telemetry is on
          tlTrace,     \* one span and its phase, and the level they keep
          tlEmitted,   \* the spans that were handed to the sink
          tlNext,      \* the next event
          tlBuffer,    \* #buffer
          tlQueued,    \* #hasQueued
          tlRun,       \* #doFlush: the await it is at and its batch
          tlTimer,     \* #flushTimer is set
          tlWaiters,   \* timer callbacks that wait for a flush to end
          tlCurrent,   \* #current: the segment and its size as the sink knows it
          tlFiles,     \* the lines of each segment: events, or 0 for a header
          tlService,   \* its dispose: "up", then the flush it awaits is "queued",
                       \* "running" or "flushed", then its sink is "disposed"
          tlRestarted,
          tlUncounted  \* history: the files hold lines that this sink did not count,
                       \* of an earlier extension host or of an append that failed

tlVars == <<tlLevel, tlTrace, tlEmitted, tlNext, tlBuffer, tlQueued, tlRun, tlTimer,
            tlWaiters, tlCurrent, tlFiles, tlService, tlRestarted, tlUncounted>>
tlSpans == <<tlLevel, tlTrace, tlEmitted>>
tlLife == <<tlService, tlRestarted, tlUncounted>>
tlSink == <<tlBuffer, tlQueued, tlRun, tlTimer, tlWaiters, tlCurrent, tlFiles>>

Header == 0
Events == 1 .. MaxEvents
Segments == 1 .. MaxSegments
Unseeded == [segment |-> 0, size |-> 0]   \* no file of today yet
IdleRun == [at |-> "idle", batch |-> <<>>]
NoTrace == [span |-> "none", phase |-> "none", level |-> FALSE]

TelemetryTypeOK ==
  /\ tlLevel \in BOOLEAN /\ tlQueued \in BOOLEAN /\ tlTimer \in BOOLEAN
  /\ tlTrace \in [span: {"none", "open", "ended"}, phase: {"none", "open", "ended"}, level: BOOLEAN]
  /\ tlEmitted \subseteq {"span", "phase"} /\ tlNext \in 1 .. MaxEvents + 1
  /\ tlBuffer \in Seq(Events) /\ Len(tlBuffer) <= BufferLimit
  /\ tlRun.at \in {"idle", "running"} /\ tlRun.batch \in Seq(Events)
  /\ tlWaiters \subseteq {"queued", "running"}
  /\ tlCurrent \in [segment: 0 .. MaxSegments, size: Nat]
  /\ tlFiles \in [Segments -> Seq(Events \union {Header})]
  /\ tlService \in {"up", "queued", "running", "flushed", "disposed"}
  /\ tlRestarted \in BOOLEAN /\ tlUncounted \in BOOLEAN

\* start: the timer is scheduled
TlInit ==
  /\ tlLevel = TRUE /\ tlTrace = NoTrace /\ tlEmitted = {}
  /\ tlNext = 1 /\ tlBuffer = <<>>
  /\ tlQueued = FALSE /\ tlRun = IdleRun
  /\ tlTimer = TRUE /\ tlWaiters = {}
  /\ tlCurrent = Unseeded /\ tlFiles = [s \in Segments |-> <<>>]
  /\ tlService = "up" /\ tlRestarted = FALSE /\ tlUncounted = FALSE

-----------------------------------------------------------------------------
(* The sink.                                                                 *)

Disposed == tlService = "disposed"

\* Mutant: the buffer has no limit.
KeepsAll(s, n) == s

LastN(s, n) == IF Len(s) <= n THEN s ELSE SubSeq(s, Len(s) - n + 1, Len(s))

\* write: the oldest lines are dropped at the limit; a full batch is flushed
Write(event) ==
  IF Disposed THEN UNCHANGED <<tlBuffer, tlQueued>>
  ELSE /\ tlBuffer' = LastN(Append(tlBuffer, event), BufferLimit)
       /\ tlQueued' = (tlQueued \/ Len(tlBuffer') >= FlushBatchSize)

\* the run of a queued flush, once the one before has ended; an empty buffer
\* ends it at once
RunStarts ==
  /\ tlQueued /\ tlRun = IdleRun
  /\ tlQueued' = FALSE /\ tlBuffer' = <<>>
  /\ tlRun' = IF tlBuffer = <<>> THEN IdleRun ELSE [at |-> "running", batch |-> tlBuffer]
  /\ tlWaiters' = IF "queued" \in tlWaiters /\ tlBuffer # <<>> THEN {"running"} ELSE {}
  /\ tlTimer' = (tlTimer \/ ("queued" \in tlWaiters /\ tlBuffer = <<>> /\ ~Disposed))
  /\ tlService' = IF tlService # "queued" THEN tlService
                  ELSE IF tlBuffer = <<>> THEN "flushed" ELSE "running"
  /\ UNCHANGED <<tlSpans, tlNext, tlCurrent, tlFiles, tlRestarted, tlUncounted>>

\* seedFromDisk: what an earlier extension host left in the first segment
Seeded == IF tlCurrent = Unseeded THEN [segment |-> 1, size |-> Len(tlFiles[1])] ELSE tlCurrent

\* nextFile
NextFile ==
  IF Seeded.size > 0 /\ Seeded.size + Len(tlRun.batch) > MaxFileSize
  THEN [segment |-> Seeded.segment + 1, size |-> 0] ELSE Seeded

HeaderOf(file) == IF file.size = 0 THEN <<Header>> ELSE <<>>

\* one call of appendFile writes the header and the lines
Lands(lines) ==
  /\ NextFile.segment \in Segments
  /\ tlFiles' = [tlFiles EXCEPT ![NextFile.segment] = @ \o (HeaderOf(NextFile) \o lines)]

\* append
AppendBatch ==
  /\ Lands(tlRun.batch)
  /\ tlCurrent' = [NextFile EXCEPT !.size = @ + Len(HeaderOf(NextFile) \o tlRun.batch)]
  /\ UNCHANGED tlUncounted

\* of an append that fails nothing reaches the disk, or its first lines do, which
\* the sink does not count; a line that is cut short is none
AppendFails ==
  /\ UNCHANGED tlCurrent
  /\ \/ UNCHANGED <<tlFiles, tlUncounted>>
     \/ /\ \E n \in 0 .. Len(tlRun.batch) : Lands(SubSeq(tlRun.batch, 1, n))
        /\ tlUncounted' = TRUE

\* Mutant: a timer callback whose flush failed does not schedule the next one.
ReschedulesOnSuccess(ok) == tlTimer \/ ("running" \in tlWaiters /\ ok /\ ~Disposed)

\* finally in the timer callback: scheduleNextFlush
Rescheduled(ok) == tlTimer \/ ("running" \in tlWaiters /\ ~Disposed)

\* a failed flush discards its batch; who waits for it goes on all the same
RunEnds(ok) ==
  /\ tlRun.at = "running"
  /\ IF ok THEN AppendBatch ELSE AppendFails
  /\ tlRun' = IdleRun
  /\ tlTimer' = Rescheduled(ok)
  /\ tlWaiters' = tlWaiters \ {"running"}
  /\ tlService' = IF tlService = "running" THEN "flushed" ELSE tlService
  /\ UNCHANGED <<tlSpans, tlNext, tlBuffer, tlQueued, tlRestarted>>

\* the callback of the timer shares a flush that is queued already
FlushTimerFires ==
  /\ tlTimer /\ tlTimer' = FALSE
  /\ tlQueued' = TRUE
  /\ tlWaiters' = tlWaiters \union {"queued"}
  /\ UNCHANGED <<tlSpans, tlNext, tlBuffer, tlRun, tlCurrent, tlFiles, tlLife>>

\* watchConfig: another interval schedules the flush anew, also beside a waiter
IntervalChanges ==
  /\ ~Disposed /\ ~tlTimer
  /\ tlTimer' = TRUE
  /\ UNCHANGED <<tlSpans, tlNext, tlBuffer, tlQueued, tlRun, tlWaiters, tlCurrent, tlFiles,
                 tlLife>>

\* dispose of the service: it no longer follows the level, and awaits a flush
TlDispose ==
  /\ tlService = "up" /\ tlService' = "queued"
  /\ tlQueued' = TRUE
  /\ UNCHANGED <<tlSpans, tlNext, tlBuffer, tlRun, tlTimer, tlWaiters, tlCurrent, tlFiles,
                 tlRestarted, tlUncounted>>

\* then it disposes the sink, which asks for a last flush
SinkDispose ==
  /\ tlService = "flushed" /\ tlService' = "disposed"
  /\ tlTimer' = FALSE /\ tlQueued' = TRUE
  /\ UNCHANGED <<tlSpans, tlNext, tlBuffer, tlRun, tlWaiters, tlCurrent, tlFiles,
                 tlRestarted, tlUncounted>>

\* the extension host ends and starts again in the same VS Code session
Restart ==
  /\ ~tlRestarted /\ tlRestarted' = TRUE
  /\ tlTrace' = NoTrace /\ tlEmitted' = {}
  /\ tlBuffer' = <<>> /\ tlQueued' = FALSE /\ tlRun' = IdleRun
  /\ tlTimer' = TRUE /\ tlWaiters' = {} /\ tlCurrent' = Unseeded
  /\ tlService' = "up" /\ tlUncounted' = TRUE
  /\ UNCHANGED <<tlLevel, tlNext, tlFiles>>

-----------------------------------------------------------------------------
(* The service.                                                              *)

\* emit: numbered, and written if the level allows it
Emit(level) ==
  IF level /\ tlNext <= MaxEvents THEN Write(tlNext) /\ tlNext' = tlNext + 1
  ELSE UNCHANGED <<tlNext, tlBuffer, tlQueued>>

\* log outside of a span
Log ==
  /\ tlLevel /\ tlNext <= MaxEvents
  /\ Emit(tlLevel)
  /\ UNCHANGED <<tlSpans, tlRun, tlTimer, tlWaiters, tlCurrent, tlFiles, tlLife>>

\* trace freezes the level; phase begins a child, until its span has ended
Trace ==
  /\ tlTrace = NoTrace /\ tlLevel
  /\ tlTrace' = [span |-> "open", phase |-> "none", level |-> tlLevel]
  /\ UNCHANGED <<tlLevel, tlEmitted, tlNext, tlSink, tlLife>>

Phase ==
  /\ tlTrace.span = "open" /\ tlTrace.phase = "none"
  /\ tlTrace' = [tlTrace EXCEPT !.phase = "open"]
  /\ UNCHANGED <<tlLevel, tlEmitted, tlNext, tlSink, tlLife>>

\* Mutant: a span is written at the level of its end.
LevelNow(trace) == tlLevel

TraceLevel(trace) == trace.level

\* emitTimed: the span, or its phase, has returned or thrown
SpanEnds(part) ==
  /\ tlTrace[part] = "open"
  /\ tlTrace' = [tlTrace EXCEPT ![part] = "ended"]
  /\ Emit(TraceLevel(tlTrace))
  /\ tlEmitted' = IF TraceLevel(tlTrace) THEN tlEmitted \union {part} ELSE tlEmitted
  /\ UNCHANGED <<tlLevel, tlRun, tlTimer, tlWaiters, tlCurrent, tlFiles, tlLife>>

\* applyLevelChange: switched off, what is buffered is flushed
LevelChanges ==
  /\ tlService = "up" /\ tlLevel' = ~tlLevel
  /\ tlQueued' = (tlQueued \/ tlLevel)
  /\ UNCHANGED <<tlTrace, tlEmitted, tlNext, tlBuffer, tlRun, tlTimer, tlWaiters, tlCurrent,
                 tlFiles, tlLife>>

TlNext ==
  \/ RunStarts \/ FlushTimerFires \/ IntervalChanges \/ TlDispose \/ SinkDispose \/ Restart
  \/ Log \/ Trace \/ Phase \/ LevelChanges
  \/ \E ok \in BOOLEAN : RunEnds(ok)
  \/ \E part \in {"span", "phase"} : SpanEnds(part)

\* flushes start, the disk answers and timers fire
TlFlushes == RunStarts \/ \E ok \in BOOLEAN : RunEnds(ok)

-----------------------------------------------------------------------------
(* What is on disk is what was logged: every file begins with a header, and    *)
(* the events are in order, each once, through batches that failed, rotations  *)
(* and flushes that were asked for while one ran. (Once there are lines that    *)
(* the sink did not count, of an earlier extension host or of an append that    *)
(* failed halfway, only the order within each file is left: the sink goes back  *)
(* to an earlier segment, or heads a file again.)                              *)
FilesAreInOrder ==
  \A s \in Segments :
    LET file == tlFiles[s]
        Before(i, j) == file[i] = Header \/ file[j] = Header \/ file[i] < file[j]
    IN /\ \A j \in 1 .. Len(file) : \A i \in 1 .. j - 1 : Before(i, j)
       /\ ~tlUncounted =>
            /\ file # <<>> => file[1] = Header
            /\ \A j \in 2 .. Len(file) : file[j] # Header
            /\ \A t \in Segments : s < t =>
                 \A i \in 1 .. Len(file), j \in 1 .. Len(tlFiles[t]) :
                   file[i] = Header \/ tlFiles[t][j] = Header \/ file[i] < tlFiles[t][j]

(* A phase is never recorded without its span, although the user switched      *)
(* telemetry off or on while they ran.                                         *)
TracesAreWhole ==
  tlTrace.span = "ended" /\ tlTrace.phase = "ended" =>
    ("phase" \in tlEmitted) = ("span" \in tlEmitted)

(* What is buffered reaches the disk, or is lost with a batch, in the end: the *)
(* chain of timers goes on after flushes that failed or were shared.           *)
BufferIsFlushed == tlBuffer # <<>> ~> tlBuffer = <<>>
=============================================================================
