---------------------------- MODULE LocalCapture ----------------------------
(***************************************************************************)
(* The local capture pipeline of local_capture.py together with the part of *)
(* storage/repository.py it writes through.                                 *)
(*                                                                          *)
(* Bluetooth and GATT callbacks run on the event loop and may not block:    *)
(* they offer observations to a bounded queue.  One writer task drains the  *)
(* queue into the archive; every archive call is a command executed by the  *)
(* archive's writer thread, so other callbacks run between the moment the   *)
(* call is made and the moment its result comes back.  The process may      *)
(* crash at any time; the next start of the archive closes the runs that    *)
(* were left open.                                                          *)
(*                                                                          *)
(* One action stands for what the event loop (or the archive thread) does   *)
(* between two suspension points.                                           *)
(***************************************************************************)
EXTENDS Integers, SequencesExt

CONSTANTS
    Sources,          \* (subject kind, serial) pairs
    Modes,            \* BLE data streams of one source: "normal", "instant_read"
    Interval,         \* REGULAR_INTERVAL_SECONDS, in clock ticks
    MaxQueueItems,    \* MAX_QUEUE_ITEMS
    WriteBatchSize,   \* WRITE_BATCH_SIZE
    MaxTimerDelay,    \* ticks a due timer may wait for a busy event loop
    ClockStepsBack,   \* may the wall clock be earlier after a power loss?
    MaxRuns,          \* bound: supervisors created over the whole behaviour
    MaxObservations,  \* bound: observations received by the first supervisor
    LateObservations, \* bound: observations received by each later one
    MaxTime           \* bound: last clock tick

ASSUME LocalCaptureAssumption ==
    /\ "prediction" \notin Modes
    /\ Interval \in Nat
    /\ MaxQueueItems \in Nat \ {0}
    /\ WriteBatchSize \in Nat \ {0}
    /\ MaxTimerDelay \in Nat
    /\ ClockStepsBack \in BOOLEAN
    /\ MaxRuns \in Nat
    /\ MaxObservations \in Nat
    /\ LateObservations \in Nat
    /\ MaxTime \in Nat

VARIABLES
    now,          \* the clock; wall and monotonic time agree within a process
    run,          \* number of the newest supervisor (its runtime_generation)
    status,       \* health.status, with the phases of the archive start
    attached,     \* the two observation listeners are registered
    stopping,     \* _stopping
    failed,       \* _failed
    buf,          \* _queue, _pending_gaps and _queue_event
    pending,      \* _pending_regular with the due time of each _regular_timers
    lastEmitted,  \* _last_regular_emitted
    known,        \* keys of _last_signature
    ordinal,      \* _event_ordinal
    coalesced,    \* health.coalesced_observations of this supervisor
    writer,       \* where the writer task stands
    writing,      \* gaps the writer took and has still to record
    stopPc,       \* where async_stop stands
    op,           \* the archive command in flight
    runStatus,    \* local_capture_runs.terminal_status ("none": no row)
    startedAt,    \* local_capture_runs.started_at_us
    archived,     \* local_observations
    gapRows,      \* local_capture_gaps of certainty 'observed'
    lossWindows,  \* local_capture_gaps of certainty 'uncertain'
    unreadable,   \* health.dropped_observations of category "normalize"
    admitted      \* history: every observation that became a record

clockVars   == <<now, run>>
intakeVars  == <<attached, known, ordinal, unreadable, admitted>>
policyVars  == <<pending, lastEmitted, coalesced>>
writerVars  == <<writer, writing>>
stopVars    == <<stopping, stopPc>>
archiveVars == <<runStatus, startedAt, archived, gapRows, lossWindows>>
memoryVars  == <<status, attached, stopping, failed, buf, pending, lastEmitted,
                 known, ordinal, coalesced, writer, writing, stopPc>>
recordVars == <<now, run, memoryVars, op, archiveVars, admitted>>
vars == <<recordVars, unreadable>>

-----------------------------------------------------------------------------
(* Records *)

Runs    == 1..MaxRuns
Times   == 0..MaxTime
Keys    == Sources \X (Modes \cup {"prediction"})
Streams == Sources \X Modes
Classes == {"regular", "transition", "prediction"}

Observation ==
    [run : Runs, ord : Nat, key : Keys, class : Classes, at : Times]

\* A _GapAccumulator; id is the ordinal of the drop that opened it.
Gap == [run : Runs, id : Nat, source : Sources, scope : Classes,
        first : Times, last : Times, count : Nat]

\* _queue, _pending_gaps and _queue_event; and, a history, what a full queue
\* gave up
Buffer == [queue : Seq(Observation), gaps : SUBSET Gap, event : BOOLEAN,
           dropped : SUBSET Observation]

NewRecord(k, c) ==
    [run |-> run, ord |-> ordinal, key |-> k, class |-> c, at |-> now]

Never == -1

Operation ==
    [kind : {"none", "recover", "begin", "gap", "commit", "finish"},
     state : {"idle", "queued", "ok", "error", "rejected"},
     rows : SUBSET Observation, gaps : SUBSET Gap, at : Times]

NoOp == [kind |-> "none", state |-> "idle", rows |-> {}, gaps |-> {}, at |-> 0]

Command(kind, rows, gaps) ==
    [kind |-> kind, state |-> "queued", rows |-> rows, gaps |-> gaps, at |-> now]

-----------------------------------------------------------------------------
(* The bounded queue *)

SameGap(g, r) == g.source = r.key[1] /\ g.scope = r.class

NewGap(r) ==
    [run |-> r.run, id |-> r.ord, source |-> r.key[1], scope |-> r.class,
     first |-> r.at, last |-> r.at, count |-> 1]

\* faulty variant: counts a further drop and forgets its time
WidenCountOnly(g, r) == [g EXCEPT !.count = @ + 1]

\* faulty variant: extends the interval and forgets to count
WidenSpanOnly(g, r) ==
    [g EXCEPT !.first = IF r.at < @ THEN r.at ELSE @,
              !.last  = IF r.at > @ THEN r.at ELSE @]

Widen(g, r) ==
    [g EXCEPT !.first = IF r.at < @ THEN r.at ELSE @,
              !.last  = IF r.at > @ THEN r.at ELSE @,
              !.count = @ + 1]

NoteDrop(gaps, r) ==
    IF \E g \in gaps : SameGap(g, r)
    THEN {IF SameGap(g, r) THEN Widen(g, r) ELSE g : g \in gaps}
    ELSE gaps \cup {NewGap(r)}

Regulars(q) == {i \in DOMAIN q : q[i].class = "regular"}

\* queue item i makes room for r
Displace(b, i, r) ==
    [queue   |-> Append(RemoveAt(b.queue, i), r),
     gaps    |-> NoteDrop(b.gaps, b.queue[i]),
     event   |-> TRUE,
     dropped |-> b.dropped \cup {b.queue[i]}]

Accept(b, r) == [b EXCEPT !.queue = Append(@, r), !.event = TRUE]

\* the queue is full
Overflow(b, r) ==
    IF Regulars(b.queue) # {}
    THEN Displace(b, Min(Regulars(b.queue)), r)
    ELSE IF r.class = "regular"
         THEN [b EXCEPT !.gaps = NoteDrop(@, r), !.dropped = @ \cup {r}]
         ELSE Displace(b, 1, r)

\* faulty variant: lets the queue grow one past its limit
EnqueueOffByOne(b, r) ==
    IF stopping \/ failed THEN b
    ELSE IF Len(b.queue) <= MaxQueueItems THEN Accept(b, r) ELSE Overflow(b, r)

\* faulty variant: a full queue always gives up its oldest record
EnqueueDropOldest(b, r) ==
    IF stopping \/ failed THEN b
    ELSE IF Len(b.queue) < MaxQueueItems THEN Accept(b, r) ELSE Displace(b, 1, r)

\* faulty variant: does not wake the writer
EnqueueSilently(b, r) ==
    IF stopping \/ failed THEN b ELSE [b EXCEPT !.queue = Append(@, r)]

Enqueue(b, r) ==
    IF stopping \/ failed THEN b
    ELSE IF Len(b.queue) < MaxQueueItems THEN Accept(b, r) ELSE Overflow(b, r)

-----------------------------------------------------------------------------
(* Initial state: a new archive, nothing running *)

NoMemory ==
    /\ attached = FALSE /\ stopping = FALSE /\ failed = FALSE
    /\ buf = [queue |-> <<>>, gaps |-> {}, event |-> FALSE, dropped |-> {}]
    /\ pending = {} /\ lastEmitted = [k \in Streams |-> Never]
    /\ known = {} /\ ordinal = 0 /\ coalesced = 0 /\ unreadable = 0
    /\ writer = "none" /\ writing = {} /\ stopPc = "none"

Init ==
    /\ now = 0 /\ run = 0
    /\ status = "down"
    /\ NoMemory
    /\ op = NoOp
    /\ runStatus = [r \in Runs |-> "none"]
    /\ startedAt = [r \in Runs |-> 0]
    /\ archived = {} /\ gapRows = {} /\ lossWindows = {}
    /\ admitted = {}

\* async_stop's flush loop runs without suspending: nothing else gets the loop
LoopFree == stopPc # "flush"

-----------------------------------------------------------------------------
(* Start *)

\* _async_start_archive opens the archive and reconciles stale runs
Open ==
    /\ status = "down"
    /\ run < MaxRuns
    /\ status' = "opening"
    /\ op' = Command("recover", {}, {})
    /\ UNCHANGED <<now, run, attached, stopping, failed, buf, policyVars, known,
                   ordinal, writerVars, stopPc, archiveVars, unreadable, admitted>>

\* ... creates the supervisor, whose async_start begins a run
CreateSupervisor ==
    /\ status = "opening"
    /\ op.state = "ok"
    /\ run' = run + 1
    /\ status' = "starting"
    /\ op' = Command("begin", {}, {})
    /\ UNCHANGED <<now, attached, stopping, failed, buf, policyVars, known,
                   ordinal, writerVars, stopPc, archiveVars, unreadable, admitted>>

ArchiveUnavailable ==
    /\ status = "opening"
    /\ op.state \in {"error", "rejected"}
    /\ status' = "unavailable"
    /\ UNCHANGED <<now, run, attached, stopping, failed, buf, policyVars, known,
                   ordinal, writerVars, stopPc, op, archiveVars, unreadable,
                   admitted>>

Started ==
    /\ status = "starting"
    /\ op.state = "ok"
    /\ status' = "ready"
    /\ attached' = TRUE
    /\ writer' = "run"
    /\ op' = NoOp
    /\ UNCHANGED <<now, run, stopping, failed, buf, policyVars, known, ordinal,
                   writing, stopPc, archiveVars, unreadable, admitted>>

StartFails ==
    /\ status = "starting"
    /\ op.state = "error"
    /\ status' = "degraded"
    /\ failed' = TRUE
    /\ UNCHANGED <<now, run, attached, stopping, buf, policyVars, known, ordinal,
                   writerVars, stopPc, op, archiveVars, unreadable, admitted>>

-----------------------------------------------------------------------------
(* Intake *)

Receives ==
    /\ LoopFree
    /\ attached
    /\ ~stopping /\ ~failed
    /\ ordinal + unreadable <
          (IF run = 1 THEN MaxObservations ELSE LateObservations)

Admit(r) ==
    /\ admitted' = admitted \cup {r}
    /\ ordinal' = ordinal + 1
    /\ UNCHANGED <<clockVars, status, attached, failed, unreadable, writerVars,
                   stopVars, op, archiveVars>>

\* _ble_record raises: counted by the supervisor's health, and forgotten
NormalizationFails ==
    /\ Receives
    /\ unreadable' = unreadable + 1
    /\ UNCHANGED recordVars

PendingOf(k) == {p \in pending : p.obs.key = k}

\* emit r after the stream's pending point, if there is one
EmitAfterPending(k, r) ==
    \/ /\ PendingOf(k) = {}
       /\ buf' = Enqueue(buf, r)
       /\ UNCHANGED <<pending, lastEmitted>>
    \/ \E p \in PendingOf(k) :
          /\ buf' = Enqueue(Enqueue(buf, p.obs), r)
          /\ pending' = pending \ {p}
          /\ lastEmitted' = [lastEmitted EXCEPT ![k] = p.obs.at]

\* first advertisement of a stream, or one whose status signature changed
ObserveTransition(k) ==
    LET r == NewRecord(k, "transition")
    IN  /\ Receives
        /\ known' = known \cup {k}
        /\ EmitAfterPending(k, r)
        /\ UNCHANGED coalesced
        /\ Admit(r)

IntervalElapsed(k) ==
    lastEmitted[k] = Never \/ now - lastEmitted[k] >= Interval

\* unchanged signature: emit at most one point per interval, keep the newest
ObserveRegular(k) ==
    LET r == NewRecord(k, "regular")
    IN  /\ Receives
        /\ k \in known
        /\ UNCHANGED known
        /\ Admit(r)
        /\ \/ /\ IntervalElapsed(k)
              /\ lastEmitted' = [lastEmitted EXCEPT ![k] = now]
              /\ buf' = Enqueue(buf, r)
              /\ UNCHANGED <<pending, coalesced>>
           \/ /\ ~IntervalElapsed(k)
              /\ PendingOf(k) = {}
              /\ pending' = pending \cup
                              {[obs |-> r, due |-> lastEmitted[k] + Interval]}
              /\ UNCHANGED <<lastEmitted, buf, coalesced>>
           \/ /\ ~IntervalElapsed(k)
              /\ \E p \in PendingOf(k) :
                    pending' = (pending \ {p}) \cup {[p EXCEPT !.obs = r]}
              /\ coalesced' = coalesced + 1
              /\ UNCHANGED <<lastEmitted, buf>>

ObservePrediction(s) ==
    LET r == NewRecord(<<s, "prediction">>, "prediction")
    IN  /\ Receives
        /\ buf' = Enqueue(buf, r)
        /\ UNCHANGED <<known, policyVars>>
        /\ Admit(r)

\* _flush_regular: by its timer, or by the loop of async_stop
Flush(p) ==
    /\ pending' = pending \ {p}
    /\ lastEmitted' = [lastEmitted EXCEPT ![p.obs.key] = p.obs.at]
    /\ buf' = Enqueue(buf, p.obs)

TimerFires ==
    /\ LoopFree
    /\ \E p \in pending : now >= p.due /\ Flush(p)
    /\ UNCHANGED <<clockVars, status, intakeVars, failed, coalesced, writerVars,
                   stopVars, op, archiveVars>>

-----------------------------------------------------------------------------
(* The writer task *)

WriterIdle ==
    /\ LoopFree
    /\ writer = "run"
    /\ buf.queue = <<>> /\ buf.gaps = {}
    /\ IF stopping
       THEN writer' = "done" /\ attached' = FALSE /\ UNCHANGED buf
       ELSE writer' = "wait" /\ buf' = [buf EXCEPT !.event = FALSE]
                             /\ UNCHANGED attached
    /\ UNCHANGED <<clockVars, status, known, ordinal, unreadable, admitted, failed,
                   policyVars, writing, stopVars, op, archiveVars>>

WriterWakes ==
    /\ LoopFree
    /\ writer = "wait"
    /\ buf.event
    /\ writer' = "run"
    /\ UNCHANGED <<clockVars, status, intakeVars, failed, buf, policyVars, writing,
                   stopVars, op, archiveVars>>

\* record one of the gaps taken
RecordGap(gaps) ==
    \E g \in gaps :
        /\ op' = Command("gap", {}, {g})
        /\ writing' = gaps \ {g}
        /\ writer' = "gap"

\* no gap left to record: the head of the queue is the next batch
TakeBatch(b) ==
    LET n == Min({WriteBatchSize, Len(b.queue)})
    IN  /\ writing' = {}
        /\ buf' = [b EXCEPT !.queue = SubSeq(@, n + 1, Len(@))]
        /\ IF n = 0
           THEN writer' = "run" /\ op' = NoOp
           ELSE /\ writer' = "commit"
                /\ op' = Command("commit", ToSet(SubSeq(b.queue, 1, n)), {})

WriterTakes ==
    /\ LoopFree
    /\ writer = "run"
    /\ buf.queue # <<>> \/ buf.gaps # {}
    /\ \/ /\ buf.gaps # {}
          /\ RecordGap(buf.gaps)
          /\ buf' = [buf EXCEPT !.gaps = {}]
       \/ /\ buf.gaps = {}
          /\ TakeBatch(buf)
    /\ UNCHANGED <<clockVars, status, intakeVars, failed, policyVars, stopVars,
                   archiveVars>>

GapRecorded ==
    /\ LoopFree
    /\ writer = "gap"
    /\ op.state = "ok"
    /\ \/ /\ writing # {}
          /\ RecordGap(writing)
          /\ UNCHANGED buf
       \/ /\ writing = {}
          /\ TakeBatch(buf)
    /\ UNCHANGED <<clockVars, status, intakeVars, failed, policyVars, stopVars,
                   archiveVars>>

BatchCommitted ==
    /\ LoopFree
    /\ writer = "commit"
    /\ op.state = "ok"
    /\ writer' = "run"
    /\ op' = NoOp
    /\ UNCHANGED <<clockVars, status, intakeVars, failed, buf, policyVars, writing,
                   stopVars, archiveVars>>

WriterFails ==
    /\ LoopFree
    /\ writer \in {"gap", "commit"}
    /\ op.state = "error"
    /\ writer' = "done"
    /\ writing' = {}
    /\ failed' = TRUE
    /\ status' = "degraded"
    /\ attached' = FALSE
    /\ op' = NoOp
    /\ UNCHANGED <<clockVars, known, ordinal, unreadable, admitted, buf, policyVars,
                   stopVars, archiveVars>>

-----------------------------------------------------------------------------
(* Stop: runtime.async_stop calls async_stop, then closes the archive *)

StopBegins ==
    /\ status \in {"ready", "degraded"}
    /\ stopPc = "none"
    /\ status' = "stopping"
    /\ attached' = FALSE
    /\ stopPc' = "flush"
    /\ UNCHANGED <<clockVars, known, ordinal, unreadable, admitted, stopping, failed,
                   buf, policyVars, writerVars, op, archiveVars>>

StopFlushes ==
    /\ stopPc = "flush"
    /\ \E p \in pending : Flush(p)
    /\ UNCHANGED <<clockVars, status, intakeVars, failed, coalesced, writerVars,
                   stopVars, op, archiveVars>>

StopFlushed ==
    /\ stopPc = "flush"
    /\ pending = {}
    /\ stopping' = TRUE
    /\ buf' = [buf EXCEPT !.event = TRUE]
    /\ stopPc' = "drain"
    /\ UNCHANGED <<clockVars, status, intakeVars, failed, policyVars, writerVars,
                   op, archiveVars>>

\* the writer task ended (or never existed)
StopDrained ==
    /\ stopPc = "drain"
    /\ writer \in {"done", "none"}
    /\ IF failed
       THEN status' = "degraded" /\ stopPc' = "done" /\ UNCHANGED op
       ELSE stopPc' = "finish" /\ op' = Command("finish", {}, {}) /\ UNCHANGED status
    /\ UNCHANGED <<clockVars, intakeVars, stopping, failed, buf, policyVars,
                   writerVars, archiveVars>>

\* faulty variant: lets a write that is under way end before it gives up
StopAwaitsWrite ==
    /\ stopPc = "drain"
    /\ writer \in {"run", "wait"}
    /\ writer' = "done"
    /\ writing' = {}
    /\ failed' = TRUE
    /\ status' = "degraded"
    /\ stopPc' = "done"
    /\ UNCHANGED <<clockVars, intakeVars, stopping, buf, policyVars, op,
                   archiveVars>>

\* SHUTDOWN_TIMEOUT_SECONDS passed: the writer is cancelled, its command is not
StopTimesOut ==
    /\ stopPc = "drain"
    /\ writer \in {"run", "wait", "gap", "commit"}
    /\ writer' = "done"
    /\ writing' = {}
    /\ failed' = TRUE
    /\ status' = "degraded"
    /\ stopPc' = "done"
    /\ UNCHANGED <<clockVars, intakeVars, stopping, buf, policyVars, op,
                   archiveVars>>

StopFinishes ==
    /\ stopPc = "finish"
    /\ op.state \in {"ok", "error"}
    /\ status' = IF op.state = "ok" THEN "stopped" ELSE "degraded"
    /\ stopPc' = "done"
    /\ UNCHANGED <<clockVars, intakeVars, stopping, failed, buf, policyVars,
                   writerVars, op, archiveVars>>

\* unload while the archive is still starting: the start task is cancelled
StopDuringStart ==
    /\ status \in {"opening", "starting"}
    /\ stopPc = "none"
    /\ status' = "degraded"
    /\ failed' = TRUE
    /\ stopPc' = "done"
    /\ UNCHANGED <<clockVars, intakeVars, stopping, buf, policyVars, writerVars,
                   op, archiveVars>>

ForgetMemory ==
    /\ status' = "down"
    /\ attached' = FALSE /\ stopping' = FALSE /\ failed' = FALSE
    /\ buf' = [queue |-> <<>>, gaps |-> {}, event |-> FALSE, dropped |-> buf.dropped]
    /\ pending' = {} /\ lastEmitted' = [k \in Streams |-> Never]
    /\ known' = {} /\ ordinal' = 0 /\ coalesced' = 0 /\ unreadable' = 0
    /\ writer' = "none" /\ writing' = {} /\ stopPc' = "none"
    /\ op' = NoOp
    /\ UNCHANGED <<run, archiveVars, admitted>>

\* the archive's writer thread was joined, so no command is left
Unloaded ==
    /\ stopPc = "done" \/ status = "unavailable"
    /\ op.state # "queued"
    /\ ForgetMemory
    /\ UNCHANGED now

-----------------------------------------------------------------------------
(* The archive thread, the clock and the power supply *)

\* faulty variant: only what comes after the restart is uncertain
LastEvidenceIsNow(r) == op.at

\* the newest observation of run r that reached the archive, or its start
LastEvidence(r) ==
    LET times == {o.at : o \in {x \in archived : x.run = r}}
    IN  IF times = {} THEN startedAt[r] ELSE Max(times)

\* faulty variant: forgets that only open runs are to be closed
StaleOrClosed == {r \in Runs : runStatus[r] # "none"}

Stale == {r \in Runs : runStatus[r] = "running"}

\* CHECK (last_lost_at_us >= first_lost_at_us)
WindowsValid == \A r \in Stale : LastEvidence(r) <= op.at

\* faulty variant: stale runs are left as they are
RecoverNothing ==
    /\ op.kind = "recover"
    /\ UNCHANGED archiveVars

RecoverEffect ==
    /\ op.kind = "recover"
    /\ WindowsValid
    /\ runStatus' = [r \in Runs |-> IF r \in Stale THEN "interrupted"
                                    ELSE runStatus[r]]
    /\ lossWindows' = lossWindows \cup
         {[run |-> r, first |-> LastEvidence(r), last |-> op.at] : r \in Stale}
    /\ UNCHANGED <<startedAt, archived, gapRows>>

BeginEffect ==
    /\ op.kind = "begin"
    /\ runStatus' = [runStatus EXCEPT ![run] = "running"]
    /\ startedAt' = [startedAt EXCEPT ![run] = op.at]
    /\ UNCHANGED <<archived, gapRows, lossWindows>>

GapEffect ==
    /\ op.kind = "gap"
    /\ gapRows' = gapRows \cup op.gaps
    /\ UNCHANGED <<runStatus, startedAt, archived, lossWindows>>

CommitEffect ==
    /\ op.kind = "commit"
    /\ archived' = archived \cup op.rows
    /\ UNCHANGED <<runStatus, startedAt, gapRows, lossWindows>>

FinishEffect ==
    /\ op.kind = "finish"
    /\ runStatus[run] = "running"
    /\ runStatus' = [runStatus EXCEPT ![run] = "clean"]
    /\ UNCHANGED <<startedAt, archived, gapRows, lossWindows>>

\* One transaction.  A checkpoint that fails after the commit reports an error
\* for a command whose effect is durable.
Execute ==
    /\ op.state = "queued"
    /\ RecoverEffect \/ BeginEffect \/ GapEffect \/ CommitEffect \/ FinishEffect
    /\ \E s \in {"ok", "error"} : op' = [op EXCEPT !.state = s]
    /\ UNCHANGED <<clockVars, memoryVars, unreadable, admitted>>

\* rolled back: storage failure, or a constraint that refuses the recovery
RollBack ==
    /\ op.state = "queued"
    /\ \/ op' = [op EXCEPT !.state = "error"]
       \/ /\ op.kind = "recover" /\ ~WindowsValid
          /\ op' = [op EXCEPT !.state = "rejected"]
    /\ UNCHANGED <<clockVars, memoryVars, archiveVars, unreadable, admitted>>

Tick ==
    /\ LoopFree
    /\ now < MaxTime
    /\ \A p \in pending : now < p.due + MaxTimerDelay
    /\ now' = now + 1
    /\ UNCHANGED <<run, memoryVars, op, archiveVars, unreadable, admitted>>

Crash ==
    /\ status # "down"
    /\ ForgetMemory
    /\ now' \in (IF ClockStepsBack THEN 0..now ELSE {now})

-----------------------------------------------------------------------------
Start   == Open \/ CreateSupervisor \/ ArchiveUnavailable \/ Started \/ StartFails
Observe == \/ \E k \in Streams : ObserveTransition(k) \/ ObserveRegular(k)
           \/ \E s \in Sources : ObservePrediction(s)
Write   == WriterIdle \/ WriterWakes \/ WriterTakes \/ GapRecorded
              \/ BatchCommitted \/ WriterFails
Stop    == StopBegins \/ StopFlushes \/ StopFlushed \/ StopDrained
              \/ StopTimesOut \/ StopFinishes \/ StopDuringStart \/ Unloaded
Archive == Execute \/ RollBack

Next ==
    \/ Start \/ Observe \/ NormalizationFails \/ TimerFires \/ Write \/ Stop
    \/ Archive \/ Tick \/ Crash

Spec == Init /\ [][Next]_vars

\* The event loop keeps running its tasks and timers.
LoopFairness == /\ WF_vars(Write) /\ WF_vars(TimerFires)
                /\ WF_vars(StopFlushes \/ StopFlushed \/ StopDrained \/ StopFinishes)
                /\ WF_vars(StopTimesOut)

\* Nothing obliges the archive's writer thread to answer.
LoopSpec == Spec /\ LoopFairness

-----------------------------------------------------------------------------
(* Properties *)

TypeOK ==
    /\ now \in Times /\ run \in 0..MaxRuns
    /\ status \in {"down", "opening", "unavailable", "starting", "ready",
                   "degraded", "stopping", "stopped"}
    /\ attached \in BOOLEAN /\ stopping \in BOOLEAN /\ failed \in BOOLEAN
    /\ buf \in Buffer
    /\ Len(buf.queue) <= MaxQueueItems
    /\ pending \in SUBSET [obs : Observation, due : Nat]
    /\ lastEmitted \in [Streams -> Nat \cup {Never}]
    /\ known \in SUBSET Streams
    /\ ordinal \in Nat /\ coalesced \in Nat /\ unreadable \in Nat
    /\ writer \in {"none", "run", "wait", "gap", "commit", "done"}
    /\ writing \in SUBSET Gap
    /\ stopPc \in {"none", "flush", "drain", "finish", "done"}
    /\ op \in Operation
    /\ runStatus \in [Runs -> {"none", "running", "clean", "interrupted"}]
    /\ startedAt \in [Runs -> Times]
    /\ archived \in SUBSET Observation /\ gapRows \in SUBSET Gap
    /\ lossWindows \in SUBSET [run : Runs, first : Times, last : Times]
    /\ admitted \in SUBSET Observation

Covers(g, r) ==
    /\ g.run = r.run /\ SameGap(g, r)
    /\ g.first <= r.at /\ r.at <= g.last

\* r is in the archive, or a gap row there says that it was lost
Evident(r) == r \in archived \/ \E g \in gapRows : Covers(g, r)

\* n is a later point of r's stream that the interval policy kept instead of r
Replaces(n, r) ==
    /\ n.run = r.run /\ n.key = r.key /\ n.ord > r.ord
    /\ r.class = "regular" /\ n.class = "regular"
    /\ n.at <= r.at + Interval + MaxTimerDelay

(* A run that the archive calls clean has no silent loss of a record: every   *)
(* observation that could be normalized is archived, or a gap row of its      *)
(* source and class covers its time, or a newer point of its stream within    *)
(* the interval was kept in its place (async_stop: "flush the selected        *)
(* pending point, then close the run").  An observation whose normalization   *)
(* raised is no record: it leaves no trace in the archive (_on_ble_observation *)
(* only counts it in the health of the supervisor).                           *)
CleanRunAccounted ==
    \A r \in admitted :
        runStatus[r.run] = "clean" =>
            \/ Evident(r)
            \/ \E n \in admitted : Replaces(n, r) /\ Evident(n)

OfRun(S) == {x \in S : x.run = run}
Counts(G) == MapThenSumSet(LAMBDA g : g.count, G)

(* The evidence of a clean run is exact: the archived rows, the dropped_count *)
(* of its gap rows and the coalesced points add up to the records made of     *)
(* what was received.                                                         *)
CleanRunReconciles ==
    run > 0 /\ status = "stopped" =>
        Cardinality(OfRun(admitted)) =
            Cardinality(OfRun(archived)) + Counts(OfRun(gapRows)) + coalesced

(* Recovery before every begin leaves at most one open run in the archive.    *)
OneOpenRun ==
    \A r, t \in Runs : runStatus[r] = "running" /\ runStatus[t] = "running" => r = t

(* A transition or prediction is displaced only when the whole queue consists *)
(* of such records (_enqueue: "queue_overflow").                              *)
OverflowSparesTransitions ==
    [][ \A i \in DOMAIN buf.queue :
          (/\ buf.queue[i].class # "regular"
           /\ \A j \in DOMAIN buf'.queue : buf'.queue[j] # buf.queue[i]
           /\ buf.queue[i] \notin op'.rows
           /\ status' # "down")
          => Regulars(buf.queue) = {} ]_vars

InWindow(r, w) == w.run = r.run /\ w.first <= r.at /\ r.at <= w.last

(* The uncertain window of an interrupted run contains every transition and    *)
(* prediction that left no evidence, except those a full queue gave up, which  *)
(* have a gap of their own: what the queue keeps passes through it in the      *)
(* order it was received (async_recover_interrupted_local_captures).           *)
LostTransitionsInWindow ==
    \A r \in admitted :
        (runStatus[r.run] = "interrupted" /\ r.class # "regular" /\ ~Evident(r))
            => r \in buf.dropped \/ \E w \in lossWindows : InWindow(r, w)

(* Opening the archive closes the runs left open, unless storage itself fails *)
(* (__init__.py: a stale run must not linger as a false running interval).     *)
RecoveryNeverRejected == op.state # "rejected"

CommandUnanswered == op.state = "queued"

(* What waits in the queue leaves it, unless the archive never answers a       *)
(* command: no wake-up of the writer is lost (_queue_event is cleared before   *)
(* the wait).                                                                  *)
QueueDrains ==
    (buf.queue # <<>> /\ ~failed)
        ~> (failed \/ buf.queue = <<>> \/ []CommandUnanswered)

FinalWriteUnanswered == stopPc = "finish" /\ op.state = "queued"

(* async_stop returns unless its final write is never answered: it does not   *)
(* wait longer than SHUTDOWN_TIMEOUT_SECONDS for its writer, whatever the     *)
(* archive's thread does, and it ends however the final write ends.           *)
StopReturnsOnceAnswered ==
    (stopPc # "none") ~> (stopPc \in {"done", "none"} \/ []FinalWriteUnanswered)

=============================================================================
