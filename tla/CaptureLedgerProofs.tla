------------------------ MODULE CaptureLedgerProofs ------------------------
(***************************************************************************)
(* Local capture implements CaptureLedger, the uncertain windows of           *)
(* interrupted runs hold what was lost, and the counts of a clean run add up  *)
(* to what was received, for every value of the constants.                   *)
(***************************************************************************)
EXTENDS LocalCaptureProofs, CaptureRefinement, FiniteSetTheorems

-----------------------------------------------------------------------------
(* Whose evidence the archive thread may write *)

\* A command in flight, and the writer that submitted it, belong to the open run;
\* the row of a run does not exist before its begin is executed.
Custody ==
    /\ \A t \in Runs : t > run => runStatus[t] = "none"
    /\ op.kind = "begin" => run \in Runs
    /\ op.kind = "begin" /\ op.state = "queued" => runStatus[run] = "none"
    /\ writer # "none" => run \in Runs
    /\ writer \in {"run", "wait", "gap", "commit"} => runStatus[run] = "running"
    /\ op.kind \in {"gap", "commit"} /\ op.state = "queued" =>
          /\ run \in Runs /\ runStatus[run] = "running"
          /\ \A x \in op.rows : x.run = run
          /\ \A g \in op.gaps : g.run = run
    /\ \A g \in writing : g.run = run

LedgerInv == CaptureInv /\ OpenRuns /\ Custody

LEMMA CustodyInit == Init => Custody
BY DEF Init, NoMemory, NoOp, Custody

\* A batch consists of records that were queued.
LEMMA TakeBatchRows ==
    ASSUME Base, TakeBatch(buf), writer' = "commit"
    PROVE  /\ op'.gaps = {}
           /\ \A x \in op'.rows : Queued(buf.queue, x) /\ x.run = run
<1> DEFINE n == Min({WriteBatchSize, Len(buf.queue)})
           head == ToSet(SubSeq(buf.queue, 1, n))
           rest == [buf EXCEPT !.queue = SubSeq(@, n + 1, Len(@))]
<1>1. Len(buf.queue) \in Nat /\ n \in 0..Len(buf.queue)
  BY BatchSize
<1>2. \A x : Queued(buf.queue, x) <=> x \in head \/ Queued(rest.queue, x)
  BY <1>1, BufferHolds, SplitQueue
<1>3. n = 0 \/ op' = Command("commit", head, {})
  BY Zenon DEF TakeBatch
<1>4. n # 0
  BY Zenon DEF TakeBatch
<1> HIDE DEF n, head, rest
<1>5. op'.rows = head /\ op'.gaps = {}
  BY <1>3, <1>4 DEF Command
<1>6. \A x : Queued(buf.queue, x) => x.run = run
  BY DEF Queued, Base, Ownership
<1>7. QED
  BY <1>2, <1>5, <1>6

LEMMA CustodyExecute ==
    ASSUME Base, Draining, Custody, Execute
    PROVE  Custody'
<1> USE DEF clockVars, memoryVars
<1>1. /\ op.state = "queued" /\ op'.state \in {"ok", "error"}
      /\ op'.kind = op.kind /\ run' = run /\ writer' = writer /\ writing' = writing
  BY DEF Execute, Base, TypeOK, Operation
<1>2. CASE RecoverEffect
  <2>1. writer = "none"
    BY <1>2 DEF RecoverEffect, Base, Control
  <2>2. \A t \in Runs : t > run => runStatus'[t] = "none"
    BY <1>2 DEF RecoverEffect, Stale, Custody
  <2>3. QED
    BY <1>1, <1>2, <2>1, <2>2 DEF RecoverEffect, Custody
<1>3. CASE BeginEffect
  <2>1. writer = "none"
    BY <1>3 DEF BeginEffect, Base, Control
  <2>2. run \in Runs /\ \A t \in Runs : t > run => runStatus'[t] = "none"
    BY <1>3 DEF BeginEffect, Custody, Base, TypeOK, Runs
  <2>3. QED
    BY <1>1, <1>3, <2>1, <2>2 DEF BeginEffect, Custody
<1>4. CASE GapEffect \/ CommitEffect
  BY <1>1, <1>4 DEF GapEffect, CommitEffect, Custody
<1>5. CASE FinishEffect
  <2>1. writer = "done"
    BY <1>1, <1>5 DEF FinishEffect, Draining
  <2>2. \A t \in Runs : t > run => runStatus'[t] = "none"
    BY <1>5 DEF FinishEffect, Custody, Base, TypeOK, Runs
  <2>3. QED
    BY <1>1, <1>5, <2>1, <2>2 DEF FinishEffect, Custody
<1>6. QED
  BY <1>2, <1>3, <1>4, <1>5 DEF Execute

LEMMA CustodyNext ==
    ASSUME Base, Draining, Custody, [Next]_vars
    PROVE  Custody'
<1> USE DEF clockVars, intakeVars, policyVars, writerVars, stopVars, archiveVars, memoryVars
<1>1. CASE Execute
  BY <1>1, CustodyExecute
<1>2. CASE Open
  <2>1. writer = "none"
    BY <1>2 DEF Open, Base, Idle
  <2>2. QED
    BY <1>2, <2>1 DEF Open, Command, Custody
<1>3. CASE CreateSupervisor
  <2>1. writer = "none" /\ run < MaxRuns /\ run \in Nat /\ writing = {}
    BY <1>3 DEF CreateSupervisor, Base, Idle, Control, TypeOK
  <2>2. run + 1 \in Runs /\ runStatus[run + 1] = "none"
    BY <2>1, LocalCaptureAssumption DEF Runs, Custody
  <2>3. \A t \in Runs : t > run + 1 => runStatus[t] = "none"
    BY <2>1 DEF Runs, Custody
  <2>4. QED
    BY <1>3, <2>1, <2>2, <2>3 DEF CreateSupervisor, Command, Custody
<1>4. CASE Started
  <2>1. run \in Runs /\ runStatus[run] = "running"
    BY <1>4 DEF Started, Base, Control, Draining
  <2>2. QED
    BY <1>4, <2>1 DEF Started, NoOp, Custody
<1>5. CASE RollBack
  BY <1>5 DEF RollBack, Base, TypeOK, Operation, Custody
<1>6. CASE Unloaded \/ Crash
  BY <1>6 DEF Unloaded, Crash, ForgetMemory, NoOp, Custody
<1>7. CASE WriterTakes \/ GapRecorded
  <2>1. /\ writer \in {"run", "gap"} /\ UNCHANGED <<run, runStatus>>
        /\ run \in Runs /\ runStatus[run] = "running"
    BY <1>7 DEF WriterTakes, GapRecorded, Custody
  <2>2. ASSUME NEW gaps, \A g \in gaps : g.run = run, RecordGap(gaps)
        PROVE  Custody'
    <3>1. PICK g \in gaps : /\ op' = Command("gap", {}, {g})
                            /\ writing' = gaps \ {g} /\ writer' = "gap"
      BY <2>2 DEF RecordGap
    <3>2. QED
      BY <2>1, <2>2, <3>1 DEF Command, Custody
  <2>3. CASE TakeBatch(buf)
    <3>1. writing' = {} /\ writer' \in {"run", "commit"}
          /\ op'.kind = IF writer' = "commit" THEN "commit" ELSE "none"
      BY <2>3, TakeBatchType
    <3>2. writer' = "commit" => op'.gaps = {} /\ \A x \in op'.rows : x.run = run
      BY <2>3, TakeBatchRows
    <3>3. QED
      BY <2>1, <3>1, <3>2 DEF Custody
  <2>4. QED
    BY <1>7, <2>2, <2>3 DEF WriterTakes, GapRecorded, Custody, Base, Ownership
<1>8. CASE BatchCommitted \/ WriterFails
  BY <1>8 DEF BatchCommitted, WriterFails, NoOp, Custody
<1>9. CASE WriterIdle \/ WriterWakes
  BY <1>9 DEF WriterIdle, WriterWakes, Custody
<1>10. CASE StopDrained
  BY <1>10 DEF StopDrained, Command, Custody
<1>11. CASE StopTimesOut
  BY <1>11 DEF StopTimesOut, Custody
<1>12. CASE UNCHANGED <<run, op, runStatus, writer, writing>>
  BY <1>12 DEF Custody
<1>13. CASE Observe \/ TimerFires \/ Tick \/ UNCHANGED recordVars
  BY <1>12, <1>13 DEF Observe, ObserveTransition, ObserveRegular, ObservePrediction, Admit,
                      TimerFires, Tick, recordVars
<1>14. CASE ArchiveUnavailable \/ StartFails
  BY <1>12, <1>14 DEF ArchiveUnavailable, StartFails
<1>15. CASE StopBegins \/ StopFlushes \/ StopFlushed \/ StopFinishes \/ StopDuringStart
  BY <1>12, <1>15 DEF StopBegins, StopFlushes, StopFlushed, StopFinishes, StopDuringStart
<1>16. QED
  BY <1>1, <1>2, <1>3, <1>4, <1>5, <1>6, <1>7, <1>8, <1>9, <1>10, <1>11, <1>13, <1>14, <1>15
     DEF Next, NormalizationFails, vars, Start, Write, Stop, Archive

LEMMA LedgerInvInit == Init => LedgerInv
BY CaptureInit, OpenRunsInit, CustodyInit DEF LedgerInv

LEMMA LedgerInvNext ==
    ASSUME LedgerInv, [Next]_vars
    PROVE  LedgerInv'
BY CaptureNext, OpenRunsNext, CustodyNext DEF LedgerInv, CaptureInv

-----------------------------------------------------------------------------
(* The refinement *)

LEMMA LedgerStarts == Init => Ledger!Init
<1>1. SUFFICES ASSUME Init PROVE Ledger!Init
  OBVIOUS
<1>2. \A r \in Runs : ReceivedBy(r) = {}
  BY <1>1 DEF Init, ReceivedBy
<1>3. QED
  BY <1>1, <1>2 DEF Init, Ledger!Init

\* What the ledger sees does not change.
LEMMA LedgerStutters ==
    ASSUME UNCHANGED <<runStatus, admitted, archived, gapRows>>
    PROVE  UNCHANGED Ledger!ledgerVars
<1>1. \A x : Evident(x)' <=> Evident(x)
  BY DEF Evident
<1>2. QED
  BY <1>1 DEF Ledger!ledgerVars, ReceivedBy, AccountedFor, Replaces

\* Evidence of the open run grows: new observations, rows and gap rows of it.
LEMMA LedgerWorks ==
    ASSUME NEW o \in Runs, runStatus[o] = "running", UNCHANGED runStatus,
           admitted \subseteq admitted', archived \subseteq archived',
           gapRows \subseteq gapRows',
           \A x \in admitted' \ admitted : x.run = o,
           \A x \in archived' \ archived : x.run = o,
           \A g \in gapRows' \ gapRows : g.run = o
    PROVE  Ledger!Work(o)
<1> DEFINE Acc(t) == {x \in ReceivedBy(t) : AccountedFor(x)}
<1>1. \A x : Evident(x) => Evident(x)'
  BY DEF Evident
<1>2. \A t \in Runs : ReceivedBy(t) \subseteq ReceivedBy(t)'
  BY DEF ReceivedBy
<1>3. \A x \in admitted : AccountedFor(x) => AccountedFor(x)'
  BY <1>1 DEF AccountedFor, Replaces
<1>4. Acc(o) \subseteq Acc(o)'
  BY <1>3 DEF ReceivedBy
<1>5. ASSUME NEW t \in Runs \ {o}
      PROVE  ReceivedBy(t)' = ReceivedBy(t) /\ Acc(t)' = Acc(t)
  <2>1. ReceivedBy(t)' = ReceivedBy(t)
    BY <1>5 DEF ReceivedBy
  <2>2. \A x : x.run = t => (Evident(x)' <=> Evident(x))
    BY <1>5 DEF Evident, Covers
  <2>3. \A x \in ReceivedBy(t) : AccountedFor(x)' <=> AccountedFor(x)
    BY <1>5, <2>2 DEF AccountedFor, Replaces, ReceivedBy
  <2>4. QED
    BY <2>1, <2>3
<1>6. QED
  BY <1>2, <1>4, <1>5 DEF Ledger!Work

LEMMA LedgerExecutes ==
    ASSUME LedgerInv, LedgerInv', Execute
    PROVE  [Ledger!Next]_(Ledger!ledgerVars)
<1> USE DEF clockVars, memoryVars
<1> USE DEF LedgerInv, CaptureInv
<1>1. op.state = "queued" /\ UNCHANGED <<admitted, run>>
  BY DEF Execute
<1>2. CASE RecoverEffect
  <2>1. UNCHANGED <<archived, gapRows>>
    BY <1>2 DEF RecoverEffect
  <2>2. CASE Stale = {}
    <3>1. runStatus' = runStatus
      BY <1>2, <2>2 DEF RecoverEffect, Base, TypeOK
    <3>2. QED
      BY <1>1, <2>1, <3>1, LedgerStutters
  <2>3. CASE Stale # {}
    <3>1. PICK r \in Stale : TRUE
      BY <2>3
    <3>2. r \in Runs /\ runStatus[r] = "running" /\ Stale = {r}
      BY <3>1 DEF Stale, OpenRuns, OneOpenRun
    <3>3. runStatus' = [runStatus EXCEPT ![r] = "interrupted"]
      BY <1>2, <3>2 DEF RecoverEffect, Base, TypeOK
    <3>4. \A x : Evident(x)' <=> Evident(x)
      BY <2>1 DEF Evident
    <3>5. Ledger!Interrupt(r)
      BY <1>1, <3>2, <3>3, <3>4 DEF Ledger!Interrupt, ReceivedBy, AccountedFor, Replaces
    <3>6. QED
      BY <3>2, <3>5 DEF Ledger!Next
  <2>4. QED
    BY <2>2, <2>3
<1>3. CASE BeginEffect
  <2>1. run \in Runs /\ runStatus[run] = "none"
    BY <1>1, <1>3 DEF BeginEffect, Custody
  <2>2. \A t \in Runs : runStatus[t] # "running"
    BY <1>1, <1>3 DEF BeginEffect, OpenRuns, Stale
  <2>3. \A x : Evident(x)' <=> Evident(x)
    BY <1>3 DEF BeginEffect, Evident
  <2>4. Ledger!Begin(run)
    BY <1>1, <1>3, <2>1, <2>2, <2>3
       DEF BeginEffect, Ledger!Begin, ReceivedBy, AccountedFor, Replaces
  <2>5. QED
    BY <2>1, <2>4 DEF Ledger!Next
<1>4. CASE GapEffect \/ CommitEffect
  <2>1. /\ run \in Runs /\ runStatus[run] = "running"
        /\ \A x \in op.rows : x.run = run
        /\ \A g \in op.gaps : g.run = run
    BY <1>1, <1>4 DEF GapEffect, CommitEffect, Custody
  <2>2. /\ UNCHANGED runStatus
        /\ archived \subseteq archived' /\ archived' \subseteq archived \cup op.rows
        /\ gapRows \subseteq gapRows' /\ gapRows' \subseteq gapRows \cup op.gaps
    BY <1>4 DEF GapEffect, CommitEffect
  <2>3. PICK o \in Runs : o = run
    BY <2>1
  <2>4. Ledger!Work(o)
    BY <1>1, <2>1, <2>2, <2>3, LedgerWorks
  <2>5. QED
    BY <2>4 DEF Ledger!Next
<1>5. CASE FinishEffect
  <2>1. run \in Runs /\ runStatus[run] = "running"
    <3>1. writer = "done"
      BY <1>1, <1>5 DEF FinishEffect, Draining
    <3>2. run \in Runs
      BY <3>1 DEF Custody
    <3>3. QED
      BY <1>5, <3>2 DEF FinishEffect
  <2>2. \A x : Evident(x)' <=> Evident(x)
    BY <1>5 DEF FinishEffect, Evident
  <2>3. runStatus'[run] = "clean"
    BY <1>5, <2>1 DEF FinishEffect, Base, TypeOK
  <2>4. \A x \in ReceivedBy(run) : AccountedFor(x)
    BY <1>1, <2>2, <2>3 DEF CleanRunAccounted, ReceivedBy, AccountedFor, Replaces
  <2>5. {x \in ReceivedBy(run) : AccountedFor(x)} = ReceivedBy(run)
    BY <2>4
  <2>6. Ledger!Close(run)
    BY <1>1, <1>5, <2>1, <2>2, <2>5
       DEF FinishEffect, Ledger!Close, ReceivedBy, AccountedFor, Replaces
  <2>7. QED
    BY <2>1, <2>6 DEF Ledger!Next
<1>6. QED
  BY <1>2, <1>3, <1>4, <1>5 DEF Execute

LEMMA LedgerSteps ==
    ASSUME LedgerInv, LedgerInv', [Next]_vars
    PROVE  [Ledger!Next]_(Ledger!ledgerVars)
<1> USE DEF clockVars, intakeVars, policyVars, writerVars, stopVars, archiveVars, memoryVars
<1>1. CASE Execute
  BY <1>1, LedgerExecutes
<1>2. CASE Observe
  <2>1. PICK r \in Observation : Receives /\ Admit(r) /\ r.run = run
    BY <1>2, ReceivedRecord DEF LedgerInv, CaptureInv
  <2>2. run \in Runs /\ runStatus[run] = "running"
    BY <2>1 DEF Receives, LedgerInv, CaptureInv, Draining, Base, Control
  <2>3. /\ UNCHANGED <<runStatus, archived, gapRows>>
        /\ admitted' = admitted \cup {r}
    BY <2>1 DEF Admit
  <2>4. PICK o \in Runs : o = run
    BY <2>2
  <2>5. Ledger!Work(o)
    BY <2>1, <2>2, <2>3, <2>4, LedgerWorks
  <2>6. QED
    BY <2>5 DEF Ledger!Next
<1>3. CASE Start \/ TimerFires \/ Write \/ RollBack \/ Tick \/ Crash \/ UNCHANGED recordVars
  <2>1. UNCHANGED <<runStatus, admitted, archived, gapRows>>
    BY <1>3 DEF Start, Open, CreateSupervisor, ArchiveUnavailable, Started, StartFails,
                TimerFires, Write, WriterIdle, WriterWakes, WriterTakes, GapRecorded,
                BatchCommitted, WriterFails, RollBack, Tick, Crash, ForgetMemory, recordVars
  <2>2. QED
    BY <2>1, LedgerStutters
<1>4. CASE Stop
  <2>1. UNCHANGED <<runStatus, admitted, archived, gapRows>>
    BY <1>4 DEF Stop, StopBegins, StopFlushes, StopFlushed, StopDrained, StopTimesOut,
                StopFinishes, StopDuringStart, Unloaded, ForgetMemory
  <2>2. QED
    BY <2>1, LedgerStutters
<1>5. QED
  BY <1>1, <1>2, <1>3, <1>4 DEF Next, NormalizationFails, vars, Archive

\* Local capture implements the ledger of runs: every step of queue, timers,
\* writer, stop, crash and recovery is a step of the ledger or changes nothing it
\* shows (local_capture.py with the capture transactions of repository.py).
THEOREM LedgerImplemented == Spec => ImplementsLedger
<1>1. Spec => []LedgerInv
  BY LedgerInvInit, LedgerInvNext, PTL DEF Spec
<1>2. QED
  BY <1>1, LedgerStarts, LedgerSteps, PTL DEF Spec, ImplementsLedger, Ledger!Spec

-----------------------------------------------------------------------------
(* What an interrupted run leaves uncertain *)

\* a transition or prediction without evidence that the queue did not give up
Missing(r) == r.class # "regular" /\ ~Evident(r) /\ r \notin buf.dropped

\* whatever stands before a transition or prediction in the queue is not newer
Arrival(q) ==
    \A i, j \in DOMAIN q : i < j /\ q[j].class # "regular" => q[i].at <= q[j].at

\* nothing is archived that was not received
Provenance ==
    /\ IsFiniteSet(admitted)
    /\ archived \subseteq admitted /\ op.rows \subseteq admitted

\* no time is ahead of the clock, none behind the start of its run
Chronology ==
    /\ \A r \in admitted :
          r.at <= now /\ runStatus[r.run] # "none" /\ startedAt[r.run] <= r.at
    /\ \A t \in Runs : startedAt[t] <= now
    /\ op.at <= now
    /\ op.kind = "recover" => /\ \A r \in admitted : r.at <= op.at
                              /\ \A t \in Runs : startedAt[t] <= op.at

\* while the writer works, what is missing is on its way to the archive
OnTheWay ==
    writer \in {"run", "wait", "gap", "commit"} =>
        \A r \in admitted :
            r.run = run /\ Missing(r) => Queued(buf.queue, r) \/ r \in InFlightRows

\* a batch is not newer than what is missing and not in it
BatchFirst ==
    op.kind = "commit" /\ op.state = "queued" =>
        \A o \in op.rows, r \in admitted :
            r.run = o.run /\ Missing(r) /\ r \notin op.rows => o.at <= r.at

\* what is archived of a run is not newer than what is missing of it
ArchivedFirst ==
    \A r \in admitted, o \in archived : o.run = r.run /\ Missing(r) => o.at <= r.at

WindowInv ==
    /\ LedgerInv /\ Provenance /\ Chronology /\ Arrival(buf.queue)
    /\ OnTheWay /\ BatchFirst /\ ArchivedFirst /\ LostTransitionsInWindow

\* A queue into which nothing but the newest transitions and predictions come.
LEMMA AppendArrival ==
    ASSUME NEW q \in Seq(Observation), Arrival(q), NEW r \in Observation,
           \/ r.class = "regular"
           \/ \A i \in DOMAIN q : q[i].at <= r.at
    PROVE  Arrival(Append(q, r))
<1>1. Len(q) \in Nat /\ DOMAIN q = 1..Len(q)
  BY LenProperties
<1>2. /\ Append(q, r) \in Seq(Observation) /\ Len(Append(q, r)) = Len(q) + 1
      /\ \A j \in 1..Len(q) : Append(q, r)[j] = q[j]
      /\ Append(q, r)[Len(q) + 1] = r
  BY AppendProperties
<1>3. DOMAIN Append(q, r) = 1..(Len(q) + 1)
  BY <1>2, LenProperties
<1>4. SUFFICES ASSUME NEW i \in 1..(Len(q) + 1), NEW j \in 1..(Len(q) + 1), i < j,
                      Append(q, r)[j].class # "regular"
               PROVE  Append(q, r)[i].at <= Append(q, r)[j].at
  BY <1>3 DEF Arrival
<1>5. i \in 1..Len(q)
  BY <1>1, <1>4
<1>6. CASE j = Len(q) + 1
  BY <1>1, <1>2, <1>4, <1>5, <1>6
<1>7. CASE j # Len(q) + 1
  <2>1. j \in 1..Len(q)
    BY <1>1, <1>7
  <2>2. QED
    BY <1>1, <1>2, <1>4, <1>5, <2>1 DEF Arrival
<1>8. QED
  BY <1>6, <1>7

LEMMA DisplaceArrival ==
    ASSUME NEW b, b.queue \in Seq(Observation), Arrival(b.queue),
           NEW r \in Observation, NEW k \in 1..Len(b.queue),
           \/ r.class = "regular"
           \/ \A i \in DOMAIN b.queue : b.queue[i].at <= r.at
    PROVE  Arrival(Displace(b, k, r).queue)
<1> DEFINE q == b.queue
           d == Displace(b, k, r).queue
<1>1. Len(q) \in Nat /\ DOMAIN q = 1..Len(q)
  BY LenProperties
<1>2. /\ DOMAIN d = 1..Len(q)
      /\ \A j \in 1..(Len(q) - 1) : d[j] = IF j < k THEN q[j] ELSE q[j + 1]
      /\ d[Len(q)] = r
  BY DisplaceQueue
<1> HIDE DEF d
<1>3. SUFFICES ASSUME NEW i \in 1..Len(q), NEW j \in 1..Len(q), i < j,
                      d[j].class # "regular"
               PROVE  d[i].at <= d[j].at
  BY <1>2 DEF Arrival, d
<1>4. PICK m \in 1..Len(q) : d[i] = q[m] /\ m <= i + 1 /\ (i < k => m = i)
  <2>1. i \in 1..(Len(q) - 1) /\ i + 1 \in 1..Len(q)
    BY <1>1, <1>3
  <2>2. QED
    BY <1>2, <2>1
<1>5. CASE j = Len(q)
  BY <1>1, <1>2, <1>3, <1>4, <1>5
<1>6. CASE j # Len(q)
  <2>1. j \in 1..(Len(q) - 1) /\ j + 1 \in 1..Len(q)
    BY <1>1, <1>6
  <2>2. PICK n \in 1..Len(q) : d[j] = q[n] /\ m < n
    <3>1. CASE j < k
      <4>1. d[j] = q[j] /\ i < k
        BY <1>1, <1>2, <1>3, <2>1, <3>1
      <4>2. QED
        BY <1>3, <1>4, <4>1
    <3>2. CASE j >= k
      <4>1. d[j] = q[j + 1] /\ m < j + 1
        BY <1>1, <1>2, <1>3, <1>4, <2>1, <3>2
      <4>2. QED
        BY <2>1, <4>1
    <3>3. QED
      BY <1>1, <3>1, <3>2
  <2>3. QED
    BY <1>1, <1>3, <1>4, <2>2 DEF Arrival
<1>7. QED
  BY <1>5, <1>6

LEMMA EnqueueArrival ==
    ASSUME NEW t, NEW b, Holds(b, t), Arrival(b.queue), NEW r \in Observation,
           \/ r.class = "regular"
           \/ \A i \in DOMAIN b.queue : b.queue[i].at <= r.at
    PROVE  Arrival(Enqueue(b, r).queue)
<1> DEFINE q == b.queue
<1>1. /\ q \in Seq(Observation) /\ Len(q) \in Nat /\ DOMAIN q = 1..Len(q)
      /\ Len(q) <= MaxQueueItems /\ b \in Buffer
  BY LenProperties DEF Holds, Buffer
<1>2. CASE stopping \/ failed
  BY <1>2, EnqueueRefused
<1>3. CASE ~stopping /\ ~failed /\ Len(q) < MaxQueueItems
  <2>1. Enqueue(b, r).queue = Append(q, r)
    BY <1>1, <1>3 DEF Enqueue, Accept, Buffer
  <2>2. QED
    BY <1>1, <2>1, AppendArrival
<1>4. CASE ~stopping /\ ~failed /\ ~(Len(q) < MaxQueueItems)
  <2>1. \/ \E k \in 1..Len(q) : Enqueue(b, r) = Displace(b, k, r)
        \/ Enqueue(b, r).queue = q
    <3>1. CASE Regulars(q) # {}
      <4>1. Regulars(q) \in SUBSET Nat
        BY <1>1 DEF Regulars
      <4>2. Min(Regulars(q)) \in Regulars(q)
        BY <3>1, <4>1, MinIsMember
      <4>3. Min(Regulars(q)) \in 1..Len(q)
        BY <1>1, <4>2 DEF Regulars
      <4>4. Enqueue(b, r) = Displace(b, Min(Regulars(q)), r)
        BY <1>4, <3>1 DEF Enqueue, Overflow
      <4>5. QED
        BY <4>3, <4>4
    <3>2. CASE Regulars(q) = {} /\ r.class # "regular"
      BY <1>1, <1>4, <3>2, LocalCaptureAssumption DEF Enqueue, Overflow
    <3>3. CASE Regulars(q) = {} /\ r.class = "regular"
      BY <1>1, <1>4, <3>3 DEF Enqueue, Overflow, Buffer
    <3>4. QED
      BY <3>1, <3>2, <3>3
  <2>2. QED
    BY <1>1, <2>1, DisplaceArrival
<1>5. QED
  BY <1>2, <1>3, <1>4

\* What a full queue gave up is never forgotten.
LEMMA EnqueueDrops ==
    ASSUME NEW t, NEW b, Holds(b, t), NEW r \in Observation
    PROVE  /\ b.dropped \subseteq Enqueue(b, r).dropped
           /\ HeadGivesWay(b, r) => b.queue[1] \in Enqueue(b, r).dropped
<1>1. b \in Buffer
  BY DEF Holds
<1>2. ASSUME NEW i
      PROVE  Displace(b, i, r).dropped = b.dropped \cup {b.queue[i]}
  BY DEF Displace
<1>3. b.dropped \subseteq Enqueue(b, r).dropped
  <2>1. Accept(b, r).dropped = b.dropped
    BY <1>1 DEF Accept, Buffer
  <2>2. [b EXCEPT !.gaps = NoteDrop(@, r), !.dropped = @ \cup {r}].dropped
            = b.dropped \cup {r}
    BY <1>1 DEF Buffer
  <2>3. b.dropped \subseteq Overflow(b, r).dropped
    BY <1>2, <2>2, Zenon DEF Overflow
  <2>4. QED
    BY <2>1, <2>3 DEF Enqueue
<1>4. ASSUME HeadGivesWay(b, r)
      PROVE  b.queue[1] \in Enqueue(b, r).dropped
  <2>1. Enqueue(b, r) = Displace(b, 1, r)
    BY <1>4, LocalCaptureAssumption DEF HeadGivesWay, Enqueue, Overflow
  <2>2. QED
    BY <1>2, <2>1
<1>5. QED
  BY <1>3, <1>4

LEMMA DroppedGrows ==
    ASSUME Base, Policy, [Next]_vars
    PROVE  buf.dropped \subseteq buf'.dropped
<1> USE DEF clockVars, intakeVars, policyVars, writerVars, stopVars, archiveVars, memoryVars
<1>h. Holds(buf, run) /\ buf \in Buffer
  BY BufferHolds DEF Holds
<1>1. CASE Observe
  <2>1. PICK r \in Observation :
              \/ buf' = buf
              \/ buf' = Enqueue(buf, r)
              \/ \E p \in pending : buf' = Enqueue(Enqueue(buf, p.obs), r)
    BY <1>1, ReceivedInto
  <2>2. ASSUME NEW p \in pending, buf' = Enqueue(Enqueue(buf, p.obs), r)
        PROVE  buf.dropped \subseteq buf'.dropped
    <3>1. p.obs \in Observation /\ p.obs.run = run
      BY PendingType
    <3>2. Holds(Enqueue(buf, p.obs), run)
      BY <1>h, <3>1, EnqueueHolds
    <3>3. QED
      BY <1>h, <2>2, <3>1, <3>2, EnqueueDrops
  <2>3. QED
    BY <1>h, <2>1, <2>2, EnqueueDrops
<1>2. CASE TimerFires \/ StopFlushes
  <2>1. PICK p \in pending : buf' = Enqueue(buf, p.obs)
    BY <1>2 DEF TimerFires, StopFlushes, Flush
  <2>2. p.obs \in Observation
    BY PendingType
  <2>3. QED
    BY <1>h, <2>1, <2>2, EnqueueDrops
<1>3. CASE WriterTakes \/ GapRecorded
  <2>1. \A q : [buf EXCEPT !.queue = q].dropped = buf.dropped
    BY <1>h DEF Buffer
  <2>2. [buf EXCEPT !.gaps = {}].dropped = buf.dropped
    BY <1>h DEF Buffer
  <2>3. CASE TakeBatch(buf)
    BY <2>1, <2>3, Zenon DEF TakeBatch
  <2>4. CASE buf' = [buf EXCEPT !.gaps = {}] \/ UNCHANGED buf
    BY <2>2, <2>4
  <2>5. QED
    BY <1>3, <2>3, <2>4 DEF WriterTakes, GapRecorded
<1>4. CASE WriterIdle \/ StopFlushed
  BY <1>h, <1>4 DEF WriterIdle, StopFlushed, Buffer
<1>5. CASE Unloaded \/ Crash
  BY <1>5 DEF Unloaded, Crash, ForgetMemory
<1>6. CASE Start \/ WriterWakes \/ BatchCommitted \/ WriterFails \/ Archive \/ Tick
             \/ UNCHANGED recordVars
  BY <1>6 DEF Start, Open, CreateSupervisor, ArchiveUnavailable, Started, StartFails,
              WriterWakes, BatchCommitted, WriterFails, Archive, Execute, RollBack, Tick,
              recordVars
<1>7. CASE StopBegins \/ StopDrained \/ StopTimesOut \/ StopFinishes \/ StopDuringStart
  BY <1>7 DEF StopBegins, StopDrained, StopTimesOut, StopFinishes, StopDuringStart
<1>8. QED
  BY <1>1, <1>2, <1>3, <1>4, <1>5, <1>6, <1>7
     DEF Next, NormalizationFails, vars, Write, Stop

\* A record that comes into a queue of older ones keeps the order and makes room
\* only for itself.
LEMMA ReceivedInOrder ==
    ASSUME NEW b, Holds(b, run), Arrival(b.queue), ~stopping, ~failed,
           NEW r \in Observation, r.run = run,
           \A x : Queued(b.queue, x) => x \in admitted /\ x.at <= r.at,
           buf' = Enqueue(b, r)
    PROVE  /\ Arrival(buf'.queue)
           /\ r.class # "regular" => Queued(buf'.queue, r)
           /\ \A x : Queued(b.queue, x) /\ x.class # "regular" =>
                 Queued(buf'.queue, x) \/ x \in buf'.dropped
<1>1. \A i \in DOMAIN b.queue : b.queue[i].at <= r.at
  BY DEF Queued
<1>2. Arrival(buf'.queue)
  BY <1>1, EnqueueArrival
<1>3. r.class # "regular" => Queued(buf'.queue, r)
  BY EnqueueAdds
<1>4. ASSUME NEW x, Queued(b.queue, x), x.class # "regular", ~Queued(buf'.queue, x)
      PROVE  x \in buf'.dropped
  <2>1. HeadGivesWay(b, r) /\ x = b.queue[1]
    BY <1>4, EnqueueSpares
  <2>2. QED
    BY <2>1, EnqueueDrops
<1>5. QED
  BY <1>2, <1>3, <1>4

\* What an observation does to the queue and to what was in it.
LEMMA ObservationArrives ==
    ASSUME Base, Draining, Succession, Policy, Chronology, Arrival(buf.queue), Observe
    PROVE  /\ Arrival(buf'.queue)
           /\ \A x : Queued(buf.queue, x) /\ x.class # "regular" =>
                 Queued(buf'.queue, x) \/ x \in buf'.dropped
           /\ \E r \in Observation :
                 /\ Receives /\ Admit(r) /\ UNCHANGED now
                 /\ r.run = run /\ r.at = now
                 /\ r.class # "regular" => Queued(buf'.queue, r)
<1>1. PICK r \in Observation :
              /\ Receives /\ Admit(r)
              /\ r.run = run /\ r.at = now /\ r.ord = ordinal /\ UNCHANGED now
              /\ \/ buf' = buf /\ r.class = "regular"
                 \/ buf' = Enqueue(buf, r)
                 \/ \E p \in pending : buf' = Enqueue(Enqueue(buf, p.obs), r)
  BY ReceivedInto
<1>2. ~stopping /\ ~failed /\ Live
  BY <1>1 DEF Receives, Live, Base, Control
<1>4. \A x : Queued(buf.queue, x) => x \in admitted /\ x.at <= r.at
  BY <1>1, <1>2 DEF Succession, Chronology, Policy, Queued, Base, Ownership
<1>5. Holds(buf, run)
  BY BufferHolds
<1>6. CASE buf' = buf /\ r.class = "regular"
  BY <1>1, <1>6
<1>7. CASE buf' = Enqueue(buf, r)
  BY <1>1, <1>2, <1>4, <1>5, <1>7, ReceivedInOrder
<1>8. CASE \E p \in pending : buf' = Enqueue(Enqueue(buf, p.obs), r)
  <2>1. PICK p \in pending : buf' = Enqueue(Enqueue(buf, p.obs), r)
    BY <1>8
  <2> DEFINE b == Enqueue(buf, p.obs)
  <2>2. /\ p.obs \in Observation /\ p.obs.run = run /\ p.obs.class = "regular"
        /\ p.obs \in admitted /\ p.obs.at <= r.at
    BY <1>1, PendingType DEF Policy
  <2>3. /\ Holds(b, run)
        /\ \A x : Queued(buf.queue, x) /\ x.class # "regular" => Queued(b.queue, x)
    BY <1>2, PendingSpares
  <2>4. Arrival(b.queue)
    BY <1>5, <2>2, EnqueueArrival
  <2>5. \A x : Queued(b.queue, x) => x \in admitted /\ x.at <= r.at
    BY <1>4, <1>5, <2>2, EnqueueFrom
  <2> HIDE DEF b
  <2>6. buf' = Enqueue(b, r)
    BY <2>1 DEF b
  <2>7. /\ Arrival(buf'.queue)
        /\ r.class # "regular" => Queued(buf'.queue, r)
        /\ \A x : Queued(b.queue, x) /\ x.class # "regular" =>
              Queued(buf'.queue, x) \/ x \in buf'.dropped
    BY <1>1, <1>2, <2>3, <2>4, <2>5, <2>6, ReceivedInOrder
  <2>8. QED
    BY <1>1, <2>3, <2>7
<1>9. QED
  BY <1>1, <1>6, <1>7, <1>8

\* A batch is the older part of the queue.
LEMMA TakeBatchInOrder ==
    ASSUME Base, Arrival(buf.queue), TakeBatch(buf)
    PROVE  /\ Arrival(buf'.queue)
           /\ writer' = "commit" =>
                 \A o \in op'.rows : \A x :
                    Queued(buf'.queue, x) /\ x.class # "regular" => o.at <= x.at
<1> DEFINE q == buf.queue
           n == Min({WriteBatchSize, Len(buf.queue)})
           head == SubSeq(buf.queue, 1, n)
           tail == SubSeq(buf.queue, n + 1, Len(buf.queue))
<1>1. /\ q \in Seq(Observation) /\ Len(q) \in Nat /\ DOMAIN q = 1..Len(q)
      /\ \A j \in 1..Len(q) : q[j] \in Observation
      /\ n \in 0..Len(q) /\ buf \in Buffer
  BY BatchSize, BufferHolds, LenProperties, ElementOfSeq DEF Holds, Buffer
<1>2. /\ buf' = [buf EXCEPT !.queue = tail]
      /\ \/ n = 0 /\ writer' = "run"
         \/ writer' = "commit" /\ op' = Command("commit", ToSet(head), {})
  BY Zenon DEF TakeBatch
<1> HIDE DEF n
<1>3. /\ head \in Seq(Observation) /\ Len(head) = n
      /\ \A j \in 1..n : head[j] = q[j]
  <2>1. \A j \in 1..n : q[j] \in Observation
    BY <1>1
  <2>2. QED
    BY <1>1, <2>1, SubSeqProperties
<1>4. /\ tail \in Seq(Observation) /\ Len(tail) = Len(q) - n
      /\ \A j \in 1..(Len(q) - n) : tail[j] = q[n + j]
  <2>1. \A j \in (n + 1)..Len(q) : q[j] \in Observation
    BY <1>1
  <2>2. QED
    BY <1>1, <2>1, SubSeqProperties
<1>5. DOMAIN head = 1..n /\ DOMAIN tail = 1..(Len(q) - n)
  BY <1>3, <1>4, LenProperties
<1>6. ToSet(head) = {q[j] : j \in 1..n}
  BY <1>3, <1>5 DEF ToSet
<1> HIDE DEF head, tail, q
<1>7. buf'.queue = tail
  BY <1>1, <1>2 DEF Buffer
<1>8. Arrival(tail)
  <2>1. SUFFICES ASSUME NEW i \in 1..(Len(q) - n), NEW j \in 1..(Len(q) - n), i < j,
                        tail[j].class # "regular"
                 PROVE  tail[i].at <= tail[j].at
    BY <1>5 DEF Arrival
  <2>2. n + i \in DOMAIN q /\ n + j \in DOMAIN q /\ n + i < n + j
    BY <1>1, <2>1
  <2>3. QED
    BY <1>4, <2>1, <2>2 DEF Arrival, q
<1>9. ASSUME NEW o \in ToSet(head), NEW x, Queued(tail, x), x.class # "regular"
      PROVE  o.at <= x.at
  <2>1. PICK i \in 1..n : o = q[i]
    BY <1>6, <1>9
  <2>2. PICK j \in 1..(Len(q) - n) : x = tail[j]
    BY <1>5, <1>9 DEF Queued
  <2>3. i \in DOMAIN q /\ n + j \in DOMAIN q /\ i < n + j
    BY <1>1, <2>1, <2>2
  <2>4. QED
    BY <1>4, <1>9, <2>1, <2>2, <2>3 DEF Arrival, q
<1>10. writer' = "commit" => op'.rows = ToSet(head)
  BY <1>2 DEF Command
<1>11. QED
  BY <1>7, <1>8, <1>9, <1>10

\* What is missing was missing before.
LEMMA MissingBefore ==
    ASSUME Base, Policy, [Next]_vars, NEW r, Missing(r)'
    PROVE  Missing(r)
BY ArchiveGrows, DroppedGrows DEF Missing, Evident

-----------------------------------------------------------------------------
(* ... is an invariant *)

LEMMA ProvenanceNext ==
    ASSUME Base, Succession, Policy, Provenance, [Next]_vars
    PROVE  Provenance'
<1> USE DEF clockVars, intakeVars, policyVars, writerVars, stopVars, archiveVars, memoryVars
<1>1. CASE Observe
  <2>1. PICK r \in Observation : Admit(r)
    BY <1>1, ReceivedInto
  <2>2. QED
    BY <2>1, FS_AddElement DEF Admit, Provenance
<1>2. CASE Execute
  <2>1. archived' \subseteq archived \cup op.rows /\ op'.rows = op.rows /\ UNCHANGED admitted
    BY <1>2 DEF Execute, RecoverEffect, BeginEffect, GapEffect, CommitEffect, FinishEffect,
                Base, TypeOK, Operation
  <2>2. QED
    BY <2>1 DEF Provenance
<1>3. CASE RollBack
  BY <1>3 DEF RollBack, Base, TypeOK, Operation, Provenance
<1>4. CASE WriterTakes \/ GapRecorded
  <2>1. UNCHANGED <<archived, admitted>>
    BY <1>4 DEF WriterTakes, GapRecorded
  <2>2. op'.rows \subseteq admitted
    <3>1. ASSUME NEW gaps, RecordGap(gaps)
          PROVE  op'.rows = {}
      BY <3>1 DEF RecordGap, Command
    <3>2. CASE TakeBatch(buf)
      <4>1. CASE writer' = "commit"
        BY <3>2, <4>1, TakeBatchRows DEF Queued, Succession
      <4>2. CASE writer' # "commit"
        <5>1. op' = NoOp
          BY <3>2, <4>2, Zenon DEF TakeBatch
        <5>2. QED
          BY <5>1 DEF NoOp
      <4>3. QED
        BY <4>1, <4>2
    <3>3. QED
      BY <1>4, <3>1, <3>2 DEF WriterTakes, GapRecorded
  <2>3. QED
    BY <2>1, <2>2 DEF Provenance
<1>5. CASE Start \/ WriterIdle \/ WriterWakes \/ BatchCommitted \/ WriterFails
             \/ TimerFires \/ Tick \/ Crash \/ UNCHANGED recordVars
  BY <1>5 DEF Start, Open, CreateSupervisor, ArchiveUnavailable, Started, StartFails,
              WriterIdle, WriterWakes, BatchCommitted, WriterFails, TimerFires, Tick, Crash,
              ForgetMemory, Command, NoOp, recordVars, Provenance
<1>6. CASE Stop
  BY <1>6 DEF Stop, StopBegins, StopFlushes, StopFlushed, StopDrained, StopTimesOut,
              StopFinishes, StopDuringStart, Unloaded, ForgetMemory, Command, NoOp, Provenance
<1>7. QED
  BY <1>1, <1>2, <1>3, <1>4, <1>5, <1>6 DEF Next, NormalizationFails, vars, Write, Archive

LEMMA ChronologyNext ==
    ASSUME ~ClockStepsBack, Base, Draining, Policy, Custody, Chronology, [Next]_vars
    PROVE  Chronology'
<1> USE DEF clockVars, intakeVars, policyVars, writerVars, stopVars, archiveVars, memoryVars
<1>t. /\ now \in Nat /\ op.at \in Nat /\ \A t \in Runs : startedAt[t] \in Nat
      /\ \A r \in admitted : r.at \in Nat /\ r.run \in Runs
  BY TimesFacts DEF Base, TypeOK, Operation, Observation
<1>1. CASE Observe
  <2>1. PICK r \in Observation : Receives /\ Admit(r) /\ r.run = run /\ r.at = now /\ UNCHANGED now
    BY <1>1, ReceivedInto
  <2>2. runStatus[run] = "running" /\ op.kind # "recover" /\ run \in Runs
    BY <2>1 DEF Receives, Draining, Base, Control
  <2>3. QED
    BY <1>t, <2>1, <2>2 DEF Admit, Chronology
<1>2. CASE Execute
  <2>1. op'.kind = op.kind /\ op'.at = op.at /\ UNCHANGED <<now, admitted>>
    BY <1>2 DEF Execute, Base, TypeOK, Operation
  <2>2. CASE BeginEffect
    <3>1. runStatus[run] = "none" /\ run \in Runs
      BY <1>2, <2>2 DEF Execute, BeginEffect, Custody
    <3>2. \A r \in admitted : r.run # run
      BY <3>1 DEF Chronology
    <3>3. \A r \in admitted : runStatus'[r.run] = runStatus[r.run]
                              /\ startedAt'[r.run] = startedAt[r.run]
      BY <2>2, <3>2 DEF BeginEffect, Base, TypeOK, Observation
    <3>4. \A t \in Runs : startedAt'[t] <= now
      BY <1>t, <2>2 DEF BeginEffect, Base, TypeOK, Chronology
    <3>5. op'.kind # "recover"
      BY <2>1, <2>2 DEF BeginEffect
    <3>6. QED
      BY <2>1, <3>3, <3>4, <3>5 DEF Chronology
  <2>3. CASE RecoverEffect \/ GapEffect \/ CommitEffect \/ FinishEffect
    <3>1. UNCHANGED startedAt /\ \A t \in Runs : runStatus[t] # "none" => runStatus'[t] # "none"
      BY <2>3 DEF RecoverEffect, GapEffect, CommitEffect, FinishEffect, Base, TypeOK
    <3>2. QED
      BY <1>t, <2>1, <3>1 DEF Chronology
  <2>4. QED
    BY <1>2, <2>2, <2>3 DEF Execute
<1>3. CASE RollBack
  BY <1>3 DEF RollBack, Base, TypeOK, Operation, Chronology
<1>4. CASE Open \/ CreateSupervisor \/ StopDrained
  BY <1>t, <1>4 DEF Open, CreateSupervisor, StopDrained, Command, Chronology
<1>5. CASE Unloaded \/ Crash
  BY <1>t, <1>5 DEF Unloaded, Crash, ForgetMemory, NoOp, Chronology
<1>6. CASE Tick
  BY <1>t, <1>6 DEF Tick, Chronology
<1>7. CASE WriterTakes \/ GapRecorded
  <2>1. UNCHANGED <<now, admitted, runStatus, startedAt>>
    BY <1>7 DEF WriterTakes, GapRecorded
  <2>2. op'.kind # "recover" /\ op'.at <= now
    <3>1. ASSUME NEW gaps, RecordGap(gaps)
          PROVE  op'.kind = "gap" /\ op'.at = now
      BY <3>1 DEF RecordGap, Command
    <3>2. CASE TakeBatch(buf)
      <4>1. op' = NoOp \/ \E rows : op' = Command("commit", rows, {})
        BY <3>2, Zenon DEF TakeBatch
      <4>2. QED
        BY <1>t, <4>1 DEF NoOp, Command
    <3>3. QED
      BY <1>t, <1>7, <3>1, <3>2 DEF WriterTakes, GapRecorded
  <2>3. QED
    BY <2>1, <2>2 DEF Chronology
<1>8. CASE Started \/ BatchCommitted \/ WriterFails
  BY <1>t, <1>8 DEF Started, BatchCommitted, WriterFails, NoOp, Chronology
<1>9. CASE ArchiveUnavailable \/ StartFails \/ TimerFires \/ WriterIdle \/ WriterWakes
             \/ StopBegins \/ StopFlushes \/ StopFlushed \/ StopTimesOut \/ StopFinishes
             \/ StopDuringStart \/ UNCHANGED recordVars
  <2>1. UNCHANGED <<now, op, admitted, runStatus, startedAt>>
    BY <1>9 DEF ArchiveUnavailable, StartFails, TimerFires, WriterIdle, WriterWakes,
                StopBegins, StopFlushes, StopFlushed, StopTimesOut, StopFinishes,
                StopDuringStart, recordVars
  <2>2. QED
    BY <2>1 DEF Chronology
<1>10. QED
  BY <1>1, <1>2, <1>3, <1>4, <1>5, <1>6, <1>7, <1>8, <1>9
     DEF Next, NormalizationFails, vars, Start, Write, Stop, Archive

\* The queue and the writer's part in it.
LEMMA OnTheWayNext ==
    ASSUME Base, Draining, Succession, Policy, Durable, Custody, Provenance, Chronology,
           Arrival(buf.queue), OnTheWay, Provenance', [Next]_vars
    PROVE  Arrival(buf.queue)' /\ OnTheWay'
<1> USE DEF clockVars, intakeVars, policyVars, writerVars, stopVars, archiveVars, memoryVars
<1> DEFINE Works == writer \in {"run", "wait", "gap", "commit"}
<1>m. \A r : Missing(r)' => Missing(r)
  BY MissingBefore
<1>e. Arrival(<< >>)
  BY DEF Arrival
<1>1. CASE Observe
  <2>1. /\ Arrival(buf'.queue)
        /\ \A x : Queued(buf.queue, x) /\ x.class # "regular" =>
              Queued(buf'.queue, x) \/ x \in buf'.dropped
    BY <1>1, ObservationArrives DEF Provenance
  <2>2. PICK r \in Observation :
              Receives /\ Admit(r) /\ (r.class # "regular" => Queued(buf'.queue, r))
    BY <1>1, ObservationArrives DEF Provenance
  <2>3. UNCHANGED <<writer, op, run>> /\ admitted' = admitted \cup {r}
    BY <2>2 DEF Admit
  <2>4. QED
    BY <1>m, <2>1, <2>2, <2>3 DEF OnTheWay, Missing, InFlightRows
<1>2. CASE TimerFires \/ StopFlushes
  <2>1. PICK p \in pending : buf' = Enqueue(buf, p.obs)
    BY <1>2 DEF TimerFires, StopFlushes, Flush
  <2>2. p.obs \in Observation /\ p.obs.class = "regular"
    BY PendingType DEF Policy
  <2>3. Arrival(buf'.queue)
    BY <2>1, <2>2, BufferHolds, EnqueueArrival
  <2>4. \A x : Queued(buf.queue, x) /\ x.class # "regular" => Queued(buf'.queue, x)
    BY <2>1, <2>2, BufferHolds, EnqueueSpares DEF HeadGivesWay
  <2>5. UNCHANGED <<writer, op, run, admitted>>
    BY <1>2 DEF TimerFires, StopFlushes
  <2>6. QED
    BY <1>m, <2>3, <2>4, <2>5 DEF OnTheWay, Missing, InFlightRows
<1>3. CASE WriterTakes \/ GapRecorded
  <2>1. UNCHANGED <<run, admitted>> /\ writer \in {"run", "gap"}
    BY <1>3 DEF WriterTakes, GapRecorded
  <2>2. \A r \in admitted : r.run = run /\ Missing(r) => Queued(buf.queue, r)
    BY <2>1 DEF OnTheWay, InFlightRows
  <2>3. CASE TakeBatch(buf)
    BY <1>m, <2>1, <2>2, <2>3, TakeBatchInOrder, TakeBatchKeeps DEF OnTheWay, InFlightRows
  <2>4. CASE buf'.queue = buf.queue
    BY <1>m, <2>1, <2>2, <2>4 DEF OnTheWay
  <2>5. QED
    BY <1>3, <2>3, <2>4 DEF WriterTakes, GapRecorded, Base, TypeOK, Buffer
<1>4. CASE BatchCommitted
  <2>1. UNCHANGED <<run, admitted, buf>> /\ writer = "commit" /\ writer' = "run"
    BY <1>4 DEF BatchCommitted
  <2>2. \A r : r \in InFlightRows => Evident(r)
    BY <1>4 DEF BatchCommitted, Durable, Base, Control, InFlightRows, Evident
  <2>3. QED
    BY <1>m, <2>1, <2>2 DEF OnTheWay, Missing
<1>5. CASE Started
  <2>1. \A r \in admitted : r.run # run
    BY <1>5 DEF Started, Succession
  <2>2. QED
    BY <1>5, <2>1 DEF Started, OnTheWay
<1>6. CASE buf'.queue = buf.queue /\ ~Works'
  BY <1>6 DEF OnTheWay
<1>7. CASE WriterFails \/ StopTimesOut \/ (WriterIdle /\ writer' = "done")
  BY <1>6, <1>7 DEF WriterFails, StopTimesOut, WriterIdle
<1>8. CASE Unloaded \/ Crash
  BY <1>8, <1>e DEF Unloaded, Crash, ForgetMemory, OnTheWay
<1>9. CASE Open \/ CreateSupervisor \/ ArchiveUnavailable \/ StartFails
  BY <1>6, <1>9 DEF Open, CreateSupervisor, ArchiveUnavailable, StartFails, Base, Idle
<1>10. CASE /\ buf'.queue = buf.queue /\ UNCHANGED <<run, admitted>>
            /\ InFlightRows' = InFlightRows /\ (Works' => Works)
  BY <1>m, <1>10 DEF OnTheWay
<1>11. CASE Execute \/ RollBack
  <2>1. op'.rows = op.rows /\ UNCHANGED <<buf, run, admitted, writer>>
    BY <1>11 DEF Execute, RollBack, Base, TypeOK, Operation
  <2>2. QED
    BY <1>10, <2>1 DEF InFlightRows
<1>12. CASE WriterIdle \/ WriterWakes
  <2>1. writer \in {"run", "wait"} /\ writer' \in {"done", "run", "wait"}
    BY <1>12 DEF WriterIdle, WriterWakes
  <2>2. buf'.queue = buf.queue /\ UNCHANGED <<run, admitted, op>>
    BY <1>12 DEF WriterIdle, WriterWakes, Base, TypeOK, Buffer
  <2>3. QED
    BY <1>10, <2>1, <2>2 DEF InFlightRows
<1>13. CASE StopDrained
  BY <1>6, <1>13 DEF StopDrained
<1>14. CASE StopBegins \/ StopFlushed \/ StopFinishes \/ StopDuringStart \/ Tick
              \/ UNCHANGED recordVars
  <2>1. buf'.queue = buf.queue /\ UNCHANGED <<run, admitted, writer, op>>
    BY <1>14 DEF StopBegins, StopFlushed, StopFinishes, StopDuringStart, Tick, recordVars,
                 Base, TypeOK, Buffer
  <2>2. QED
    BY <1>10, <2>1 DEF InFlightRows
<1>15. QED
  BY <1>1, <1>2, <1>3, <1>4, <1>5, <1>7, <1>8, <1>9, <1>11, <1>12, <1>13, <1>14
     DEF Next, NormalizationFails, vars, Start, Write, Stop, Archive

LEMMA BatchFirstNext ==
    ASSUME Base, Draining, Succession, Policy, Provenance, Chronology, Arrival(buf.queue),
           OnTheWay, BatchFirst, Provenance', [Next]_vars
    PROVE  BatchFirst'
<1> USE DEF clockVars, intakeVars, policyVars, writerVars, stopVars, archiveVars, memoryVars
<1>m. \A r : Missing(r)' => Missing(r)
  BY MissingBefore
<1>1. CASE Observe
  <2>1. PICK r \in Observation : Receives /\ Admit(r) /\ r.run = run /\ r.at = now
    BY <1>1, ReceivedInto
  <2>2. \A o \in op.rows : o.at <= r.at
    BY <2>1 DEF Provenance, Chronology
  <2>3. UNCHANGED op /\ admitted' = admitted \cup {r}
    BY <2>1 DEF Admit
  <2>4. QED
    BY <1>m, <2>2, <2>3 DEF BatchFirst
<1>2. CASE WriterTakes \/ GapRecorded
  <2>1. UNCHANGED <<run, admitted>> /\ writer \in {"run", "gap"}
    BY <1>2 DEF WriterTakes, GapRecorded
  <2>2. ASSUME NEW gaps, RecordGap(gaps)
        PROVE  op'.kind = "gap"
    BY <2>2 DEF RecordGap, Command
  <2>3. CASE TakeBatch(buf)
    <3>1. SUFFICES ASSUME op'.kind = "commit",
                          NEW o \in op'.rows, NEW r \in admitted', r.run = o.run, Missing(r)',
                          r \notin op'.rows
                   PROVE  o.at <= r.at
      BY DEF BatchFirst
    <3>2. writer' = "commit"
      BY <2>3, <3>1, TakeBatchType
    <3>3. o.run = run
      BY <2>3, <3>2, TakeBatchRows
    <3>4. Queued(buf.queue, r)
      BY <1>m, <2>1, <3>1, <3>3 DEF OnTheWay, InFlightRows
    <3>5. Queued(buf'.queue, r)
      BY <2>3, <3>1, <3>4, TakeBatchKeeps
    <3>6. r.class # "regular"
      BY <1>m, <3>1 DEF Missing
    <3>7. QED
      BY <2>3, <3>2, <3>5, <3>6, TakeBatchInOrder
  <2>4. QED
    BY <1>2, <2>2, <2>3 DEF WriterTakes, GapRecorded, BatchFirst
<1>3. CASE Execute \/ RollBack
  <2>1. op'.state # "queued"
    BY <1>3 DEF Execute, RollBack, Base, TypeOK, Operation
  <2>2. QED
    BY <2>1 DEF BatchFirst
<1>4. CASE op' = op \/ op'.kind # "commit"
  <2>1. admitted' = admitted \/ Observe
    BY AdmittedGrows
  <2>2. QED
    BY <1>1, <1>m, <1>4, <2>1 DEF BatchFirst
<1>5. CASE Start \/ WriterIdle \/ WriterWakes \/ BatchCommitted \/ WriterFails
             \/ TimerFires \/ Tick \/ Crash \/ UNCHANGED recordVars
  BY <1>4, <1>5 DEF Start, Open, CreateSupervisor, ArchiveUnavailable, Started, StartFails,
              WriterIdle, WriterWakes, BatchCommitted, WriterFails, TimerFires, Tick, Crash,
              ForgetMemory, Command, NoOp, recordVars
<1>6. CASE Stop
  BY <1>4, <1>6 DEF Stop, StopBegins, StopFlushes, StopFlushed, StopDrained, StopTimesOut,
              StopFinishes, StopDuringStart, Unloaded, ForgetMemory, Command, NoOp
<1>7. QED
  BY <1>1, <1>2, <1>3, <1>5, <1>6 DEF Next, NormalizationFails, vars, Write, Archive

LEMMA ArchivedFirstNext ==
    ASSUME Base, Policy, Provenance, Chronology, BatchFirst, ArchivedFirst,
           Provenance', [Next]_vars
    PROVE  ArchivedFirst'
<1> USE DEF clockVars, intakeVars, policyVars, writerVars, stopVars, archiveVars, memoryVars
<1>m. \A r : Missing(r)' => Missing(r)
  BY MissingBefore
<1>1. CASE Observe
  <2>1. PICK r \in Observation : Receives /\ Admit(r) /\ r.at = now
    BY <1>1, ReceivedInto
  <2>2. \A o \in archived : o.at <= r.at
    BY <2>1 DEF Provenance, Chronology
  <2>3. UNCHANGED archived /\ admitted' = admitted \cup {r}
    BY <2>1 DEF Admit
  <2>4. QED
    BY <1>m, <2>2, <2>3 DEF ArchivedFirst
<1>2. CASE UNCHANGED <<archived, admitted>>
  BY <1>m, <1>2 DEF ArchivedFirst
<1>3. CASE Execute
  <2>1. UNCHANGED admitted /\ op.state = "queued"
    BY <1>3 DEF Execute
  <2>2. CASE CommitEffect
    <3>1. op.kind = "commit" /\ archived' = archived \cup op.rows
      BY <2>2 DEF CommitEffect
    <3>2. \A r : Missing(r)' => r \notin op.rows
      BY <3>1 DEF Missing, Evident
    <3>3. QED
      BY <1>m, <2>1, <3>1, <3>2 DEF ArchivedFirst, BatchFirst
  <2>3. CASE RecoverEffect \/ BeginEffect \/ GapEffect \/ FinishEffect
    BY <1>2, <2>1, <2>3 DEF RecoverEffect, BeginEffect, GapEffect, FinishEffect
  <2>4. QED
    BY <1>3, <2>2, <2>3 DEF Execute
<1>4. CASE Start \/ Write \/ RollBack \/ TimerFires \/ Tick \/ Crash \/ UNCHANGED recordVars
  BY <1>2, <1>4 DEF Start, Open, CreateSupervisor, ArchiveUnavailable, Started, StartFails,
              Write, WriterIdle, WriterWakes, WriterTakes, GapRecorded, BatchCommitted,
              WriterFails, RollBack, TimerFires, Tick, Crash, ForgetMemory, recordVars
<1>5. CASE Stop
  BY <1>2, <1>5 DEF Stop, StopBegins, StopFlushes, StopFlushed, StopDrained, StopTimesOut,
              StopFinishes, StopDuringStart, Unloaded, ForgetMemory
<1>6. QED
  BY <1>1, <1>3, <1>4, <1>5 DEF Next, NormalizationFails, vars, Archive

\* Only recovery declares a run interrupted.
LEMMA InterruptedBefore ==
    ASSUME Base, [Next]_vars, ~(Execute /\ RecoverEffect),
           NEW t \in Runs, runStatus'[t] = "interrupted"
    PROVE  runStatus[t] = "interrupted" /\ lossWindows' = lossWindows
<1> USE DEF clockVars, intakeVars, policyVars, writerVars, stopVars, archiveVars, memoryVars
<1>1. CASE Execute
  BY <1>1 DEF Execute, BeginEffect, GapEffect, CommitEffect, FinishEffect, Base, TypeOK
<1>2. CASE UNCHANGED <<runStatus, lossWindows>>
  BY <1>2
<1>3. CASE Start \/ Observe \/ TimerFires \/ RollBack \/ Tick \/ Crash \/ UNCHANGED recordVars
  BY <1>2, <1>3 DEF Start, Open, CreateSupervisor, ArchiveUnavailable, Started, StartFails,
              Observe, ObserveTransition, ObserveRegular, ObservePrediction, Admit,
              TimerFires, RollBack, Tick, Crash, ForgetMemory, recordVars
<1>4. CASE Write \/ Stop
  BY <1>2, <1>4 DEF Write, WriterIdle, WriterWakes, WriterTakes, GapRecorded, BatchCommitted,
              WriterFails, Stop, StopBegins, StopFlushes, StopFlushed, StopDrained,
              StopTimesOut, StopFinishes, StopDuringStart, Unloaded, ForgetMemory
<1>5. QED
  BY <1>1, <1>3, <1>4 DEF Next, NormalizationFails, vars, Archive

\* The last evidence of a run is not newer than what is missing of it.
LEMMA EvidenceFirst ==
    ASSUME Base, Chronology, ArchivedFirst, NEW r \in admitted, Missing(r)
    PROVE  LastEvidence(r.run) <= r.at
<1> DEFINE times == {o.at : o \in {x \in archived : x.run = r.run}}
<1>1. times \in SUBSET Times
  BY DEF Base, TypeOK, Observation
<1>2. CASE times = {}
  BY <1>2 DEF LastEvidence, Chronology
<1>3. CASE times # {}
  <2>1. Max(times) \in times
    BY <1>1, <1>3, MaxIsMember, LocalCaptureAssumption DEF Times
  <2>2. \A m \in times : m <= r.at
    BY DEF ArchivedFirst
  <2>3. QED
    BY <1>3, <2>1, <2>2 DEF LastEvidence
<1>4. QED
  BY <1>2, <1>3

LEMMA LostTransitionsNext ==
    ASSUME Base, Draining, Policy, Provenance, Chronology, ArchivedFirst,
           LostTransitionsInWindow, Provenance', [Next]_vars
    PROVE  LostTransitionsInWindow'
<1> USE DEF clockVars, intakeVars, policyVars, writerVars, stopVars, archiveVars, memoryVars
<1>1. SUFFICES ASSUME NEW r \in admitted', runStatus'[r.run] = "interrupted", Missing(r)'
               PROVE  \E w \in lossWindows' : InWindow(r, w)
  BY DEF LostTransitionsInWindow, Missing, InWindow
<1>2. Missing(r) /\ r.run \in Runs
  BY <1>1, MissingBefore, BaseNext DEF Base, TypeOK, Observation
<1>3. CASE r \notin admitted
  <2>1. Observe
    BY <1>3, AdmittedGrows
  <2>2. PICK n \in Observation : Receives /\ Admit(n) /\ n.run = run
    BY <2>1, ReceivedInto
  <2>3. runStatus'[r.run] = "running"
    BY <1>3, <2>2 DEF Admit, Receives, Draining
  <2>4. QED
    BY <1>1, <2>3
<1>4. CASE r \in admitted /\ runStatus[r.run] = "interrupted"
  <2>1. \E w \in lossWindows : InWindow(r, w)
    BY <1>2, <1>4 DEF LostTransitionsInWindow, Missing
  <2>2. lossWindows \subseteq lossWindows'
    <3>1. CASE Execute /\ RecoverEffect
      BY <3>1 DEF RecoverEffect
    <3>2. QED
      BY <1>1, <1>2, <3>1, InterruptedBefore
  <2>3. QED
    BY <2>1, <2>2
<1>5. CASE r \in admitted /\ runStatus[r.run] # "interrupted"
  <2>1. Execute /\ RecoverEffect
    BY <1>1, <1>2, <1>5, InterruptedBefore
  <2>2. r.run \in Stale
    BY <1>1, <1>2, <1>5, <2>1 DEF RecoverEffect, Base, TypeOK
  <2> DEFINE w == [run |-> r.run, first |-> LastEvidence(r.run), last |-> op.at]
  <2>3. w \in lossWindows'
    BY <2>1, <2>2 DEF RecoverEffect
  <2>4. w.first <= r.at /\ r.at <= w.last
    BY <1>2, <1>5, <2>1, EvidenceFirst DEF RecoverEffect, Chronology
  <2>5. InWindow(r, w)
    BY <2>4 DEF InWindow
  <2>6. QED
    BY <2>3, <2>5
<1>6. QED
  BY <1>3, <1>4, <1>5

LEMMA WindowInit == Init => WindowInv
<1>1. Init => Provenance /\ BatchFirst
  BY FS_EmptySet DEF Init, NoOp, Provenance, BatchFirst
<1>2. Init => Chronology
  BY DEF Init, NoOp, Chronology
<1>3. Init => Arrival(buf.queue) /\ OnTheWay
  BY DEF Init, NoMemory, Arrival, OnTheWay
<1>4. Init => ArchivedFirst /\ LostTransitionsInWindow
  BY DEF Init, ArchivedFirst, LostTransitionsInWindow
<1>5. QED
  BY <1>1, <1>2, <1>3, <1>4, LedgerInvInit DEF WindowInv

LEMMA WindowNext ==
    ASSUME ~ClockStepsBack, WindowInv, [Next]_vars
    PROVE  WindowInv'
<1>1. /\ Base /\ Draining /\ Succession /\ Policy /\ Durable /\ Custody /\ Provenance
      /\ Chronology /\ Arrival(buf.queue) /\ OnTheWay /\ BatchFirst /\ ArchivedFirst
      /\ LostTransitionsInWindow
  BY DEF WindowInv, LedgerInv, CaptureInv
<1>2. LedgerInv'
  BY LedgerInvNext DEF WindowInv
<1>3. Provenance' /\ Chronology'
  BY <1>1, ProvenanceNext, ChronologyNext
<1>4. Arrival(buf.queue)' /\ OnTheWay'
  BY <1>1, <1>3, OnTheWayNext
<1>5. BatchFirst' /\ ArchivedFirst' /\ LostTransitionsInWindow'
  BY <1>1, <1>3, BatchFirstNext, ArchivedFirstNext, LostTransitionsNext
<1>6. QED
  BY <1>2, <1>3, <1>4, <1>5 DEF WindowInv

\* As long as the wall clock does not step back over a restart, the uncertain window
\* of every interrupted run contains what it lost of transitions and predictions,
\* except the very ones a full queue gave up (the queue of local_capture.py with
\* async_recover_interrupted_local_captures).
THEOREM LostInWindow ==
    ASSUME ~ClockStepsBack
    PROVE  Spec => []LostTransitionsInWindow
<1>1. Init => WindowInv
  BY WindowInit
<1>2. WindowInv /\ [Next]_vars => WindowInv'
  BY WindowNext
<1>3. WindowInv => LostTransitionsInWindow
  BY DEF WindowInv
<1>4. QED
  BY <1>1, <1>2, <1>3, PTL DEF Spec

\* As long as the wall clock does not step back, no recorded time refuses the
\* recovery of a stale run: the clock is the only cause of a rejected recovery.
THEOREM RecoverySucceeds ==
    ASSUME ~ClockStepsBack
    PROVE  Spec => []RecoveryNeverRejected
<1>1. Init => WindowInv /\ RecoveryNeverRejected
  BY WindowInit DEF Init, NoOp, RecoveryNeverRejected
<1>2. ASSUME WindowInv, RecoveryNeverRejected, [Next]_vars
      PROVE  RecoveryNeverRejected'
  <2> USE DEF clockVars, intakeVars, policyVars, writerVars, stopVars, archiveVars, memoryVars
  <2>1. Base /\ Chronology /\ Provenance
    BY <1>2 DEF WindowInv, LedgerInv, CaptureInv
  <2>2. CASE Execute
    BY <2>1, <2>2 DEF Execute, Base, TypeOK, Operation, RecoveryNeverRejected
  <2>3. CASE RollBack
    <3>1. ASSUME op.kind = "recover", NEW r \in Stale
          PROVE  LastEvidence(r) <= op.at
      <4> DEFINE times == {o.at : o \in {x \in archived : x.run = r}}
      <4>1. /\ r \in Runs /\ startedAt[r] <= op.at
            /\ times \in SUBSET Times /\ \A m \in times : m <= op.at
        BY <2>1, <3>1 DEF Stale, Base, TypeOK, Observation, Provenance, Chronology
      <4>2. CASE times = {}
        BY <4>1, <4>2 DEF LastEvidence
      <4>3. CASE times # {}
        <5>1. Max(times) \in times
          BY <4>1, <4>3, MaxIsMember, LocalCaptureAssumption DEF Times
        <5>2. QED
          BY <4>1, <4>3, <5>1 DEF LastEvidence
      <4>4. QED
        BY <4>2, <4>3
    <3>2. op.kind = "recover" => WindowsValid
      BY <3>1 DEF WindowsValid
    <3>3. QED
      BY <2>1, <2>3, <3>2 DEF RollBack, Base, TypeOK, Operation, RecoveryNeverRejected
  <2>4. CASE op' = op \/ op'.state \in {"idle", "queued"}
    BY <1>2, <2>4 DEF RecoveryNeverRejected
  <2>5. CASE WriterTakes \/ GapRecorded
    <3>1. ASSUME NEW gaps, RecordGap(gaps)
          PROVE  op'.state = "queued"
      BY <3>1 DEF RecordGap, Command
    <3>2. CASE TakeBatch(buf)
      <4>1. op' = NoOp \/ \E rows : op' = Command("commit", rows, {})
        BY <3>2, Zenon DEF TakeBatch
      <4>2. QED
        BY <2>4, <4>1 DEF NoOp, Command
    <3>3. QED
      BY <2>4, <2>5, <3>1, <3>2 DEF WriterTakes, GapRecorded
  <2>6. CASE Start \/ BatchCommitted \/ WriterFails \/ Crash
    <3>1. op' = op \/ op' = NoOp \/ \E kind : op' = Command(kind, {}, {})
      BY <2>6 DEF Start, Open, CreateSupervisor, ArchiveUnavailable, Started, StartFails,
                  BatchCommitted, WriterFails, Crash, ForgetMemory
    <3>2. QED
      BY <2>4, <3>1 DEF NoOp, Command
  <2>7. CASE Observe \/ WriterIdle \/ WriterWakes \/ TimerFires \/ Tick \/ UNCHANGED recordVars
    BY <2>4, <2>7 DEF Observe, ObserveTransition, ObserveRegular, ObservePrediction, Admit,
                WriterIdle, WriterWakes, TimerFires, Tick, recordVars
  <2>8. CASE Stop
    BY <2>4, <2>8 DEF Stop, StopBegins, StopFlushes, StopFlushed, StopDrained, StopTimesOut,
                StopFinishes, StopDuringStart, Unloaded, ForgetMemory, Command, NoOp
  <2>9. QED
    BY <1>2, <2>2, <2>3, <2>5, <2>6, <2>7, <2>8 DEF Next, NormalizationFails, vars, Write, Archive
<1>3. WindowInv /\ [Next]_vars => WindowInv'
  BY WindowNext
<1>4. QED
  BY <1>1, <1>2, <1>3, PTL DEF Spec

-----------------------------------------------------------------------------
(* Sums over gaps *)

\* A token for every drop that a gap counts: a sum is a number of tokens.
Tokens(G) == UNION {{g} \X (1..g.count) : g \in G}

\* The function that the definition of a sum chooses.
Sums(f, G) ==
    f = [s \in SUBSET G |-> IF s = {} THEN 0
            ELSE (CHOOSE x \in s : TRUE).count + f[s \ {CHOOSE x \in s : TRUE}]]

\* A gap has as many tokens as drops that it counts.
LEMMA TokensOfOne ==
    ASSUME NEW g \in Gap
    PROVE  /\ IsFiniteSet(Tokens({g})) /\ Cardinality(Tokens({g})) = g.count
           /\ g.count \in Nat
<1>1. g.count \in Nat
  BY DEF Gap
<1>2. Tokens({g}) = {g} \X (1..g.count)
  BY DEF Tokens
<1>3. IsFiniteSet({g}) /\ Cardinality({g}) = 1
  BY FS_Singleton
<1>4. IsFiniteSet(1..g.count) /\ Cardinality(1..g.count) = g.count
  BY <1>1, FS_Interval
<1>5. /\ IsFiniteSet({g} \X (1..g.count))
      /\ Cardinality({g} \X (1..g.count)) = 1 * g.count
  BY <1>3, <1>4, FS_Product
<1>6. 1 * g.count = g.count
  BY <1>1
<1>7. QED
  BY <1>1, <1>2, <1>5, <1>6, Zenon

\* Finitely many gaps have finitely many tokens.
LEMMA TokensAreFinite ==
    ASSUME NEW G \in SUBSET Gap, IsFiniteSet(G)
    PROVE  IsFiniteSet(Tokens(G))
<1> DEFINE parts == {{g} \X (1..g.count) : g \in G}
           f == [g \in G |-> {g} \X (1..g.count)]
<1>1. f \in Surjection(G, parts)
  BY DEF Surjection
<1>2. IsFiniteSet(parts)
  BY <1>1, FS_Surjection
<1>3. \A T \in parts : IsFiniteSet(T)
  <2>1. SUFFICES ASSUME NEW g \in G PROVE IsFiniteSet({g} \X (1..g.count))
    OBVIOUS
  <2>2. Tokens({g}) = {g} \X (1..g.count)
    BY DEF Tokens
  <2>3. QED
    BY <2>2, TokensOfOne
<1> HIDE DEF parts
<1>4. IsFiniteSet(UNION parts)
  BY <1>2, <1>3, FS_UNION
<1>5. QED
  BY <1>4 DEF Tokens, parts

\* The tokens of disjoint sets of gaps add up.
LEMMA TokensAdd ==
    ASSUME NEW G \in SUBSET Gap, NEW H \in SUBSET Gap, IsFiniteSet(G), IsFiniteSet(H),
           G \cap H = {}
    PROVE  Cardinality(Tokens(G \cup H)) = Cardinality(Tokens(G)) + Cardinality(Tokens(H))
<1>1. IsFiniteSet(Tokens(G)) /\ IsFiniteSet(Tokens(H))
  BY TokensAreFinite
<1>2. Tokens(G \cup H) = Tokens(G) \cup Tokens(H)
  BY DEF Tokens
<1>3. Tokens(G) \cap Tokens(H) = {}
  BY DEF Tokens
<1>4. Cardinality(Tokens(G)) \in Nat /\ Cardinality(Tokens(H)) \in Nat
  BY <1>1, FS_CardinalityType
<1> DEFINE T == Tokens(G)
           U == Tokens(H)
<1>5. Cardinality(T \cap U) = 0
  BY <1>3, FS_EmptySet, Zenon
<1> HIDE DEF T, U
<1>6. Cardinality(T \cup U) = Cardinality(T) + Cardinality(U)
  <2>1. Cardinality(T \cup U) = Cardinality(T) + Cardinality(U) - Cardinality(T \cap U)
    BY <1>1, FS_Union DEF T, U
  <2>2. Cardinality(T) \in Nat /\ Cardinality(U) \in Nat
    BY <1>4 DEF T, U
  <2>3. QED
    BY <1>5, <2>1, <2>2
<1>7. QED
  BY <1>2, <1>6 DEF T, U

\* A sum takes the counts of a set away one by one.
LEMMA SumsAreTokens ==
    ASSUME NEW G \in SUBSET Gap, IsFiniteSet(G)
    PROVE  Sums([s \in SUBSET G |-> Cardinality(Tokens(s))], G)
<1> DEFINE h == [s \in SUBSET G |-> Cardinality(Tokens(s))]
<1>1. ASSUME NEW s \in SUBSET G, s # {}
      PROVE  h[s] = (CHOOSE x \in s : TRUE).count + h[s \ {CHOOSE x \in s : TRUE}]
  <2> DEFINE x == CHOOSE y \in s : TRUE
             t == s \ {x}
  <2>1. x \in s
    BY <1>1
  <2> HIDE DEF x
  <2>2. x \in Gap /\ {x} \in SUBSET Gap /\ t \in SUBSET Gap /\ t \in SUBSET G
    BY <2>1
  <2>3. IsFiniteSet(t) /\ IsFiniteSet({x})
    BY <2>2, FS_Subset, FS_Singleton
  <2>4. t \cup {x} = s /\ t \cap {x} = {}
    BY <2>1
  <2> HIDE DEF t
  <2>5. Cardinality(Tokens(s)) = Cardinality(Tokens(t)) + Cardinality(Tokens({x}))
    BY <2>2, <2>3, <2>4, TokensAdd
  <2>6. Cardinality(Tokens({x})) = x.count /\ x.count \in Nat
    BY <2>2, TokensOfOne
  <2>7. Cardinality(Tokens(t)) \in Nat
    BY <2>2, <2>3, TokensAreFinite, FS_CardinalityType
  <2>8. h[s] = Cardinality(Tokens(s)) /\ h[t] = Cardinality(Tokens(t))
    BY <2>2
  <2> HIDE DEF h
  <2>9. h[s] = x.count + h[t]
    BY <2>5, <2>6, <2>7, <2>8
  <2>10. QED
    BY <2>9 DEF t, x
<1>2. h[{}] = 0
  <2>1. Tokens({}) = {}
    BY DEF Tokens
  <2>2. QED
    BY <2>1, FS_EmptySet
<1>3. \A s \in SUBSET G : h[s] = IF s = {} THEN 0
            ELSE (CHOOSE x \in s : TRUE).count + h[s \ {CHOOSE x \in s : TRUE}]
  <2> HIDE DEF h
  <2> QED
    BY <1>1, <1>2
<1>4. h = [s \in SUBSET G |-> h[s]]
  OBVIOUS
<1> HIDE DEF h
<1>5. h = [s \in SUBSET G |-> IF s = {} THEN 0
            ELSE (CHOOSE x \in s : TRUE).count + h[s \ {CHOOSE x \in s : TRUE}]]
  BY <1>3, <1>4
<1>6. Sums(h, G)
  BY <1>5 DEF Sums
<1>7. QED
  BY <1>6 DEF h

\* There is but one sum.
LEMMA SumsAgree ==
    ASSUME NEW G, IsFiniteSet(G), NEW f, NEW h, Sums(f, G), Sums(h, G)
    PROVE  f[G] = h[G]
<1> DEFINE bad == {s \in SUBSET G : f[s] # h[s]}
           sizes == {Cardinality(s) : s \in bad}
<1>1. SUFFICES ASSUME bad # {} PROVE FALSE
  OBVIOUS
<1>2. \A s \in SUBSET G : IsFiniteSet(s) /\ Cardinality(s) \in Nat
  BY FS_Subset, FS_CardinalityType
<1>3. sizes \in SUBSET Nat /\ sizes # {}
  BY <1>1, <1>2
<1>4. Min(sizes) \in sizes /\ \A n \in sizes : Min(sizes) <= n
  BY <1>3, MinIsMember
<1>5. PICK s \in bad : Cardinality(s) = Min(sizes)
  BY <1>4
<1> DEFINE x == CHOOSE y \in s : TRUE
<1>6. CASE s = {}
  BY <1>5, <1>6 DEF Sums
<1>7. CASE s # {}
  <2>1. x \in s
    BY <1>7
  <2> HIDE DEF x
  <2>2. s \ {x} \in SUBSET G /\ Cardinality(s \ {x}) = Cardinality(s) - 1 /\ Cardinality(s) \in Nat
    BY <1>2, <2>1, FS_RemoveElement
  <2>3. Cardinality(s \ {x}) \notin sizes
    BY <1>2, <1>4, <1>5, <2>2
  <2>4. f[s \ {x}] = h[s \ {x}]
    BY <2>2, <2>3
  <2>5. f[s] = x.count + f[s \ {x}] /\ h[s] = x.count + h[s \ {x}]
    BY <1>7 DEF Sums, x
  <2>6. QED
    BY <1>5, <2>4, <2>5
<1>8. QED
  BY <1>6, <1>7

\* A sum of counts is a number of tokens.
LEMMA CountsAreTokens ==
    ASSUME NEW G \in SUBSET Gap, IsFiniteSet(G)
    PROVE  Counts(G) = Cardinality(Tokens(G)) /\ Counts(G) \in Nat
<1> DEFINE h == [s \in SUBSET G |-> Cardinality(Tokens(s))]
           iter == CHOOSE f : f = [s \in SUBSET G |-> IF s = {} THEN 0
              ELSE (CHOOSE x \in s : TRUE).count + f[s \ {CHOOSE x \in s : TRUE}]]
<1>1. Sums(h, G)
  BY SumsAreTokens
<1>2. Counts(G) = iter[G]
  BY Zenon DEF Counts, MapThenSumSet, MapThenFoldSet
<1>3. h[G] = Cardinality(Tokens(G))
  OBVIOUS
<1> HIDE DEF h
<1>4. Sums(iter, G)
  BY <1>1 DEF Sums
<1> HIDE DEF iter
<1>5. Counts(G) = Cardinality(Tokens(G))
  BY <1>1, <1>2, <1>3, <1>4, SumsAgree
<1>6. QED
  BY <1>5, TokensAreFinite, FS_CardinalityType

\* Counts of disjoint sets of gaps add up.
LEMMA CountsAdd ==
    ASSUME NEW G \in SUBSET Gap, NEW H \in SUBSET Gap, IsFiniteSet(G), IsFiniteSet(H),
           G \cap H = {}
    PROVE  Counts(G \cup H) = Counts(G) + Counts(H) /\ IsFiniteSet(G \cup H)
<1>1. IsFiniteSet(G \cup H) /\ G \cup H \in SUBSET Gap
  BY FS_Union
<1>2. QED
  BY <1>1, CountsAreTokens, TokensAdd

\* The sum over one gap is its count.
LEMMA CountsOfOne ==
    ASSUME NEW g \in Gap
    PROVE  Counts({g}) = g.count
BY FS_Singleton, CountsAreTokens, TokensOfOne

\* The sum over no gap is 0.
LEMMA CountsOfNone == Counts({}) = 0
<1>1. Tokens({}) = {}
  BY DEF Tokens
<1>2. QED
  BY <1>1, CountsAreTokens, FS_EmptySet

-----------------------------------------------------------------------------
(* What comes into the buffer is counted there once *)

Ords(q)   == {q[i].ord : i \in DOMAIN q}
Ids(gaps) == {g.id : g \in gaps}
Marks(b)  == Ords(b.queue) \cup Ids(b.gaps)
Load(b)   == Len(b.queue) + Counts(b.gaps)

\* one gap of each source and class
Separate(gaps) ==
    \A g, h \in gaps : g.source = h.source /\ g.scope = h.scope => g = h

\* no record is in the buffer twice, or both queued and the opening of a gap
Apart(b) ==
    /\ \A i, j \in DOMAIN b.queue : b.queue[i].ord = b.queue[j].ord => i = j
    /\ Ords(b.queue) \cap Ids(b.gaps) = {}
    /\ Separate(b.gaps) /\ IsFiniteSet(b.gaps)

\* A drop is counted once.
LEMMA NoteDropCounts ==
    ASSUME NEW gaps \in SUBSET Gap, IsFiniteSet(gaps), Separate(gaps),
           NEW r \in Observation, \A g \in gaps : g.run = r.run
    PROVE  /\ Separate(NoteDrop(gaps, r)) /\ IsFiniteSet(NoteDrop(gaps, r))
           /\ Counts(NoteDrop(gaps, r)) = Counts(gaps) + 1
           /\ Ids(NoteDrop(gaps, r)) \subseteq Ids(gaps) \cup {r.ord}
<1>1. NoteDrop(gaps, r) \in SUBSET Gap
  BY NoteDropCovers
<1>2. Counts(gaps) \in Nat
  BY CountsAreTokens
<1>3. CASE \E g \in gaps : SameGap(g, r)
  <2>1. PICK g \in gaps : SameGap(g, r)
    BY <1>3
  <2> DEFINE rest == gaps \ {g}
             w == Widen(g, r)
  <2>2. NoteDrop(gaps, r) = {IF SameGap(h, r) THEN Widen(h, r) ELSE h : h \in gaps}
    BY <1>3 DEF NoteDrop
  <2>3. \A h \in gaps : SameGap(h, r) => h = g
    BY <2>1 DEF SameGap, Separate
  <2>4. NoteDrop(gaps, r) = rest \cup {w}
    <3> HIDE DEF w
    <3>1. \A h \in rest : ~SameGap(h, r)
      BY <2>3
    <3> QED
      BY <2>1, <2>2, <3>1 DEF w
  <2>5. g \in Gap /\ g.count \in Nat
    BY DEF Gap
  <2>6. /\ w.source = g.source /\ w.scope = g.scope /\ w.id = g.id
        /\ w.count = g.count + 1
    BY <2>5 DEF Widen, Gap
  <2>7. w \in Gap
    BY <1>1, <2>4
  <2> HIDE DEF w
  <2>8. w \notin rest
    BY <2>6 DEF Separate
  <2>9. /\ IsFiniteSet(rest) /\ IsFiniteSet({w}) /\ IsFiniteSet({g})
        /\ rest \in SUBSET Gap /\ {w} \in SUBSET Gap /\ {g} \in SUBSET Gap
        /\ rest \cap {w} = {} /\ rest \cap {g} = {} /\ rest \cup {g} = gaps
    <3>1. IsFiniteSet(rest)
      BY FS_Subset
    <3>2. IsFiniteSet({w}) /\ IsFiniteSet({g})
      BY FS_Singleton
    <3>3. QED
      BY <2>5, <2>7, <2>8, <3>1, <3>2
  <2>10. Separate(rest \cup {w})
    BY <2>6 DEF Separate
  <2>11. Ids(rest \cup {w}) \subseteq Ids(gaps) \cup {r.ord}
    BY <2>6 DEF Ids
  <2> HIDE DEF rest
  <2>12. Counts(rest \cup {w}) = Counts(rest) + Counts({w}) /\ IsFiniteSet(rest \cup {w})
    BY <2>9, CountsAdd
  <2>13. Counts(gaps) = Counts(rest) + Counts({g})
    BY <2>9, CountsAdd
  <2>14. Counts({w}) = g.count + 1 /\ Counts({g}) = g.count /\ Counts(rest) \in Nat
    BY <2>5, <2>6, <2>7, <2>9, CountsOfOne, CountsAreTokens
  <2>15. Counts(rest \cup {w}) = Counts(gaps) + 1
    BY <2>5, <2>12, <2>13, <2>14
  <2>16. QED
    BY <2>4, <2>10, <2>11, <2>12, <2>15
<1>4. CASE ~\E g \in gaps : SameGap(g, r)
  <2> DEFINE w == NewGap(r)
  <2>1. NoteDrop(gaps, r) = gaps \cup {w}
    BY <1>4 DEF NoteDrop
  <2>2. w \in Gap
    BY <1>1, <2>1
  <2>3. w.source = r.key[1] /\ w.scope = r.class /\ w.count = 1 /\ w.id = r.ord
    BY DEF NewGap
  <2> HIDE DEF w
  <2>4. \A g \in gaps : ~(g.source = w.source /\ g.scope = w.scope)
    BY <1>4, <2>3 DEF SameGap
  <2>5. gaps \cap {w} = {} /\ IsFiniteSet({w}) /\ {w} \in SUBSET Gap
    BY <2>2, <2>4, FS_Singleton
  <2>6. Counts(gaps \cup {w}) = Counts(gaps) + Counts({w}) /\ IsFiniteSet(gaps \cup {w})
    BY <2>5, CountsAdd
  <2>7. Counts({w}) = 1
    BY <2>2, <2>3, CountsOfOne
  <2>8. Separate(gaps \cup {w})
    BY <2>4 DEF Separate
  <2>9. Ids(gaps \cup {w}) \subseteq Ids(gaps) \cup {r.ord}
    BY <2>3 DEF Ids
  <2>10. QED
    BY <1>2, <2>1, <2>6, <2>7, <2>8, <2>9
<1>5. QED
  BY <1>3, <1>4

\* So is a record for which another is displaced.
LEMMA DisplaceCounts ==
    ASSUME NEW t, NEW b, Holds(b, t), Apart(b), NEW r \in Observation, r.run = t,
           r.ord \notin Marks(b), NEW i \in DOMAIN b.queue
    PROVE  LET d == Displace(b, i, r)
           IN  Apart(d) /\ Load(d) = Load(b) + 1 /\ Marks(d) \subseteq Marks(b) \cup {r.ord}
<1> DEFINE q == b.queue
           d == Displace(b, i, r)
           x == q[i]
<1>1. /\ q \in Seq(Observation) /\ Len(q) \in Nat /\ DOMAIN q = 1..Len(q)
      /\ b.gaps \in SUBSET Gap /\ i \in 1..Len(q)
      /\ x \in Observation /\ x.run = t /\ \A g \in b.gaps : g.run = t
  BY LenProperties, ElementOfSeq DEF Holds, Buffer
<1>2. /\ Len(d.queue) = Len(q) /\ DOMAIN d.queue = 1..Len(q)
      /\ \A j \in 1..(Len(q) - 1) : d.queue[j] = IF j < i THEN q[j] ELSE q[j + 1]
      /\ d.queue[Len(q)] = r
  BY <1>1, DisplaceQueue
<1>3. d.gaps = NoteDrop(b.gaps, x)
  BY DEF Displace
<1>4. /\ Separate(d.gaps) /\ IsFiniteSet(d.gaps)
      /\ Counts(d.gaps) = Counts(b.gaps) + 1
      /\ Ids(d.gaps) \subseteq Ids(b.gaps) \cup {x.ord}
  BY <1>1, <1>3, NoteDropCounts DEF Apart
<1> HIDE DEF d
<1>5. \A j \in 1..Len(q), m \in 1..Len(q) : q[j].ord = q[m].ord => j = m
  BY <1>1 DEF Apart
<1>6. \A j \in 1..Len(q) : q[j].ord \in Ords(q) /\ q[j].ord # r.ord
  BY <1>1 DEF Ords, Marks
<1>7. ASSUME NEW j \in 1..Len(q)
      PROVE  d.queue[j].ord \in (Ords(q) \ {x.ord}) \cup {r.ord}
  <2>1. CASE j = Len(q)
    BY <1>2, <2>1
  <2>2. CASE j # Len(q) /\ j < i
    <3>1. d.queue[j] = q[j] /\ j \in 1..Len(q) /\ j # i
      BY <1>1, <1>2, <2>2
    <3>2. QED
      BY <1>1, <1>5, <1>6, <3>1
  <2>3. CASE j # Len(q) /\ ~(j < i)
    <3>1. d.queue[j] = q[j + 1] /\ j + 1 \in 1..Len(q) /\ j + 1 # i
      BY <1>1, <1>2, <2>3
    <3>2. QED
      BY <1>1, <1>5, <1>6, <3>1
  <2>4. QED
    BY <2>1, <2>2, <2>3
<1>8. ASSUME NEW j \in 1..Len(q), NEW m \in 1..Len(q), j < m
      PROVE  d.queue[j].ord # d.queue[m].ord
  <2>1. \E a \in 1..Len(q) : d.queue[j] = q[a] /\ (a = j \/ (a = j + 1 /\ i <= j)) 
    <3>1. j \in 1..(Len(q) - 1)
      BY <1>1, <1>8
    <3>2. CASE j < i
      BY <1>2, <3>1, <3>2
    <3>3. CASE ~(j < i)
      <4>1. j + 1 \in 1..Len(q) /\ i <= j
        BY <1>1, <3>1, <3>3
      <4>2. QED
        BY <1>2, <3>1, <3>3, <4>1
    <3>4. QED
      BY <3>2, <3>3
  <2>2. PICK a \in 1..Len(q) : d.queue[j] = q[a] /\ (a = j \/ (a = j + 1 /\ i <= j))
    BY <2>1
  <2>3. CASE m = Len(q)
    BY <1>2, <1>6, <2>2, <2>3
  <2>4. CASE m # Len(q) /\ m < i
    <3>1. d.queue[m] = q[m] /\ a = j /\ a # m
      BY <1>1, <1>2, <1>8, <2>2, <2>4
    <3>2. QED
      BY <1>5, <2>2, <3>1
  <2>5. CASE m # Len(q) /\ ~(m < i)
    <3>1. d.queue[m] = q[m + 1] /\ m + 1 \in 1..Len(q) /\ a # m + 1
      BY <1>1, <1>2, <1>8, <2>2, <2>5
    <3>2. QED
      BY <1>5, <2>2, <3>1
  <2>6. QED
    BY <2>3, <2>4, <2>5
<1>9. \A j, m \in DOMAIN d.queue : d.queue[j].ord = d.queue[m].ord => j = m
  <2>1. \A j, m \in 1..Len(q) : j = m \/ j < m \/ m < j
    BY <1>1
  <2>2. QED
    BY <1>2, <1>8, <2>1
<1>10. Ords(d.queue) \subseteq (Ords(q) \ {x.ord}) \cup {r.ord}
  BY <1>2, <1>7 DEF Ords
<1>11. /\ Ords(q) \cap Ids(b.gaps) = {} /\ r.ord \notin Ids(b.gaps) /\ r.ord # x.ord
       /\ x.ord \in Ords(q)
  BY <1>1, <1>6 DEF Apart, Marks
<1>12. Apart(d)
  BY <1>4, <1>9, <1>10, <1>11 DEF Apart
<1>13. Load(d) = Load(b) + 1
  <2>1. Counts(b.gaps) \in Nat
    BY <1>1, CountsAreTokens DEF Apart
  <2>2. QED
    BY <1>1, <1>2, <1>4, <2>1 DEF Load
<1>14. Marks(d) \subseteq Marks(b) \cup {r.ord}
  BY <1>4, <1>10, <1>11 DEF Marks
<1>15. QED
  BY <1>12, <1>13, <1>14 DEF d

\* While the supervisor works, whatever is emitted is counted once.
LEMMA EnqueueCounts ==
    ASSUME NEW t, NEW b, Holds(b, t), Apart(b), NEW r \in Observation, r.run = t,
           r.ord \notin Marks(b), ~stopping, ~failed
    PROVE  /\ Apart(Enqueue(b, r)) /\ Load(Enqueue(b, r)) = Load(b) + 1
           /\ Marks(Enqueue(b, r)) \subseteq Marks(b) \cup {r.ord}
<1> DEFINE q == b.queue
<1>1. /\ q \in Seq(Observation) /\ Len(q) \in Nat /\ DOMAIN q = 1..Len(q)
      /\ b.gaps \in SUBSET Gap /\ b \in Buffer /\ \A g \in b.gaps : g.run = t
  BY LenProperties DEF Holds, Buffer
<1>2. Counts(b.gaps) \in Nat
  BY <1>1, CountsAreTokens DEF Apart
<1>3. CASE Len(q) < MaxQueueItems
  <2> DEFINE e == [b EXCEPT !.queue = Append(q, r), !.event = TRUE]
             l == Append(q, r)
  <2>1. Enqueue(b, r) = e
    BY <1>3 DEF Enqueue, Accept
  <2>2. /\ l \in Seq(Observation) /\ Len(l) = Len(q) + 1
        /\ \A j \in 1..Len(q) : l[j] = q[j]
        /\ l[Len(q) + 1] = r
    BY <1>1, AppendProperties
  <2>3. DOMAIN l = 1..(Len(q) + 1)
    BY <2>2, LenProperties
  <2>4. e.queue = l /\ e.gaps = b.gaps
    BY <1>1 DEF Buffer
  <2> HIDE DEF e, l
  <2>5. \A j \in 1..Len(q) : q[j].ord # r.ord
    BY <1>1 DEF Marks, Ords
  <2>6. \A j \in DOMAIN l : (j \in 1..Len(q) /\ l[j] = q[j]) \/ (j = Len(q) + 1 /\ l[j] = r)
    BY <1>1, <2>2, <2>3
  <2>7. \A j, m \in DOMAIN l : l[j].ord = l[m].ord => j = m
    BY <1>1, <2>5, <2>6 DEF Apart
  <2>8. Ords(l) \subseteq Ords(q) \cup {r.ord}
    BY <1>1, <2>6 DEF Ords
  <2>9. Apart(e)
    BY <2>4, <2>7, <2>8 DEF Apart, Marks
  <2>10. Load(e) = Load(b) + 1
    BY <1>1, <1>2, <2>2, <2>4 DEF Load
  <2>11. QED
    BY <2>1, <2>4, <2>8, <2>9, <2>10 DEF Marks
<1>4. CASE ~(Len(q) < MaxQueueItems) /\ Regulars(q) # {}
  <2> DEFINE i == Min(Regulars(q))
  <2>1. Regulars(q) \in SUBSET Nat
    BY <1>1 DEF Regulars
  <2>2. i \in Regulars(q)
    BY <1>4, <2>1, MinIsMember
  <2>3. i \in DOMAIN q
    BY <2>2 DEF Regulars
  <2>4. Enqueue(b, r) = Displace(b, i, r)
    BY <1>4 DEF Enqueue, Overflow
  <2> HIDE DEF i
  <2>5. QED
    BY <2>3, <2>4, DisplaceCounts
<1>5. CASE /\ ~(Len(q) < MaxQueueItems) /\ Regulars(q) = {} /\ r.class = "regular"
  <2> DEFINE e == [b EXCEPT !.gaps = NoteDrop(@, r), !.dropped = @ \cup {r}]
  <2>1. Enqueue(b, r) = e
    BY <1>5 DEF Enqueue, Overflow
  <2>2. e.queue = q /\ e.gaps = NoteDrop(b.gaps, r)
    BY <1>1 DEF Buffer
  <2>3. /\ Separate(e.gaps) /\ IsFiniteSet(e.gaps)
        /\ Counts(e.gaps) = Counts(b.gaps) + 1
        /\ Ids(e.gaps) \subseteq Ids(b.gaps) \cup {r.ord}
    BY <1>1, <2>2, NoteDropCounts DEF Apart
  <2> HIDE DEF e
  <2>4. Apart(e) /\ Marks(e) \subseteq Marks(b) \cup {r.ord}
    BY <2>2, <2>3 DEF Apart, Marks
  <2>5. Load(e) = Load(b) + 1
    BY <1>1, <1>2, <2>2, <2>3 DEF Load
  <2>6. QED
    BY <2>1, <2>4, <2>5
<1>6. CASE /\ ~(Len(q) < MaxQueueItems) /\ Regulars(q) = {} /\ r.class # "regular"
  <2>1. Enqueue(b, r) = Displace(b, 1, r) /\ 1 \in DOMAIN q
    BY <1>1, <1>6, LocalCaptureAssumption DEF Enqueue, Overflow
  <2>2. QED
    BY <2>1, DisplaceCounts
<1>7. QED
  BY <1>3, <1>4, <1>5, <1>6

-----------------------------------------------------------------------------
(* The counts of a run add up: the inductive invariant *)

Waiting(P) == {p.obs.ord : p \in P}

\* the ordinals that left the memory of the present run, or are about to
Settled ==
    {o.ord : o \in OfRun(archived \cup op.rows)} \cup Ids(OfRun(gapRows \cup writing \cup op.gaps))

FlyingRows == IF op.state = "queued" THEN op.rows ELSE {}
FlyingGaps == IF op.state = "queued" THEN op.gaps ELSE {}

\* everything received before n is in one place at most: the buffer b, the pending
\* points P, or settled
Fits(b, P, n) ==
    /\ Apart(b) /\ IsFiniteSet(P)
    /\ \A p, q \in P : p.obs.ord = q.obs.ord => p = q
    /\ Marks(b) \cap Waiting(P) = {} /\ (Marks(b) \cup Waiting(P)) \cap Settled = {}
    /\ Marks(b) \cup Waiting(P) \cup Settled \subseteq 0..(n - 1)

\* what the archive holds or is given is counted once
Disjoint ==
    /\ FlyingRows \cap archived = {} /\ FlyingGaps \cap gapRows = {}
    /\ writing \cap (gapRows \cup op.gaps) = {}
    /\ IsFiniteSet(writing)

Outside ==
    Cardinality(OfRun(archived)) + Cardinality(FlyingRows)
        + Counts(OfRun(gapRows)) + Counts(FlyingGaps) + Counts(writing)

Balanced ==
    /\ Fits(buf, pending, ordinal) /\ Disjoint
    /\ ordinal = Outside + Load(buf) + Cardinality(pending) + coalesced

\* no command has failed under the supervisor that works
Reckoned == Live /\ op.state # "error"

\* the writer waits for the command in flight; one that failed is its last
Quiet ==
    /\ op.kind = "none" => op.state = "idle"
    /\ op.kind # "commit" => op.rows = {}
    /\ op.kind # "gap" => op.gaps = {}
    /\ Live => /\ op.kind \in {"gap", "commit"} => writer = op.kind
               /\ op.state = "error" => writer \in {"gap", "commit"} \/ stopPc = "finish"

\* a run starts with nothing
Outset ==
    /\ IsFiniteSet(gapRows) /\ IsFiniteSet(op.gaps)
    /\ \A g \in gapRows : g.run <= run
    /\ status = "starting" => \A g \in gapRows : g.run # run
    /\ status \in {"down", "opening", "unavailable", "starting"} =>
          ordinal = 0 /\ coalesced = 0

Received == Live => Cardinality(OfRun(admitted)) = ordinal

\* nothing happens to a run after its end
Closed ==
    status = "stopped" =>
        ~attached /\ pending = {} /\ op.state = "ok" /\ writer = "done" /\ stopPc = "done"

SumInv ==
    /\ LedgerInv /\ Provenance /\ Quiet /\ Outset
    /\ Reckoned => Balanced
    /\ Received /\ Closed /\ CleanRunReconciles

-----------------------------------------------------------------------------
(* Intake *)

\* A new record comes into the buffer.
LEMMA NewInBuffer ==
    ASSUME NEW b, Holds(b, run), NEW P, NEW n \in Nat, Fits(b, P, n),
           NEW r \in Observation, r.run = run, r.ord = n, ~stopping, ~failed
    PROVE  Fits(Enqueue(b, r), P, n + 1) /\ Load(Enqueue(b, r)) = Load(b) + 1
<1> DEFINE e == Enqueue(b, r)
<1>1. Marks(b) \cup Waiting(P) \cup Settled \subseteq 0..(n - 1)
  BY DEF Fits
<1>2. n \notin Marks(b) /\ n \notin Waiting(P) /\ n \notin Settled
  BY <1>1
<1>3. Apart(e) /\ Load(e) = Load(b) + 1 /\ Marks(e) \subseteq Marks(b) \cup {n}
  BY <1>2, EnqueueCounts DEF Fits
<1> HIDE DEF e
<1>4. Marks(e) \cup Waiting(P) \cup Settled \subseteq 0..((n + 1) - 1)
  BY <1>1, <1>3
<1>5. QED
  BY <1>2, <1>3, <1>4 DEF Fits, e

\* A new record becomes a pending point.
LEMMA NewPending ==
    ASSUME NEW b, NEW P, NEW n \in Nat, Fits(b, P, n), NEW p, p.obs.ord = n
    PROVE  Fits(b, P \cup {p}, n + 1) /\ Cardinality(P \cup {p}) = Cardinality(P) + 1
<1> DEFINE Q == P \cup {p}
<1>1. Marks(b) \cup Waiting(P) \cup Settled \subseteq 0..(n - 1)
  BY DEF Fits
<1>2. n \notin Marks(b) /\ n \notin Waiting(P) /\ n \notin Settled
  BY <1>1
<1>3. p \notin P /\ Waiting(Q) = Waiting(P) \cup {n}
  BY <1>2 DEF Waiting
<1>4. IsFiniteSet(Q) /\ Cardinality(Q) = Cardinality(P) + 1
  BY <1>3, FS_AddElement DEF Fits
<1>5. \A q \in P : q.obs.ord # n
  BY <1>2 DEF Waiting
<1>6. \A q, t \in Q : q.obs.ord = t.obs.ord => q = t
  BY <1>5 DEF Fits
<1> HIDE DEF Q
<1>7. Marks(b) \cup Waiting(Q) \cup Settled \subseteq 0..((n + 1) - 1)
  BY <1>1, <1>3
<1>8. Fits(b, Q, n + 1)
  BY <1>2, <1>3, <1>4, <1>6, <1>7 DEF Fits
<1>9. QED
  BY <1>4, <1>8 DEF Q

\* A pending point is given up.
LEMMA OldLeaves ==
    ASSUME NEW b, NEW P, NEW n \in Nat, Fits(b, P, n), NEW p \in P
    PROVE  /\ Fits(b, P \ {p}, n) /\ Cardinality(P \ {p}) = Cardinality(P) - 1
           /\ p.obs.ord \notin Marks(b) /\ p.obs.ord \notin Waiting(P \ {p})
           /\ p.obs.ord \notin Settled /\ p.obs.ord \in 0..(n - 1)
           /\ Cardinality(P) \in Nat
<1> DEFINE Q == P \ {p}
<1>1. IsFiniteSet(Q) /\ Cardinality(Q) = Cardinality(P) - 1 /\ Cardinality(P) \in Nat
  BY FS_RemoveElement, FS_CardinalityType DEF Fits
<1>2. p.obs.ord \in Waiting(P) /\ p.obs.ord \notin Waiting(Q) /\ Waiting(Q) \subseteq Waiting(P)
  BY DEF Waiting, Fits
<1>3. \A q, t \in Q : q.obs.ord = t.obs.ord => q = t
  BY DEF Fits
<1> HIDE DEF Q
<1>4. Fits(b, Q, n)
  BY <1>1, <1>2, <1>3 DEF Fits
<1>5. p.obs.ord \notin Marks(b) /\ p.obs.ord \notin Settled /\ p.obs.ord \in 0..(n - 1)
  BY <1>2 DEF Fits
<1>6. QED
  BY <1>1, <1>2, <1>4, <1>5 DEF Q

\* A pending point comes into the buffer.
LEMMA OldInBuffer ==
    ASSUME NEW b, Holds(b, run), NEW P, NEW n \in Nat, Fits(b, P, n), NEW p \in P,
           p.obs \in Observation, p.obs.run = run, ~stopping, ~failed
    PROVE  /\ Fits(Enqueue(b, p.obs), P \ {p}, n)
           /\ Load(Enqueue(b, p.obs)) = Load(b) + 1
           /\ Cardinality(P \ {p}) = Cardinality(P) - 1 /\ Cardinality(P) \in Nat
<1> DEFINE e == Enqueue(b, p.obs)
           Q == P \ {p}
           m == p.obs.ord
<1>1. /\ Fits(b, Q, n) /\ Cardinality(Q) = Cardinality(P) - 1 /\ Cardinality(P) \in Nat
      /\ m \notin Marks(b) /\ m \notin Waiting(Q) /\ m \notin Settled /\ m \in 0..(n - 1)
  BY OldLeaves
<1>2. Apart(e) /\ Load(e) = Load(b) + 1 /\ Marks(e) \subseteq Marks(b) \cup {m}
  BY <1>1, EnqueueCounts DEF Fits
<1> HIDE DEF e, Q, m
<1>3. Fits(e, Q, n)
  BY <1>1, <1>2 DEF Fits
<1>4. QED
  BY <1>1, <1>2, <1>3 DEF e, Q

\* What the buffer holds is a number.
LEMMA LoadIsNatural ==
    ASSUME NEW b, Holds(b, run), Apart(b)
    PROVE  Load(b) \in Nat
<1>1. Len(b.queue) \in Nat /\ b.gaps \in SUBSET Gap
  BY LenProperties DEF Holds, Buffer
<1>2. QED
  BY <1>1, CountsAreTokens DEF Load, Apart

\* The places that intake fills: what they hold more, they received more.
Takes(n) ==
    /\ Fits(buf', pending', ordinal + n)
    /\ Load(buf') + Cardinality(pending') + coalesced'
          = Load(buf) + Cardinality(pending) + coalesced + n

\* An observation is put in one place.
LEMMA ObserveTakes ==
    ASSUME Base, Policy, Fits(buf, pending, ordinal), Observe
    PROVE  /\ Receives /\ Live /\ Takes(1)
           /\ \E r \in Observation : Admit(r) /\ r.run = run /\ r.ord = ordinal
<1> DEFINE c == Cardinality(pending)
<1>1. Receives
  BY DEF Observe, ObserveTransition, ObserveRegular, ObservePrediction
<1>2. /\ run \in Runs /\ ~stopping /\ ~failed /\ ordinal \in Nat /\ coalesced \in Nat
      /\ Live
  BY <1>1 DEF Receives, Base, Control, TypeOK, Live
<1>3. Holds(buf, run) /\ Load(buf) \in Nat /\ c \in Nat
  BY BufferHolds, LoadIsNatural, FS_CardinalityType DEF Fits
<1>4. \A k \in Keys, t \in Classes :
         /\ NewRecord(k, t) \in Observation /\ NewRecord(k, t).run = run
         /\ NewRecord(k, t).ord = ordinal
  BY <1>2, RecordType DEF Base, NewRecord
<1>5. Streams \subseteq Keys /\ \A s \in Sources : <<s, "prediction">> \in Keys
  BY DEF Streams, Keys
<1>6. ASSUME NEW r \in Observation, r.run = run, r.ord = ordinal,
             buf' = Enqueue(buf, r), UNCHANGED <<pending, coalesced>>
      PROVE  Takes(1)
  <2>1. Fits(buf', pending, ordinal + 1) /\ Load(buf') = Load(buf) + 1
    BY <1>2, <1>3, <1>6, NewInBuffer
  <2>2. QED
    BY <1>2, <1>3, <1>6, <2>1 DEF Takes
<1>7. ASSUME NEW r \in Observation, r.run = run, r.ord = ordinal, NEW p \in pending,
             buf' = Enqueue(Enqueue(buf, p.obs), r), pending' = pending \ {p},
             UNCHANGED coalesced
      PROVE  Takes(1)
  <2> DEFINE b == Enqueue(buf, p.obs)
             Q == pending \ {p}
  <2>1. p.obs \in Observation /\ p.obs.run = run
    BY PendingType
  <2>2. Holds(b, run)
    BY <1>3, <2>1, EnqueueHolds
  <2>3. /\ Fits(b, Q, ordinal) /\ Load(b) = Load(buf) + 1 /\ Cardinality(Q) = c - 1
    BY <1>2, <1>3, <2>1, OldInBuffer
  <2> HIDE DEF b, Q
  <2>4. buf' = Enqueue(b, r) /\ pending' = Q
    BY <1>7 DEF b, Q
  <2>5. Fits(buf', Q, ordinal + 1) /\ Load(buf') = Load(b) + 1
    BY <1>2, <1>7, <2>2, <2>3, <2>4, NewInBuffer
  <2> HIDE DEF c
  <2>6. Load(buf') + Cardinality(Q) + coalesced = Load(buf) + c + coalesced + 1
    BY <1>2, <1>3, <2>3, <2>5
  <2>7. QED
    BY <1>7, <2>4, <2>5, <2>6 DEF Takes, c
<1>8. ASSUME NEW r \in Observation, r.ord = ordinal, NEW due, buf' = buf,
             pending' = pending \cup {[obs |-> r, due |-> due]}, UNCHANGED coalesced
      PROVE  Takes(1)
  <2> DEFINE p == [obs |-> r, due |-> due]
             Q == pending \cup {p}
  <2>1. p.obs.ord = ordinal
    BY <1>8
  <2>2. pending' = Q
    BY <1>8
  <2> HIDE DEF p
  <2>3. Fits(buf, Q, ordinal + 1) /\ Cardinality(Q) = c + 1
    BY <1>2, <2>1, NewPending
  <2> HIDE DEF c, Q
  <2>4. Load(buf) + Cardinality(Q) + coalesced = Load(buf) + c + coalesced + 1
    BY <1>2, <1>3, <2>3
  <2>5. QED
    BY <1>8, <2>2, <2>3, <2>4, Zenon DEF Takes, c
<1>9. ASSUME NEW r \in Observation, r.ord = ordinal, NEW p \in pending, buf' = buf,
             pending' = (pending \ {p}) \cup {[p EXCEPT !.obs = r]},
             coalesced' = coalesced + 1
      PROVE  Takes(1)
  <2> DEFINE Q == pending \ {p}
             n == [p EXCEPT !.obs = r]
             R == Q \cup {n}
  <2>1. Fits(buf, Q, ordinal) /\ Cardinality(Q) = c - 1
    BY <1>2, OldLeaves
  <2>2. n.obs.ord = ordinal
    BY <1>9 DEF Base, TypeOK
  <2>3. pending' = R
    BY <1>9
  <2> HIDE DEF Q, n
  <2>4. Fits(buf, R, ordinal + 1) /\ Cardinality(R) = Cardinality(Q) + 1
    BY <1>2, <2>1, <2>2, NewPending
  <2> HIDE DEF c, R
  <2>5. Load(buf) + Cardinality(R) + (coalesced + 1) = Load(buf) + c + coalesced + 1
    BY <1>2, <1>3, <2>1, <2>4
  <2>6. QED
    BY <1>9, <2>3, <2>4, <2>5, Zenon DEF Takes, c
<1>10. CASE \E k \in Streams : ObserveTransition(k)
  <2>1. PICK k \in Streams : ObserveTransition(k)
    BY <1>10
  <2> DEFINE r == NewRecord(k, "transition")
  <2>2. r \in Observation /\ r.run = run /\ r.ord = ordinal
    BY <1>4, <1>5 DEF Classes
  <2>3. Admit(r) /\ UNCHANGED coalesced /\ EmitAfterPending(k, r)
    BY <2>1 DEF ObserveTransition
  <2> HIDE DEF r
  <2>4. Takes(1)
    BY <1>6, <1>7, <2>2, <2>3 DEF EmitAfterPending, PendingOf
  <2>5. QED
    BY <1>1, <1>2, <2>2, <2>3, <2>4
<1>11. CASE \E k \in Streams : ObserveRegular(k)
  <2>1. PICK k \in Streams : ObserveRegular(k)
    BY <1>11
  <2> DEFINE r == NewRecord(k, "regular")
  <2>2. r \in Observation /\ r.run = run /\ r.ord = ordinal
    BY <1>4, <1>5 DEF Classes
  <2>3. /\ Admit(r)
        /\ \/ buf' = Enqueue(buf, r) /\ UNCHANGED <<pending, coalesced>>
           \/ /\ \E due : pending' = pending \cup {[obs |-> r, due |-> due]}
              /\ buf' = buf /\ UNCHANGED coalesced
           \/ /\ \E p \in PendingOf(k) :
                    pending' = (pending \ {p}) \cup {[p EXCEPT !.obs = r]}
              /\ coalesced' = coalesced + 1 /\ buf' = buf
    BY <2>1 DEF ObserveRegular
  <2> HIDE DEF r
  <2>4. Takes(1)
    BY <1>6, <1>8, <1>9, <2>2, <2>3 DEF PendingOf
  <2>5. QED
    BY <1>1, <1>2, <2>2, <2>3, <2>4
<1>12. CASE \E s \in Sources : ObservePrediction(s)
  <2>1. PICK s \in Sources : ObservePrediction(s)
    BY <1>12
  <2> DEFINE r == NewRecord(<<s, "prediction">>, "prediction")
  <2>2. r \in Observation /\ r.run = run /\ r.ord = ordinal
    BY <1>4, <1>5 DEF Classes
  <2>3. Admit(r) /\ buf' = Enqueue(buf, r) /\ UNCHANGED <<pending, coalesced>>
    BY <2>1 DEF ObservePrediction, policyVars
  <2> HIDE DEF r
  <2>4. QED
    BY <1>1, <1>2, <1>6, <2>2, <2>3
<1>13. QED
  BY <1>10, <1>11, <1>12 DEF Observe

\* A flush moves a pending point into the buffer.
LEMMA FlushTakes ==
    ASSUME Base, Fits(buf, pending, ordinal), ~stopping, ~failed,
           NEW p \in pending, Flush(p), UNCHANGED coalesced
    PROVE  Takes(0)
<1> DEFINE c == Cardinality(pending)
<1>1. p.obs \in Observation /\ p.obs.run = run /\ ordinal \in Nat /\ coalesced \in Nat
  BY PendingType DEF Base, TypeOK
<1>2. Holds(buf, run) /\ Load(buf) \in Nat /\ c \in Nat
  BY BufferHolds, LoadIsNatural, FS_CardinalityType DEF Fits
<1>3. buf' = Enqueue(buf, p.obs) /\ pending' = pending \ {p}
  BY DEF Flush
<1>4. Fits(buf', pending', ordinal) /\ Load(buf') = Load(buf) + 1 /\ Cardinality(pending') = c - 1
  BY <1>1, <1>2, <1>3, OldInBuffer
<1> HIDE DEF c
<1>5. Load(buf') + Cardinality(pending') + coalesced = Load(buf) + c + coalesced
  BY <1>1, <1>2, <1>4
<1>6. ordinal + 0 = ordinal /\ Load(buf) + c + coalesced + 0 = Load(buf) + c + coalesced
  BY <1>1, <1>2
<1>7. QED
  BY <1>4, <1>5, <1>6 DEF Takes, c

-----------------------------------------------------------------------------
(* The writer *)

\* A batch takes as many records out of the queue as it has.
LEMMA TakeBatchCounts ==
    ASSUME Base, Apart(buf), TakeBatch(buf)
    PROVE  /\ Apart(buf') /\ buf'.gaps = buf.gaps /\ writing' = {}
           /\ op'.gaps = {} /\ op'.state \in {"queued", "idle"}
           /\ op'.state = "idle" => op'.rows = {}
           /\ IsFiniteSet(op'.rows)
           /\ Cardinality(op'.rows) + Len(buf'.queue) = Len(buf.queue)
           /\ \A x \in op'.rows :
                 x.run = run /\ x.ord \in Ords(buf.queue) /\ x.ord \notin Ords(buf'.queue)
           /\ Ords(buf'.queue) \subseteq Ords(buf.queue)
<1> DEFINE q == buf.queue
           n == Min({WriteBatchSize, Len(buf.queue)})
           head == SubSeq(buf.queue, 1, n)
           tail == SubSeq(buf.queue, n + 1, Len(buf.queue))
           rows == {q[j] : j \in 1..n}
<1>1. /\ q \in Seq(Observation) /\ Len(q) \in Nat /\ DOMAIN q = 1..Len(q)
      /\ \A j \in 1..Len(q) : q[j] \in Observation
      /\ n \in 0..Len(q) /\ buf \in Buffer
  BY BatchSize, BufferHolds, LenProperties, ElementOfSeq DEF Holds, Buffer
<1>2. /\ buf' = [buf EXCEPT !.queue = tail] /\ writing' = {}
      /\ \/ n = 0 /\ op' = NoOp
         \/ op' = Command("commit", ToSet(head), {})
  BY Zenon DEF TakeBatch
<1>3. \A i, j \in 1..Len(q) : q[i].ord = q[j].ord => i = j
  BY <1>1 DEF Apart
<1>4. \A j \in 1..Len(q) : q[j].run = run
  BY <1>1 DEF Base, Ownership
<1>5. Ords(q) = {q[j].ord : j \in 1..Len(q)}
  BY <1>1 DEF Ords
<1> HIDE DEF n
<1>6. /\ head \in Seq(Observation) /\ Len(head) = n
      /\ \A j \in 1..n : head[j] = q[j]
  <2>1. \A j \in 1..n : q[j] \in Observation
    BY <1>1
  <2>2. QED
    BY <1>1, <2>1, SubSeqProperties
<1>7. /\ tail \in Seq(Observation) /\ Len(tail) = Len(q) - n
      /\ \A j \in 1..(Len(q) - n) : tail[j] = q[n + j]
  <2>1. \A j \in (n + 1)..Len(q) : q[j] \in Observation
    BY <1>1
  <2>2. QED
    BY <1>1, <2>1, SubSeqProperties
<1>8. DOMAIN head = 1..n /\ DOMAIN tail = 1..(Len(q) - n)
  BY <1>6, <1>7, LenProperties
<1>9. ToSet(head) = rows
  BY <1>6, <1>8 DEF ToSet
<1>10. IsFiniteSet(rows) /\ Cardinality(rows) = n
  <2> DEFINE f == [j \in 1..n |-> q[j]]
  <2>1. \A i, j \in 1..n : f[i] = f[j] => i = j
    BY <1>1, <1>3
  <2>2. f \in [1..n -> rows] /\ \A x \in rows : \E j \in 1..n : f[j] = x
    OBVIOUS
  <2>3. DOMAIN f = 1..n
    OBVIOUS
  <2> HIDE DEF f, rows
  <2>4. f \in Bijection(1..n, rows)
    BY <2>1, <2>2, <2>3 DEF Bijection, Injection, IsInjective, Surjection
  <2>5. IsFiniteSet(1..n) /\ Cardinality(1..n) = n
    BY <1>1, FS_Interval
  <2>6. ExistsBijection(1..n, rows)
    BY <2>4 DEF ExistsBijection
  <2>7. QED
    BY <2>5, <2>6, FS_Bijection
<1> HIDE DEF head, tail, q
<1>11. buf'.queue = tail /\ buf'.gaps = buf.gaps
  BY <1>1, <1>2 DEF Buffer
<1>12. \A j \in 1..(Len(q) - n) : n + j \in 1..Len(q) /\ tail[j].ord = q[n + j].ord
  BY <1>1, <1>7
<1>13. Ords(tail) = {tail[j].ord : j \in 1..(Len(q) - n)}
  BY <1>8 DEF Ords
<1>14. Ords(tail) \subseteq Ords(q)
  BY <1>5, <1>12, <1>13
<1>15. \A i, j \in 1..(Len(q) - n) : tail[i].ord = tail[j].ord => i = j
  <2>1. SUFFICES ASSUME NEW i \in 1..(Len(q) - n), NEW j \in 1..(Len(q) - n),
                        tail[i].ord = tail[j].ord
                 PROVE  i = j
    OBVIOUS
  <2>2. n + i = n + j
    BY <1>3, <1>12, <2>1
  <2>3. QED
    BY <1>1, <2>2
<1>16. ASSUME NEW x \in rows
       PROVE  x.run = run /\ x.ord \in Ords(q) /\ x.ord \notin Ords(tail)
  <2>1. PICK i \in 1..n : x = q[i]
    BY <1>16
  <2>2. i \in 1..Len(q)
    BY <1>1, <2>1
  <2>3. \A j \in 1..(Len(q) - n) : tail[j].ord # x.ord
    <3>1. TAKE j \in 1..(Len(q) - n)
    <3>2. n + j # i
      BY <1>1, <2>1
    <3>3. QED
      BY <1>3, <1>12, <2>1, <2>2, <3>2
  <2>4. QED
    BY <1>4, <1>5, <1>13, <2>1, <2>2, <2>3
<1>17. Apart(buf')
  BY <1>8, <1>11, <1>14, <1>15 DEF Apart, q
<1>18. op'.rows = rows /\ op'.gaps = {} /\ op'.state \in {"queued", "idle"}
       /\ (op'.state = "idle" => op'.rows = {})
  <2>1. CASE n = 0 /\ op' = NoOp
    BY <2>1 DEF NoOp
  <2>2. CASE op' = Command("commit", ToSet(head), {})
    BY <1>9, <2>2 DEF Command
  <2>3. QED
    BY <1>2, <2>1, <2>2
<1> HIDE DEF rows
<1>19. Cardinality(rows) + Len(tail) = Len(q)
  BY <1>1, <1>7, <1>10
<1>20. QED
  BY <1>2, <1>10, <1>11, <1>14, <1>16, <1>17, <1>18, <1>19 DEF q

\* What the sum consists of are numbers.
LEMMA PartsAreNatural ==
    ASSUME Base, Provenance, Outset, Balanced
    PROVE  /\ IsFiniteSet(OfRun(archived)) /\ Cardinality(OfRun(archived)) \in Nat
           /\ IsFiniteSet(FlyingRows) /\ Cardinality(FlyingRows) \in Nat
           /\ OfRun(gapRows) \in SUBSET Gap /\ IsFiniteSet(OfRun(gapRows))
           /\ Counts(OfRun(gapRows)) \in Nat
           /\ FlyingGaps \in SUBSET Gap /\ IsFiniteSet(FlyingGaps) /\ Counts(FlyingGaps) \in Nat
           /\ writing \in SUBSET Gap /\ IsFiniteSet(writing) /\ Counts(writing) \in Nat
           /\ Load(buf) \in Nat /\ Cardinality(pending) \in Nat
           /\ coalesced \in Nat /\ ordinal \in Nat
<1>1. IsFiniteSet(OfRun(archived)) /\ Cardinality(OfRun(archived)) \in Nat
  <2>1. OfRun(archived) \in SUBSET admitted /\ IsFiniteSet(admitted)
    BY DEF OfRun, Provenance
  <2>2. QED
    BY <2>1, FS_Subset, FS_CardinalityType
<1>2. IsFiniteSet(FlyingRows) /\ Cardinality(FlyingRows) \in Nat
  <2>1. FlyingRows \in SUBSET admitted /\ IsFiniteSet(admitted)
    BY DEF FlyingRows, Provenance
  <2>2. QED
    BY <2>1, FS_Subset, FS_CardinalityType
<1>3. /\ OfRun(gapRows) \in SUBSET Gap /\ IsFiniteSet(OfRun(gapRows))
      /\ Counts(OfRun(gapRows)) \in Nat
  <2>1. OfRun(gapRows) \in SUBSET gapRows /\ IsFiniteSet(gapRows) /\ gapRows \in SUBSET Gap
    BY DEF OfRun, Outset, Base, TypeOK
  <2>2. IsFiniteSet(OfRun(gapRows)) /\ OfRun(gapRows) \in SUBSET Gap
    BY <2>1, FS_Subset
  <2>3. QED
    BY <2>2, CountsAreTokens
<1>4. FlyingGaps \in SUBSET Gap /\ IsFiniteSet(FlyingGaps) /\ Counts(FlyingGaps) \in Nat
  <2>1. FlyingGaps \in SUBSET Gap /\ IsFiniteSet(FlyingGaps)
    BY FS_EmptySet DEF FlyingGaps, Outset, Base, TypeOK, Operation
  <2>2. QED
    BY <2>1, CountsAreTokens
<1>5. writing \in SUBSET Gap /\ IsFiniteSet(writing) /\ Counts(writing) \in Nat
  <2>1. writing \in SUBSET Gap /\ IsFiniteSet(writing)
    BY DEF Balanced, Disjoint, Base, TypeOK
  <2>2. QED
    BY <2>1, CountsAreTokens
<1>6. Load(buf) \in Nat /\ Cardinality(pending) \in Nat
  BY BufferHolds, LoadIsNatural, FS_CardinalityType DEF Balanced, Fits
<1>7. coalesced \in Nat /\ ordinal \in Nat
  BY DEF Base, TypeOK
<1>8. QED
  BY <1>1, <1>2, <1>3, <1>4, <1>5, <1>6, <1>7

\* When the writer takes the next thing, what it submitted before is done.
LEMMA NothingFlies ==
    ASSUME Base, Durable, Quiet, Reckoned, writer \in {"run", "gap"},
           writer = "gap" => op.state = "ok"
    PROVE  op.rows = {} /\ op.gaps \subseteq gapRows /\ FlyingRows = {} /\ FlyingGaps = {}
<1>1. CASE writer = "run"
  <2>1. op.kind \notin {"gap", "commit"}
    BY <1>1 DEF Quiet, Reckoned
  <2>2. op.rows = {} /\ op.gaps = {}
    BY <2>1 DEF Quiet
  <2>3. QED
    BY <2>2 DEF FlyingRows, FlyingGaps
<1>2. CASE writer = "gap"
  <2>1. op.kind = "gap" /\ op.state = "ok"
    BY <1>2 DEF Base, Control
  <2>2. op.rows = {} /\ op.gaps \subseteq gapRows
    BY <2>1 DEF Quiet, Durable
  <2>3. QED
    BY <2>1, <2>2 DEF FlyingRows, FlyingGaps
<1>3. QED
  BY <1>1, <1>2

\* A gap taken out of the buffer, or out of those taken before, is counted on its way.
LEMMA GapTaken ==
    ASSUME Base, Durable, Custody, Quiet, Provenance, Outset, Reckoned, Balanced,
           writer \in {"run", "gap"}, writer = "gap" => op.state = "ok",
           NEW G, RecordGap(G),
           \/ G = buf.gaps /\ writing = {} /\ buf' = [buf EXCEPT !.gaps = {}]
           \/ G = writing /\ buf' = buf,
           UNCHANGED <<run, archived, gapRows, ordinal, coalesced, pending>>
    PROVE  Balanced'
<1>1. op.rows = {} /\ op.gaps \subseteq gapRows /\ FlyingRows = {} /\ FlyingGaps = {}
  BY NothingFlies
<1>2. PICK g \in G : op' = Command("gap", {}, {g}) /\ writing' = G \ {g}
  BY DEF RecordGap
<1>3. op'.rows = {} /\ op'.gaps = {g} /\ FlyingRows' = {} /\ FlyingGaps' = {g}
  BY <1>2 DEF Command, FlyingRows, FlyingGaps
<1>4. G \in SUBSET Gap /\ IsFiniteSet(G) /\ \A h \in G : h.run = run
  BY DEF Balanced, Fits, Disjoint, Apart, Base, TypeOK, Buffer, Ownership, Custody
<1>5. /\ writing' \in SUBSET Gap /\ {g} \in SUBSET Gap
      /\ IsFiniteSet(writing') /\ IsFiniteSet({g})
      /\ writing' \cap {g} = {} /\ writing' \cup {g} = G
  <2>1. /\ writing' \in SUBSET Gap /\ {g} \in SUBSET Gap
        /\ writing' \cap {g} = {} /\ writing' \cup {g} = G
    BY <1>2, <1>4
  <2>2. IsFiniteSet(writing') /\ IsFiniteSet({g})
    BY <1>4, <2>1, FS_Subset, FS_Singleton
  <2>3. QED
    BY <2>1, <2>2
<1>6. Counts(G) = Counts(writing') + Counts({g}) /\ Counts(writing') \in Nat /\ Counts({g}) \in Nat
  <2> DEFINE W == writing'
  <2>1. W \in SUBSET Gap /\ IsFiniteSet(W) /\ W \cap {g} = {} /\ W \cup {g} = G
    BY <1>5
  <2> HIDE DEF W
  <2>2. Counts(W \cup {g}) = Counts(W) + Counts({g})
    BY <1>5, <2>1, CountsAdd
  <2>3. Counts(W) \in Nat /\ Counts({g}) \in Nat
    BY <1>5, <2>1, CountsAreTokens
  <2>4. QED
    BY <2>1, <2>2, <2>3 DEF W
<1>7. G \cap gapRows = {}
  <2>1. ASSUME NEW h \in G, h \in gapRows
        PROVE  FALSE
    <3>1. h \in OfRun(gapRows \cup writing \cup op.gaps)
      BY <1>4, <2>1 DEF OfRun
    <3>2. h.id \in Settled
      BY <3>1 DEF Settled, Ids
    <3>3. CASE G = buf.gaps
      <4>1. h.id \in Marks(buf)
        BY <2>1, <3>3 DEF Marks, Ids
      <4>2. QED
        BY <3>2, <4>1 DEF Balanced, Fits
    <3>4. CASE G = writing
      BY <2>1, <3>4 DEF Balanced, Disjoint
    <3>5. QED
      BY <3>3, <3>4
  <2>2. QED
    BY <2>1
<1>8. Disjoint'
  BY <1>2, <1>3, <1>5, <1>7 DEF Disjoint
<1>9. OfRun(archived)' = OfRun(archived) /\ OfRun(gapRows)' = OfRun(gapRows)
  BY DEF OfRun
<1>10. Settled' = {o.ord : o \in OfRun(archived)} \cup Ids(OfRun(gapRows)) \cup Ids(G)
  <2>1. OfRun(archived \cup op.rows)' = OfRun(archived)
    BY <1>3 DEF OfRun
  <2>2. OfRun(gapRows \cup writing \cup op.gaps)' = OfRun(gapRows) \cup G
    BY <1>3, <1>4, <1>5 DEF OfRun
  <2>3. QED
    BY <2>1, <2>2 DEF Settled, Ids
<1>11. {o.ord : o \in OfRun(archived)} \cup Ids(OfRun(gapRows)) \subseteq Settled
  BY DEF Settled, Ids, OfRun
<1> DEFINE A == Cardinality(OfRun(archived))
           B == Counts(OfRun(gapRows))
           P == Cardinality(pending)
<1>12. /\ A \in Nat /\ B \in Nat /\ P \in Nat /\ Load(buf) \in Nat /\ Counts(writing) \in Nat
       /\ coalesced \in Nat
  BY PartsAreNatural
<1>13. ordinal = A + 0 + B + 0 + Counts(writing) + Load(buf) + P + coalesced
  <2>1. Cardinality(FlyingRows) = 0 /\ Counts(FlyingGaps) = 0
    BY <1>1, FS_EmptySet, CountsOfNone
  <2>2. QED
    BY <2>1 DEF Balanced, Outside
<1>14. Outside' = A + 0 + B + Counts({g}) + Counts(writing')
  <2>1. Cardinality(FlyingRows') = 0
    BY <1>3, FS_EmptySet
  <2>2. Outside' = Cardinality(OfRun(archived)') + Cardinality(FlyingRows')
                      + Counts(OfRun(gapRows)') + Counts(FlyingGaps') + Counts(writing')
    BY DEF Outside
  <2>3. QED
    BY <1>3, <1>9, <2>1, <2>2
<1>15. CASE G = buf.gaps /\ writing = {} /\ buf' = [buf EXCEPT !.gaps = {}]
  <2>1. buf'.queue = buf.queue /\ buf'.gaps = {}
    BY <1>15 DEF Base, TypeOK, Buffer
  <2>2. Apart(buf') /\ Marks(buf') = Ords(buf.queue) /\ Marks(buf) = Ords(buf.queue) \cup Ids(G)
    <3>1. IsFiniteSet({}) /\ Ids({}) = {}
      BY FS_EmptySet DEF Ids
    <3>2. QED
      BY <1>15, <2>1, <3>1 DEF Balanced, Fits, Apart, Separate, Marks
  <2>3. Load(buf') + Counts(G) = Load(buf) /\ Load(buf') \in Nat
    <3>1. Len(buf.queue) \in Nat
      BY BufferHolds, LenProperties DEF Holds, Buffer
    <3>2. Counts({}) = 0 /\ Counts(G) \in Nat
      BY <1>4, CountsOfNone, CountsAreTokens
    <3>3. QED
      BY <1>15, <2>1, <3>1, <3>2 DEF Load
  <2>4. Ids(G) \cap Ords(buf.queue) = {}
    BY <1>15 DEF Balanced, Fits, Apart
  <2>5. Fits(buf, pending, ordinal)'
    <3> DEFINE O == Ords(buf.queue)
               I == Ids(G)
               W == Waiting(pending)
               S == Settled'
    <3>1. /\ (O \cup I) \cap W = {} /\ ((O \cup I) \cup W) \cap Settled = {}
          /\ (O \cup I) \cup W \cup Settled \subseteq 0..(ordinal - 1)
      BY <2>2 DEF Balanced, Fits
    <3>2. S \subseteq Settled \cup I /\ I \cap O = {}
      BY <1>10, <1>11, <2>4
    <3>3. Waiting(pending') = W /\ Marks(buf') = O
      BY <2>2
    <3> HIDE DEF O, I, W, S
    <3>4. O \cap W = {} /\ (O \cup W) \cap S = {} /\ O \cup W \cup S \subseteq 0..(ordinal - 1)
      BY <3>1, <3>2
    <3>5. /\ Apart(buf') /\ IsFiniteSet(pending')
          /\ \A p, q \in pending' : p.obs.ord = q.obs.ord => p = q
      BY <2>2 DEF Balanced, Fits
    <3>6. QED
      BY <3>3, <3>4, <3>5 DEF Fits, S
  <2>6. ordinal = Outside' + Load(buf') + P + coalesced
    <3>1. Counts(writing) = 0
      BY <1>15, CountsOfNone
    <3> HIDE DEF A, B, P
    <3>2. QED
      BY <1>6, <1>12, <1>13, <1>14, <2>3, <3>1
  <2>7. QED
    BY <1>8, <2>5, <2>6 DEF Balanced
<1>16. CASE G = writing /\ buf' = buf
  <2>1. Settled' \subseteq Settled
    <3>1. Ids(G) \subseteq Settled
      <4>1. G \subseteq OfRun(gapRows \cup writing \cup op.gaps)
        BY <1>4, <1>16 DEF OfRun
      <4>2. QED
        BY <4>1 DEF Settled, Ids
    <3>2. QED
      BY <1>10, <1>11, <3>1
  <2>2. Fits(buf, pending, ordinal)'
    BY <1>16, <2>1 DEF Balanced, Fits
  <2>3. ordinal = Outside' + Load(buf') + P + coalesced
    <3>1. Load(buf') = Load(buf) /\ Counts(writing) = Counts(writing') + Counts({g})
      BY <1>6, <1>16
    <3> HIDE DEF A, B, P
    <3>2. QED
      BY <1>6, <1>12, <1>13, <1>14, <3>1
  <2>4. QED
    BY <1>8, <2>2, <2>3 DEF Balanced
<1>17. QED
  BY <1>15, <1>16

\* A batch taken out of the queue is counted on its way.
LEMMA BatchTaken ==
    ASSUME Base, Durable, Quiet, Provenance, Outset, Reckoned, Balanced,
           writer \in {"run", "gap"}, writer = "gap" => op.state = "ok",
           writing = {}, TakeBatch(buf),
           UNCHANGED <<run, archived, gapRows, ordinal, coalesced, pending>>
    PROVE  Balanced'
<1>1. op.rows = {} /\ op.gaps \subseteq gapRows /\ FlyingRows = {} /\ FlyingGaps = {}
  BY NothingFlies
<1>2. /\ Apart(buf') /\ buf'.gaps = buf.gaps /\ writing' = {}
      /\ op'.gaps = {} /\ op'.state \in {"queued", "idle"}
      /\ op'.state = "idle" => op'.rows = {}
      /\ IsFiniteSet(op'.rows)
      /\ Cardinality(op'.rows) + Len(buf'.queue) = Len(buf.queue)
      /\ \A x \in op'.rows :
            x.run = run /\ x.ord \in Ords(buf.queue) /\ x.ord \notin Ords(buf'.queue)
      /\ Ords(buf'.queue) \subseteq Ords(buf.queue)
  BY TakeBatchCounts DEF Balanced, Fits
<1>3. FlyingRows' = op'.rows /\ FlyingGaps' = {}
  BY <1>2 DEF FlyingRows, FlyingGaps
<1>4. Marks(buf') \subseteq Marks(buf) /\ Ords(buf.queue) \subseteq Marks(buf)
  BY <1>2 DEF Marks
<1>5. \A x \in op'.rows : x.ord \notin Settled
  BY <1>2, <1>4 DEF Balanced, Fits
<1>6. op'.rows \cap archived = {}
  <2>1. \A x \in archived : x.run = run => x.ord \in Settled
    BY DEF Settled, OfRun
  <2>2. QED
    BY <1>2, <1>5, <2>1
<1>7. Disjoint'
  BY <1>2, <1>3, <1>6, FS_EmptySet DEF Disjoint
<1>8. Settled' \subseteq Settled \cup {x.ord : x \in op'.rows}
  <2>1. OfRun(archived \cup op.rows)' \subseteq OfRun(archived \cup op.rows) \cup op'.rows
    BY DEF OfRun
  <2>2. OfRun(gapRows \cup writing \cup op.gaps)' \subseteq OfRun(gapRows \cup writing \cup op.gaps)
    BY <1>2 DEF OfRun
  <2>3. QED
    BY <2>1, <2>2 DEF Settled, Ids
<1>9. \A x \in op'.rows : x.ord \notin Marks(buf') /\ x.ord \notin Waiting(pending)
  <2>1. Marks(buf') = Ords(buf'.queue) \cup Ids(buf.gaps)
    BY <1>2 DEF Marks
  <2>2. Ords(buf.queue) \cap Ids(buf.gaps) = {}
    BY DEF Balanced, Fits, Apart
  <2>3. Ords(buf.queue) \cap Waiting(pending) = {}
    BY <1>4 DEF Balanced, Fits
  <2>4. QED
    BY <1>2, <2>1, <2>2, <2>3
<1>10. Fits(buf, pending, ordinal)'
  <2> DEFINE M == Marks(buf)
             N == Marks(buf')
             W == Waiting(pending)
             S == Settled'
             O == {x.ord : x \in op'.rows}
  <2>1. /\ M \cap W = {} /\ (M \cup W) \cap Settled = {}
        /\ M \cup W \cup Settled \subseteq 0..(ordinal - 1)
    BY DEF Balanced, Fits
  <2>2. O \subseteq M /\ O \cap N = {} /\ O \cap W = {}
    BY <1>2, <1>4, <1>9
  <2>3. N \subseteq M /\ S \subseteq Settled \cup O
    BY <1>4, <1>8
  <2>4. Waiting(pending') = W
    OBVIOUS
  <2>5. /\ Apart(buf') /\ IsFiniteSet(pending')
        /\ \A p, q \in pending' : p.obs.ord = q.obs.ord => p = q
    BY <1>2 DEF Balanced, Fits
  <2> HIDE DEF M, N, W, S, O
  <2>6. N \cap W = {} /\ (N \cup W) \cap S = {} /\ N \cup W \cup S \subseteq 0..(ordinal - 1)
    BY <2>1, <2>2, <2>3
  <2>7. QED
    BY <2>4, <2>5, <2>6 DEF Fits, N, S
<1> DEFINE A == Cardinality(OfRun(archived))
           B == Counts(OfRun(gapRows))
           P == Cardinality(pending)
           R == Cardinality(op'.rows)
           G == Counts(buf.gaps)
<1>11. /\ A \in Nat /\ B \in Nat /\ P \in Nat /\ coalesced \in Nat
  BY PartsAreNatural
<1>12. ordinal = A + 0 + B + 0 + 0 + (Len(buf.queue) + G) + P + coalesced
  <2>1. Cardinality(FlyingRows) = 0 /\ Counts(FlyingGaps) = 0 /\ Counts(writing) = 0
    BY <1>1, FS_EmptySet, CountsOfNone
  <2>2. QED
    BY <2>1 DEF Balanced, Outside, Load
<1>13. Outside' = A + R + B + 0 + 0
  <2>1. OfRun(archived)' = OfRun(archived) /\ OfRun(gapRows)' = OfRun(gapRows)
    BY DEF OfRun
  <2>2. Outside' = Cardinality(OfRun(archived)') + Cardinality(FlyingRows')
                      + Counts(OfRun(gapRows)') + Counts(FlyingGaps') + Counts(writing')
    BY DEF Outside
  <2>3. Counts(FlyingGaps') = 0 /\ Counts(writing') = 0
    BY <1>2, <1>3, CountsOfNone
  <2>4. QED
    BY <1>3, <2>1, <2>2, <2>3
<1>14. Load(buf') = Len(buf'.queue) + G
  BY <1>2 DEF Load
<1>15. R \in Nat /\ Len(buf'.queue) \in Nat /\ G \in Nat
  <2>1. R \in Nat
    BY <1>2, FS_CardinalityType
  <2>2. Len(buf'.queue) \in Nat
    BY TakeBatchType, LenProperties DEF Holds, Buffer
  <2>3. G \in Nat
    BY CountsAreTokens DEF Balanced, Fits, Apart, Base, TypeOK, Buffer
  <2>4. QED
    BY <2>1, <2>2, <2>3
<1>16. ordinal = Outside' + Load(buf') + P + coalesced
  <2> DEFINE l == Len(buf'.queue)
             k == Len(buf.queue)
  <2>1. R + l = k /\ l \in Nat
    BY <1>2, <1>15
  <2> HIDE DEF A, B, P, R, G, l, k
  <2>2. ordinal = A + 0 + B + 0 + 0 + (k + G) + P + coalesced
    BY <1>12 DEF k
  <2>3. Outside' = A + R + B + 0 + 0 /\ Load(buf') = l + G
    BY <1>13, <1>14 DEF l
  <2>4. QED
    BY <1>11, <1>15, <2>1, <2>2, <2>3
<1>17. QED
  BY <1>7, <1>10, <1>16 DEF Balanced

\* Nothing more is taken, given to the archive, or written by it.
LEMMA BalanceKept ==
    ASSUME Balanced,
           UNCHANGED <<run, archived, gapRows, writing, ordinal, coalesced, pending>>,
           buf'.queue = buf.queue, buf'.gaps = buf.gaps,
           \/ op' = op
           \/ op'.rows = {} /\ op'.gaps = {} /\ FlyingRows = {} /\ FlyingGaps = {}
    PROVE  Balanced'
<1>1. FlyingRows' = FlyingRows /\ FlyingGaps' = FlyingGaps
  BY DEF FlyingRows, FlyingGaps
<1>2. op'.rows \subseteq op.rows /\ op'.gaps \subseteq op.gaps
  OBVIOUS
<1>3. Settled' \subseteq Settled
  BY <1>2 DEF Settled, Ids, OfRun
<1>4. /\ Marks(buf') = Marks(buf) /\ Load(buf') = Load(buf)
      /\ Apart(buf') <=> Apart(buf)
  BY DEF Marks, Load, Apart
<1>5. Fits(buf, pending, ordinal)'
  BY <1>3, <1>4 DEF Balanced, Fits
<1>6. Disjoint'
  BY <1>1, <1>2 DEF Balanced, Disjoint
<1>7. Outside' = Outside
  <2>1. OfRun(archived)' = OfRun(archived) /\ OfRun(gapRows)' = OfRun(gapRows)
    BY DEF OfRun
  <2>2. QED
    BY <1>1, <2>1, Zenon DEF Outside
<1>8. QED
  BY <1>4, <1>5, <1>6, <1>7 DEF Balanced

\* What is received, or flushed, is counted where it is put.
LEMMA TakesBalance ==
    ASSUME Base, Base', Provenance, Outset, Balanced,
           NEW n \in Nat, Takes(n), ordinal' = ordinal + n,
           UNCHANGED <<run, archived, gapRows, writing, op>>
    PROVE  Balanced'
<1>1. Settled' = Settled
  BY DEF Settled, OfRun
<1>2. Fits(buf, pending, ordinal)'
  BY <1>1 DEF Takes, Fits
<1>3. Disjoint'
  BY DEF Balanced, Disjoint, FlyingRows, FlyingGaps
<1>4. Outside' = Outside
  BY DEF Outside, OfRun, FlyingRows, FlyingGaps
<1>5. Outside \in Nat /\ Load(buf) \in Nat /\ Cardinality(pending) \in Nat /\ coalesced \in Nat
  BY PartsAreNatural DEF Outside
<1> DEFINE x == Load(buf') + Cardinality(pending') + coalesced'
<1>6. x = Load(buf) + Cardinality(pending) + coalesced + n
  BY DEF Takes
<1>7. ordinal' = Outside + x
  <2>1. ordinal = Outside + Load(buf) + Cardinality(pending) + coalesced
    BY DEF Balanced
  <2> HIDE DEF x
  <2>2. QED
    BY <1>5, <1>6, <2>1
<1>8. Load(buf') \in Nat /\ Cardinality(pending') \in Nat /\ coalesced' \in Nat
  <2>1. Holds(buf', run)
    BY DEF Base, TypeOK, Ownership, Holds
  <2>2. Apart(buf') /\ IsFiniteSet(pending')
    BY DEF Takes, Fits
  <2>3. Load(buf') \in Nat
    BY <2>1, <2>2, LoadIsNatural
  <2>4. QED
    BY <2>2, <2>3, FS_CardinalityType DEF Base, TypeOK
<1>9. ordinal' = Outside' + Load(buf') + Cardinality(pending') + coalesced'
  BY <1>4, <1>5, <1>7, <1>8
<1>10. QED
  BY <1>2, <1>3, <1>9 DEF Balanced

\* The archive writes what was on its way, once.
LEMMA ExecuteBalance ==
    ASSUME Base, Custody, Quiet, Provenance, Outset, Reckoned, Balanced, Execute,
           op'.state # "error"
    PROVE  Balanced'
<1> USE DEF clockVars, memoryVars
<1> DEFINE R == op.rows
           G == op.gaps
<1>1. /\ UNCHANGED <<run, buf, pending, ordinal, coalesced, writing>>
      /\ op.state = "queued" /\ op'.state = "ok" /\ op'.rows = R /\ op'.gaps = G
  BY DEF Execute, Base, TypeOK, Operation
<1>2. FlyingRows = R /\ FlyingGaps = G /\ FlyingRows' = {} /\ FlyingGaps' = {}
  BY <1>1 DEF FlyingRows, FlyingGaps
<1>3. archived' = archived \cup R /\ gapRows' = gapRows \cup G
  BY DEF Execute, RecoverEffect, BeginEffect, GapEffect, CommitEffect, FinishEffect, Quiet
<1>4. (\A x \in R : x.run = run) /\ (\A g \in G : g.run = run)
  BY <1>1 DEF Custody, Quiet
<1> HIDE DEF R, G
<1>5. OfRun(archived)' = OfRun(archived) \cup R /\ OfRun(gapRows)' = OfRun(gapRows) \cup G
  BY <1>1, <1>3, <1>4 DEF OfRun
<1>6. Settled' = Settled
  <2>1. OfRun(archived \cup op.rows)' = OfRun(archived \cup op.rows)
    BY <1>1, <1>3 DEF OfRun, R
  <2>2. OfRun(gapRows \cup writing \cup op.gaps)' = OfRun(gapRows \cup writing \cup op.gaps)
    BY <1>1, <1>3 DEF OfRun, G
  <2>3. QED
    BY <2>1, <2>2 DEF Settled
<1>7. Fits(buf, pending, ordinal)'
  BY <1>1, <1>6 DEF Balanced, Fits
<1>8. Disjoint'
  BY <1>1, <1>2, <1>3 DEF Balanced, Disjoint, G
<1> DEFINE A == OfRun(archived)
           B == OfRun(gapRows)
<1>9. A \cap R = {} /\ B \cap G = {}
  BY <1>2 DEF Balanced, Disjoint, OfRun
<1>10. /\ IsFiniteSet(A) /\ Cardinality(A) \in Nat /\ IsFiniteSet(R) /\ Cardinality(R) \in Nat
       /\ B \in SUBSET Gap /\ IsFiniteSet(B) /\ Counts(B) \in Nat
       /\ G \in SUBSET Gap /\ IsFiniteSet(G) /\ Counts(G) \in Nat
       /\ Counts(writing) \in Nat
  BY <1>2, PartsAreNatural, Zenon
<1>11. Cardinality(OfRun(archived)') = Cardinality(A) + Cardinality(R)
  <2> HIDE DEF A
  <2>1. Cardinality(A \cup R) = Cardinality(A) + Cardinality(R) - Cardinality(A \cap R)
    BY <1>10, FS_Union
  <2>2. Cardinality(A \cap R) = 0
    BY <1>9, FS_EmptySet, Zenon
  <2>3. Cardinality(A \cup R) = Cardinality(A) + Cardinality(R)
    BY <1>10, <2>1, <2>2
  <2>4. QED
    BY <1>5, <2>3, Zenon DEF A
<1>12. Counts(OfRun(gapRows)') = Counts(B) + Counts(G)
  <2> HIDE DEF B
  <2>1. Counts(B \cup G) = Counts(B) + Counts(G)
    BY <1>9, <1>10, CountsAdd
  <2>2. QED
    BY <1>5, <2>1, Zenon DEF B
<1>13. Outside' = Outside
  <2> DEFINE a == Cardinality(A)
             b == Counts(B)
             r == Cardinality(R)
             g == Counts(G)
             w == Counts(writing)
  <2>1. Outside = a + r + b + g + w
    BY <1>2, Zenon DEF Outside
  <2>2. Outside' = (a + r) + 0 + (b + g) + 0 + w
    <3>1. Cardinality(FlyingRows') = 0 /\ Counts(FlyingGaps') = 0
      BY <1>2, FS_EmptySet, CountsOfNone
    <3>2. Outside' = Cardinality(OfRun(archived)') + Cardinality(FlyingRows')
                      + Counts(OfRun(gapRows)') + Counts(FlyingGaps') + Counts(writing')
      BY DEF Outside
    <3>3. writing' = writing
      BY <1>1
    <3>4. QED
      BY <1>11, <1>12, <3>1, <3>2, <3>3, Zenon
  <2>3. a \in Nat /\ b \in Nat /\ r \in Nat /\ g \in Nat /\ w \in Nat
    BY <1>10
  <2> HIDE DEF a, b, r, g, w
  <2>4. QED
    BY <2>1, <2>2, <2>3
<1>14. QED
  BY <1>1, <1>7, <1>8, <1>13 DEF Balanced

\* A supervisor starts with nothing anywhere.
LEMMA StartedBalance ==
    ASSUME Base, Succession, Provenance, Outset, Started
    PROVE  Balanced'
<1>1. /\ pending = {} /\ buf.queue = <<>> /\ buf.gaps = {} /\ writing = {}
      /\ ordinal = 0 /\ coalesced = 0 /\ status = "starting"
  BY DEF Started, Base, Idle, Control, Outset
<1>2. /\ op'.rows = {} /\ op'.gaps = {} /\ op'.state = "idle"
      /\ UNCHANGED <<run, buf, pending, ordinal, coalesced, writing, archived, gapRows>>
  BY DEF Started, NoOp, policyVars, archiveVars
<1>3. FlyingRows' = {} /\ FlyingGaps' = {}
  BY <1>2 DEF FlyingRows, FlyingGaps
<1>4. OfRun(archived) = {} /\ OfRun(gapRows) = {}
  BY <1>1 DEF OfRun, Succession, Provenance, Outset
<1>5. Settled' = {}
  <2>1. OfRun(archived \cup op.rows)' = {} /\ OfRun(gapRows \cup writing \cup op.gaps)' = {}
    BY <1>1, <1>2, <1>4 DEF OfRun
  <2>2. QED
    BY <2>1 DEF Settled, Ids
<1>6. DOMAIN buf'.queue = {} /\ Len(buf'.queue) = 0 /\ buf'.gaps = {}
  BY <1>1, <1>2
<1>7. Marks(buf') = {} /\ Apart(buf') /\ Load(buf') = 0
  <2>1. Ords(buf'.queue) = {} /\ Ids(buf'.gaps) = {}
    BY <1>6 DEF Ords, Ids
  <2>2. Counts(buf'.gaps) = 0 /\ IsFiniteSet(buf'.gaps)
    BY <1>6, CountsOfNone, FS_EmptySet
  <2>3. QED
    BY <1>6, <2>1, <2>2 DEF Marks, Apart, Separate, Load
<1>8. pending' = {} /\ Waiting(pending') = {} /\ IsFiniteSet(pending') /\ Cardinality(pending') = 0
  BY <1>1, <1>2, FS_EmptySet DEF Waiting
<1>9. Fits(buf, pending, ordinal)'
  BY <1>5, <1>7, <1>8 DEF Fits
<1>10. Disjoint'
  BY <1>1, <1>2, <1>3, FS_EmptySet DEF Disjoint
<1>11. Outside' = 0
  <2>1. OfRun(archived)' = {} /\ OfRun(gapRows)' = {} /\ writing' = {}
    BY <1>1, <1>2, <1>4 DEF OfRun
  <2>2. Cardinality({}) = 0 /\ Counts({}) = 0
    BY FS_EmptySet, CountsOfNone
  <2>3. Outside' = Cardinality(OfRun(archived)') + Cardinality(FlyingRows')
                      + Counts(OfRun(gapRows)') + Counts(FlyingGaps') + Counts(writing')
    BY DEF Outside
  <2>4. QED
    BY <1>3, <2>1, <2>2, <2>3
<1>12. QED
  BY <1>1, <1>2, <1>7, <1>8, <1>9, <1>10, <1>11 DEF Balanced

-----------------------------------------------------------------------------
(* ... is an invariant *)

\* The writer submits one command at a time and gives up after a failed one.
LEMMA QuietNext ==
    ASSUME Base, Draining, Quiet, [Next]_vars
    PROVE  Quiet'
<1> USE DEF clockVars, intakeVars, policyVars, writerVars, stopVars, archiveVars, memoryVars
<1>1. CASE Open \/ CreateSupervisor
  BY <1>1 DEF Open, CreateSupervisor, Command, Quiet, Live
<1>2. CASE Started
  BY <1>2 DEF Started, NoOp, Quiet
<1>3. CASE Unloaded \/ Crash
  BY <1>3 DEF Unloaded, Crash, ForgetMemory, NoOp, Quiet
<1>4. CASE BatchCommitted \/ WriterFails
  BY <1>4 DEF BatchCommitted, WriterFails, NoOp, Quiet
<1>5. CASE WriterTakes \/ GapRecorded
  <2>1. ASSUME NEW G, RecordGap(G)
        PROVE  Quiet'
    BY <2>1 DEF RecordGap, Command, Quiet
  <2>2. CASE TakeBatch(buf)
    <3>1. \/ op' = NoOp
          \/ writer' = "commit" /\ \E rows : op' = Command("commit", rows, {})
      BY <2>2, Zenon DEF TakeBatch
    <3>2. QED
      BY <3>1 DEF NoOp, Command, Quiet
  <2>3. QED
    BY <1>5, <2>1, <2>2 DEF WriterTakes, GapRecorded
<1>6. CASE StopDrained
  BY <1>6 DEF StopDrained, Command, Quiet, Live, Base, Control
<1>7. CASE Execute \/ RollBack
  <2>1. /\ UNCHANGED <<status, failed, writer, stopPc>> /\ op.state = "queued"
        /\ op'.kind = op.kind /\ op'.rows = op.rows /\ op'.gaps = op.gaps
    BY <1>7 DEF Execute, RollBack, Base, TypeOK, Operation
  <2>2. op.kind # "none"
    BY <2>1 DEF Quiet
  <2>3. Live => op.kind \in {"gap", "commit", "finish"}
    BY <2>2 DEF Live, Draining, Base, Control, TypeOK, Operation
  <2>4. Live => writer \in {"gap", "commit"} \/ stopPc = "finish"
    BY <2>1, <2>3 DEF Quiet, Draining
  <2>5. QED
    BY <2>1, <2>2, <2>4 DEF Quiet, Live
<1>8. CASE StopTimesOut \/ StopDuringStart \/ StartFails \/ ArchiveUnavailable
  BY <1>8 DEF StopTimesOut, StopDuringStart, StartFails, ArchiveUnavailable, Quiet, Live
<1>9. CASE WriterIdle \/ WriterWakes
  BY <1>9 DEF WriterIdle, WriterWakes, Quiet, Live
<1>10. CASE StopBegins
  BY <1>10 DEF StopBegins, Quiet, Live, Draining
<1>11. CASE StopFlushes \/ StopFlushed \/ StopFinishes
  BY <1>11 DEF StopFlushes, StopFlushed, StopFinishes, Quiet, Live, Draining
<1>12. CASE Observe \/ TimerFires \/ Tick \/ UNCHANGED recordVars
  BY <1>12 DEF Observe, ObserveTransition, ObserveRegular, ObservePrediction, Admit,
               TimerFires, Tick, recordVars, Quiet, Live
<1>13. QED
  BY <1>1, <1>2, <1>3, <1>4, <1>5, <1>6, <1>7, <1>8, <1>9, <1>10, <1>11, <1>12
     DEF Next, NormalizationFails, vars, Start, Write, Stop, Archive

\* A run number is used once, and its supervisor starts with empty counters.
LEMMA OutsetNext ==
    ASSUME Base, Draining, Succession, Policy, Custody, Quiet, Outset, [Next]_vars
    PROVE  Outset'
<1> USE DEF clockVars, intakeVars, policyVars, writerVars, stopVars, archiveVars, memoryVars
<1>e. IsFiniteSet({}) /\ \A g : IsFiniteSet({g})
  BY FS_EmptySet, FS_Singleton
<1>1. CASE CreateSupervisor
  <2>1. /\ run' = run + 1 /\ gapRows' = gapRows /\ op'.gaps = {}
        /\ ordinal' = ordinal /\ coalesced' = coalesced /\ status = "opening"
    BY <1>1 DEF CreateSupervisor, Command
  <2>2. run \in Nat /\ \A g \in gapRows : g.run \in Nat /\ g.run <= run
    BY DEF Base, TypeOK, Gap, Runs, Outset
  <2>3. \A g \in gapRows : g.run <= run + 1 /\ g.run # run + 1
    BY <2>2
  <2>4. QED
    BY <1>e, <2>1, <2>3 DEF Outset
<1>2. CASE Open \/ ArchiveUnavailable \/ Started \/ StartFails
  BY <1>2, <1>e DEF Open, ArchiveUnavailable, Started, StartFails, Command, NoOp, Outset
<1>3. CASE Unloaded \/ Crash
  <2>1. /\ op'.gaps = {} /\ UNCHANGED <<run, gapRows>> /\ status' = "down"
        /\ ordinal' = 0 /\ coalesced' = 0
    BY <1>3 DEF Unloaded, Crash, ForgetMemory, NoOp
  <2>2. QED
    BY <1>e, <2>1 DEF Outset
<1>4. CASE BatchCommitted \/ WriterFails
  <2>1. op'.gaps = {} /\ UNCHANGED <<run, gapRows, ordinal, coalesced>>
    BY <1>4 DEF BatchCommitted, WriterFails, NoOp
  <2>2. status' \in {"down", "opening", "unavailable", "starting"} => status' = status
    BY <1>4 DEF BatchCommitted, WriterFails
  <2>3. QED
    BY <1>e, <2>1, <2>2 DEF Outset
<1>5. CASE WriterTakes \/ GapRecorded
  <2>1. /\ UNCHANGED <<status, run, gapRows, ordinal, coalesced>>
    BY <1>5 DEF WriterTakes, GapRecorded
  <2>2. ASSUME NEW G, RecordGap(G)
        PROVE  IsFiniteSet(op'.gaps)
    <3>1. PICK g \in G : op' = Command("gap", {}, {g})
      BY <2>2 DEF RecordGap
    <3>2. QED
      BY <1>e, <3>1 DEF Command
  <2>3. CASE TakeBatch(buf)
    <3>1. op' = NoOp \/ \E rows : op' = Command("commit", rows, {})
      BY <2>3, Zenon DEF TakeBatch
    <3>2. op'.gaps = {}
      BY <3>1 DEF NoOp, Command
    <3>3. QED
      BY <1>e, <2>1, <3>2 DEF Outset
  <2>4. QED
    BY <1>5, <2>1, <2>2, <2>3 DEF WriterTakes, GapRecorded, Outset
<1>6. CASE StopDrained
  BY <1>6, <1>e DEF StopDrained, Command, Outset, Base, Idle
<1>7. CASE RollBack
  BY <1>7 DEF RollBack, Base, TypeOK, Operation, Outset
<1>8. CASE Execute
  <2>1. /\ UNCHANGED <<status, run, ordinal, coalesced>> /\ op.state = "queued"
        /\ op'.gaps = op.gaps
    BY <1>8 DEF Execute, Base, TypeOK, Operation
  <2>2. gapRows' = gapRows \/ (op.kind = "gap" /\ gapRows' = gapRows \cup op.gaps)
    BY <1>8 DEF Execute, RecoverEffect, BeginEffect, GapEffect, CommitEffect, FinishEffect
  <2>3. CASE gapRows' = gapRows
    BY <2>1, <2>3 DEF Outset
  <2>4. CASE op.kind = "gap" /\ gapRows' = gapRows \cup op.gaps
    <3>1. status # "starting"
      BY <2>4 DEF Base, Control
    <3>2. \A g \in op.gaps : g.run = run
      BY <2>1, <2>4 DEF Custody
    <3>3. IsFiniteSet(gapRows \cup op.gaps)
      BY FS_Union DEF Outset
    <3>4. run \in Nat
      BY DEF Base, TypeOK
    <3>5. \A g \in gapRows' : g.run <= run
      BY <2>4, <3>2, <3>4 DEF Outset
    <3>6. IsFiniteSet(gapRows') /\ IsFiniteSet(op'.gaps)
      BY <2>1, <2>4, <3>3, Zenon DEF Outset
    <3>7. QED
      BY <2>1, <3>1, <3>5, <3>6 DEF Outset
  <2>5. QED
    BY <2>2, <2>3, <2>4
<1>9. CASE Observe
  <2>1. PICK r \in Observation : Receives /\ Admit(r)
    BY <1>9, ReceivedRecord
  <2>2. status = "ready"
    BY <2>1 DEF Receives, Base, Control
  <2>3. UNCHANGED <<status, run, gapRows, op>>
    BY <2>1 DEF Admit
  <2>4. QED
    BY <2>2, <2>3 DEF Outset
<1>10. CASE TimerFires \/ Tick \/ WriterIdle \/ WriterWakes \/ UNCHANGED recordVars
  BY <1>10 DEF TimerFires, Tick, WriterIdle, WriterWakes, recordVars, Outset
<1>11. CASE StopBegins \/ StopFlushes \/ StopFlushed \/ StopTimesOut \/ StopFinishes \/ StopDuringStart
  BY <1>11 DEF StopBegins, StopFlushes, StopFlushed, StopTimesOut, StopFinishes, StopDuringStart,
               Outset
<1>12. QED
  BY <1>1, <1>2, <1>3, <1>4, <1>5, <1>6, <1>7, <1>8, <1>9, <1>10, <1>11
     DEF Next, NormalizationFails, vars, Start, Write, Stop, Archive

\* An observation that was not received before has the next ordinal.
LEMMA ReceivedNext ==
    ASSUME Base, Draining, Succession, Policy, Provenance, Outset, Received, [Next]_vars
    PROVE  Received'
<1> USE DEF clockVars, intakeVars, policyVars, writerVars, stopVars, archiveVars, memoryVars
<1>1. CASE Observe
  <2>1. PICK r \in Observation : Receives /\ Admit(r) /\ r.run = run /\ r.ord = ordinal
    BY <1>1, ReceivedRecord
  <2>2. Live
    BY <2>1 DEF Receives, Live, Base, Control
  <2> DEFINE S == OfRun(admitted)
  <2>3. r \notin S /\ S \in SUBSET admitted /\ Cardinality(S) = ordinal
    BY <2>1, <2>2 DEF Policy, OfRun, Received, Base, TypeOK
  <2>4. OfRun(admitted)' = S \cup {r}
    BY <2>1 DEF Admit, OfRun
  <2>5. ordinal' = ordinal + 1
    BY <2>1 DEF Admit
  <2> HIDE DEF S
  <2>6. IsFiniteSet(S)
    BY <2>3, FS_Subset DEF Provenance
  <2>7. Cardinality(S \cup {r}) = Cardinality(S) + 1
    BY <2>3, <2>6, FS_AddElement
  <2>8. Cardinality(OfRun(admitted)') = ordinal'
    BY <2>3, <2>4, <2>5, <2>7, Zenon
  <2>9. QED
    BY <2>8 DEF Received
<1>2. CASE Started
  <2>1. OfRun(admitted)' = {} /\ ordinal' = 0
    BY <1>2 DEF Started, OfRun, Succession, Outset
  <2>2. QED
    BY <2>1, FS_EmptySet DEF Received
<1>3. CASE UNCHANGED <<run, admitted, ordinal>> /\ (Live' => Live)
  BY <1>3 DEF Received, OfRun
<1>4. CASE Open \/ CreateSupervisor \/ ArchiveUnavailable \/ StartFails
  BY <1>4 DEF Open, CreateSupervisor, ArchiveUnavailable, StartFails, Live, Received
<1>5. CASE TimerFires \/ Archive \/ Tick \/ UNCHANGED recordVars
  BY <1>3, <1>5 DEF TimerFires, Archive, Execute, RollBack, Tick, recordVars, Live
<1>6. CASE Write
  BY <1>3, <1>6 DEF Write, WriterIdle, WriterWakes, WriterTakes, GapRecorded, BatchCommitted,
                    WriterFails, Live
<1>7. CASE StopBegins
  BY <1>3, <1>7 DEF StopBegins, Live, Draining
<1>8. CASE Unloaded \/ Crash
  BY <1>8 DEF Unloaded, Crash, ForgetMemory, Live, Received
<1>9. CASE StopFlushes \/ StopFlushed \/ StopDrained \/ StopTimesOut \/ StopFinishes \/ StopDuringStart
  BY <1>3, <1>9 DEF StopFlushes, StopFlushed, StopDrained, StopTimesOut, StopFinishes,
                    StopDuringStart, Live
<1>10. QED
  BY <1>1, <1>2, <1>4, <1>5, <1>6, <1>7, <1>8, <1>9 DEF Next, NormalizationFails, vars, Start, Stop

\* Only a finished stop ends in "stopped", and there everything is at rest.
LEMMA ClosedNext ==
    ASSUME Base, Draining, Closed, [Next]_vars
    PROVE  Closed'
<1> USE DEF clockVars, intakeVars, policyVars, writerVars, stopVars, archiveVars, memoryVars
<1>1. CASE StopFinishes
  <2>1. ~attached /\ pending = {} /\ writer = "done" /\ ~failed
    BY <1>1 DEF StopFinishes, Draining, Live, Base, Control
  <2>2. QED
    BY <1>1, <2>1 DEF StopFinishes, Closed
<1>2. CASE Start \/ Unloaded \/ Crash
  BY <1>2 DEF Start, Open, CreateSupervisor, ArchiveUnavailable, Started, StartFails,
              Unloaded, Crash, ForgetMemory, Closed
<1>3. CASE Observe
  <2>1. Receives /\ status' = status
    BY <1>3 DEF Observe, ObserveTransition, ObserveRegular, ObservePrediction, Admit
  <2>2. QED
    BY <2>1 DEF Receives, Base, Control, Closed
<1>4. CASE TimerFires
  BY <1>4 DEF TimerFires, Closed
<1>5. CASE Write
  BY <1>5 DEF Write, WriterIdle, WriterWakes, WriterTakes, GapRecorded, BatchCommitted,
              WriterFails, Closed
<1>6. CASE Archive \/ Tick \/ UNCHANGED recordVars
  BY <1>6 DEF Archive, Execute, RollBack, Tick, recordVars, Closed
<1>7. CASE StopBegins \/ StopFlushes \/ StopFlushed \/ StopDrained \/ StopTimesOut \/ StopDuringStart
  BY <1>7 DEF StopBegins, StopFlushes, StopFlushed, StopDrained, StopTimesOut, StopDuringStart, Closed
<1>8. QED
  BY <1>1, <1>2, <1>3, <1>4, <1>5, <1>6, <1>7 DEF Next, NormalizationFails, vars, Stop

\* A supervisor that works, and whose commands succeed, did so before.
LEMMA ReckonedBefore ==
    ASSUME Base, Draining, Quiet, [Next]_vars, ~Started, Reckoned'
    PROVE  Reckoned
<1> USE DEF clockVars, intakeVars, policyVars, writerVars, stopVars, archiveVars, memoryVars
<1>1. CASE UNCHANGED <<status, failed, op>>
  BY <1>1 DEF Reckoned, Live
<1>2. CASE Open \/ CreateSupervisor \/ ArchiveUnavailable \/ StartFails
  BY <1>2 DEF Open, CreateSupervisor, ArchiveUnavailable, StartFails, Live, Reckoned
<1>3. CASE Observe \/ TimerFires \/ Tick \/ UNCHANGED recordVars
  BY <1>1, <1>3 DEF Observe, ObserveTransition, ObserveRegular, ObservePrediction, Admit,
                    TimerFires, Tick, recordVars
<1>4. CASE Archive
  BY <1>4 DEF Archive, Execute, RollBack, Reckoned, Live
<1>5. CASE WriterTakes
  BY <1>5 DEF WriterTakes, Reckoned, Live, Quiet, Draining
<1>6. CASE GapRecorded \/ BatchCommitted
  BY <1>6 DEF GapRecorded, BatchCommitted, Reckoned, Live
<1>7. CASE WriterIdle \/ WriterWakes
  BY <1>1, <1>7 DEF WriterIdle, WriterWakes
<1>8. CASE WriterFails \/ StopTimesOut \/ StopDuringStart \/ Unloaded \/ Crash
  BY <1>8 DEF WriterFails, StopTimesOut, StopDuringStart, Unloaded, Crash, ForgetMemory,
              Reckoned, Live
<1>9. CASE StopBegins
  BY <1>9 DEF StopBegins, Reckoned, Live, Draining
<1>10. CASE StopDrained
  BY <1>10 DEF StopDrained, Reckoned, Live, Quiet
<1>11. CASE StopFlushes \/ StopFlushed \/ StopFinishes
  BY <1>1, <1>11 DEF StopFlushes, StopFlushed, StopFinishes, Reckoned, Live
<1>12. QED
  BY <1>2, <1>3, <1>4, <1>5, <1>6, <1>7, <1>8, <1>9, <1>10, <1>11
     DEF Next, NormalizationFails, vars, Start, Write, Stop

\* Every step of a supervisor that works moves what it counted, or counts what is new.
LEMMA BalancedNext ==
    ASSUME Base, Base', Draining, Succession, Policy, Durable, Custody, Provenance,
           Quiet, Outset, Reckoned => Balanced, [Next]_vars, Reckoned'
    PROVE  Balanced'
<1> USE DEF clockVars, intakeVars, policyVars, writerVars, stopVars, archiveVars, memoryVars
<1>1. CASE Started
  BY <1>1, StartedBalance
<1>2. SUFFICES ASSUME ~Started PROVE Balanced'
  BY <1>1
<1>3. Reckoned /\ Balanced /\ Live /\ ~failed
  BY <1>2, ReckonedBefore DEF Reckoned, Live
<1>4. run' = run
  BY <1>3, RunKept DEF CreateSupervisor, Live
<1>5. CASE Open \/ CreateSupervisor \/ ArchiveUnavailable \/ StartFails
  BY <1>5 DEF Open, CreateSupervisor, ArchiveUnavailable, StartFails, Live, Reckoned
<1>6. CASE Execute
  BY <1>3, <1>6, ExecuteBalance DEF Reckoned
<1>7. CASE RollBack
  <2>1. op'.state = "rejected" /\ op.kind = "recover"
    BY <1>7 DEF RollBack, Reckoned, Base, TypeOK, Operation
  <2>2. QED
    BY <1>3, <2>1 DEF Live, Draining, Base, Control
<1>8. CASE Observe
  <2>1. Takes(1) /\ \E r \in Observation : Admit(r)
    BY <1>3, <1>8, ObserveTakes DEF Balanced
  <2>2. ordinal' = ordinal + 1 /\ UNCHANGED <<run, archived, gapRows, writing, op>>
    BY <2>1 DEF Admit
  <2>3. QED
    BY <1>3, <2>1, <2>2, TakesBalance
<1>9. CASE TimerFires \/ StopFlushes
  <2>1. PICK p \in pending : Flush(p)
    BY <1>9 DEF TimerFires, StopFlushes
  <2>2. UNCHANGED <<run, archived, gapRows, writing, op, ordinal, coalesced>>
    BY <1>9 DEF TimerFires, StopFlushes
  <2>3. ~stopping
    BY <2>1 DEF Draining
  <2>4. Takes(0)
    BY <1>3, <2>1, <2>2, <2>3, FlushTakes DEF Balanced
  <2>5. ordinal' = ordinal + 0
    BY <2>2 DEF Base, TypeOK
  <2>6. QED
    BY <1>3, <2>2, <2>4, <2>5, TakesBalance
<1>10. CASE WriterTakes
  <2>1. writer = "run" /\ writing = {} /\ UNCHANGED <<run, archived, gapRows, ordinal, coalesced, pending>>
    BY <1>10 DEF WriterTakes, Base, Control
  <2>2. CASE RecordGap(buf.gaps) /\ buf' = [buf EXCEPT !.gaps = {}]
    BY <1>3, <2>1, <2>2, GapTaken
  <2>3. CASE TakeBatch(buf)
    BY <1>3, <2>1, <2>3, BatchTaken
  <2>4. QED
    BY <1>10, <2>2, <2>3 DEF WriterTakes
<1>11. CASE GapRecorded
  <2>1. /\ writer = "gap" /\ op.state = "ok"
        /\ UNCHANGED <<run, archived, gapRows, ordinal, coalesced, pending>>
    BY <1>11 DEF GapRecorded
  <2>2. CASE RecordGap(writing) /\ buf' = buf
    BY <1>3, <2>1, <2>2, GapTaken
  <2>3. CASE writing = {} /\ TakeBatch(buf)
    BY <1>3, <2>1, <2>3, BatchTaken
  <2>4. QED
    BY <1>11, <2>2, <2>3 DEF GapRecorded
<1>12. CASE WriterFails \/ StopTimesOut \/ StopDuringStart \/ Unloaded \/ Crash
  BY <1>12 DEF WriterFails, StopTimesOut, StopDuringStart, Unloaded, Crash, ForgetMemory,
               Reckoned, Live
<1>13. CASE BatchCommitted
  <2>1. FlyingRows = {} /\ FlyingGaps = {} /\ op'.rows = {} /\ op'.gaps = {}
    BY <1>13 DEF BatchCommitted, NoOp, FlyingRows, FlyingGaps
  <2>2. QED
    BY <1>3, <1>13, <2>1, BalanceKept DEF BatchCommitted
<1>14. CASE StopDrained
  <2>1. op.kind \notin {"gap", "commit"}
    BY <1>3, <1>14 DEF StopDrained, Quiet
  <2>2. FlyingRows = {} /\ FlyingGaps = {}
    BY <2>1 DEF Quiet, FlyingRows, FlyingGaps
  <2>3. op'.rows = {} /\ op'.gaps = {}
    BY <1>3, <1>14 DEF StopDrained, Command
  <2>4. QED
    BY <1>3, <1>14, <2>2, <2>3, BalanceKept DEF StopDrained
<1>15. CASE WriterIdle \/ StopFlushed
  <2>1. buf'.queue = buf.queue /\ buf'.gaps = buf.gaps
    BY <1>15 DEF WriterIdle, StopFlushed, Base, TypeOK, Buffer
  <2>2. QED
    BY <1>3, <1>15, <2>1, BalanceKept DEF WriterIdle, StopFlushed
<1>16. CASE WriterWakes \/ StopBegins \/ StopFinishes
  BY <1>3, <1>16, BalanceKept DEF WriterWakes, StopBegins, StopFinishes
<1>17. CASE Tick \/ UNCHANGED recordVars
  BY <1>3, <1>17, BalanceKept DEF Tick, recordVars
<1>18. QED
  BY <1>2, <1>5, <1>6, <1>7, <1>8, <1>9, <1>10, <1>11, <1>12, <1>13, <1>14, <1>15, <1>16, <1>17
     DEF Next, NormalizationFails, vars, Start, Write, Stop, Archive

\* What is stopped clean has nothing on its way: the sum is that of the evidence.
LEMMA StoppedReconciles ==
    ASSUME Base, Draining, Provenance, Outset, Reckoned => Balanced, Received,
           stopPc = "finish", op.state = "ok"
    PROVE  Cardinality(OfRun(admitted)) =
               Cardinality(OfRun(archived)) + Counts(OfRun(gapRows)) + coalesced
<1>1. /\ Live /\ writer = "done" /\ stopping /\ pending = {} /\ writing = {}
      /\ buf.queue = <<>> /\ buf.gaps = {}
  BY DEF Draining, Live, Base, Control
<1>2. Balanced /\ Cardinality(OfRun(admitted)) = ordinal
  BY <1>1 DEF Reckoned, Received
<1>3. FlyingRows = {} /\ FlyingGaps = {}
  BY DEF FlyingRows, FlyingGaps
<1>4. Cardinality({}) = 0 /\ Counts({}) = 0
  BY FS_EmptySet, CountsOfNone
<1>5. Load(buf) = 0
  BY <1>1, <1>4 DEF Load
<1> DEFINE A == Cardinality(OfRun(archived))
           B == Counts(OfRun(gapRows))
<1>6. A \in Nat /\ B \in Nat /\ coalesced \in Nat
  BY <1>2, PartsAreNatural
<1>7. ordinal = A + 0 + B + 0 + 0 + 0 + 0 + coalesced
  BY <1>1, <1>2, <1>3, <1>4, <1>5 DEF Balanced, Outside
<1> HIDE DEF A, B
<1>8. ordinal = A + B + coalesced
  BY <1>6, <1>7
<1>9. QED
  BY <1>2, <1>8 DEF A, B

\* The sum is complete when the run is closed, and does not change afterwards.
LEMMA ReconcilesNext ==
    ASSUME Base, Draining, Provenance, Outset, Reckoned => Balanced, Received, Closed,
           CleanRunReconciles, [Next]_vars
    PROVE  CleanRunReconciles'
<1> USE DEF clockVars, intakeVars, policyVars, writerVars, stopVars, archiveVars, memoryVars
<1>1. CASE StopFinishes /\ op.state = "ok"
  <2>1. /\ UNCHANGED <<run, admitted, archived, gapRows, coalesced>>
        /\ stopPc = "finish" /\ op.state = "ok"
    BY <1>1 DEF StopFinishes
  <2>2. Cardinality(OfRun(admitted)) =
            Cardinality(OfRun(archived)) + Counts(OfRun(gapRows)) + coalesced
    BY <2>1, StoppedReconciles
  <2>3. OfRun(admitted)' = OfRun(admitted) /\ OfRun(archived)' = OfRun(archived)
            /\ OfRun(gapRows)' = OfRun(gapRows)
    BY <2>1 DEF OfRun
  <2>4. QED
    BY <2>1, <2>2, <2>3 DEF CleanRunReconciles
<1>2. CASE status' = "stopped" => /\ status = "stopped"
                                  /\ UNCHANGED <<run, admitted, archived, gapRows, coalesced>>
  <2>1. status' = "stopped" =>
            /\ OfRun(admitted)' = OfRun(admitted) /\ OfRun(archived)' = OfRun(archived)
            /\ OfRun(gapRows)' = OfRun(gapRows)
    BY <1>2 DEF OfRun
  <2>2. QED
    BY <1>2, <2>1 DEF CleanRunReconciles
<1>3. CASE Start \/ Unloaded \/ Crash \/ (StopFinishes /\ op.state # "ok")
  BY <1>2, <1>3 DEF Start, Open, CreateSupervisor, ArchiveUnavailable, Started, StartFails,
                    Unloaded, Crash, ForgetMemory, StopFinishes
<1>4. CASE Observe
  <2>1. Receives /\ status' = status
    BY <1>4 DEF Observe, ObserveTransition, ObserveRegular, ObservePrediction, Admit
  <2>2. status' # "stopped"
    BY <2>1 DEF Receives, Base, Control
  <2>3. QED
    BY <1>2, <2>2
<1>5. CASE TimerFires \/ Archive
  BY <1>2, <1>5 DEF TimerFires, Archive, Execute, RollBack, Closed
<1>6. CASE Write
  BY <1>2, <1>6 DEF Write, WriterIdle, WriterWakes, WriterTakes, GapRecorded, BatchCommitted,
                    WriterFails, Closed
<1>7. CASE Tick \/ UNCHANGED recordVars
  BY <1>2, <1>7 DEF Tick, recordVars
<1>8. CASE StopBegins \/ StopFlushes \/ StopFlushed \/ StopDrained \/ StopTimesOut \/ StopDuringStart
  BY <1>2, <1>8 DEF StopBegins, StopFlushes, StopFlushed, StopDrained, StopTimesOut,
                    StopDuringStart, Closed
<1>9. QED
  BY <1>1, <1>3, <1>4, <1>5, <1>6, <1>7, <1>8 DEF Next, NormalizationFails, vars, Stop

\* The inductive invariant holds in the initial states ...
LEMMA SumInit == Init => SumInv
<1>1. Init => LedgerInv /\ Provenance
  BY LedgerInvInit, FS_EmptySet DEF Init, NoOp, Provenance
<1>2. Init => Quiet /\ Outset
  BY FS_EmptySet DEF Init, NoMemory, NoOp, Quiet, Outset, Live
<1>3. Init => ~Reckoned /\ Received /\ Closed /\ CleanRunReconciles
  BY DEF Init, Reckoned, Live, Received, Closed, CleanRunReconciles
<1>4. QED
  BY <1>1, <1>2, <1>3 DEF SumInv

\* ... and every step preserves it.
LEMMA SumNext ==
    ASSUME SumInv, [Next]_vars
    PROVE  SumInv'
<1>1. /\ Base /\ Draining /\ Succession /\ Policy /\ Durable /\ Custody /\ Provenance
      /\ Quiet /\ Outset /\ (Reckoned => Balanced) /\ Received /\ Closed /\ CleanRunReconciles
  BY DEF SumInv, LedgerInv, CaptureInv
<1>2. LedgerInv' /\ Base'
  BY LedgerInvNext DEF SumInv, LedgerInv, CaptureInv
<1>3. Provenance' /\ Quiet' /\ Outset'
  BY <1>1, ProvenanceNext, QuietNext, OutsetNext
<1>4. Reckoned' => Balanced'
  BY <1>1, <1>2, BalancedNext
<1>5. Received' /\ Closed' /\ CleanRunReconciles'
  BY <1>1, ReceivedNext, ClosedNext, ReconcilesNext
<1>6. QED
  BY <1>2, <1>3, <1>4, <1>5 DEF SumInv

\* The evidence of a run that stopped clean is exact, whatever was dropped, coalesced
\* or batched on the way: archived rows, counted drops and coalesced points add up to
\* the records made of what was received (_enqueue, _note_drop, _record_regular and async_stop of
\* local_capture.py).
THEOREM CleanRunsReconcile == Spec => []CleanRunReconciles
<1>1. Spec => []SumInv
  BY SumInit, SumNext, PTL DEF Spec
<1>2. SumInv => CleanRunReconciles
  BY DEF SumInv
<1>3. QED
  BY <1>1, <1>2, PTL

=============================================================================
