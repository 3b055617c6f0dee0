----------------------- MODULE ArchiveDatabaseProofs -----------------------
(***************************************************************************)
(* For every number of loads and crashes: at most one writer thread works on *)
(* the archive, a load is refused as busy only while an earlier archive      *)
(* object still holds the path, a manifest blesses a complete bundle unless  *)
(* its own unlink failed, an archive that was ready stays openable, and a    *)
(* writer that exits has answered every command.                             *)
(***************************************************************************)
EXTENDS ArchiveDatabase, TLAPS

\* The part of the state the ownership guard is about, with its types.
GuardType ==
    /\ guard \in BOOLEAN
    /\ load \in 0..MaxLoads
    /\ th \in [Loads -> WriterPcs]
    /\ owns \in [Loads -> BOOLEAN]
    /\ start \in [Loads -> StartStates]
    /\ stop \in [Loads -> StopStates]

\* The guard is held exactly by the one archive object that owns the path.
GuardOwned ==
    /\ guard <=> \E i \in Loads : owns[i]
    /\ \A i, j \in Loads : owns[i] /\ owns[j] => i = j

\* A thread at work is owned; one whose stop has joined it is gone.
ThreadsOwned ==
    /\ \A i \in Loads : Alive(i) => owns[i]
    /\ \A i \in Loads : stop[i] = "pool" => th[i] = "none"

\* Only the current load is not asked to stop; a stopped one owns nothing.
StopOrder ==
    /\ \A i \in Loads : i > load => stop[i] = "no"  /\ ~owns[i]
    /\ \A i \in Loads : i < load => stop[i] # "no"
    /\ \A i \in Loads : stop[i] \in {"stopped", "gone"} => ~owns[i]

GuardInv == GuardType /\ GuardOwned /\ ThreadsOwned /\ StopOrder

\* The step of a writer thread, as the guard sees it: one live thread moves on.
ThreadStep(i) ==
    /\ Alive(i)
    /\ \E to \in WriterPcs \ {"none"} : th' = [th EXCEPT ![i] = to]
    /\ UNCHANGED <<guard, load, owns, start, stop>>

LEMMA InitGuardInv == ASSUME Init PROVE GuardInv
<1>1. /\ guard = FALSE /\ load = 0
      /\ th = [i \in Loads |-> "none"] /\ owns = [i \in Loads |-> FALSE]
      /\ start = [i \in Loads |-> "none"] /\ stop = [i \in Loads |-> "no"]
  BY DEF Init
<1>2. GuardType
  <2>1. load \in 0..MaxLoads
    BY <1>1, ArchiveAssumption
  <2>2. th \in [Loads -> WriterPcs] /\ owns \in [Loads -> BOOLEAN]
    BY <1>1 DEF WriterPcs
  <2>3. start \in [Loads -> StartStates] /\ stop \in [Loads -> StopStates]
    BY <1>1 DEF StartStates, StopStates
  <2> QED
    BY <1>1, <2>1, <2>2, <2>3 DEF GuardType
<1>3. GuardOwned /\ ThreadsOwned /\ StopOrder
  BY <1>1, ArchiveAssumption DEF GuardOwned, ThreadsOwned, StopOrder, Alive, Loads
<1> QED
  BY <1>2, <1>3 DEF GuardInv

\* Every action of the writer is a thread step, or leaves the guard's state alone.
LEMMA WriterIsThreadStep ==
  ASSUME GuardType, NEW i \in Loads, Writer(i)
  PROVE  ThreadStep(i) \/ UNCHANGED <<guard, load, th, owns, start, stop>>
<1> USE DEF GuardType, ThreadStep, Alive, WriterPcs, Advance, Refuse, ThreadOnly, objectVars
<1>1. CASE Open(i)
  BY <1>1 DEF Open
<1>2. CASE ReplaceBinding(i)
  BY <1>2 DEF ReplaceBinding
<1>3. CASE Connect(i)
  BY <1>3 DEF Connect
<1>4. CASE InstallSchema(i)
  BY <1>4 DEF InstallSchema
<1>5. CASE ReadExisting(i)
  BY <1>5 DEF ReadExisting
<1>6. CASE Migrate(i)
  BY <1>6 DEF Migrate
<1>7. CASE Execute(i)
  BY <1>7 DEF Execute, threadVars
<1>8. CASE TakeStop(i)
  BY <1>8 DEF TakeStop
<1>9. CASE Checkpoint(i)
  BY <1>9 DEF Checkpoint
<1>10. CASE Exit(i)
  BY <1>10 DEF Exit
<1> QED
  BY <1>1, <1>2, <1>3, <1>4, <1>5, <1>6, <1>7, <1>8, <1>9, <1>10 DEF Writer

LEMMA ThreadStepKeeps ==
  ASSUME GuardInv, NEW i \in Loads, ThreadStep(i)
  PROVE  GuardInv'
<1> USE DEF GuardInv, ThreadStep
<1>1. GuardType'
  BY DEF GuardType
<1>2. GuardOwned'
  BY DEF GuardOwned
<1>3. ThreadsOwned'
  BY DEF ThreadsOwned, Alive, GuardType
<1>4. StopOrder'
  BY DEF StopOrder
<1> QED
  BY <1>1, <1>2, <1>3, <1>4

\* Giving up the guard of an object whose thread is gone.
LEMMA ReleaseKeeps ==
  ASSUME GuardInv, NEW i \in Loads, ReleaseGuard(i)
  PROVE  guard' \in BOOLEAN /\ owns' \in [Loads -> BOOLEAN] /\ GuardOwned' /\ ~owns'[i]
BY DEF GuardInv, GuardType, GuardOwned, ReleaseGuard

LEMMA LoadKeeps ==
  ASSUME GuardInv, Load
  PROVE  GuardInv'
<1> DEFINE i == load + 1
<1> USE ArchiveAssumption DEF GuardInv
<1>1. i \in Loads /\ load \in Nat /\ load' = i
  BY DEF Load, GuardType, Loads
<1>2. stop' = stop
  BY DEF Load
<1>3. \A j \in Loads : j < i => stop[j] # "no"
  BY <1>1 DEF Load, StopOrder, Loads
<1>4. CASE guard
  <2>1. guard' = guard /\ th' = th /\ owns' = owns /\ start' = [start EXCEPT ![i] = "busy"]
    BY <1>4 DEF Load
  <2>2. GuardType'
    BY <1>1, <1>2, <2>1 DEF GuardType, StartStates, Loads
  <2>3. GuardOwned' /\ ThreadsOwned'
    BY <1>2, <2>1 DEF GuardOwned, ThreadsOwned, Alive
  <2>4. StopOrder'
    BY <1>1, <1>2, <1>3, <2>1 DEF StopOrder, Loads
  <2> QED
    BY <2>2, <2>3, <2>4
<1>5. CASE ~guard
  <2>1. /\ guard' = TRUE
        /\ owns' = [owns EXCEPT ![i] = TRUE]
        /\ th' = [th EXCEPT ![i] = "open"]
        /\ start' = [start EXCEPT ![i] = "opening"]
    BY <1>5 DEF Load
  <2>2. \A j \in Loads : ~owns[j]
    BY <1>5 DEF GuardOwned
  <2>3. GuardType'
    BY <1>1, <1>2, <2>1 DEF GuardType, StartStates, WriterPcs, Loads
  <2>4. owns'[i] /\ \A j \in Loads : j # i => ~owns'[j]
    BY <1>1, <2>1, <2>2 DEF GuardType
  <2>5. GuardOwned'
    BY <1>1, <2>1, <2>4 DEF GuardOwned
  <2>6. stop[i] = "no"
    BY <1>1 DEF StopOrder, Loads
  <2>7. ThreadsOwned'
    BY <1>1, <1>2, <2>1, <2>2, <2>4, <2>6 DEF ThreadsOwned, Alive, GuardType
  <2>8. StopOrder'
    BY <1>1, <1>2, <1>3, <2>2, <2>4, <2>6 DEF StopOrder, Loads
  <2> QED
    BY <2>3, <2>5, <2>7, <2>8
<1> QED
  BY <1>4, <1>5

guardVars == <<guard, load, th, owns, start, stop>>

LEMMA StutterKeeps ==
  ASSUME GuardInv, UNCHANGED guardVars
  PROVE  GuardInv'
BY DEF GuardInv, GuardType, GuardOwned, ThreadsOwned, StopOrder, Alive, guardVars

\* Steps of the event loop that only move the start or the stop of one load on.
LEMMA ProgressKeeps ==
  ASSUME GuardInv, NEW i \in Loads, i <= load,
         start' \in [Loads -> StartStates],
         NEW to \in StopStates \ {"no", "stopped", "gone"},
         \/ stop' = stop
         \/ stop' = [stop EXCEPT ![i] = to] /\ (to = "pool" => th[i] = "none"),
         UNCHANGED <<guard, load, th, owns>>
  PROVE  GuardInv'
<1> USE ArchiveAssumption DEF GuardInv
<1>1. GuardType'
  BY DEF GuardType
<1>2. GuardOwned'
  BY DEF GuardOwned
<1>3. ThreadsOwned'
  BY DEF ThreadsOwned, Alive, GuardType
<1>4. load \in Nat /\ Loads \subseteq Nat
  BY DEF GuardType, Loads
<1>5. StopOrder'
  BY <1>4 DEF StopOrder, GuardType
<1> QED
  BY <1>1, <1>2, <1>3, <1>5

\* A load that has begun to start, or to stop, is not one still to come.
LEMMA Begun ==
  ASSUME GuardInv, NEW i \in Loads, owns[i] \/ stop[i] # "no"
  PROVE  i <= load
<1>1. load \in Nat /\ i \in Nat
  BY ArchiveAssumption DEF GuardInv, GuardType, Loads
<1> QED
  BY <1>1 DEF GuardInv, StopOrder

LEMMA StartFailedKeeps ==
  ASSUME GuardInv, NEW i \in Loads, StartFailed(i)
  PROVE  GuardInv'
<1>1. /\ start' = [start EXCEPT ![i] = "failed"] /\ UNCHANGED <<load, stop>>
  BY DEF StartFailed
<1>2. CASE th[i] = "dead"
  <2>1. th' = [th EXCEPT ![i] = "none"] /\ ReleaseGuard(i)
    BY <1>2 DEF StartFailed
  <2>2. guard' \in BOOLEAN /\ owns' \in [Loads -> BOOLEAN] /\ GuardOwned' /\ ~owns'[i]
    BY <2>1, ReleaseKeeps
  <2>3. owns' = [owns EXCEPT ![i] = FALSE]
    BY <2>1 DEF ReleaseGuard
  <2>4. GuardType'
    BY <1>1, <2>1, <2>2 DEF GuardInv, GuardType, WriterPcs, StartStates
  <2>5. ThreadsOwned'
    BY <1>1, <2>1, <2>3 DEF GuardInv, GuardType, ThreadsOwned, Alive
  <2>6. StopOrder'
    BY <1>1, <2>3 DEF GuardInv, GuardType, StopOrder
  <2> QED
    BY <2>2, <2>4, <2>5, <2>6 DEF GuardInv
<1>3. CASE th[i] # "dead"
  <2>1. UNCHANGED <<th, owns, guard>>
    BY <1>3 DEF StartFailed
  <2> QED
    BY <1>1, <2>1 DEF GuardInv, GuardType, GuardOwned, ThreadsOwned, StopOrder, Alive, StartStates
<1> QED
  BY <1>2, <1>3

LEMMA JoinedKeeps ==
  ASSUME GuardInv, NEW i \in Loads, Joined(i)
  PROVE  GuardInv'
<1>1. i <= load /\ stop[i] = "join"
  BY Begun DEF Joined
<1>2. CASE th[i] = "dead"
  <2>1. /\ th' = [th EXCEPT ![i] = "none"] /\ stop' = [stop EXCEPT ![i] = "pool"]
        /\ UNCHANGED <<guard, load, owns, start>>
    BY <1>2 DEF Joined
  <2>2. GuardType'
    BY <2>1 DEF GuardInv, GuardType, WriterPcs, StopStates
  <2>3. GuardOwned' /\ ThreadsOwned'
    BY <2>1 DEF GuardInv, GuardType, GuardOwned, ThreadsOwned, Alive
  <2>4. load \in Nat /\ i \in Nat
    BY ArchiveAssumption DEF GuardInv, GuardType, Loads
  <2>5. StopOrder'
    BY <1>1, <2>1, <2>4 DEF GuardInv, GuardType, StopOrder
  <2> QED
    BY <2>2, <2>3, <2>5 DEF GuardInv
<1>3. CASE th[i] # "dead"
  <2>1. stop' = [stop EXCEPT ![i] = "fenced"] /\ UNCHANGED <<th, guard, load, owns, start>>
    BY <1>3 DEF Joined
  <2>2. start' \in [Loads -> StartStates] /\ "fenced" \in StopStates \ {"no", "stopped", "gone"}
    BY <2>1 DEF GuardInv, GuardType, StopStates
  <2> QED
    BY <1>1, <2>1, <2>2, ProgressKeeps
<1> QED
  BY <1>2, <1>3

LEMMA PoolShutKeeps ==
  ASSUME GuardInv, NEW i \in Loads, PoolShut(i)
  PROVE  GuardInv'
<1>1. i <= load /\ stop[i] = "pool" /\ UNCHANGED <<load, th, start>>
  BY Begun DEF PoolShut, threadVars
<1>2. CASE shut[i] = "error"
  <2>1. stop' = [stop EXCEPT ![i] = "fenced"] /\ UNCHANGED <<guard, owns>>
    BY <1>2 DEF PoolShut
  <2>2. start' \in [Loads -> StartStates] /\ "fenced" \in StopStates \ {"no", "stopped", "gone"}
    BY <1>1 DEF GuardInv, GuardType, StopStates
  <2> QED
    BY <1>1, <2>1, <2>2, ProgressKeeps
<1>3. CASE shut[i] # "error"
  <2>1. stop' = [stop EXCEPT ![i] = "stopped"] /\ ReleaseGuard(i)
    BY <1>3 DEF PoolShut
  <2>2. guard' \in BOOLEAN /\ owns' \in [Loads -> BOOLEAN] /\ GuardOwned' /\ ~owns'[i]
    BY <2>1, ReleaseKeeps
  <2>3. owns' = [owns EXCEPT ![i] = FALSE]
    BY <2>1 DEF ReleaseGuard
  <2>4. GuardType'
    BY <1>1, <2>1, <2>2 DEF GuardInv, GuardType, StopStates
  <2>5. ThreadsOwned'
    BY <1>1, <2>1, <2>3 DEF GuardInv, GuardType, ThreadsOwned, Alive
  <2>6. load \in Nat /\ i \in Nat
    BY ArchiveAssumption DEF GuardInv, GuardType, Loads
  <2>7. StopOrder'
    BY <1>1, <2>1, <2>3, <2>6 DEF GuardInv, GuardType, StopOrder
  <2> QED
    BY <2>2, <2>4, <2>5, <2>7 DEF GuardInv
<1> QED
  BY <1>2, <1>3

LEMMA CrashKeeps ==
  ASSUME GuardInv, Crash
  PROVE  GuardInv'
<1>1. /\ guard' = FALSE /\ load' = load
      /\ th' = [i \in Loads |-> "none"]
      /\ owns' = [i \in Loads |-> FALSE]
      /\ start' = [i \in Loads |-> IF i <= load THEN "gone" ELSE start[i]]
      /\ stop' = [i \in Loads |-> IF i <= load THEN "gone" ELSE stop[i]]
  BY DEF Crash
<1>2. GuardType'
  BY <1>1 DEF GuardInv, GuardType, WriterPcs, StartStates, StopStates
<1>3. GuardOwned'
  BY <1>1 DEF GuardOwned
<1>4. load \in Nat /\ Loads \subseteq Nat
  BY ArchiveAssumption DEF GuardInv, GuardType, Loads
<1>5. ThreadsOwned'
  BY <1>1 DEF ThreadsOwned, Alive
<1>6. StopOrder'
  BY <1>1, <1>4 DEF GuardInv, StopOrder
<1> QED
  BY <1>2, <1>3, <1>5, <1>6 DEF GuardInv

LEMMA AskStopKeeps ==
  ASSUME GuardInv, NEW i \in Loads, AskStop(i)
  PROVE  GuardInv'
<1>1. /\ i = load /\ stop' = [stop EXCEPT ![i] = "asked"]
      /\ start' = [start EXCEPT ![i] = IF @ \in {"opening", "joining"} THEN "cut" ELSE @]
      /\ UNCHANGED <<guard, load, th, owns>>
  BY DEF AskStop, threadVars
<1>2. start' \in [Loads -> StartStates] /\ "asked" \in StopStates \ {"no", "stopped", "gone"}
  BY <1>1 DEF GuardInv, GuardType, StartStates, StopStates
<1>3. i <= load
  BY <1>1, ArchiveAssumption DEF GuardInv, GuardType, Loads
<1> QED
  BY <1>1, <1>2, <1>3, ProgressKeeps

LEMMA PutStopKeeps ==
  ASSUME GuardInv, NEW i \in Loads, PutStop(i)
  PROVE  GuardInv'
<1>1. i <= load
  BY Begun DEF PutStop
<1>2. start' = start /\ UNCHANGED <<guard, load, th, owns>>
  BY DEF PutStop, threadVars
<1>3. \E to \in {"pool", "join"} : stop' = [stop EXCEPT ![i] = to] /\ (to = "pool" => th[i] = "none")
  BY DEF PutStop
<1>4. start' \in [Loads -> StartStates] /\ {"pool", "join"} \subseteq StopStates \ {"no", "stopped", "gone"}
  BY <1>2 DEF GuardInv, GuardType, StopStates
<1> QED
  BY <1>1, <1>2, <1>3, <1>4, ProgressKeeps

\* StartReady and StartRefused only record the outcome of the init future.
LEMMA StartMovesKeep ==
  ASSUME GuardInv, NEW i \in Loads, StartReady(i) \/ StartRefused(i)
  PROVE  GuardInv'
<1>1. \E to \in {"ready", "joining"} : start' = [start EXCEPT ![i] = to]
  BY DEF StartReady, StartRefused
<1>2. UNCHANGED <<guard, load, th, owns, stop>>
  BY DEF StartReady, StartRefused, threadVars
<1>3. start' \in [Loads -> StartStates]
  BY <1>1 DEF GuardInv, GuardType, StartStates
<1> QED
  BY <1>2, <1>3 DEF GuardInv, GuardType, GuardOwned, ThreadsOwned, StopOrder, Alive

LEMMA BackupsStutter ==
  ASSUME NEW b \in Bundles, RequestBackup(b) \/ Backup(b)
  PROVE  UNCHANGED guardVars
<1>1. BackupOnly
  BY DEF RequestBackup, Backup, OpenCopy, CopyPages, CopyBinding, WriteManifest,
         SyncManifest, UndoBackup
<1> QED
  BY <1>1 DEF BackupOnly, guardVars, threadVars, objectVars

LEMMA NextKeepsGuardInv ==
  ASSUME GuardInv, [Next]_vars
  PROVE  GuardInv'
<1>1. CASE Load
  BY <1>1, LoadKeeps
<1>2. CASE Crash
  BY <1>2, CrashKeeps
<1>3. ASSUME NEW i \in Loads, Writer(i)
      PROVE  GuardInv'
  BY <1>3, WriterIsThreadStep, ThreadStepKeeps, StutterKeeps DEF GuardInv, guardVars
<1>4. ASSUME NEW i \in Loads, EventLoop(i)
      PROVE  GuardInv'
  <2>1. CASE StartReady(i) \/ StartRefused(i)
    BY <2>1, StartMovesKeep
  <2>2. CASE StartFailed(i)
    BY <2>2, StartFailedKeeps
  <2>3. CASE SeeFailure(i)
    BY <2>3, StutterKeeps DEF SeeFailure, guardVars, threadVars
  <2>4. CASE PutStop(i)
    BY <2>4, PutStopKeeps
  <2>5. CASE Joined(i)
    BY <2>5, JoinedKeeps
  <2>6. CASE PoolShut(i)
    BY <2>6, PoolShutKeeps
  <2> QED
    BY <1>4, <2>1, <2>2, <2>3, <2>4, <2>5, <2>6 DEF EventLoop
<1>5. ASSUME NEW i \in Loads, AskStop(i)
      PROVE  GuardInv'
  BY <1>5, AskStopKeeps
<1>6. ASSUME NEW i \in Loads, NEW w \in Writes, Submit(i, w)
      PROVE  GuardInv'
  BY <1>6, StutterKeeps DEF Submit, guardVars, threadVars
<1>7. ASSUME NEW b \in Bundles, RequestBackup(b) \/ Backup(b)
      PROVE  GuardInv'
  BY <1>7, BackupsStutter, StutterKeeps
<1>8. CASE UNCHANGED vars
  BY <1>8, StutterKeeps DEF vars, guardVars, threadVars, objectVars
<1> QED
  BY <1>1, <1>2, <1>3, <1>4, <1>5, <1>6, <1>7, <1>8 DEF Next

LEMMA SpecGuardInv == Spec => []GuardInv
BY InitGuardInv, NextKeepsGuardInv, PTL DEF Spec

-----------------------------------------------------------------------------
\* One writer per archive and process, for any number of overlapping loads,
\* failed or cancelled starts, hanging threads and crashes (_acquire_guard).
THEOREM OneWriterHolds == Spec => []OneWriter
<1>1. GuardInv => OneWriter
  BY DEF GuardInv, GuardOwned, ThreadsOwned, OneWriter
<1> QED
  BY <1>1, SpecGuardInv, PTL

\* Only Load refuses as busy, and then an object of an earlier load has the path.
LEMMA BusyStep ==
  ASSUME GuardInv, [Next]_vars, NEW i \in Loads, start'[i] = "busy", start[i] # "busy"
  PROVE  \E j \in 1..(i - 1) : stop[j] \in {"asked", "join", "pool", "fenced"}
<1>1. ASSUME NEW k \in Loads, NEW to, to # "busy", start' = [start EXCEPT ![k] = to]
      PROVE  FALSE
  BY <1>1 DEF GuardInv, GuardType
<1>2. start' # start
  OBVIOUS
<1>3. CASE Load
  <2> DEFINE n == load + 1
  <2>1. n \in Loads /\ load \in Nat
    BY <1>3, ArchiveAssumption DEF Load, GuardInv, GuardType, Loads
  <2>2. guard
    <3> SUFFICES ASSUME ~guard PROVE FALSE
      OBVIOUS
    <3>1. start' = [start EXCEPT ![n] = "opening"]
      BY <1>3 DEF Load
    <3> QED
      BY <1>1, <2>1, <3>1
  <2>3. start' = [start EXCEPT ![n] = "busy"] /\ (load > 0 => stop[load] # "no")
    BY <1>3, <2>2 DEF Load
  <2>4. i = n
    BY <2>1, <2>3 DEF GuardInv, GuardType
  <2>5. PICK j \in Loads : owns[j]
    BY <2>2 DEF GuardInv, GuardOwned
  <2>6. j \in Nat /\ j <= load /\ j > 0
    BY <2>5, ArchiveAssumption, Begun DEF Loads
  <2>7. stop[j] \notin {"no", "stopped", "gone"}
    BY <2>1, <2>3, <2>5, <2>6 DEF GuardInv, StopOrder
  <2>8. stop[j] \in {"asked", "join", "pool", "fenced"}
    BY <2>7 DEF GuardInv, GuardType, StopStates
  <2>9. j \in 1..(i - 1)
    BY <2>1, <2>4, <2>6
  <2> QED
    BY <2>8, <2>9
<1>4. CASE Crash
  BY <1>4 DEF Crash
<1>5. ASSUME NEW k \in Loads, Writer(k)
      PROVE  FALSE
  BY <1>2, <1>5, WriterIsThreadStep DEF ThreadStep, GuardInv
<1>6. ASSUME NEW k \in Loads, EventLoop(k)
      PROVE  FALSE
  <2>1. \/ start' = start
        \/ \E to \in {"ready", "joining", "failed"} : start' = [start EXCEPT ![k] = to]
    BY <1>6 DEF EventLoop, StartReady, StartRefused, StartFailed, SeeFailure, PutStop,
                Joined, PoolShut
  <2> QED
    BY <1>1, <1>2, <2>1
<1>7. ASSUME NEW k \in Loads, AskStop(k)
      PROVE  FALSE
  BY <1>7 DEF AskStop, GuardInv, GuardType
<1>8. ASSUME NEW k \in Loads, NEW w \in Writes, Submit(k, w)
      PROVE  FALSE
  BY <1>2, <1>8 DEF Submit
<1>9. ASSUME NEW b \in Bundles, RequestBackup(b) \/ Backup(b)
      PROVE  FALSE
  BY <1>2, <1>9, BackupsStutter DEF guardVars
<1>10. CASE UNCHANGED vars
  BY <1>2, <1>10 DEF vars, objectVars
<1> QED
  BY <1>3, <1>4, <1>5, <1>6, <1>7, <1>8, <1>9, <1>10 DEF Next

\* A reload is never refused once the earlier archive objects were stopped.
THEOREM BusyOnlyWhileOwnedHolds == Spec => BusyOnlyWhileOwned
<1>1. GuardInv /\ [Next]_vars =>
        [\A i \in Loads : start'[i] = "busy" /\ start[i] # "busy" =>
            \E j \in 1..(i - 1) : stop[j] \in {"asked", "join", "pool", "fenced"}]_vars
  BY BusyStep
<1> QED
  BY <1>1, SpecGuardInv, PTL DEF Spec, BusyOnlyWhileOwned

-----------------------------------------------------------------------------
\* What each stage of a backup has on disk.
Stage(b) ==
    /\ bundle[b].manifest => Validates(b) \/ bundle[b].kept
    /\ bundle[b].pc \in {"new", "open", "copy", "bind", "bless"} => ~bundle[b].manifest
    /\ bundle[b].pc \in {"bind", "bless"} => bundle[b].db = "whole"
    /\ bundle[b].pc = "bless" => bundle[b].bind
    /\ bundle[b].pc \in {"unbind", "drop"} /\ bundle[b].manifest => bundle[b].kept

Committed ==
    /\ rows \in SUBSET Writes
    /\ queue \in [Loads -> Seq(Writes \cup {Stop})]

BundleInv ==
    /\ Committed
    /\ bundle \in [Bundles -> Job]
    /\ \A b \in Bundles : Stage(b)

\* A step of one backup keeps the invariant when it keeps that backup's part.
LEMMA OneBundle ==
  ASSUME BundleInv, NEW b \in Bundles, NEW new \in Job,
         bundle' = [bundle EXCEPT ![b] = new], Committed', Stage(b)'
  PROVE  BundleInv'
<1>1. bundle' \in [Bundles -> Job]
  BY DEF BundleInv
<1>2. \A c \in Bundles : c # b => bundle'[c] = bundle[c]
  BY DEF BundleInv
<1>3. \A c \in Bundles : Stage(c)'
  BY <1>2 DEF BundleInv, Stage, Validates
<1> QED
  BY <1>1, <1>3 DEF BundleInv

LEMMA RequestKeepsBundles ==
  ASSUME BundleInv, load \in 0..MaxLoads, NEW b \in Bundles, RequestBackup(b)
  PROVE  BundleInv'
<1> DEFINE new == [bundle[b] EXCEPT !.pc = "open", !.by = load]
<1>1. bundle' = [bundle EXCEPT ![b] = new] /\ Committed' /\ bundle[b].pc = "new"
  BY DEF RequestBackup, BackupOnly, fileVars, objectVars, BundleInv, Committed
<1>2. bundle[b] \in Job /\ Stage(b)
  BY DEF BundleInv
<1>3. new \in Job
  BY <1>2 DEF Job, JobPcs
<1>4. bundle'[b] = new
  BY <1>1 DEF BundleInv
<1>5. Stage(b)'
  BY <1>1, <1>2, <1>4 DEF Stage, Validates, Job
<1> QED
  BY <1>1, <1>3, <1>5, OneBundle

LEMMA BackupKeepsBundles ==
  ASSUME BundleInv, NEW b \in Bundles, Backup(b)
  PROVE  BundleInv'
<1> DEFINE old == bundle[b]
<1>1. old \in Job /\ Stage(b) /\ rows \in SUBSET Writes
  BY DEF BundleInv, Committed
<1>2. Committed'
  <2>1. BackupOnly
    BY DEF Backup, OpenCopy, CopyPages, CopyBinding, WriteManifest, SyncManifest, UndoBackup
  <2> QED
    BY <2>1 DEF BackupOnly, fileVars, objectVars, BundleInv, Committed
<1>3. ASSUME NEW new \in Job, bundle' = [bundle EXCEPT ![b] = new],
             new.manifest => \/ new.db = "whole" /\ new.bind /\ new.counted = new.content
                             \/ new.kept,
             new.pc \in {"new", "open", "copy", "bind", "bless"} => ~new.manifest,
             new.pc \in {"bind", "bless"} => new.db = "whole",
             new.pc = "bless" => new.bind,
             new.pc \in {"unbind", "drop"} /\ new.manifest => new.kept
      PROVE  BundleInv'
  <2>1. bundle'[b] = new
    BY <1>3 DEF BundleInv
  <2>2. Stage(b)'
    BY <1>3, <2>1 DEF Stage, Validates
  <2> QED
    BY <1>2, <1>3, <2>2, OneBundle
<1>4. CASE OpenCopy(b)
  <2> DEFINE new == [old EXCEPT !.pc = "copy", !.db = "partial"]
             failed == [old EXCEPT !.pc = "failed"]
  <2>1. /\ \/ bundle' = [bundle EXCEPT ![b] = new]
           \/ bundle' = [bundle EXCEPT ![b] = failed]
        /\ old.pc = "open"
    BY <1>4 DEF OpenCopy, BundleInv
  <2>2. ~old.manifest
    BY <1>1, <2>1 DEF Stage
  <2>3. /\ new \in Job /\ new.pc = "copy" /\ ~new.manifest
        /\ failed \in Job /\ failed.pc = "failed" /\ ~failed.manifest
    BY <1>1, <2>2 DEF Job, JobPcs
  <2> QED
    BY <1>3, <2>1, <2>3
<1>5. CASE CopyPages(b)
  <2> DEFINE done == [old EXCEPT !.pc = "bind", !.db = "whole", !.content = rows]
             failed == [old EXCEPT !.pc = "failed", !.db = "none"]
             stays == [old EXCEPT !.pc = "failed"]
  <2>1. /\ \/ bundle' = [bundle EXCEPT ![b] = done]
           \/ bundle' = [bundle EXCEPT ![b] = failed]
           \/ bundle' = [bundle EXCEPT ![b] = stays]
        /\ old.pc = "copy"
    BY <1>5 DEF CopyPages, BundleInv
  <2>2. ~old.manifest
    BY <1>1, <2>1 DEF Stage
  <2>3. /\ done \in Job /\ done.pc = "bind" /\ done.db = "whole" /\ ~done.manifest
        /\ failed \in Job /\ failed.pc = "failed" /\ ~failed.manifest
        /\ stays \in Job /\ stays.pc = "failed" /\ ~stays.manifest
    BY <1>1, <2>2 DEF Job, JobPcs
  <2> QED
    BY <1>3, <2>1, <2>3
<1>6. CASE CopyBinding(b)
  <2> DEFINE done == [old EXCEPT !.pc = "bless", !.bind = TRUE]
             undo == [old EXCEPT !.pc = "undo"]
             late == [old EXCEPT !.pc = "undo", !.bind = TRUE]
  <2>1. /\ \/ bundle' = [bundle EXCEPT ![b] = done]
           \/ bundle' = [bundle EXCEPT ![b] = undo]
           \/ bundle' = [bundle EXCEPT ![b] = late]
        /\ old.pc = "bind"
    BY <1>6 DEF CopyBinding, BundleInv
  <2>2. ~old.manifest /\ old.db = "whole"
    BY <1>1, <2>1 DEF Stage
  <2>3. /\ done \in Job /\ done.pc = "bless" /\ done.db = "whole" /\ done.bind /\ ~done.manifest
        /\ undo \in Job /\ undo.pc = "undo" /\ ~undo.manifest
        /\ late \in Job /\ late.pc = "undo" /\ ~late.manifest
    BY <1>1, <2>2 DEF Job, JobPcs
  <2> QED
    BY <1>3, <2>1, <2>3
<1>7. CASE WriteManifest(b)
  <2> DEFINE done == [old EXCEPT !.pc = "sync", !.manifest = TRUE, !.counted = old.content]
             undo == [old EXCEPT !.pc = "undo"]
  <2>1. /\ \/ bundle' = [bundle EXCEPT ![b] = done]
           \/ bundle' = [bundle EXCEPT ![b] = undo]
        /\ old.pc = "bless"
    BY <1>7 DEF WriteManifest, Counted, BundleInv
  <2>2. ~old.manifest /\ old.db = "whole" /\ old.bind
    BY <1>1, <2>1 DEF Stage
  <2>3. /\ done \in Job /\ done.pc = "sync" /\ done.db = "whole" /\ done.bind
        /\ done.counted = done.content
        /\ undo \in Job /\ undo.pc = "undo" /\ ~undo.manifest
    BY <1>1, <2>2 DEF Job, JobPcs
  <2> QED
    BY <1>3, <2>1, <2>3
<1>8. CASE SyncManifest(b)
  <2>1. PICK to \in {"done", "undo"} : bundle' = [bundle EXCEPT ![b] = [old EXCEPT !.pc = to]]
    BY <1>8 DEF SyncManifest, BundleInv
  <2> DEFINE new == [old EXCEPT !.pc = to]
  <2>2. /\ new \in Job /\ new.pc = to /\ new.manifest = old.manifest /\ new.db = old.db
        /\ new.bind = old.bind /\ new.counted = old.counted /\ new.content = old.content
        /\ new.kept = old.kept
    BY <1>1 DEF Job, JobPcs
  <2>3. new.manifest => \/ new.db = "whole" /\ new.bind /\ new.counted = new.content
                        \/ new.kept
    BY <1>1, <2>2 DEF Stage, Validates
  <2> QED
    BY <1>3, <2>1, <2>2, <2>3
<1>9. CASE UndoBackup(b)
  <2>1. PICK gone \in BOOLEAN : bundle' = [bundle EXCEPT ![b] = Unlinked(b, gone)]
    BY <1>9 DEF UndoBackup
  <2> DEFINE new == Unlinked(b, gone)
  <2>2. CASE old.pc = "undo"
    <3>1. new = [old EXCEPT !.pc = "unbind", !.manifest = @ /\ ~gone,
                            !.kept = old.manifest /\ ~gone]
      BY <1>1, <2>2 DEF Unlinked, ManifestUnlinked, Job
    <3>2. new \in Job /\ new.pc = "unbind" /\ (new.manifest => new.kept)
      BY <1>1, <3>1 DEF Job, JobPcs
    <3> QED
      BY <1>3, <2>1, <3>2
  <2>3. CASE old.pc = "unbind"
    <3>1. new = [old EXCEPT !.pc = "drop", !.bind = @ /\ ~gone]
      BY <1>1, <2>3 DEF Unlinked, BindingUnlinked, Job
    <3>2. new \in Job /\ new.pc = "drop" /\ (new.manifest => new.kept)
      BY <1>1, <2>3, <3>1 DEF Job, JobPcs, Stage
    <3> QED
      BY <1>3, <2>1, <3>2
  <2>4. CASE old.pc = "drop"
    <3>1. new = [old EXCEPT !.pc = "failed", !.db = IF gone THEN "none" ELSE @]
      BY <1>1, <2>4 DEF Unlinked, SnapshotUnlinked, Job
    <3>2. new \in Job /\ new.pc = "failed" /\ (new.manifest => new.kept)
      BY <1>1, <2>4, <3>1 DEF Job, JobPcs, Stage
    <3> QED
      BY <1>3, <2>1, <3>2
  <2> QED
    BY <1>9, <2>2, <2>3, <2>4 DEF UndoBackup
<1> QED
  BY <1>4, <1>5, <1>6, <1>7, <1>8, <1>9 DEF Backup

\* A crash only marks the backups under way as lost; their files stay.
LEMMA CrashKeepsBundles ==
  ASSUME BundleInv, Crash
  PROVE  BundleInv'
<1>1. Committed'
  <2>1. rows' = rows /\ queue' = [i \in Loads |-> <<>>]
    BY DEF Crash
  <2> QED
    BY <2>1 DEF BundleInv, Committed
<1>2. ASSUME NEW b \in Bundles
      PROVE  bundle'[b] \in Job /\ Stage(b)'
  <2>1. bundle'[b] = [bundle[b] EXCEPT !.pc = IF @ = "new" THEN @ ELSE "lost"]
    BY DEF Crash
  <2>2. bundle[b] \in Job /\ Stage(b)
    BY DEF BundleInv
  <2>3. bundle'[b] \in Job
    BY <2>1, <2>2 DEF Job, JobPcs
  <2>4. bundle'[b].pc \in {"new", "lost"} /\ (bundle'[b].pc = "new" => bundle[b].pc = "new")
    BY <2>1, <2>2 DEF Job, JobPcs
  <2>5. /\ bundle'[b].manifest = bundle[b].manifest /\ bundle'[b].db = bundle[b].db
        /\ bundle'[b].bind = bundle[b].bind /\ bundle'[b].counted = bundle[b].counted
        /\ bundle'[b].content = bundle[b].content /\ bundle'[b].kept = bundle[b].kept
    BY <2>1, <2>2 DEF Job
  <2>6. Stage(b)'
    BY <2>2, <2>4, <2>5 DEF Stage, Validates
  <2> QED
    BY <2>3, <2>6
<1>3. bundle' = [b \in Bundles |-> bundle'[b]]
  BY DEF Crash
<1> QED
  BY <1>1, <1>2, <1>3 DEF BundleInv

\* The other steps leave the backups alone; the queue keeps its type.
LEMMA QuietKeepsBundles ==
  ASSUME BundleInv, bundle' = bundle, Committed'
  PROVE  BundleInv'
BY DEF BundleInv, Stage, Validates

LEMMA NextKeepsBundles ==
  ASSUME BundleInv, GuardInv, [Next]_vars
  PROVE  BundleInv'
<1>1. CASE Load
  BY <1>1, QuietKeepsBundles DEF Load, fileVars, BundleInv, Committed
<1>2. CASE Crash
  BY <1>2, CrashKeepsBundles
<1>3. ASSUME NEW i \in Loads, Writer(i)
      PROVE  BundleInv'
  <2>1. bundle' = bundle
    BY <1>3 DEF Writer, Open, ReplaceBinding, Connect, InstallSchema, ReadExisting, Migrate,
                Execute, TakeStop, Checkpoint, Exit, ThreadOnly
  <2>2. CASE Execute(i)
    <3>1. queue[i] # <<>> /\ Head(queue[i]) # Stop /\ queue' = [queue EXCEPT ![i] = Tail(@)]
      BY <2>2 DEF Execute
    <3>2. queue[i] \in Seq(Writes \cup {Stop})
      BY DEF BundleInv, Committed
    <3>3. Head(queue[i]) \in Writes /\ Tail(queue[i]) \in Seq(Writes \cup {Stop})
      BY <3>1, <3>2
    <3>4. rows' \in {rows, rows \cup {Head(queue[i])}}
      BY <2>2 DEF Execute
    <3>5. Committed'
      BY <3>1, <3>3, <3>4 DEF BundleInv, Committed
    <3> QED
      BY <2>1, <3>5, QuietKeepsBundles
  <2>3. CASE TakeStop(i)
    <3>1. queue[i] # <<>> /\ queue' = [queue EXCEPT ![i] = Tail(@)] /\ rows' = rows
      BY <2>3 DEF TakeStop, fileVars
    <3>2. Tail(queue[i]) \in Seq(Writes \cup {Stop})
      BY <3>1 DEF BundleInv, Committed
    <3>3. Committed'
      BY <3>1, <3>2 DEF BundleInv, Committed
    <3> QED
      BY <2>1, <3>3, QuietKeepsBundles
  <2>4. CASE ~Execute(i) /\ ~TakeStop(i)
    <3>1. UNCHANGED <<rows, queue>>
      BY <1>3, <2>4 DEF Writer, Open, ReplaceBinding, Connect, InstallSchema, ReadExisting,
                        Migrate, Checkpoint, Exit, ThreadOnly, fileVars, objectVars
    <3> QED
      BY <2>1, <3>1, QuietKeepsBundles DEF BundleInv, Committed
  <2> QED
    BY <2>2, <2>3, <2>4
<1>4. ASSUME NEW i \in Loads, EventLoop(i) \/ AskStop(i)
      PROVE  BundleInv'
  <2>1. bundle' = bundle /\ rows' = rows
    BY <1>4 DEF EventLoop, StartReady, StartRefused, StartFailed, SeeFailure, PutStop, Joined,
                PoolShut, AskStop, fileVars
  <2>2. queue' = queue \/ queue' = [queue EXCEPT ![i] = Append(@, Stop)]
    BY <1>4 DEF EventLoop, StartReady, StartRefused, StartFailed, SeeFailure, PutStop, Joined,
                PoolShut, AskStop
  <2>3. queue[i] \in Seq(Writes \cup {Stop})
    BY DEF BundleInv, Committed
  <2>4. Append(queue[i], Stop) \in Seq(Writes \cup {Stop})
    BY <2>3
  <2>5. Committed'
    BY <2>1, <2>2, <2>4 DEF BundleInv, Committed
  <2> QED
    BY <2>1, <2>5, QuietKeepsBundles
<1>5. ASSUME NEW i \in Loads, NEW w \in Writes, Submit(i, w)
      PROVE  BundleInv'
  <2>1. bundle' = bundle /\ rows' = rows /\ queue' = [queue EXCEPT ![i] = Append(@, w)]
    BY <1>5 DEF Submit, fileVars
  <2>2. Append(queue[i], w) \in Seq(Writes \cup {Stop})
    BY DEF BundleInv, Committed
  <2>3. Committed'
    BY <2>1, <2>2 DEF BundleInv, Committed
  <2> QED
    BY <2>1, <2>3, QuietKeepsBundles
<1>6. ASSUME NEW b \in Bundles, RequestBackup(b) \/ Backup(b)
      PROVE  BundleInv'
  BY <1>6, RequestKeepsBundles, BackupKeepsBundles DEF GuardInv, GuardType
<1>7. CASE UNCHANGED vars
  BY <1>7, QuietKeepsBundles DEF vars, fileVars, objectVars, BundleInv, Committed
<1> QED
  BY <1>1, <1>2, <1>3, <1>4, <1>5, <1>6, <1>7 DEF Next

LEMMA SpecBundleInv == Spec => []BundleInv
<1>1. Init => BundleInv
  <2> SUFFICES ASSUME Init PROVE BundleInv
    OBVIOUS
  <2>1. rows = {} /\ queue = [i \in Loads |-> <<>>] /\ bundle = [b \in Bundles |-> NewJob]
    BY DEF Init
  <2>2. NewJob \in Job
    BY ArchiveAssumption DEF NewJob, Job, JobPcs
  <2>3. Committed
    BY <2>1 DEF Committed
  <2>4. ~NewJob.manifest /\ NewJob.pc = "new"
    BY DEF NewJob
  <2> QED
    BY <2>1, <2>2, <2>3, <2>4 DEF BundleInv, Stage
<1>2. BundleInv /\ GuardInv /\ [Next]_vars => BundleInv'
  BY NextKeepsBundles
<1> QED
  BY <1>1, <1>2, SpecGuardInv, PTL DEF Spec

\* A manifest never describes an incomplete bundle, for any number of backups,
\* failures and crashes (_backup_sync).
THEOREM ManifestBlessesBundleHolds == Spec => []ManifestBlessesBundle
<1>1. BundleInv => ManifestBlessesBundle
  BY DEF BundleInv, Stage, ManifestBlessesBundle
<1> QED
  BY <1>1, SpecBundleInv, PTL

-----------------------------------------------------------------------------
(* The files.  A step of _open_writer that changes a file is taken only by    *)
(* the one writer, and only in the state its earlier steps left.              *)

Openable == binding = "bound" /\ db \in {"v1", "v2"}

\* What the writer of load i has made of the files so far.
FilesOf(i) ==
    /\ init[i] = "ok" => Openable
    /\ th[i] = "replace" => binding = "tmp" /\ db = "none"
    /\ th[i] = "connect" => binding = "bound" /\ db = "none"
    /\ th[i] = "install" => binding = "bound" /\ db = "empty"
    /\ th[i] = "read" => binding = "bound"
    /\ th[i] = "migrate" => Openable

FilesInv ==
    /\ init \in [Loads -> InitStates]
    /\ wasReady => Openable
    /\ \A i \in Loads : FilesOf(i)

\* No step of a writer takes an archive back that can be opened.
LEMMA WriterKeepsOpenable ==
  ASSUME GuardInv, FilesInv, NEW i \in Loads, Writer(i)
  PROVE  /\ Openable => Openable'
         /\ FilesOf(i)'
         /\ init' \in [Loads -> InitStates]
         /\ \A j \in Loads : j # i => init'[j] = init[j] /\ th'[j] = th[j]
         /\ wasReady' = wasReady
<1>1. th \in [Loads -> WriterPcs] /\ init \in [Loads -> InitStates] /\ FilesOf(i)
  BY DEF GuardInv, GuardType, FilesInv
<1> USE <1>1 DEF Openable, FilesOf, InitStates, WriterPcs, Advance, Refuse, ThreadOnly
<1>2. CASE Open(i)
  BY <1>2 DEF Open, Archive
<1>3. CASE ReplaceBinding(i)
  BY <1>3 DEF ReplaceBinding
<1>4. CASE Connect(i)
  BY <1>4 DEF Connect
<1>5. CASE InstallSchema(i)
  BY <1>5 DEF InstallSchema
<1>6. CASE ReadExisting(i)
  BY <1>6 DEF ReadExisting
<1>7. CASE Migrate(i)
  BY <1>7 DEF Migrate, RolledBack
<1>8. CASE Execute(i)
  BY <1>8 DEF Execute, threadVars
<1>9. CASE TakeStop(i)
  BY <1>9 DEF TakeStop, fileVars
<1>10. CASE Checkpoint(i)
  BY <1>10 DEF Checkpoint, fileVars
<1>11. CASE Exit(i)
  BY <1>11 DEF Exit, fileVars
<1> QED
  BY <1>2, <1>3, <1>4, <1>5, <1>6, <1>7, <1>8, <1>9, <1>10, <1>11 DEF Writer

\* The files and the init futures stay, and threads only start to open or end.
LEMMA QuietKeepsFiles ==
  ASSUME GuardInv, FilesInv, UNCHANGED <<binding, db, init>>,
         wasReady' => wasReady \/ Openable,
         \A i \in Loads : th'[i] = th[i] \/ th'[i] \in {"open", "none"}
  PROVE  FilesInv'
<1>1. Openable' = Openable
  BY DEF Openable
<1>2. ASSUME NEW i \in Loads
      PROVE  FilesOf(i)'
  BY <1>1 DEF FilesInv, FilesOf
<1> QED
  BY <1>1, <1>2 DEF FilesInv

LEMMA NextKeepsFiles ==
  ASSUME GuardInv, FilesInv, [Next]_vars
  PROVE  FilesInv'
<1> USE DEF GuardInv, GuardType
<1>1. CASE Load
  <2>1. load + 1 \in Loads
    BY <1>1, ArchiveAssumption DEF Load, Loads
  <2>2. \A i \in Loads : th'[i] = th[i] \/ th'[i] \in {"open", "none"}
    BY <1>1, <2>1 DEF Load
  <2>3. UNCHANGED <<binding, db, init, wasReady>>
    BY <1>1 DEF Load, fileVars
  <2> QED
    BY <2>2, <2>3, QuietKeepsFiles
<1>2. CASE Crash
  <2>1. UNCHANGED <<binding, db, wasReady>>
    BY <1>2 DEF Crash, RolledBack
  <2>2. th' = [i \in Loads |-> "none"] /\ init' = [i \in Loads |-> "pending"]
    BY <1>2 DEF Crash
  <2>3. init' \in [Loads -> InitStates]
    BY <2>2 DEF InitStates
  <2> QED
    BY <2>1, <2>2, <2>3 DEF FilesInv, FilesOf, Openable
<1>3. ASSUME NEW i \in Loads, Writer(i)
      PROVE  FilesInv'
  <2>1. CASE ~Alive(i)
    <3>1. UNCHANGED <<guard, load, th, owns, start, stop>>
      BY <1>3, <2>1, WriterIsThreadStep DEF ThreadStep
    <3> QED
      BY <1>3, <2>1, <3>1
         DEF Alive, Writer, Open, ReplaceBinding, Connect, InstallSchema, ReadExisting,
             Migrate, Execute, TakeStop, Checkpoint, Exit, Advance, Refuse
  <2>2. CASE Alive(i)
    <3>1. \A j \in Loads : j # i => th[j] \in {"none", "dead"}
      BY <2>2 DEF GuardOwned, ThreadsOwned, Alive
    <3>2. \A j \in Loads : j # i => FilesOf(j)'
      BY <1>3, <3>1, WriterKeepsOpenable DEF FilesInv, FilesOf
    <3> QED
      BY <1>3, <3>2, WriterKeepsOpenable DEF FilesInv
  <2> QED
    BY <2>1, <2>2
<1>4. ASSUME NEW i \in Loads, EventLoop(i) \/ AskStop(i)
      PROVE  FilesInv'
  <2>1. UNCHANGED <<binding, db, init>>
    BY <1>4 DEF EventLoop, StartReady, StartRefused, StartFailed, SeeFailure, PutStop, Joined,
                PoolShut, AskStop, fileVars, threadVars
  <2>2. th' = th \/ th' = [th EXCEPT ![i] = "none"]
    BY <1>4 DEF EventLoop, StartReady, StartRefused, StartFailed, SeeFailure, PutStop, Joined,
                PoolShut, AskStop, threadVars
  <2>3. wasReady' = wasReady \/ init[i] = "ok"
    BY <1>4 DEF EventLoop, StartReady, StartRefused, StartFailed, SeeFailure, PutStop, Joined,
                PoolShut, AskStop, fileVars
  <2>4. wasReady' => wasReady \/ Openable
    BY <2>3 DEF FilesInv, FilesOf
  <2> QED
    BY <2>1, <2>2, <2>4, QuietKeepsFiles
<1>5. ASSUME NEW i \in Loads, NEW w \in Writes, Submit(i, w)
      PROVE  FilesInv'
  BY <1>5, QuietKeepsFiles DEF Submit, fileVars, threadVars
<1>6. ASSUME NEW b \in Bundles, RequestBackup(b) \/ Backup(b)
      PROVE  FilesInv'
  <2>1. BackupOnly
    BY <1>6 DEF RequestBackup, Backup, OpenCopy, CopyPages, CopyBinding, WriteManifest,
                SyncManifest, UndoBackup
  <2> QED
    BY <2>1, QuietKeepsFiles DEF BackupOnly, fileVars, threadVars
<1>7. CASE UNCHANGED vars
  BY <1>7, QuietKeepsFiles DEF vars, fileVars, threadVars
<1> QED
  BY <1>1, <1>2, <1>3, <1>4, <1>5, <1>6, <1>7 DEF Next

LEMMA SpecFilesInv == Spec => []FilesInv
<1>1. Init => FilesInv
  <2> SUFFICES ASSUME Init PROVE FilesInv
    OBVIOUS
  <2>1. th = [i \in Loads |-> "none"] /\ init = [i \in Loads |-> "pending"]
    BY DEF Init
  <2>2. wasReady => Openable
    BY DEF Init, Openable
  <2> QED
    BY <2>1, <2>2 DEF FilesInv, FilesOf, InitStates
<1>2. FilesInv /\ GuardInv /\ [Next]_vars => FilesInv'
  BY NextKeepsFiles
<1> QED
  BY <1>1, <1>2, SpecGuardInv, PTL DEF Spec

\* An archive that was ready once is opened by every later load that the storage
\* lets read it, whatever crashes and failed migrations lie between (_open_writer).
THEOREM ReadyArchivesStayOpenable == Spec => []OnceReadyStaysOpenable
<1>1. FilesInv => OnceReadyStaysOpenable
  BY DEF FilesInv, OnceReadyStaysOpenable, Openable
<1> QED
  BY <1>1, SpecFilesInv, PTL

-----------------------------------------------------------------------------
(* The command queue.  What a writer thread leaves in it when it exits depends *)
(* on the order of the sentinel and of the writes accepted before it.          *)

OnlyWrites(q) == \A k \in DOMAIN q : q[k] # Stop
OnlyStops(q)  == \A k \in DOMAIN q : q[k] = Stop
StopIsLast(q) == \A k \in DOMAIN q : q[k] = Stop => k = Len(q)

Entries == Seq(Writes \cup {Stop})

\* Starting writers have not yet accepted a command.
Early == {"open", "replace", "connect", "install", "read", "migrate"}

QueueOf(i) ==
    /\ i > load => init[i] = "pending" /\ queue[i] = <<>> /\ ~acc[i] /\ th[i] = "none"
    /\ start[i] = "opening" => stop[i] = "no"
    /\ acc[i] => init[i] = "ok" /\ stop[i] = "no"
    /\ stop[i] \in {"no", "asked"} => OnlyWrites(queue[i])
    /\ stop[i] \in {"no", "asked"} /\ init[i] = "ok" => th[i] = "loop"
    /\ StopIsLast(queue[i])
    /\ init[i] # "ok" => OnlyStops(queue[i])
    /\ init[i] = "ok" /\ th[i] # "loop" => queue[i] = <<>>
    /\ th[i] = "loop" => init[i] = "ok"
    /\ th[i] \in Early => init[i] # "ok"

QueueType ==
    /\ init \in [Loads -> InitStates]
    /\ acc \in [Loads -> BOOLEAN]
    /\ queue \in [Loads -> Entries]

QueueInv == QueueType /\ \A i \in Loads : QueueOf(i)

LEMMA AppendWrite ==
  ASSUME NEW q \in Entries, NEW w \in Writes, OnlyWrites(q)
  PROVE  Append(q, w) \in Entries /\ OnlyWrites(Append(q, w)) /\ StopIsLast(Append(q, w))
BY ArchiveAssumption DEF Entries, OnlyWrites, StopIsLast

LEMMA AppendStop ==
  ASSUME NEW q \in Entries, OnlyWrites(q)
  PROVE  /\ Append(q, Stop) \in Entries /\ StopIsLast(Append(q, Stop))
         /\ OnlyStops(q) => OnlyStops(Append(q, Stop))
BY ArchiveAssumption DEF Entries, OnlyWrites, OnlyStops, StopIsLast

LEMMA TailOfEntries ==
  ASSUME NEW q \in Entries, q # <<>>, StopIsLast(q)
  PROVE  /\ Tail(q) \in Entries /\ StopIsLast(Tail(q))
         /\ OnlyWrites(q) => OnlyWrites(Tail(q))
         /\ Head(q) = Stop => Tail(q) = <<>>
<1>1. /\ Tail(q) \in Entries /\ Len(Tail(q)) = Len(q) - 1 /\ Len(q) \in Nat \ {0}
      /\ DOMAIN q = 1..Len(q) /\ DOMAIN Tail(q) = 1..(Len(q) - 1)
      /\ \A k \in DOMAIN Tail(q) : Tail(q)[k] = q[k + 1]
  BY DEF Entries
<1>2. StopIsLast(Tail(q)) /\ (OnlyWrites(q) => OnlyWrites(Tail(q)))
  BY <1>1 DEF StopIsLast, OnlyWrites
<1>3. ASSUME Head(q) = Stop
      PROVE  Tail(q) = <<>>
  <2>1. Len(q) = 1
    BY <1>1, <1>3 DEF StopIsLast, Entries
  <2> QED
    BY <1>1, <2>1 DEF Entries
<1> QED
  BY <1>1, <1>2, <1>3

\* A step that is about one load keeps the invariant when it keeps that load's part.
LEMMA OneQueue ==
  ASSUME QueueInv, NEW i \in Loads, QueueType', QueueOf(i)', load' = load,
         \A j \in Loads : j # i =>
            UNCHANGED <<th[j], init[j], acc[j], queue[j], start[j], stop[j]>>
  PROVE  QueueInv'
<1>1. \A j \in Loads : j # i => QueueOf(j)'
  BY DEF QueueInv, QueueOf
<1> QED
  BY <1>1 DEF QueueInv

queueVars == <<load, th, init, acc, queue, start, stop>>

LEMMA QuietKeepsQueue ==
  ASSUME QueueInv, UNCHANGED queueVars
  PROVE  QueueInv'
BY DEF QueueInv, QueueType, QueueOf, queueVars

LEMMA WriterKeepsQueue ==
  ASSUME GuardInv, QueueInv, NEW i \in Loads, Writer(i)
  PROVE  QueueInv'
<1>1. /\ th \in [Loads -> WriterPcs] /\ QueueType /\ QueueOf(i)
      /\ queue[i] \in Entries
  BY DEF GuardInv, GuardType, QueueInv, QueueType
<1>2. load \in Nat /\ i \in Nat
  BY ArchiveAssumption DEF GuardInv, GuardType, Loads
<1>3. CASE Execute(i) \/ TakeStop(i)
  <2>1. /\ queue[i] # <<>> /\ th[i] = "loop"
        /\ queue' = [queue EXCEPT ![i] = Tail(@)]
        /\ UNCHANGED <<load, init, acc, start, stop>>
    BY <1>3 DEF Execute, TakeStop, Advance, threadVars
  <2>2. /\ Tail(queue[i]) \in Entries /\ StopIsLast(Tail(queue[i]))
        /\ OnlyWrites(queue[i]) => OnlyWrites(Tail(queue[i]))
        /\ Head(queue[i]) = Stop => Tail(queue[i]) = <<>>
    BY <1>1, <2>1, TailOfEntries DEF QueueOf
  <2>3. queue' \in [Loads -> Entries] /\ queue'[i] = Tail(queue[i])
    BY <1>1, <2>1, <2>2 DEF QueueType
  <2>4. QueueType'
    BY <1>1, <2>1, <2>3 DEF QueueType
  <2>5. CASE Execute(i)
    <3>1. th' = th
      BY <2>5 DEF Execute, threadVars
    <3>2. QueueOf(i)'
      BY <1>1, <2>1, <2>2, <2>3, <3>1 DEF QueueOf, Early
    <3> QED
      BY <2>1, <2>4, <3>1, <3>2, OneQueue DEF QueueInv, QueueType
  <2>6. CASE TakeStop(i)
    <3>1. th' = [th EXCEPT ![i] = "checkpoint"] /\ Head(queue[i]) = Stop
      BY <2>6 DEF TakeStop, Advance
    <3>2. stop[i] \notin {"no", "asked"}
      <4>1. queue[i][1] = Stop /\ 1 \in DOMAIN queue[i]
        BY <1>1, <2>1, <3>1 DEF Entries
      <4> QED
        BY <1>1, <4>1 DEF QueueOf, OnlyWrites
    <3>3. queue'[i] = <<>> /\ th'[i] = "checkpoint"
      BY <1>1, <2>2, <2>3, <3>1
    <3>4. QueueOf(i)'
      BY <1>1, <1>2, <2>1, <2>2, <2>3, <3>2, <3>3 DEF QueueOf, Early, OnlyStops
    <3> QED
      BY <1>1, <2>1, <2>4, <3>1, <3>4, OneQueue DEF QueueInv, QueueType
  <2> QED
    BY <1>3, <2>5, <2>6
<1>4. CASE ~Execute(i) /\ ~TakeStop(i)
  <2>1. UNCHANGED <<load, acc, queue, start, stop>>
    BY <1>4 DEF Writer, Open, ReplaceBinding, Connect, InstallSchema, ReadExisting, Migrate,
                Checkpoint, Exit, ThreadOnly, objectVars
  <2>2. \/ /\ th[i] \in Early
           /\ \/ /\ \E to \in Early : th' = [th EXCEPT ![i] = to]
                 /\ init' = init
              \/ /\ th' = [th EXCEPT ![i] = "closing"]
                 /\ init' = [init EXCEPT ![i] = "refused"]
              \/ /\ th' = [th EXCEPT ![i] = "loop"]
                 /\ init' = [init EXCEPT ![i] = "ok"]
        \/ /\ th[i] \in {"checkpoint", "closing"}
           /\ th' = [th EXCEPT ![i] = "dead"]
           /\ init' = init
    BY <1>4 DEF Writer, Open, ReplaceBinding, Connect, InstallSchema, ReadExisting, Migrate,
                Checkpoint, Exit, Advance, Refuse, Early
  <2>3. QueueType'
    BY <1>1, <2>1, <2>2 DEF QueueType, InitStates
  <2>4. QueueOf(i)'
    BY <1>1, <1>2, <2>1, <2>2 DEF QueueOf, Early, QueueType
  <2>5. \A j \in Loads : j # i => UNCHANGED <<th[j], init[j], acc[j], queue[j], start[j], stop[j]>>
    BY <1>1, <2>1, <2>2 DEF QueueType
  <2> QED
    BY <2>1, <2>3, <2>4, <2>5, OneQueue
<1> QED
  BY <1>3, <1>4

LEMMA SubmitKeepsQueue ==
  ASSUME GuardInv, QueueInv, NEW i \in Loads, NEW w \in Writes, Submit(i, w)
  PROVE  QueueInv'
<1>1. /\ acc[i] /\ queue' = [queue EXCEPT ![i] = Append(@, w)]
      /\ UNCHANGED <<load, th, init, acc, start, stop>>
  BY DEF Submit, threadVars
<1>2. QueueType /\ QueueOf(i) /\ queue[i] \in Entries
  BY DEF QueueInv, QueueType
<1>3. init[i] = "ok" /\ stop[i] = "no" /\ th[i] = "loop" /\ OnlyWrites(queue[i]) /\ ~(i > load)
  BY <1>1, <1>2 DEF QueueOf
<1>4. /\ Append(queue[i], w) \in Entries /\ OnlyWrites(Append(queue[i], w))
      /\ StopIsLast(Append(queue[i], w))
  BY <1>2, <1>3, AppendWrite
<1>5. QueueType' /\ queue'[i] = Append(queue[i], w)
  BY <1>1, <1>2, <1>4 DEF QueueType
<1>6. QueueOf(i)'
  BY <1>1, <1>2, <1>3, <1>4, <1>5 DEF QueueOf, Early
<1> QED
  BY <1>1, <1>2, <1>5, <1>6, OneQueue DEF QueueType

LEMMA PutStopKeepsQueue ==
  ASSUME GuardInv, QueueInv, NEW i \in Loads, PutStop(i)
  PROVE  QueueInv'
<1>1. QueueType /\ QueueOf(i) /\ queue[i] \in Entries /\ stop \in [Loads -> StopStates] /\ i <= load
  BY Begun DEF QueueInv, QueueType, GuardInv, GuardType, PutStop
<1>2. stop[i] = "asked" /\ UNCHANGED <<load, th, init, acc, start>>
  BY DEF PutStop, threadVars
<1>3. OnlyWrites(queue[i]) /\ ~acc[i] /\ start[i] # "opening" /\ (init[i] = "ok" => th[i] = "loop")
  BY <1>1, <1>2 DEF QueueOf
<1>4. load \in Nat /\ i \in Nat
  BY ArchiveAssumption DEF GuardInv, GuardType, Loads
<1>5. CASE th[i] = "none"
  <2>1. stop' = [stop EXCEPT ![i] = "pool"] /\ queue' = queue
    BY <1>5 DEF PutStop
  <2>2. QueueOf(i)'
    BY <1>1, <1>2, <1>3, <1>4, <2>1 DEF QueueOf
  <2> QED
    BY <1>1, <1>2, <2>1, <2>2, OneQueue DEF QueueType
<1>6. CASE th[i] # "none"
  <2>1. stop' = [stop EXCEPT ![i] = "join"] /\ queue' = [queue EXCEPT ![i] = Append(@, Stop)]
    BY <1>6 DEF PutStop
  <2>2. /\ Append(queue[i], Stop) \in Entries /\ StopIsLast(Append(queue[i], Stop))
        /\ OnlyStops(queue[i]) => OnlyStops(Append(queue[i], Stop))
    BY <1>1, <1>3, AppendStop
  <2>3. QueueType' /\ queue'[i] = Append(queue[i], Stop) /\ stop'[i] = "join"
    BY <1>1, <1>2, <2>1, <2>2 DEF QueueType
  <2>4. QueueOf(i)'
    BY <1>1, <1>2, <1>3, <1>4, <2>2, <2>3 DEF QueueOf
  <2> QED
    BY <1>1, <1>2, <2>1, <2>3, <2>4, OneQueue DEF QueueType
<1> QED
  BY <1>5, <1>6

\* The other steps of the event loop only end a start, an intake or a thread that died.
LEMMA LoopKeepsQueue ==
  ASSUME GuardInv, QueueInv, NEW i \in Loads, EventLoop(i) \/ AskStop(i), ~PutStop(i)
  PROVE  QueueInv'
<1>1. /\ QueueType /\ QueueOf(i) /\ stop \in [Loads -> StopStates]
      /\ th \in [Loads -> WriterPcs] /\ start \in [Loads -> StartStates]
  BY DEF QueueInv, GuardInv, GuardType
<1>2. load \in Nat /\ i \in Nat /\ load' = load /\ UNCHANGED <<init, queue>>
  BY ArchiveAssumption
     DEF GuardInv, GuardType, Loads, EventLoop, StartReady, StartRefused, StartFailed, SeeFailure,
         Joined, PoolShut, AskStop, threadVars
<1> USE <1>1, <1>2 DEF QueueType, QueueOf, Early
<1>3. CASE StartReady(i)
  <2>1. /\ start[i] = "opening" /\ init[i] = "ok" /\ UNCHANGED <<th, stop>>
        /\ start' = [start EXCEPT ![i] = "ready"] /\ acc' = [acc EXCEPT ![i] = TRUE]
    BY <1>3 DEF StartReady, threadVars
  <2> QED
    BY <2>1, OneQueue
<1>4. CASE StartRefused(i)
  <2>1. start' = [start EXCEPT ![i] = "joining"] /\ UNCHANGED <<th, acc, stop>>
    BY <1>4 DEF StartRefused, threadVars
  <2> QED
    BY <2>1, OneQueue
<1>5. CASE StartFailed(i)
  <2>1. /\ start' = [start EXCEPT ![i] = "failed"] /\ UNCHANGED <<acc, stop>>
        /\ th' = th \/ (th[i] = "dead" /\ th' = [th EXCEPT ![i] = "none"])
    BY <1>5 DEF StartFailed
  <2> QED
    BY <2>1, OneQueue
<1>6. CASE SeeFailure(i)
  <2>1. acc' = [acc EXCEPT ![i] = FALSE] /\ UNCHANGED <<th, start, stop>>
    BY <1>6 DEF SeeFailure, threadVars
  <2> QED
    BY <2>1, OneQueue
<1>7. CASE Joined(i) \/ PoolShut(i)
  <2>1. /\ \E to \in {"pool", "fenced", "stopped"} : stop' = [stop EXCEPT ![i] = to]
        /\ stop[i] \in {"join", "pool"} /\ UNCHANGED <<acc, start>>
        /\ th' = th \/ (th[i] = "dead" /\ th' = [th EXCEPT ![i] = "none"])
    BY <1>7 DEF Joined, PoolShut, threadVars
  <2> QED
    BY <2>1, OneQueue
<1>8. CASE AskStop(i)
  <2>1. /\ stop[i] = "no" /\ stop' = [stop EXCEPT ![i] = "asked"]
        /\ acc' = [acc EXCEPT ![i] = FALSE] /\ th' = th
        /\ start' = [start EXCEPT ![i] = IF @ \in {"opening", "joining"} THEN "cut" ELSE @]
    BY <1>8 DEF AskStop, threadVars
  <2> QED
    BY <2>1, OneQueue
<1> QED
  BY <1>3, <1>4, <1>5, <1>6, <1>7, <1>8 DEF EventLoop

LEMMA LoadKeepsQueue ==
  ASSUME GuardInv, QueueInv, Load
  PROVE  QueueInv'
<1> DEFINE i == load + 1
<1>1. i \in Loads /\ load \in Nat /\ load' = i /\ UNCHANGED <<init, acc, queue, stop>>
  BY ArchiveAssumption DEF Load, GuardInv, GuardType, Loads
<1>2. \/ th' = th /\ start' = [start EXCEPT ![i] = "busy"]
      \/ th' = [th EXCEPT ![i] = "open"] /\ start' = [start EXCEPT ![i] = "opening"]
  BY DEF Load
<1>3. /\ QueueType /\ th \in [Loads -> WriterPcs] /\ start \in [Loads -> StartStates]
      /\ stop[i] = "no"
  BY <1>1 DEF QueueInv, GuardInv, GuardType, StopOrder
<1>4. ASSUME NEW j \in Loads
      PROVE  QueueOf(j)'
  <2>1. QueueOf(j) /\ j \in Nat
    BY DEF QueueInv, Loads
  <2>2. CASE j = i
    BY <1>1, <1>2, <1>3, <2>1, <2>2 DEF QueueOf, Early, OnlyStops
  <2>3. CASE j # i
    BY <1>1, <1>2, <1>3, <2>1, <2>3 DEF QueueOf
  <2> QED
    BY <2>2, <2>3
<1> QED
  BY <1>1, <1>3, <1>4 DEF QueueInv, QueueType

LEMMA CrashKeepsQueue ==
  ASSUME GuardInv, QueueInv, Crash
  PROVE  QueueInv'
<1>1. /\ load' = load
      /\ th' = [i \in Loads |-> "none"] /\ init' = [i \in Loads |-> "pending"]
      /\ acc' = [i \in Loads |-> FALSE] /\ queue' = [i \in Loads |-> <<>>]
      /\ start' = [i \in Loads |-> IF i <= load THEN "gone" ELSE start[i]]
      /\ stop' = [i \in Loads |-> IF i <= load THEN "gone" ELSE stop[i]]
  BY DEF Crash
<1>2. QueueType'
  BY <1>1 DEF QueueType, InitStates, Entries
<1>3. ASSUME NEW i \in Loads
      PROVE  QueueOf(i)'
  BY <1>1 DEF QueueInv, QueueOf, Early, OnlyWrites, OnlyStops, StopIsLast
<1> QED
  BY <1>2, <1>3 DEF QueueInv

LEMMA NextKeepsQueue ==
  ASSUME GuardInv, QueueInv, [Next]_vars
  PROVE  QueueInv'
<1>1. ASSUME NEW i \in Loads, EventLoop(i) \/ AskStop(i)
      PROVE  QueueInv'
  BY <1>1, PutStopKeepsQueue, LoopKeepsQueue
<1>2. ASSUME NEW b \in Bundles, RequestBackup(b) \/ Backup(b)
      PROVE  QueueInv'
  <2>1. BackupOnly
    BY <1>2 DEF RequestBackup, Backup, OpenCopy, CopyPages, CopyBinding, WriteManifest,
                SyncManifest, UndoBackup
  <2> QED
    BY <2>1, QuietKeepsQueue DEF BackupOnly, threadVars, objectVars, queueVars
<1>3. CASE UNCHANGED vars
  BY <1>3, QuietKeepsQueue DEF vars, threadVars, objectVars, queueVars
<1> QED
  BY <1>1, <1>2, <1>3, LoadKeepsQueue, CrashKeepsQueue, WriterKeepsQueue, SubmitKeepsQueue DEF Next

LEMMA SpecQueueInv == Spec => []QueueInv
<1>1. Init => QueueInv
  <2> SUFFICES ASSUME Init PROVE QueueInv
    OBVIOUS
  <2>1. /\ th = [i \in Loads |-> "none"] /\ init = [i \in Loads |-> "pending"]
        /\ acc = [i \in Loads |-> FALSE] /\ queue = [i \in Loads |-> <<>>]
        /\ start = [i \in Loads |-> "none"] /\ stop = [i \in Loads |-> "no"]
    BY DEF Init
  <2>2. QueueType
    BY <2>1 DEF QueueType, InitStates, Entries
  <2> QED
    BY <2>1, <2>2 DEF QueueInv, QueueOf, Early, OnlyWrites, OnlyStops, StopIsLast
<1>2. QueueInv /\ GuardInv /\ [Next]_vars => QueueInv'
  BY NextKeepsQueue
<1> QED
  BY <1>1, <1>2, SpecGuardInv, PTL DEF Spec

\* No caller awaits a command that its writer thread left behind: intake ends
\* before the sentinel is queued, and the writer takes it last (stop_accepting).
THEOREM ExitsAnswerAll == Spec => []ExitAnswersAll
<1>1. QueueInv => ExitAnswersAll
  BY DEF QueueInv, QueueOf, OnlyStops, ExitAnswersAll, Alive
<1> QED
  BY <1>1, SpecQueueInv, PTL

=============================================================================
