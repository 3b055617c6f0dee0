-------------------------- MODULE ArchiveDatabase --------------------------
(***************************************************************************)
(* The thread-affine archive of storage/database.py: its files, the writer    *)
(* thread, the process-local ownership guard, start and stop of the objects   *)
(* successive loads of the config entry build (runtime.py), and backups.      *)
(*                                                                           *)
(* Home Assistant bounds how long an unload may take, so a load may begin     *)
(* while the stop of the previous one is still waiting.  A file operation may *)
(* fail, and a thread inside one may hang: writer steps carry no fairness.    *)
(* A crash ends the process between any two steps and keeps the files.        *)
(* SQLite is external: a transaction is one step, done or rolled back.        *)
(***************************************************************************)
EXTENDS Naturals, Sequences, FiniteSets

CONSTANTS
    MaxLoads,     \* bound: loads of the config entry
    MaxCrashes,   \* bound: crashes of the process
    Writes,       \* writer commands the supervisors submit, once each
    Stop,         \* the _STOP sentinel
    Bundles       \* backup destinations (named by the time of the request)

ASSUME ArchiveAssumption ==
    /\ MaxLoads \in Nat
    /\ MaxCrashes \in Nat
    /\ Stop \notin Writes

VARIABLES
    binding, db, rows,                   \* binding file, database file, committed writes
    bundle,                              \* backups: their files and their thread
    guard,                               \* the path is in _OWNED_PATHS
    load, crashes,
    th, init, shut,                      \* per load: writer thread and its two futures
    owns, acc, queue, answer, start, stop,   \* per load: _owns_path, _accepting, _commands, ...
    wasReady                             \* history: the archive has been ready once

fileVars   == <<binding, db, rows, wasReady>>
threadVars == <<th, init, shut>>
objectVars == <<owns, acc, queue, answer, start, stop>>
vars == <<fileVars, bundle, guard, load, crashes, threadVars, objectVars>>

-----------------------------------------------------------------------------
Loads == 1..MaxLoads

WriterPcs == {"none", "open", "replace", "connect", "install", "read", "migrate",
              "loop", "checkpoint", "closing", "dead"}
InitStates  == {"pending", "ok", "refused"}
StartStates == {"none", "opening", "joining", "ready", "failed", "busy", "cut", "gone"}
StopStates  == {"no", "asked", "join", "pool", "stopped", "fenced", "gone"}

JobPcs == {"new", "open", "copy", "bind", "bless", "sync", "undo", "unbind", "drop",
          "done", "failed", "lost"}
Job == [pc : JobPcs, by : 0..MaxLoads, db : {"none", "partial", "whole"},
        content : SUBSET Writes, counted : SUBSET Writes,
        bind : BOOLEAN, manifest : BOOLEAN,
        kept : BOOLEAN]                 \* history: the unlink of its manifest failed
NewJob == [pc |-> "new", by |-> 0, db |-> "none", content |-> {}, counted |-> {},
           bind |-> FALSE, manifest |-> FALSE, kept |-> FALSE]

\* No file yet, an archive of schema v1 an earlier release left, or a current one.
Init ==
    /\ db \in {"none", "v1", "v2"}
    /\ binding = IF db = "none" THEN "none" ELSE "bound"
    /\ wasReady = (db # "none")
    /\ rows = {}
    /\ bundle = [b \in Bundles |-> NewJob]
    /\ guard = FALSE
    /\ load = 0
    /\ crashes = 0
    /\ th = [i \in Loads |-> "none"]
    /\ init = [i \in Loads |-> "pending"]
    /\ shut = [i \in Loads |-> "pending"]
    /\ owns = [i \in Loads |-> FALSE]
    /\ acc = [i \in Loads |-> FALSE]
    /\ queue = [i \in Loads |-> <<>>]
    /\ answer = [i \in Loads |-> "fine"]
    /\ start = [i \in Loads |-> "none"]
    /\ stop = [i \in Loads |-> "no"]

-----------------------------------------------------------------------------
(* The config entry is loaded: _async_start_archive builds the database and  *)
(* async_start takes the guard and starts the writer thread, or is refused.  *)
Load ==
    LET i == load + 1 IN
    /\ load < MaxLoads
    /\ load > 0 => stop[load] # "no"
    /\ load' = i
    /\ IF guard
       THEN /\ start' = [start EXCEPT ![i] = "busy"]
            /\ UNCHANGED <<guard, th, owns>>
       ELSE /\ guard' = TRUE
            /\ owns' = [owns EXCEPT ![i] = TRUE]
            /\ th' = [th EXCEPT ![i] = "open"]
            /\ start' = [start EXCEPT ![i] = "opening"]
    /\ UNCHANGED <<fileVars, bundle, crashes, init, shut, acc, queue, answer, stop>>

\* faulty variant: the path stays in _OWNED_PATHS
KeepGuard(i) == UNCHANGED <<owns, guard>>

ReleaseGuard(i) ==
    /\ owns' = [owns EXCEPT ![i] = FALSE]
    /\ guard' = (guard /\ ~owns[i])

-----------------------------------------------------------------------------
(* The writer thread: _open_writer, then the command loop of _writer_main.   *)
Advance(i, from, to) ==
    /\ th[i] = from
    /\ th' = [th EXCEPT ![i] = to]

\* The exception, of whatever class, reaches the init future; the connection is
\* then closed.
Refuse(i, from) ==
    /\ Advance(i, from, "closing")
    /\ init' = [init EXCEPT ![i] = "refused"]

ThreadOnly == UNCHANGED <<rows, wasReady, bundle, guard, load, crashes, shut, objectVars>>

Archive == <<binding, db>>

\* The four cases of which files exist, and the exclusive creation of the binding.
Open(i) ==
    /\ \/ /\ binding = "bound" /\ db # "none"
          /\ Advance(i, "open", "read")
          /\ UNCHANGED <<binding, init>>
       \/ /\ (binding = "bound") # (db # "none")
          /\ Refuse(i, "open")
          /\ UNCHANGED binding
       \/ /\ Archive = <<"tmp", "none">>
          /\ Refuse(i, "open")
          /\ UNCHANGED binding
       \/ /\ Archive = <<"none", "none">>
          /\ \/ /\ binding' = "tmp"
                /\ Advance(i, "open", "replace")
                /\ UNCHANGED init
             \/ /\ Refuse(i, "open")    \* the temporary file is unlinked
                /\ UNCHANGED binding
    /\ UNCHANGED db
    /\ ThreadOnly

\* os.replace makes the binding durable before any database exists.
ReplaceBinding(i) ==
    /\ \/ /\ Advance(i, "replace", "connect")
          /\ binding' = "bound"
          /\ UNCHANGED init
       \/ /\ Refuse(i, "replace")
          /\ binding' \in {"tmp", "bound"}
    /\ UNCHANGED db
    /\ ThreadOnly

\* sqlite3.connect creates an empty file; the journal mode may be refused.
Connect(i) ==
    /\ \/ /\ Advance(i, "connect", "install")
          /\ db' = "empty"
          /\ UNCHANGED init
       \/ /\ Refuse(i, "connect")
          /\ db' \in {"none", "empty"}
    /\ UNCHANGED binding
    /\ ThreadOnly

InstallSchema(i) ==
    /\ \/ /\ Advance(i, "install", "migrate")
          /\ db' = "v1"
          /\ UNCHANGED init
       \/ /\ Refuse(i, "install")
          /\ UNCHANGED db
    /\ UNCHANGED binding
    /\ ThreadOnly

\* Identity qualification precedes any migration.  Any sqlite error in it is a
\* schema error, and an unreadable binding an identity error.
ReadExisting(i) ==
    /\ \/ /\ db \in {"v1", "v2"}
          /\ Advance(i, "read", "migrate")
          /\ UNCHANGED init
       \/ Refuse(i, "read")
    /\ UNCHANGED <<binding, db>>
    /\ ThreadOnly

\* faulty variant: a migration in more than one transaction
HalfMigrated(d) == "half"

\* What a migration that failed, or whose process died, leaves of database d.
RolledBack(d) == d

Migrate(i) ==
    /\ \/ /\ Advance(i, "migrate", "loop")
          /\ init' = [init EXCEPT ![i] = "ok"]
          /\ db' = "v2"
       \/ /\ Refuse(i, "migrate")
          /\ db' \in {RolledBack(db), "v2"}
    /\ UNCHANGED binding
    /\ ThreadOnly

\* One command: committed, rolled back, or committed and then failed by the
\* passive checkpoint that every fiftieth command makes inside the same try.
Execute(i) ==
    /\ th[i] = "loop"
    /\ queue[i] # <<>>
    /\ Head(queue[i]) # Stop
    /\ queue' = [queue EXCEPT ![i] = Tail(@)]
    /\ \/ /\ rows' = rows \cup {Head(queue[i])}
          /\ answer' \in {answer, [answer EXCEPT ![i] = "failed"]}
       \/ /\ answer' = [answer EXCEPT ![i] = "failed"]
          /\ UNCHANGED rows
    /\ UNCHANGED <<binding, db, wasReady, bundle, guard, load, crashes, threadVars,
                   owns, acc, start, stop>>

TakeStop(i) ==
    /\ queue[i] # <<>>
    /\ Head(queue[i]) = Stop
    /\ Advance(i, "loop", "checkpoint")
    /\ queue' = [queue EXCEPT ![i] = Tail(@)]
    /\ UNCHANGED <<fileVars, bundle, guard, load, crashes, init, shut, owns, acc,
                   answer, start, stop>>

\* The truncating checkpoint and the close decide the shutdown future.
Checkpoint(i) ==
    /\ Advance(i, "checkpoint", "dead")
    /\ \E result \in {"ok", "error"} : shut' = [shut EXCEPT ![i] = result]
    /\ UNCHANGED <<fileVars, bundle, guard, load, crashes, init, objectVars>>

Exit(i) ==
    /\ Advance(i, "closing", "dead")
    /\ UNCHANGED <<fileVars, bundle, guard, load, crashes, init, shut, objectVars>>

Writer(i) ==
    \/ Open(i) \/ ReplaceBinding(i) \/ Connect(i) \/ InstallSchema(i) \/ ReadExisting(i)
    \/ Migrate(i) \/ Execute(i) \/ TakeStop(i) \/ Checkpoint(i) \/ Exit(i)

-----------------------------------------------------------------------------
(* The event loop: the rest of async_start, and the writes of supervisors.   *)
StartReady(i) ==
    /\ start[i] = "opening"
    /\ init[i] = "ok"
    /\ start' = [start EXCEPT ![i] = "ready"]
    /\ acc' = [acc EXCEPT ![i] = TRUE]
    /\ wasReady' = TRUE
    /\ UNCHANGED <<binding, db, rows, bundle, guard, load, crashes, threadVars,
                   owns, queue, answer, stop>>

StartRefused(i) ==
    /\ start[i] = "opening"
    /\ init[i] = "refused"
    /\ start' = [start EXCEPT ![i] = "joining"]
    /\ UNCHANGED <<fileVars, bundle, guard, load, crashes, threadVars, owns, acc,
                   queue, answer, stop>>

\* Only a writer known to have exited gives the guard back.
StartFailed(i) ==
    /\ start[i] = "joining"
    /\ start' = [start EXCEPT ![i] = "failed"]
    /\ \/ /\ th[i] = "dead"
          /\ th' = [th EXCEPT ![i] = "none"]
          /\ ReleaseGuard(i)
       \/ /\ th[i] # "dead"             \* join(2.0) timed out
          /\ UNCHANGED <<th, owns, guard>>
    /\ UNCHANGED <<fileVars, bundle, load, crashes, init, shut, acc, queue, answer, stop>>

Unsubmitted(w) ==
    /\ w \notin rows
    /\ \A i \in Loads : \A k \in DOMAIN queue[i] : queue[i][k] # w

Submit(i, w) ==
    /\ acc[i]
    /\ Unsubmitted(w)
    /\ queue' = [queue EXCEPT ![i] = Append(@, w)]
    /\ UNCHANGED <<fileVars, bundle, guard, load, crashes, threadVars, owns, acc,
                   answer, start, stop>>

\* The caller of a failed command resumes in async_write, or was cancelled.
SeeFailure(i) ==
    /\ answer[i] = "failed"
    /\ answer' = [answer EXCEPT ![i] = "fine"]
    /\ acc' = [acc EXCEPT ![i] = FALSE]
    /\ UNCHANGED <<fileVars, bundle, guard, load, crashes, threadVars, owns, queue,
                   start, stop>>

-----------------------------------------------------------------------------
(* Unload: CombustionRuntime.async_stop and ArchiveDatabase.async_stop.      *)

\* faulty variant: intake is left open while the tasks are cancelled
AskStopAccepting(i) ==
    /\ i = load
    /\ stop[i] = "no"
    /\ stop' = [stop EXCEPT ![i] = "asked"]
    /\ start' = [start EXCEPT ![i] = IF @ \in {"opening", "joining"} THEN "cut" ELSE @]
    /\ UNCHANGED <<fileVars, bundle, guard, load, crashes, threadVars, owns, acc, queue, answer>>

\* stop_accepting, then the optional tasks are cancelled, the start among them.
AskStop(i) ==
    /\ i = load
    /\ stop[i] = "no"
    /\ stop' = [stop EXCEPT ![i] = "asked"]
    /\ acc' = [acc EXCEPT ![i] = FALSE]
    /\ start' = [start EXCEPT ![i] = IF @ \in {"opening", "joining"} THEN "cut" ELSE @]
    /\ UNCHANGED <<fileVars, bundle, guard, load, crashes, threadVars, owns, queue, answer>>

PutStop(i) ==
    /\ stop[i] = "asked"
    /\ IF th[i] = "none"
       THEN /\ stop' = [stop EXCEPT ![i] = "pool"]
            /\ UNCHANGED queue
       ELSE /\ stop' = [stop EXCEPT ![i] = "join"]
            /\ queue' = [queue EXCEPT ![i] = Append(@, Stop)]
    /\ UNCHANGED <<fileVars, bundle, guard, load, crashes, threadVars, owns, acc,
                   answer, start>>

\* faulty variant: a join that timed out is taken for a joined thread
JoinedAnyway(i) ==
    /\ stop[i] = "join"
    /\ stop' = [stop EXCEPT ![i] = "pool"]
    /\ UNCHANGED <<fileVars, bundle, guard, load, crashes, threadVars, owns, acc,
                   queue, answer, start>>

\* faulty variant: the join has no timeout
JoinedForever(i) ==
    /\ stop[i] = "join"
    /\ th[i] = "dead"
    /\ th' = [th EXCEPT ![i] = "none"]
    /\ stop' = [stop EXCEPT ![i] = "pool"]
    /\ UNCHANGED <<fileVars, bundle, guard, load, crashes, init, shut, owns, acc,
                   queue, answer, start>>

Joined(i) ==
    /\ stop[i] = "join"
    /\ \/ /\ th[i] = "dead"
          /\ th' = [th EXCEPT ![i] = "none"]
          /\ stop' = [stop EXCEPT ![i] = "pool"]
       \/ /\ th[i] # "dead"             \* join(timeout) timed out
          /\ stop' = [stop EXCEPT ![i] = "fenced"]
          /\ UNCHANGED th
    /\ UNCHANGED <<fileVars, bundle, guard, load, crashes, init, shut, owns, acc,
                   queue, answer, start>>

JobsOf(i) == {b \in Bundles : bundle[b].by = i
                              /\ bundle[b].pc \in {"open", "copy", "bind", "bless", "sync", "undo",
                                              "unbind", "drop"}}

\* pool.shutdown(True) waits for every reader; it has no timeout.
PoolShut(i) ==
    /\ stop[i] = "pool"
    /\ JobsOf(i) = {}
    /\ IF shut[i] = "error"
       THEN /\ stop' = [stop EXCEPT ![i] = "fenced"]
            /\ UNCHANGED <<owns, guard>>
       ELSE /\ stop' = [stop EXCEPT ![i] = "stopped"]
            /\ ReleaseGuard(i)
    /\ UNCHANGED <<fileVars, bundle, load, crashes, threadVars, acc, queue, answer, start>>

-----------------------------------------------------------------------------
(* A backup: _backup_sync on a thread of the reader pool.                    *)
BackupOnly == UNCHANGED <<fileVars, guard, load, crashes, threadVars, objectVars>>

RequestBackup(b) ==
    /\ load > 0
    /\ acc[load]
    /\ bundle[b].pc = "new"
    /\ bundle' = [bundle EXCEPT ![b].pc = "open", ![b].by = load]
    /\ BackupOnly

OpenCopy(b) ==
    /\ bundle[b].pc = "open"
    /\ bundle' \in {[bundle EXCEPT ![b].pc = "copy", ![b].db = "partial"],
                    [bundle EXCEPT ![b].pc = "failed"]}
    /\ BackupOnly

\* The rows the manifest counts are those of the closed snapshot.
Counted(b) == bundle[b].content

CopyPages(b) ==
    /\ bundle[b].pc = "copy"
    /\ bundle' \in {[bundle EXCEPT ![b].pc = "bind", ![b].db = "whole", ![b].content = rows],
                    [bundle EXCEPT ![b].pc = "failed", ![b].db = "none"],
                    [bundle EXCEPT ![b].pc = "failed"]}    \* its unlink failed too
    /\ BackupOnly

\* fsync of the snapshot, validation of the binding, its copy by os.replace.
CopyBinding(b) ==
    /\ bundle[b].pc = "bind"
    /\ bundle' \in {[bundle EXCEPT ![b].pc = "bless", ![b].bind = TRUE],
                    [bundle EXCEPT ![b].pc = "undo"],
                    [bundle EXCEPT ![b].pc = "undo", ![b].bind = TRUE]}
    /\ BackupOnly

WriteManifest(b) ==
    /\ bundle[b].pc = "bless"
    /\ bundle' \in {[bundle EXCEPT ![b].pc = "sync", ![b].manifest = TRUE,
                                   ![b].counted = Counted(b)],
                    [bundle EXCEPT ![b].pc = "undo"]}
    /\ BackupOnly

SyncManifest(b) ==
    /\ bundle[b].pc = "sync"
    /\ \E to \in {"done", "undo"} : bundle' = [bundle EXCEPT ![b].pc = to]
    /\ BackupOnly

\* Cleanup unlinks manifest, binding copy and snapshot in that order, each under
\* a suppress(OSError) of its own: one that stays does not keep the next from going.
ManifestUnlinked(job, gone) ==
    [job EXCEPT !.manifest = @ /\ ~gone, !.kept = job.manifest /\ ~gone]
BindingUnlinked(job, gone) == [job EXCEPT !.bind = @ /\ ~gone]
SnapshotUnlinked(job, gone) == [job EXCEPT !.db = IF gone THEN "none" ELSE @]

\* faulty variant: the snapshot is unlinked first and the manifest last
UnlinkedBackwards(b, gone) ==
    CASE bundle[b].pc = "undo"   -> SnapshotUnlinked([bundle[b] EXCEPT !.pc = "unbind"], gone)
      [] bundle[b].pc = "unbind" -> BindingUnlinked([bundle[b] EXCEPT !.pc = "drop"], gone)
      [] bundle[b].pc = "drop"   -> ManifestUnlinked([bundle[b] EXCEPT !.pc = "failed"], gone)

Unlinked(b, gone) ==
    CASE bundle[b].pc = "undo"   -> ManifestUnlinked([bundle[b] EXCEPT !.pc = "unbind"], gone)
      [] bundle[b].pc = "unbind" -> BindingUnlinked([bundle[b] EXCEPT !.pc = "drop"], gone)
      [] bundle[b].pc = "drop"   -> SnapshotUnlinked([bundle[b] EXCEPT !.pc = "failed"], gone)

UndoBackup(b) ==
    /\ bundle[b].pc \in {"undo", "unbind", "drop"}
    /\ \E gone \in BOOLEAN : bundle' = [bundle EXCEPT ![b] = Unlinked(b, gone)]
    /\ BackupOnly

Backup(b) ==
    \/ OpenCopy(b) \/ CopyPages(b) \/ CopyBinding(b) \/ WriteManifest(b)
    \/ SyncManifest(b) \/ UndoBackup(b)

-----------------------------------------------------------------------------
\* The process dies: files stay, with an open transaction rolled back.
Crash ==
    /\ crashes < MaxCrashes
    /\ load > 0
    /\ crashes' = crashes + 1
    /\ db' = IF \E i \in Loads : th[i] = "migrate" THEN RolledBack(db) ELSE db
    /\ bundle' = [b \in Bundles |-> [bundle[b] EXCEPT !.pc = IF @ = "new" THEN @ ELSE "lost"]]
    /\ guard' = FALSE
    /\ th' = [i \in Loads |-> "none"]
    /\ owns' = [i \in Loads |-> FALSE]
    /\ acc' = [i \in Loads |-> FALSE]
    /\ queue' = [i \in Loads |-> <<>>]
    /\ answer' = [i \in Loads |-> "fine"]
    /\ start' = [i \in Loads |-> IF i <= load THEN "gone" ELSE start[i]]
    /\ stop' = [i \in Loads |-> IF i <= load THEN "gone" ELSE stop[i]]
    /\ init' = [i \in Loads |-> "pending"]
    /\ shut' = [i \in Loads |-> "pending"]
    /\ UNCHANGED <<binding, rows, wasReady, load>>

EventLoop(i) ==
    \/ StartReady(i) \/ StartRefused(i) \/ StartFailed(i) \/ SeeFailure(i)
    \/ PutStop(i) \/ Joined(i) \/ PoolShut(i)

Next ==
    \/ Load
    \/ Crash
    \/ \E i \in Loads : Writer(i) \/ EventLoop(i) \/ AskStop(i)
    \/ \E i \in Loads, w \in Writes : Submit(i, w)
    \/ \E b \in Bundles : RequestBackup(b) \/ Backup(b)

\* The event loop runs, its timed joins end, and a backup thread makes progress.
\* Nothing is assumed of a writer thread: it may hang in any file operation.
Fairness ==
    /\ \A i \in Loads : WF_vars(EventLoop(i))
    /\ \A b \in Bundles : WF_vars(Backup(b))

Spec == Init /\ [][Next]_vars /\ Fairness

-----------------------------------------------------------------------------
TypeOK ==
    /\ binding \in {"none", "tmp", "bound"}
    /\ db \in {"none", "empty", "v1", "v2"}
    /\ rows \subseteq Writes
    /\ wasReady \in BOOLEAN
    /\ bundle \in [Bundles -> Job]
    /\ guard \in BOOLEAN
    /\ load \in 0..MaxLoads
    /\ crashes \in 0..MaxCrashes
    /\ th \in [Loads -> WriterPcs]
    /\ init \in [Loads -> InitStates]
    /\ shut \in [Loads -> {"pending", "ok", "error"}]
    /\ owns \in [Loads -> BOOLEAN]
    /\ acc \in [Loads -> BOOLEAN]
    /\ queue \in [Loads -> Seq(Writes \cup {Stop})]
    /\ answer \in [Loads -> {"fine", "failed"}]
    /\ start \in [Loads -> StartStates]
    /\ stop \in [Loads -> StopStates]

Alive(i) == th[i] \notin {"none", "dead"}

\* At most one writer thread of the process works on the archive: over loads
\* that overlap the stop of an earlier one, starts that fail or are cancelled,
\* and joins that time out while the thread hangs (_acquire_guard, async_stop).
OneWriter == \A i, j \in Loads : Alive(i) /\ Alive(j) => i = j

\* A load is turned away as busy only while an earlier archive object is still
\* starting or stopping, or fenced: a clean stop and a failed start that was
\* joined free the path (_release_guard, async_start, async_stop).
BusyOnlyWhileOwned ==
    [][\A i \in Loads : start'[i] = "busy" /\ start[i] # "busy" =>
            \E j \in 1..(i - 1) : stop[j] \in {"asked", "join", "pool", "fenced"}]_vars

\* Once an archive was ready, no crash and no failed start, migration included,
\* leaves files that a later load would refuse (_open_writer, migrate_schema).
OnceReadyStaysOpenable == wasReady => binding = "bound" /\ db \in {"v1", "v2"}

\* A writer thread that has exited leaves no accepted command unanswered: its
\* caller awaits a future nobody would ever resolve (stop_accepting, _STOP).
ExitAnswersAll ==
    \A i \in Loads : ~Alive(i) => \A k \in DOMAIN queue[i] : queue[i][k] = Stop

\* validate_backup_sync accepts the files of bundle b.
Validates(b) ==
    /\ bundle[b].db = "whole"
    /\ bundle[b].bind
    /\ bundle[b].counted = bundle[b].content

\* A manifest is on disk only beside the whole bundle it describes, at every
\* moment of a backup, of its cleanup and of a crash in either, while the writer
\* goes on committing and whichever other unlink fails.  Only a cleanup that could
\* not unlink the manifest itself leaves one without its files, which
\* validate_backup_sync then refuses (_backup_sync).
ManifestBlessesBundle ==
    \A b \in Bundles : bundle[b].manifest => Validates(b) \/ bundle[b].kept

\* Once an unload has reached ArchiveDatabase.async_stop, which it does when the
\* stop of the capture has returned (runtime.async_stop), it comes to an end,
\* whether or not the archive's writer is stuck.
StopReturns ==
    \A i \in Loads : stop[i] = "asked" ~> stop[i] \in {"stopped", "fenced", "gone"}

=============================================================================
