----------------------------- MODULE SyncLedger -----------------------------
(***************************************************************************)
(* The work ledger of the cloud history import: the cloud tables of the      *)
(* archive and the transactions of storage/repository.py over them.          *)
(*                                                                           *)
(* The cloud advertises, per cooking session, a manifest of sequence numbers *)
(* and serves the samples it has.  What is to be fetched next is kept in the *)
(* archive as units of work: a manifest check, a bounded range of samples,   *)
(* or a bounded range to read again (audit).  Completing a unit stores what  *)
(* was read and schedules its successor in one transaction.  One unit is     *)
(* claimed at a time; the process may stop between claim and completion.     *)
(*                                                                           *)
(* Ranges and coverage are plain sets of numbers here; that the program's    *)
(* interval arithmetic computes them is checked in module Ranges.  A delay   *)
(* (not_before_us, last_full_audit_us, the discovery interval) is a flag     *)
(* that the passage of time sets or clears.                                  *)
(***************************************************************************)
EXTENDS Integers, FiniteSets, FiniteSetsExt

CONSTANTS
    Accounts,         \* account namespaces (one Firebase subject each)
    Tokens,           \* source session tokens of an account's probes
    OddTokens,        \* tokens the numeric endpoint does not take
    MaxSeq,           \* bound: last sequence number
    Manifests,        \* bound: sets of numbers the cloud may advertise
    Holdings,         \* bound: sets of samples the cloud may have
    ChunkSize,        \* CHUNK_SIZE
    MaxWorkAttempts,  \* MAX_WORK_ATTEMPTS
    Payloads,         \* contents a sample may have
    MaxSourceChanges  \* bound: changes of what the cloud has

NoPayload == "none"

ASSUME LedgerAssumption ==
    /\ OddTokens \subseteq Tokens
    /\ MaxSeq \in Nat
    /\ Manifests \subseteq SUBSET (1..MaxSeq)
    /\ Holdings \subseteq SUBSET (1..MaxSeq)
    /\ ChunkSize \in Nat \ {0}
    /\ MaxWorkAttempts \in Nat \ {0}
    /\ NoPayload \notin Payloads
    /\ MaxSourceChanges \in Nat

VARIABLES
    source,      \* what the cloud has of each session it can be asked about
    changes,     \* how often it changed
    sessions,    \* cloud_sessions
    manifests,   \* session_manifests with their manifest_ranges
    versions,    \* cloud_sample_versions
    selected,    \* cloud_samples.selected_version_id
    covered,     \* coverage_ranges
    gaps,        \* gaps of reason 'source_missing'
    audited,     \* last_full_audit_us is within FULL_AUDIT_INTERVAL_US
    work,        \* sync_work in state 'ready' or 'running'
    failed,      \* sync_work in state 'failed'
    discovery,   \* is a discovery_runs row "running" or none?
    paged,       \* sessions on the pages that the running one recorded
    fresh,       \* a complete run started within DISCOVERY_INTERVAL_US
    working,     \* the supervisor is running
    claimed      \* the SyncWork it holds, if any (at most one)

sourceVars    == <<source, changes>>
sampleVars    == <<manifests, versions, selected, covered, gaps, audited>>
discoveryVars == <<discovery, paged, fresh>>
vars == <<sourceVars, sessions, sampleVars, work, failed, discoveryVars,
          working, claimed>>

-----------------------------------------------------------------------------
Sessions == Accounts \X Tokens
Seqs     == 1..MaxSeq

\* the sessions the cloud can be asked about
Askable == {s \in Sessions : s[2] \notin OddTokens}

NoRange   == <<0, 0>>

\* what identifies an active unit: idx_sync_active_equivalent
Unit == [kind : {"manifest", "sample", "audit"}, session : Sessions,
         manifest : Manifests \cup {{}}, range : Nat \X Nat]

Work == [unit : Unit, priority : Nat, attempts : Nat,
         state : {"ready", "running"}, due : BOOLEAN]

ManifestUnit(s) ==
    [kind |-> "manifest", session |-> s, manifest |-> {}, range |-> NoRange]

RangeUnit(kind, s, m, range) ==
    [kind |-> kind, session |-> s, manifest |-> m, range |-> range]

NewWork(unit, priority, due) ==
    [unit |-> unit, priority |-> priority, attempts |-> 0, state |-> "ready",
     due |-> due]

Active(W, unit) == \E w \in W : w.unit = unit

\* _enqueue_work: an equivalent active unit makes the insert a no-op
Enqueue(W, unit, priority, due) ==
    IF Active(W, unit) THEN W ELSE W \cup {NewWork(unit, priority, due)}

\* faulty variant: one number too many
ChunkOneLonger(n, numbers) ==
    <<n, Max({k \in n..(n + ChunkSize) : n..k \subseteq numbers})>>

\* the longest bounded range from n on within numbers
ChunkFrom(n, numbers) ==
    <<n, Max({k \in n..(n + ChunkSize - 1) : n..k \subseteq numbers})>>

\* maximal runs of consecutive numbers
RunsOf(numbers) ==
    {r \in numbers \X numbers :
        /\ r[1]..r[2] \subseteq numbers /\ r[1] <= r[2]
        /\ r[1] - 1 \notin numbers /\ r[2] + 1 \notin numbers}

-----------------------------------------------------------------------------
Init ==
    /\ source \in [Askable -> [manifest : Manifests, served : Holdings]]
    /\ changes = 0
    /\ sessions = {}
    /\ manifests = [s \in Sessions |-> {}]
    /\ versions = [s \in Sessions |-> {}]
    /\ selected = [s \in Sessions |-> [n \in Seqs |-> NoPayload]]
    /\ covered = [s \in Sessions |-> {}]
    /\ gaps = [s \in Sessions |-> {}]
    /\ audited = [s \in Sessions |-> FALSE]
    /\ work = {} /\ failed = {}
    /\ discovery = "none" /\ paged = {} /\ fresh = FALSE
    /\ working = FALSE
    /\ claimed = {}

-----------------------------------------------------------------------------
(* Start and stop of the supervisor *)

\* faulty variant: abandoned claims are left as they are
RecoverRunsOnly ==
    /\ ~working
    /\ working' = TRUE
    /\ discovery' = "none" /\ paged' = {}
    /\ UNCHANGED <<sourceVars, sessions, sampleVars, work, failed, fresh, claimed>>

RecoverInterruptedWork ==
    /\ ~working
    /\ working' = TRUE
    /\ work' = {IF w.state = "running"
                THEN [w EXCEPT !.state = "ready", !.due = TRUE] ELSE w : w \in work}
    /\ discovery' = "none" /\ paged' = {}
    /\ UNCHANGED <<sourceVars, sessions, sampleVars, failed, fresh, claimed>>

\* crash, unload, a changed link or a closed archive: the claim is abandoned
Interrupted ==
    /\ working
    /\ working' = FALSE
    /\ claimed' = {}
    /\ UNCHANGED <<sourceVars, sessions, sampleVars, work, failed, discoveryVars>>

-----------------------------------------------------------------------------
(* Discovery *)

BeginDiscovery ==
    /\ working /\ claimed = {}
    /\ ~fresh
    /\ discovery = "none"
    /\ discovery' = "running"
    /\ UNCHANGED <<sourceVars, sessions, sampleVars, work, failed, paged, fresh,
                   working, claimed>>

\* one validated page of the session index
RecordDiscoveryPage(s) ==
    /\ working
    /\ discovery = "running"
    /\ s \notin paged
    /\ paged' = paged \cup {s}
    /\ sessions' = sessions \cup {s}
    /\ work' = Enqueue(work, ManifestUnit(s), 50, TRUE)
    /\ UNCHANGED <<sourceVars, sampleVars, failed, discovery, fresh, working,
                   claimed>>

FinishDiscovery ==
    /\ working
    /\ discovery = "running"
    /\ discovery' = "none" /\ paged' = {}
    /\ \/ paged = Sessions /\ fresh' = TRUE    \* complete
       \/ UNCHANGED fresh                      \* partial
    /\ UNCHANGED <<sourceVars, sessions, sampleVars, work, failed, working, claimed>>

-----------------------------------------------------------------------------
(* Work *)

Ready(W) == {w \in W : w.state = "ready" /\ w.due}

\* the most urgent due unit of one account
ClaimWork(account) ==
    LET candidates == {w \in Ready(work) : w.unit.session[1] = account}
    IN  /\ working /\ claimed = {}
        /\ discovery = "none"
        /\ \E w \in candidates :
              LET running == [w EXCEPT !.state = "running",
                                       !.attempts = Min({@ + 1, MaxWorkAttempts})]
              IN  /\ \A v \in candidates : w.priority <= v.priority
                  /\ work' = (work \ {w}) \cup {running}
                  /\ claimed' = {running}
        /\ UNCHANGED <<sourceVars, sessions, sampleVars, failed, discoveryVars,
                       working>>

Takes(w) == w.unit.session \in Askable

\* the request failed: retry later, up to MAX_WORK_ATTEMPTS
FailWork ==
    /\ \E w \in claimed :
          /\ Takes(w)
          /\ IF w.attempts >= MaxWorkAttempts
             THEN work' = work \ {w} /\ failed' = failed \cup {w.unit}
             ELSE /\ work' = (work \ {w}) \cup
                               {[w EXCEPT !.state = "ready", !.due = FALSE]}
                  /\ UNCHANGED failed
    /\ claimed' = {}
    /\ UNCHANGED <<sourceVars, sessions, sampleVars, discoveryVars, working>>

\* The token is refused before anything handles the error, or the transaction
\* of the result fails unexpectedly: the unit stays 'running', and the
\* supervisor goes on to the next.
AbandonClaim ==
    /\ claimed # {}
    /\ claimed' = {}
    /\ UNCHANGED <<sourceVars, sessions, sampleVars, work, failed, discoveryVars,
                   working>>

\* faulty variant: audits before the manifest is archived
AuditUnfinished(W, s, m) ==
    IF ~audited[s] /\ m # {}
    THEN Enqueue(W, RangeUnit("audit", s, m, ChunkFrom(Min(m), m)), 200, TRUE)
    ELSE IF m \subseteq covered[s] THEN W
         ELSE Enqueue(W, RangeUnit("sample", s, m,
                        ChunkFrom(Min(m \ covered[s]), m \ covered[s])), 60, TRUE)

\* the unit that follows the check of manifest m
AfterManifest(W, s, m) ==
    IF ~(m \subseteq covered[s])
    THEN Enqueue(W, RangeUnit("sample", s, m,
                        ChunkFrom(Min(m \ covered[s]), m \ covered[s])), 60, TRUE)
    ELSE IF ~audited[s] /\ m # {}
         THEN Enqueue(W, RangeUnit("audit", s, m, ChunkFrom(Min(m), m)), 200, TRUE)
         ELSE W

\* faulty variant: schedules the next check before the unit is done
CompleteManifestEarly(s) ==
    /\ \E w \in claimed :
          LET m == source[s].manifest
          IN  /\ w.unit = ManifestUnit(s)
              /\ manifests' = [manifests EXCEPT ![s] = @ \cup {m}]
              /\ work' = AfterManifest(Enqueue(work, ManifestUnit(s), 150, FALSE), s, m)
                           \ {w}
    /\ claimed' = {}
    /\ UNCHANGED <<sourceVars, sessions, versions, selected, covered, gaps, audited,
                   failed, discoveryVars, working>>

CompleteManifest(s) ==
    /\ \E w \in claimed :
          LET m == source[s].manifest
          IN  /\ w.unit = ManifestUnit(s)
              /\ manifests' = [manifests EXCEPT ![s] = @ \cup {m}]
              /\ work' = Enqueue(AfterManifest(work \ {w}, s, m),
                                 ManifestUnit(s), 150, FALSE)
    /\ claimed' = {}
    /\ UNCHANGED <<sourceVars, sessions, versions, selected, covered, gaps, audited,
                   failed, discoveryVars, working>>

-----------------------------------------------------------------------------
(* One response to a sample or audit request: versions, selection, coverage, *)
(* gaps and the successor, in one transaction                                *)

\* faulty variant: the newest payload of a sequence wins
SelectNewest(old, known, rows, p) ==
    [n \in Seqs |-> IF n \in rows THEN p ELSE old[n]]

\* a sequence with one version selects it, one with several selects none
SelectVersion(old, known, rows, p) ==
    [n \in Seqs |->
        IF n \notin rows THEN old[n]
        ELSE IF \A q \in Payloads : <<n, q>> \in known => q = p THEN p
             ELSE NoPayload]

Overlaps(g, range) == g.last >= range[1] /\ g.first <= range[2]

\* gaps of the manifest that the request overlaps are resolved, what is still
\* missing is a gap again
UpdateGaps(G, m, range, missing) ==
    LET runs == RunsOf(missing)
        named(g) == \E r \in runs : g.manifest = m /\ <<g.first, g.last>> = r
    IN  {IF g.manifest = m /\ Overlaps(g, range) THEN [g EXCEPT !.open = FALSE]
         ELSE g : g \in {x \in G : ~named(x)}}
        \cup {[manifest |-> m, first |-> r[1], last |-> r[2], open |-> TRUE] : r \in runs}

\* faulty variant: a partial response ends the chain
DropMissing(W, unit, have, missing) ==
    LET s == unit.session
        m == unit.manifest
        rest == {n \in m : n > unit.range[2]}
    IN  IF missing # {} THEN W
        ELSE IF unit.kind = "sample"
             THEN IF m \subseteq have THEN W
                  ELSE Enqueue(W, RangeUnit("sample", s, m,
                                  ChunkFrom(Min(m \ have), m \ have)), 60, TRUE)
             ELSE IF rest = {} THEN W
                  ELSE Enqueue(W, RangeUnit("audit", s, m, ChunkFrom(Min(rest), rest)),
                               210, TRUE)

\* the unit that follows a completed request
AfterRequest(W, unit, have, missing) ==
    LET s == unit.session
        m == unit.manifest
        rest == {n \in m : n > unit.range[2]}
    IN  IF missing # {}
        THEN Enqueue(W, RangeUnit(unit.kind, s, m, ChunkFrom(Min(missing), missing)),
                     IF unit.kind = "sample" THEN 80 ELSE 210, FALSE)
        ELSE IF unit.kind = "sample"
             THEN IF m \subseteq have THEN W
                  ELSE Enqueue(W, RangeUnit("sample", s, m,
                                  ChunkFrom(Min(m \ have), m \ have)), 60, TRUE)
             ELSE IF rest = {} THEN W
                  ELSE Enqueue(W, RangeUnit("audit", s, m, ChunkFrom(Min(rest), rest)),
                               210, TRUE)

\* faulty variant: expects a range past the end
AuditEndsBeyond(unit, missing) ==
    /\ unit.kind = "audit"
    /\ missing = {}
    /\ \A n \in unit.manifest : n < unit.range[2]

\* an audit whose last range was read again
AuditEnds(unit, missing) ==
    /\ unit.kind = "audit"
    /\ missing = {}
    /\ \A n \in unit.manifest : n <= unit.range[2]

CommitSampleWork(s, p) ==
    /\ \E w \in claimed :
          LET unit    == w.unit
              asked   == unit.range[1]..unit.range[2]
              rows    == asked \cap source[s].served
              known   == versions[s] \cup (rows \X {p})
              have    == covered[s] \cup rows
              missing == asked \ have
          IN  /\ unit.session = s /\ unit.kind \in {"sample", "audit"}
              /\ versions' = [versions EXCEPT ![s] = known]
              /\ selected' = [selected EXCEPT ![s] =
                                 SelectVersion(@, known, rows, p)]
              /\ covered' = [covered EXCEPT ![s] = have]
              /\ gaps' = [gaps EXCEPT ![s] =
                             UpdateGaps(@, unit.manifest, unit.range, missing)]
              /\ work' = AfterRequest(work \ {w}, unit, have, missing)
              /\ audited' = [audited EXCEPT ![s] = @ \/ AuditEnds(unit, missing)]
    /\ claimed' = {}
    /\ UNCHANGED <<sourceVars, sessions, manifests, failed, discoveryVars, working>>

-----------------------------------------------------------------------------
(* The cloud and the clock *)

\* the probe uploads samples, or the advertised manifest changes
SourceChanges(s) ==
    /\ changes < MaxSourceChanges
    /\ changes' = changes + 1
    /\ \E m \in Manifests : \E served \in Holdings :
          source' = [source EXCEPT ![s] = [manifest |-> m, served |-> served]]
    /\ UNCHANGED <<sessions, sampleVars, work, failed, discoveryVars, working,
                   claimed>>

\* a delay elapses
BecomesDue(unit) ==
    /\ \E w \in work :
          /\ w.unit = unit
          /\ w.state = "ready" /\ ~w.due
          /\ work' = (work \ {w}) \cup {[w EXCEPT !.due = TRUE]}
    /\ UNCHANGED <<sourceVars, sessions, sampleVars, failed, discoveryVars, working,
                   claimed>>

AuditAges(s) ==
    /\ audited[s]
    /\ audited' = [audited EXCEPT ![s] = FALSE]
    /\ UNCHANGED <<sourceVars, sessions, manifests, versions, selected, covered,
                   gaps, work, failed, discoveryVars, working, claimed>>

DiscoveryAges ==
    /\ fresh
    /\ fresh' = FALSE
    /\ UNCHANGED <<sourceVars, sessions, sampleVars, work, failed, discovery, paged,
                   working, claimed>>

-----------------------------------------------------------------------------
Discover == BeginDiscovery \/ FinishDiscovery
               \/ \E s \in Sessions : RecordDiscoveryPage(s)
Complete(s) == CompleteManifest(s) \/ \E p \in Payloads : CommitSampleWork(s, p)
Process  == FailWork \/ AbandonClaim \/ \E s \in Askable : Complete(s)
Claim    == \E a \in Accounts : ClaimWork(a)
Elapse   == DiscoveryAges \/ \E s \in Sessions : AuditAges(s)
Units    == {w.unit : w \in work}

Next ==
    \/ RecoverInterruptedWork \/ Interrupted
    \/ Discover \/ Claim \/ Process
    \/ Elapse
    \/ \E unit \in Units : BecomesDue(unit)
    \/ \E s \in Askable : SourceChanges(s)

Spec == Init /\ [][Next]_vars

Delayed(unit) == \E w \in work : w.unit = unit /\ w.state = "ready" /\ ~w.due

\* every delay elapses; stated by what ends it, the weak fairness of BecomesDue
\* and DiscoveryAges
DelaysElapse ==
    /\ []<>~fresh
    /\ \A s \in Sessions : []<>~Delayed(ManifestUnit(s))
    /\ \A s \in Sessions, m \in Manifests, kind \in {"sample", "audit"} :
          \A range \in Seqs \X Seqs : []<>~Delayed(RangeUnit(kind, s, m, range))

CommitFrom(s, n) == /\ \E w \in claimed : w.unit.range[1] = n
                    /\ \E p \in Payloads : CommitSampleWork(s, p)

\* a supervisor that runs again and again completes a discovery again and again
DiscoverySucceeds == []<>working => []<><<FinishDiscovery /\ fresh'>>_vars

\* A running supervisor works, every delay elapses, and neither crashes nor the
\* cloud's refusals keep a request that is made again and again from ever
\* succeeding.  Nothing starts a supervisor that ended.
FairSpec ==
    /\ Spec
    /\ DelaysElapse
    /\ DiscoverySucceeds
    /\ SF_vars(Claim)
    /\ \A s \in Askable :
          /\ SF_vars(CompleteManifest(s))
          /\ \A n \in Seqs : SF_vars(CommitFrom(s, n))

-----------------------------------------------------------------------------
(* Properties *)

IsGap(g) == /\ g.manifest \in Manifests /\ g.first \in Seqs /\ g.last \in Seqs
            /\ g.first <= g.last /\ g.open \in BOOLEAN

TypeOK ==
    /\ source \in [Askable -> [manifest : Manifests, served : Holdings]]
    /\ changes \in 0..MaxSourceChanges
    /\ sessions \in SUBSET Sessions
    /\ manifests \in [Sessions -> SUBSET Manifests]
    /\ versions \in [Sessions -> SUBSET (Seqs \X Payloads)]
    /\ selected \in [Sessions -> [Seqs -> Payloads \cup {NoPayload}]]
    /\ covered \in [Sessions -> SUBSET Seqs]
    /\ \A s \in Sessions : \A g \in gaps[s] : IsGap(g)
    /\ audited \in [Sessions -> BOOLEAN]
    /\ \A w \in work : w.unit.range[2] - w.unit.range[1] < ChunkSize
    /\ discovery \in {"none", "running"}
    /\ paged \in SUBSET Sessions
    /\ fresh \in BOOLEAN /\ working \in BOOLEAN
    /\ claimed \subseteq work

(* No session falls out of the schedule: once discovered, a check of its      *)
(* manifest is always ready or running, or it has failed for good and the     *)
(* next discovery brings it back.                                             *)
SessionsStayScheduled ==
    \A s \in sessions : Active(work, ManifestUnit(s)) \/ ManifestUnit(s) \in failed

Open(s) == {g \in gaps[s] : g.open}
Absent(g, s) == (g.first..g.last) \ covered[s]

(* A gap with numbers still absent is being retried: its manifest's chain of  *)
(* requests is alive, or was given up after MAX_WORK_ATTEMPTS ("Source        *)
(* absence remains an explicit retryable gap").                               *)
GapsAreRetried ==
    \A s \in sessions : \A g \in Open(s) :
        Absent(g, s) # {} =>
            \E u \in Units \cup failed :
                u.session = s /\ u.manifest = g.manifest /\ u.kind # "manifest"

(* A resolved gap hides nothing: what it lacked is archived or lies in an     *)
(* open gap of the same manifest.                                             *)
ResolvedHidesNothing ==
    \A s \in sessions : \A g \in gaps[s] : \A n \in Absent(g, s) :
        g.open \/ \E h \in Open(s) : h.manifest = g.manifest /\ n \in h.first..h.last

(* Only a manifest that is archived in full is read again, across changes of  *)
(* the manifest while an audit is under way.                                  *)
AuditFollowsCoverage ==
    \A w \in work : w.unit.kind = "audit" =>
        w.unit.manifest \subseteq covered[w.unit.session]

(* A selected version is the only one known of its sequence: a source that    *)
(* changes a sample never has one of the two silently preferred.              *)
SelectedIsUnrivalled ==
    \A s \in Sessions : \A n \in Seqs : \A p \in Payloads :
        selected[s][n] = p => \A q \in Payloads : <<n, q>> \in versions[s] => q = p

\* units of an abandoned claim: only the next start makes them claimable
LeftBehind == {w \in work : w.state = "running"} \ claimed

\* somebody reloads the entry whenever its supervisor ended or left a unit behind
Restarted == []<>working /\ []<>~(working /\ LeftBehind # {})

\* the supervisor is done with its due work again and again
KeepsUp == []<>(Ready(work) = {})

Available(s, n) == \A k \in source[s].manifest : k <= n => k \in source[s].served

(* If the supervisor is restarted whenever it ended or left a unit behind:    *)
(* every advertised sample that the cloud has is archived, provided the cloud *)
(* also has every advertised sample before it; an absent one holds up all     *)
(* that follow (_first_missing_chunk).                                        *)
ArchivedUpToFirstAbsence ==
    Restarted =>
        \A s \in Askable :
            []<>(\A n \in source[s].manifest : Available(s, n) => n \in covered[s])

ServedInFull(s) ==
    source[s].manifest # {} /\ source[s].manifest \subseteq source[s].served

(* If it is restarted so and keeps up with its work, a session that the cloud *)
(* serves in full is audited again and again (last_full_audit_us).            *)
AuditsRecur ==
    Restarted /\ KeepsUp =>
        \A s \in Askable : []<>(ServedInFull(s) => audited[s])

=============================================================================
