-------------------------- MODULE SyncLedgerProofs --------------------------
(***************************************************************************)
(* Safety of SyncLedger for any number of accounts, sessions, manifests,     *)
(* samples, attempts and source changes.  SyncInv ties the units of work to  *)
(* the manifests they were cut from and the gaps to the units that retry     *)
(* them.                                                                     *)
(***************************************************************************)
EXTENDS SyncLedger, WellFoundedInduction, TLAPS

-----------------------------------------------------------------------------
\* A unit asks for a bounded part of its manifest.
Fits(unit) ==
    /\ unit \in Unit
    /\ unit.range[2] - unit.range[1] < ChunkSize
    /\ unit.kind # "manifest" =>
           /\ unit.manifest \in Manifests
           /\ unit.range[1]..unit.range[2] \subseteq unit.manifest

WorkFits == /\ work \subseteq Work /\ claimed \subseteq work
            /\ ~working => claimed = {}
            /\ \A w \in claimed : w.state = "running"
            /\ \A w \in work : Fits(w.unit)

Gap == [manifest : Manifests, first : Seqs, last : Seqs, open : BOOLEAN]

\* A gap lies in its manifest.
GapsFit ==
    /\ gaps \in [Sessions -> SUBSET Gap]
    /\ \A s \in Sessions : \A g \in gaps[s] :
           g.first <= g.last /\ g.first..g.last \subseteq g.manifest

\* A unit of the chain of requests of manifest m.
Chain(u, s, m) == u.session = s /\ u.manifest = m /\ u.kind # "manifest"

Retried(s, m) == \/ \E w \in work : Chain(w.unit, s, m)
                 \/ \E u \in failed : Chain(u, s, m)

\* GapsAreRetried, also of a session before it is discovered.
AllGapsRetried ==
    \A s \in Sessions : \A g \in Open(s) : Absent(g, s) # {} => Retried(s, g.manifest)

\* The rest of the types.
Frame ==
    /\ source \in [Askable -> [manifest : Manifests, served : Holdings]]
    /\ changes \in 0..MaxSourceChanges
    /\ sessions \in SUBSET Sessions
    /\ manifests \in [Sessions -> SUBSET Manifests]
    /\ audited \in [Sessions -> BOOLEAN]
    /\ discovery \in {"none", "running"}
    /\ paged \in SUBSET Sessions
    /\ fresh \in BOOLEAN /\ working \in BOOLEAN

Samples ==
    /\ versions \in [Sessions -> SUBSET (Seqs \X Payloads)]
    /\ selected \in [Sessions -> [Seqs -> Payloads \cup {NoPayload}]]
    /\ covered \in [Sessions -> SUBSET Seqs]

SyncInv ==
    /\ Frame
    /\ Samples
    /\ WorkFits
    /\ GapsFit
    /\ SessionsStayScheduled
    /\ AllGapsRetried
    /\ AuditFollowsCoverage
    /\ SelectedIsUnrivalled

-----------------------------------------------------------------------------
(* Chunks of a set of numbers *)

LEMMA LeastMember ==
    ASSUME NEW S \in SUBSET Nat, S # {}
    PROVE  Min(S) \in S /\ \A y \in S : Min(S) <= y
<1>1. PICK x \in S : \A y \in S : ~(<<y, x>> \in OpToRel(<, Nat))
  BY NatLessThanWellFounded, WFMin
<1>2. \A y \in S : ~(y < x)
  BY <1>1, Zenon DEF OpToRel
<1>3. \A y \in S : x <= y
  BY <1>2
<1> QED BY <1>3 DEF Min

LEMMA GreatestMember ==
    ASSUME NEW m \in Nat, NEW S \in SUBSET (0..m), S # {}
    PROVE  Max(S) \in S
<1> DEFINE T == {m - x : x \in S}
<1>1. T \in SUBSET Nat /\ T # {}
  <2>1. \A x \in S : m - x \in Nat
    OBVIOUS
  <2> QED BY <2>1
<1>2. Min(T) \in T /\ \A z \in T : Min(T) <= z
  BY <1>1, LeastMember
<1> HIDE DEF T
<1>3. PICK x \in S : Min(T) = m - x
  BY <1>2 DEF T
<1>4. ASSUME NEW y \in S PROVE x >= y
  <2>1. m - y \in T
    BY DEF T
  <2>2. m - x <= m - y
    BY <1>2, <1>3, <2>1
  <2> QED BY <2>2
<1> QED BY <1>4 DEF Max

\* A chunk begins where it is asked to, lies in the set and is bounded.
LEMMA ChunkFits ==
    ASSUME NEW numbers \in SUBSET Seqs, NEW n \in numbers
    PROVE  /\ ChunkFrom(n, numbers) \in Nat \X Nat
           /\ ChunkFrom(n, numbers)[1] = n
           /\ ChunkFrom(n, numbers)[2] - n < ChunkSize
           /\ n..ChunkFrom(n, numbers)[2] \subseteq numbers
<1> USE LedgerAssumption DEF Seqs
<1> DEFINE ends == {k \in n..(n + ChunkSize - 1) : n..k \subseteq numbers}
<1>1. n \in Nat /\ n + ChunkSize - 1 \in Nat
  OBVIOUS
<1>2. n \in ends
  BY <1>1
<1>3. ends \in SUBSET (0..(n + ChunkSize - 1))
  BY <1>1
<1>4. Max(ends) \in ends
  BY <1>1, <1>2, <1>3, GreatestMember
<1>5. ChunkFrom(n, numbers) = <<n, Max(ends)>>
  BY DEF ChunkFrom
<1> HIDE DEF ends
<1>6. Max(ends) \in n..(n + ChunkSize - 1) /\ n..Max(ends) \subseteq numbers
  BY <1>4 DEF ends
<1> QED BY <1>1, <1>5, <1>6

LEMMA ChunkUnitFits ==
    ASSUME NEW kind \in {"sample", "audit"}, NEW s \in Sessions, NEW m \in Manifests,
           NEW numbers \in SUBSET m, numbers # {}
    PROVE  /\ Fits(RangeUnit(kind, s, m, ChunkFrom(Min(numbers), numbers)))
           /\ Chain(RangeUnit(kind, s, m, ChunkFrom(Min(numbers), numbers)), s, m)
<1> DEFINE range == ChunkFrom(Min(numbers), numbers)
<1>1. numbers \in SUBSET Seqs /\ numbers \in SUBSET Nat
  BY LedgerAssumption DEF Seqs
<1>2. Min(numbers) \in numbers
  BY <1>1, LeastMember
<1>3. /\ range \in Nat \X Nat /\ range[1] = Min(numbers)
      /\ range[2] - range[1] < ChunkSize /\ range[1]..range[2] \subseteq numbers
  BY <1>1, <1>2, ChunkFits
<1> HIDE DEF range
<1> DEFINE unit == RangeUnit(kind, s, m, range)
<1>4. unit = [kind |-> kind, session |-> s, manifest |-> m, range |-> range]
  BY DEF RangeUnit
<1> HIDE DEF unit
<1>5. unit \in Unit
  BY <1>3, <1>4 DEF Unit
<1>6. Fits(unit) /\ Chain(unit, s, m)
  BY <1>3, <1>4, <1>5 DEF Fits, Chain
<1> QED BY <1>6 DEF unit, range

LEMMA ManifestUnitFits ==
    ASSUME NEW s \in Sessions PROVE Fits(ManifestUnit(s))
<1>1. ManifestUnit(s).range[2] - ManifestUnit(s).range[1] = 0
  BY DEF ManifestUnit, NoRange
<1>2. ManifestUnit(s) \in Unit
  BY DEF ManifestUnit, NoRange, Unit
<1>3. ManifestUnit(s).kind = "manifest"
  BY DEF ManifestUnit
<1> QED BY <1>1, <1>2, <1>3, LedgerAssumption DEF Fits

-----------------------------------------------------------------------------
(* Enqueueing *)

LEMMA EnqueueAdds ==
    ASSUME NEW W, NEW unit, NEW priority, NEW due \in BOOLEAN
    PROVE  /\ W \subseteq Enqueue(W, unit, priority, due)
           /\ Active(Enqueue(W, unit, priority, due), unit)
           /\ \A w \in Enqueue(W, unit, priority, due) :
                  w \in W \/ (w = NewWork(unit, priority, due) /\ w.unit = unit)
<1>1. CASE Active(W, unit)
  <2>1. Enqueue(W, unit, priority, due) = W
    BY <1>1 DEF Enqueue
  <2> QED BY <1>1, <2>1
<1>2. CASE ~Active(W, unit)
  <2>1. Enqueue(W, unit, priority, due) = W \cup {NewWork(unit, priority, due)}
    BY <1>2 DEF Enqueue
  <2>2. NewWork(unit, priority, due).unit = unit
    BY DEF NewWork
  <2> QED BY <2>1, <2>2 DEF Active
<1> QED BY <1>1, <1>2

LEMMA NewWorkTyped ==
    ASSUME NEW unit \in Unit, NEW priority \in Nat, NEW due \in BOOLEAN
    PROVE  NewWork(unit, priority, due) \in Work /\ NewWork(unit, priority, due).unit = unit
BY DEF NewWork, Work

\* What a queue of work W2 keeps of W1 and adds to it.
Extends(W1, W2) ==
    /\ W1 \subseteq W2
    /\ \A w \in W2 : w \in W1 \/ (w \in Work /\ Fits(w.unit))

LEMMA EnqueueExtends ==
    ASSUME NEW W, NEW unit, Fits(unit), NEW priority \in Nat, NEW due \in BOOLEAN
    PROVE  Extends(W, Enqueue(W, unit, priority, due))
<1>1. unit \in Unit
  BY DEF Fits
<1> QED BY <1>1, EnqueueAdds, NewWorkTyped DEF Extends

\* The successor of a manifest check; an audit only of what is archived.
LEMMA AfterManifestExtends ==
    ASSUME NEW W, NEW s \in Sessions, NEW m \in Manifests
    PROVE  /\ Extends(W, AfterManifest(W, s, m))
           /\ \A w \in AfterManifest(W, s, m) : w \in W \/
                 (w.unit.kind = "audit" =>
                     w.unit.session = s /\ w.unit.manifest = m /\ m \subseteq covered[s])
<1>1. CASE ~(m \subseteq covered[s])
  <2> DEFINE unit == RangeUnit("sample", s, m, ChunkFrom(Min(m \ covered[s]), m \ covered[s]))
  <2>1. AfterManifest(W, s, m) = Enqueue(W, unit, 60, TRUE)
    BY <1>1 DEF AfterManifest
  <2>2. Fits(unit) /\ unit.kind = "sample"
    BY <1>1, ChunkUnitFits DEF RangeUnit
  <2> HIDE DEF unit
  <2>4. Extends(W, Enqueue(W, unit, 60, TRUE))
    BY <2>2, EnqueueExtends
  <2>5. \A w \in Enqueue(W, unit, 60, TRUE) : w \in W \/ w.unit = unit
    BY DEF Enqueue, NewWork
  <2>6. \A w \in AfterManifest(W, s, m) : w \in W \/ w.unit.kind = "sample"
    BY <2>1, <2>2, <2>5
  <2>7. Extends(W, AfterManifest(W, s, m))
    BY <2>1, <2>4
  <2> QED BY <2>6, <2>7
<1>2. CASE m \subseteq covered[s] /\ ~audited[s] /\ m # {}
  <2> DEFINE unit == RangeUnit("audit", s, m, ChunkFrom(Min(m), m))
  <2>1. AfterManifest(W, s, m) = Enqueue(W, unit, 200, TRUE)
    BY <1>2 DEF AfterManifest
  <2>2. Fits(unit) /\ unit.session = s /\ unit.manifest = m
    BY <1>2, ChunkUnitFits DEF RangeUnit
  <2> HIDE DEF unit
  <2>4. Extends(W, Enqueue(W, unit, 200, TRUE))
    BY <2>2, EnqueueExtends
  <2>5. \A w \in Enqueue(W, unit, 200, TRUE) : w \in W \/ w.unit = unit
    BY DEF Enqueue, NewWork
  <2>6. \A w \in AfterManifest(W, s, m) :
           w \in W \/ (w.unit.session = s /\ w.unit.manifest = m)
    BY <2>1, <2>2, <2>5
  <2>7. Extends(W, AfterManifest(W, s, m))
    BY <2>1, <2>4
  <2> QED BY <1>2, <2>6, <2>7
<1>3. CASE m \subseteq covered[s] /\ ~(~audited[s] /\ m # {})
  <2>1. AfterManifest(W, s, m) = W
    BY <1>3 DEF AfterManifest
  <2> QED BY <2>1 DEF Extends
<1> QED BY <1>1, <1>2, <1>3

\* The successor of a request: of the same kind and manifest, and there is one while
\* numbers are missing or, for samples, anything of the manifest is.
LEMMA AfterRequestExtends ==
    ASSUME NEW W, NEW unit, Fits(unit), unit.kind \in {"sample", "audit"},
           NEW have \in SUBSET Seqs, NEW missing \in SUBSET unit.manifest,
           NEW after, after = AfterRequest(W, unit, have, missing)
    PROVE  /\ Extends(W, after)
           /\ \A w \in after : w \in W \/ (/\ Chain(w.unit, unit.session, unit.manifest)
                                          /\ w.unit.kind = unit.kind)
           /\ missing # {} \/ (unit.kind = "sample" /\ ~(unit.manifest \subseteq have))
                 => \E w \in after : Chain(w.unit, unit.session, unit.manifest)
<1> DEFINE s == unit.session
           m == unit.manifest
           rest == {n \in m : n > unit.range[2]}
<1>1. s \in Sessions /\ m \in Manifests
  BY DEF Fits, Unit
<1>2. ASSUME NEW kind, kind = unit.kind, NEW numbers \in SUBSET m, numbers # {},
             NEW priority \in Nat, NEW due \in BOOLEAN,
             after = Enqueue(W, RangeUnit(kind, s, m, ChunkFrom(Min(numbers), numbers)),
                             priority, due)
      PROVE  /\ Extends(W, after)
             /\ \A w \in after : w \in W \/ (Chain(w.unit, s, m) /\ w.unit.kind = unit.kind)
             /\ \E w \in after : Chain(w.unit, s, m)
  <2> DEFINE next == RangeUnit(kind, s, m, ChunkFrom(Min(numbers), numbers))
  <2>1. Fits(next) /\ Chain(next, s, m) /\ next.kind = kind
    BY <1>1, <1>2, ChunkUnitFits DEF RangeUnit
  <2>2. NewWork(next, priority, due).unit = next
    BY DEF NewWork
  <2>3. after = Enqueue(W, next, priority, due)
    BY <1>2
  <2> HIDE DEF next
  <2>4. Active(after, next)
    BY <2>3, EnqueueAdds
  <2> QED BY <1>2, <2>1, <2>2, <2>3, <2>4, EnqueueExtends, EnqueueAdds DEF Active
<1>3. Extends(W, W)
  BY DEF Extends
<1>4. CASE missing # {}
  <2> DEFINE priority == IF unit.kind = "sample" THEN 80 ELSE 210
  <2>1. priority \in Nat
    OBVIOUS
  <2>2. after = Enqueue(W, RangeUnit(unit.kind, s, m, ChunkFrom(Min(missing), missing)),
                        priority, FALSE)
    BY <1>4 DEF AfterRequest
  <2> HIDE DEF priority, s, m
  <2>3. missing \in SUBSET m
    BY DEF m
  <2> QED BY <1>2, <1>4, <2>1, <2>2, <2>3 DEF s, m
<1>5. CASE missing = {} /\ unit.kind = "sample" /\ ~(m \subseteq have)
  <2>1. after = Enqueue(W, RangeUnit("sample", s, m, ChunkFrom(Min(m \ have), m \ have)),
                        60, TRUE)
    BY <1>5 DEF AfterRequest
  <2>2. m \ have \in SUBSET m /\ m \ have # {}
    BY <1>5
  <2> QED BY <1>2, <1>5, <2>1, <2>2
<1>6. CASE missing = {} /\ unit.kind = "sample" /\ m \subseteq have
  <2>1. after = W
    BY <1>6 DEF AfterRequest
  <2> QED BY <1>3, <1>6, <2>1
<1>7. CASE missing = {} /\ unit.kind = "audit" /\ rest = {}
  <2>1. after = W
    BY <1>7 DEF AfterRequest
  <2> QED BY <1>3, <1>7, <2>1
<1>8. CASE missing = {} /\ unit.kind = "audit" /\ rest # {}
  <2>1. after = Enqueue(W, RangeUnit("audit", s, m, ChunkFrom(Min(rest), rest)), 210, TRUE)
    BY <1>8 DEF AfterRequest
  <2>2. rest \in SUBSET m
    OBVIOUS
  <2> HIDE DEF rest
  <2> QED BY <1>2, <1>8, <2>1, <2>2
<1> QED BY <1>4, <1>5, <1>6, <1>7, <1>8

-----------------------------------------------------------------------------
(* Steps that commit no samples *)

LEMMA SyncInit == Init => SyncInv
<1> SUFFICES ASSUME Init PROVE SyncInv
  OBVIOUS
<1> USE LedgerAssumption DEF Init
<1>1. Frame
  <2>1. changes \in 0..MaxSourceChanges
    OBVIOUS
  <2>2. manifests \in [Sessions -> SUBSET Manifests] /\ audited \in [Sessions -> BOOLEAN]
    BY Zenon
  <2>3. sessions \in SUBSET Sessions /\ paged \in SUBSET Sessions
    OBVIOUS
  <2> QED BY <2>1, <2>2, <2>3 DEF Frame
<1>2. Samples
  BY DEF Samples
<1>3. WorkFits /\ GapsFit
  BY DEF WorkFits, GapsFit
<1>4. SessionsStayScheduled /\ AuditFollowsCoverage
  BY DEF SessionsStayScheduled, AuditFollowsCoverage
<1>5. AllGapsRetried
  BY DEF AllGapsRetried, Open
<1>6. SelectedIsUnrivalled
  BY DEF SelectedIsUnrivalled
<1> QED BY <1>1, <1>2, <1>3, <1>4, <1>5, <1>6 DEF SyncInv

\* Every unit stays active or has failed, and a new one fits.
LEMMA LedgerKeeps ==
    ASSUME SyncInv, Frame', UNCHANGED <<versions, selected, covered, gaps>>,
           work' \subseteq Work, claimed' \subseteq work', failed \subseteq failed',
           ~working' => claimed' = {}, \A w \in claimed' : w.state = "running",
           \A w \in work' : \/ \E v \in work : v.unit = w.unit
                            \/ /\ Fits(w.unit)
                               /\ w.unit.kind = "audit" =>
                                      w.unit.manifest \subseteq covered[w.unit.session],
           \A v \in work : v.unit \in failed' \/ \E w \in work' : w.unit = v.unit,
           \A s \in sessions' \ sessions : Active(work', ManifestUnit(s))
    PROVE  SyncInv'
<1> USE DEF SyncInv
<1>1. Samples' /\ GapsFit' /\ SelectedIsUnrivalled'
  BY DEF Samples, GapsFit, SelectedIsUnrivalled
<1>2. WorkFits'
  <2>1. \A w \in work' : Fits(w.unit)
    BY DEF WorkFits
  <2> QED BY <2>1 DEF WorkFits
<1>3. SessionsStayScheduled'
  BY DEF SessionsStayScheduled, Active
<1>4. AuditFollowsCoverage'
  BY DEF AuditFollowsCoverage
<1>5. ASSUME NEW s, NEW m, Retried(s, m) PROVE Retried(s, m)'
  BY <1>5 DEF Retried, Chain
<1>6. AllGapsRetried'
  BY <1>5 DEF AllGapsRetried, Open, Absent
<1> QED BY <1>1, <1>2, <1>3, <1>4, <1>6

LEMMA SupervisorKeeps ==
    ASSUME SyncInv, RecoverInterruptedWork \/ Interrupted PROVE SyncInv'
<1>1. UNCHANGED <<versions, selected, covered, gaps, sessions, failed>>
  BY DEF RecoverInterruptedWork, Interrupted, sampleVars
<1>2. Frame'
  BY DEF SyncInv, Frame, RecoverInterruptedWork, Interrupted, sampleVars, sourceVars,
         discoveryVars
<1> USE DEF sampleVars
<1>3. CASE Interrupted
  <2>1. work' = work /\ claimed' = {}
    BY <1>3 DEF Interrupted
  <2> QED BY <1>1, <1>2, <2>1, LedgerKeeps DEF SyncInv, WorkFits
<1>4. CASE RecoverInterruptedWork
  <2>0. PICK f \in [work -> Work] :
           /\ \A w \in work : f[w].unit = w.unit /\ (w.state # "running" => f[w] = w)
           /\ work' = {f[w] : w \in work}
    <3> DEFINE f == [w \in work |-> IF w.state = "running"
                                    THEN [w EXCEPT !.state = "ready", !.due = TRUE] ELSE w]
    <3>1. work' = {f[w] : w \in work}
      BY <1>4 DEF RecoverInterruptedWork
    <3>2. ASSUME NEW w \in work
          PROVE  f[w] \in Work /\ f[w].unit = w.unit /\ (w.state # "running" => f[w] = w)
      BY DEF SyncInv, WorkFits, Work
    <3> QED BY <3>1, <3>2
  <2>1. work' \subseteq Work
    BY <2>0
  <2>2. \A w \in work' : \E v \in work : v.unit = w.unit
    BY <2>0
  <2>3. \A v \in work : \E w \in work' : w.unit = v.unit
    BY <2>0
  <2>4. claimed' = {} /\ working' = TRUE
    BY <1>4 DEF RecoverInterruptedWork, SyncInv, WorkFits
  <2> QED BY <1>1, <1>2, <2>1, <2>2, <2>3, <2>4, LedgerKeeps
<1> QED BY <1>3, <1>4

LEMMA DiscoverKeeps == ASSUME SyncInv, Discover PROVE SyncInv'
<1> USE DEF SyncInv, sampleVars
<1>1. CASE BeginDiscovery \/ FinishDiscovery
  <2>1. /\ work' = work /\ claimed' = claimed /\ failed' = failed /\ sessions' = sessions
        /\ working' = working /\ UNCHANGED <<versions, selected, covered, gaps>>
    BY <1>1 DEF BeginDiscovery, FinishDiscovery
  <2>2. Frame'
    <3>1. UNCHANGED <<sourceVars, sessions, manifests, audited, working>>
      BY <1>1 DEF BeginDiscovery, FinishDiscovery
    <3>2. /\ discovery' \in {"none", "running"}
          /\ paged' \in SUBSET Sessions /\ fresh' \in BOOLEAN
      BY <1>1 DEF Frame, BeginDiscovery, FinishDiscovery
    <3> QED BY <3>1, <3>2 DEF Frame, sourceVars
  <2> QED BY <2>1, <2>2, LedgerKeeps DEF WorkFits
<1>2. ASSUME NEW s \in Sessions, RecordDiscoveryPage(s) PROVE SyncInv'
  <2>1. /\ work' = Enqueue(work, ManifestUnit(s), 50, TRUE)
        /\ claimed' = claimed /\ failed' = failed /\ sessions' = sessions \cup {s}
        /\ working' = working /\ UNCHANGED <<versions, selected, covered, gaps>>
    BY <1>2 DEF RecordDiscoveryPage
  <2>2. Frame'
    BY <1>2 DEF Frame, RecordDiscoveryPage, sourceVars
  <2>3. Extends(work, work') /\ Active(work', ManifestUnit(s))
    <3>1. Fits(ManifestUnit(s))
      BY ManifestUnitFits
    <3>2. Extends(work, work')
      BY <2>1, <3>1, EnqueueExtends
    <3> QED BY <2>1, <3>2, EnqueueAdds
  <2>4. \A w \in work' : w \in work \/ w.unit.kind = "manifest"
    BY <2>1 DEF Enqueue, NewWork, ManifestUnit
  <2>5. /\ work' \subseteq Work /\ claimed' \subseteq work' /\ (~working' => claimed' = {})
        /\ \A w \in claimed' : w.state = "running"
    BY <2>1, <2>3 DEF Extends, WorkFits
  <2>6. ASSUME NEW w \in work'
        PROVE  \/ \E v \in work : v.unit = w.unit
               \/ Fits(w.unit) /\ w.unit.kind # "audit"
    <3>1. CASE w \in work
      BY <3>1
    <3>2. CASE w \notin work
      <4>1. Fits(w.unit)
        BY <2>3, <3>2 DEF Extends
      <4> QED BY <2>4, <3>2, <4>1
    <3> QED BY <3>1, <3>2
  <2>7. \A v \in work : \E w \in work' : w.unit = v.unit
    BY <2>3 DEF Extends
  <2>8. \A t \in sessions' \ sessions : Active(work', ManifestUnit(t))
    BY <2>1, <2>3
  <2> QED BY <2>1, <2>2, <2>5, <2>6, <2>7, <2>8, LedgerKeeps
<1> QED BY <1>1, <1>2 DEF Discover

\* A claimed unit goes on as the same unit.
LEMMA ReplaceKeeps ==
    ASSUME SyncInv, NEW w \in work, NEW x \in Work, x.unit = w.unit,
           work' = (work \ {w}) \cup {x}, 
           claimed' \subseteq {x}, claimed' = {} \/ (working' /\ x.state = "running"),
           UNCHANGED <<sourceVars, sessions, sampleVars, failed, discoveryVars, working>>
    PROVE  SyncInv'
<1> USE DEF SyncInv, sampleVars
<1>1. Frame' /\ UNCHANGED <<versions, selected, covered, gaps, failed, sessions>>
  BY DEF Frame, sourceVars, discoveryVars
<1>2. /\ work' \subseteq Work /\ claimed' \subseteq work' /\ (~working' => claimed' = {})
      /\ \A y \in claimed' : y.state = "running"
  BY DEF WorkFits
<1>3. \A y \in work' : \E v \in work : v.unit = y.unit
  OBVIOUS
<1>4. \A v \in work : \E y \in work' : y.unit = v.unit
  OBVIOUS
<1> QED BY <1>1, <1>2, <1>3, <1>4, LedgerKeeps

LEMMA ClaimKeeps == ASSUME SyncInv, Claim PROVE SyncInv'
<1>1. PICK account \in Accounts : ClaimWork(account)
  BY DEF Claim
<1>2. PICK w \in {v \in Ready(work) : v.unit.session[1] = account} :
          LET running == [w EXCEPT !.state = "running",
                                   !.attempts = Min({@ + 1, MaxWorkAttempts})]
          IN  work' = (work \ {w}) \cup {running} /\ claimed' = {running}
  BY <1>1 DEF ClaimWork
<1> DEFINE running == [w EXCEPT !.state = "running",
                                !.attempts = Min({@ + 1, MaxWorkAttempts})]
<1>3. w \in work /\ w \in Work
  BY <1>2 DEF Ready, SyncInv, WorkFits
<1>4. w.attempts + 1 \in Nat /\ MaxWorkAttempts \in Nat
  BY <1>3, LedgerAssumption DEF Work
<1>5. Min({w.attempts + 1, MaxWorkAttempts}) \in Nat
  BY <1>4, LeastMember
<1>6. running \in Work /\ running.unit = w.unit /\ running.state = "running"
  BY <1>3, <1>5 DEF Work
<1>7. work' = (work \ {w}) \cup {running} /\ claimed' = {running} /\ working
  BY <1>1, <1>2 DEF ClaimWork
<1>8. UNCHANGED <<sourceVars, sessions, sampleVars, failed, discoveryVars, working>>
  BY <1>1 DEF ClaimWork
<1> HIDE DEF running
<1> QED BY <1>3, <1>6, <1>7, <1>8, ReplaceKeeps

LEMMA FailWorkKeeps == ASSUME SyncInv, FailWork PROVE SyncInv'
<1> USE DEF SyncInv
<1>1. PICK w \in claimed :
         IF w.attempts >= MaxWorkAttempts
         THEN work' = work \ {w} /\ failed' = failed \cup {w.unit}
         ELSE /\ work' = (work \ {w}) \cup {[w EXCEPT !.state = "ready", !.due = FALSE]}
              /\ UNCHANGED failed
  BY DEF FailWork
<1>2. w \in work /\ w \in Work
  BY DEF WorkFits
<1>3. claimed' = {} /\ UNCHANGED <<sourceVars, sessions, sampleVars, discoveryVars, working>>
  BY DEF FailWork
<1>4. CASE w.attempts >= MaxWorkAttempts
  <2>1. work' = work \ {w} /\ failed' = failed \cup {w.unit}
    BY <1>1, <1>4
  <2>2. Frame' /\ UNCHANGED <<versions, selected, covered, gaps, sessions>>
    BY <1>3 DEF Frame, sourceVars, discoveryVars, sampleVars
  <2>3. work' \subseteq Work /\ failed \subseteq failed'
    BY <2>1 DEF WorkFits
  <2>4. \A y \in work' : \E v \in work : v.unit = y.unit
    BY <2>1
  <2>5. \A v \in work : v.unit \in failed' \/ \E y \in work' : y.unit = v.unit
    BY <2>1
  <2> QED BY <1>3, <2>2, <2>3, <2>4, <2>5, LedgerKeeps
<1>5. CASE ~(w.attempts >= MaxWorkAttempts)
  <2> DEFINE later == [w EXCEPT !.state = "ready", !.due = FALSE]
  <2>1. later \in Work /\ later.unit = w.unit
    BY <1>2 DEF Work
  <2>2. work' = (work \ {w}) \cup {later} /\ UNCHANGED failed
    BY <1>1, <1>5
  <2> HIDE DEF later
  <2> QED BY <1>2, <1>3, <2>1, <2>2, ReplaceKeeps
<1> QED BY <1>4, <1>5

\* The check of a manifest schedules the next check in the same transaction.
LEMMA CompleteManifestKeeps ==
    ASSUME SyncInv, NEW s \in Askable, CompleteManifest(s) PROVE SyncInv'
<1> USE DEF SyncInv
<1> DEFINE m == source[s].manifest
<1>1. PICK w \in claimed :
         /\ w.unit = ManifestUnit(s)
         /\ manifests' = [manifests EXCEPT ![s] = @ \cup {m}]
         /\ work' = Enqueue(AfterManifest(work \ {w}, s, m), ManifestUnit(s), 150, FALSE)
  BY DEF CompleteManifest
<1>2. /\ claimed' = {}
      /\ UNCHANGED <<sourceVars, sessions, versions, selected, covered, gaps, audited,
                     failed, discoveryVars, working>>
  BY DEF CompleteManifest
<1>3. s \in Sessions /\ m \in Manifests
  BY DEF Askable, Frame
<1> HIDE DEF m
<1> DEFINE after == AfterManifest(work \ {w}, s, m)
<1>4. /\ Extends(work \ {w}, after)
      /\ \A y \in after : y \in work \ {w} \/
            (y.unit.kind = "audit" =>
                y.unit.session = s /\ y.unit.manifest = m /\ m \subseteq covered[s])
  BY <1>3, AfterManifestExtends
<1> HIDE DEF after
<1>5. work' = Enqueue(after, ManifestUnit(s), 150, FALSE)
  BY <1>1 DEF after
<1>6. Extends(after, work') /\ Active(work', ManifestUnit(s))
  <2>1. Fits(ManifestUnit(s))
    BY <1>3, ManifestUnitFits
  <2>2. Extends(after, work')
    BY <1>5, <2>1, EnqueueExtends
  <2>3. Active(work', ManifestUnit(s))
    <3>1. CASE Active(after, ManifestUnit(s))
      BY <1>5, <3>1 DEF Enqueue
    <3>2. CASE ~Active(after, ManifestUnit(s))
      <4>1. work' = after \cup {NewWork(ManifestUnit(s), 150, FALSE)}
        BY <1>5, <3>2 DEF Enqueue
      <4>2. NewWork(ManifestUnit(s), 150, FALSE).unit = ManifestUnit(s)
        BY DEF NewWork
      <4> QED BY <4>1, <4>2 DEF Active
    <3> QED BY <3>1, <3>2
  <2> QED BY <2>2, <2>3
<1>7. \A y \in work' : y \in after \/ y.unit = ManifestUnit(s)
  BY <1>5 DEF Enqueue, NewWork
<1>8. Frame'
  <2>1. manifests' \in [Sessions -> SUBSET Manifests]
    BY <1>1, <1>3 DEF Frame
  <2> QED BY <1>2, <2>1 DEF Frame, sourceVars, discoveryVars
<1>9. work' \subseteq Work
  BY <1>4, <1>6 DEF Extends, WorkFits
<1>10. ASSUME NEW y \in work'
       PROVE  \/ \E v \in work : v.unit = y.unit
              \/ /\ Fits(y.unit)
                 /\ y.unit.kind = "audit" => y.unit.manifest \subseteq covered[y.unit.session]
  <2>1. CASE y.unit = ManifestUnit(s)
    BY <1>1, <2>1 DEF WorkFits
  <2>2. CASE y \in after
    BY <1>4, <2>2 DEF Extends
  <2> QED BY <1>7, <2>1, <2>2
<1>11. ASSUME NEW v \in work PROVE \E y \in work' : y.unit = v.unit
  <2>1. CASE v = w
    BY <1>1, <1>6, <2>1 DEF Active
  <2>2. CASE v # w
    BY <1>4, <1>6, <2>2 DEF Extends
  <2> QED BY <2>1, <2>2
<1> QED BY <1>2, <1>8, <1>9, <1>10, <1>11, LedgerKeeps

\* The cloud and the clock leave the units as they are.
LEMMA ClockKeeps ==
    ASSUME SyncInv,
           \/ AbandonClaim \/ Elapse
           \/ \E unit \in Units : BecomesDue(unit)
           \/ \E s \in Askable : SourceChanges(s)
    PROVE  SyncInv'
<1> USE DEF SyncInv
<1>1. CASE AbandonClaim
  <2>1. /\ work' = work /\ claimed' = {}
        /\ UNCHANGED <<versions, selected, covered, gaps, sessions, failed>>
    BY <1>1 DEF AbandonClaim, sampleVars
  <2>2. Frame'
    BY <1>1 DEF Frame, AbandonClaim, sourceVars, sampleVars, discoveryVars
  <2> QED BY <2>1, <2>2, LedgerKeeps DEF WorkFits
<1>2. CASE Elapse
  <2>1. /\ work' = work /\ claimed' = claimed /\ working' = working
        /\ UNCHANGED <<versions, selected, covered, gaps, sessions, failed>>
    BY <1>2 DEF Elapse, AuditAges, DiscoveryAges, sampleVars
  <2>2. Frame'
    BY <1>2 DEF Frame, Elapse, AuditAges, DiscoveryAges, sourceVars, sampleVars, discoveryVars
  <2> QED BY <2>1, <2>2, LedgerKeeps DEF WorkFits
<1>3. ASSUME NEW unit \in Units, BecomesDue(unit) PROVE SyncInv'
  <2>1. PICK w \in work : /\ w.state = "ready" /\ ~w.due
                          /\ work' = (work \ {w}) \cup {[w EXCEPT !.due = TRUE]}
    BY <1>3 DEF BecomesDue
  <2> DEFINE x == [w EXCEPT !.due = TRUE]
  <2>2. x \in Work /\ x.unit = w.unit
    BY DEF WorkFits, Work
  <2>3. work' = (work \ {w}) \cup {x} /\ claimed' = claimed /\ working' = working
    BY <1>3, <2>1 DEF BecomesDue
  <2> HIDE DEF x
  <2>4. /\ UNCHANGED <<versions, selected, covered, gaps, sessions, failed>>
        /\ Frame'
    BY <1>3 DEF Frame, BecomesDue, sourceVars, sampleVars, discoveryVars
  <2>5. claimed \subseteq work'
    BY <2>1, <2>3 DEF WorkFits
  <2> QED BY <2>2, <2>3, <2>4, <2>5, LedgerKeeps DEF WorkFits
<1>4. ASSUME NEW s \in Askable, SourceChanges(s) PROVE SyncInv'
  <2>1. /\ work' = work /\ claimed' = claimed /\ working' = working
        /\ UNCHANGED <<versions, selected, covered, gaps, sessions, failed>>
    BY <1>4 DEF SourceChanges, sampleVars
  <2>2. source' \in [Askable -> [manifest : Manifests, served : Holdings]]
    BY <1>4 DEF SourceChanges, Frame
  <2>3. changes' \in 0..MaxSourceChanges
    BY <1>4, LedgerAssumption DEF SourceChanges, Frame
  <2>4. Frame'
    BY <1>4, <2>2, <2>3 DEF Frame, SourceChanges, sampleVars, discoveryVars
  <2> QED BY <2>1, <2>4, LedgerKeeps DEF WorkFits
<1> QED BY <1>1, <1>2, <1>3, <1>4

-----------------------------------------------------------------------------
(* The response to a request *)

\* The gaps after a response: one that is open was open before or is of this request.
LEMMA UpdatedGapsFit ==
    ASSUME NEW G \in SUBSET Gap,
           \A g \in G : g.first <= g.last /\ g.first..g.last \subseteq g.manifest,
           NEW m \in Manifests, NEW range \in Nat \X Nat, NEW missing \in SUBSET m,
           NEW h \in UpdateGaps(G, m, range, missing)
    PROVE  /\ h \in Gap
           /\ h.first <= h.last /\ h.first..h.last \subseteq h.manifest
           /\ h.open => h \in G \/ (h.manifest = m /\ missing # {})
<1>1. \/ \E g \in G : h = g \/ h = [g EXCEPT !.open = FALSE]
      \/ \E r \in RunsOf(missing) :
            h = [manifest |-> m, first |-> r[1], last |-> r[2], open |-> TRUE]
  BY DEF UpdateGaps
<1>2. ASSUME NEW g \in G, h = g PROVE TRUE /\ h \in G
  BY <1>2
<1>3. ASSUME NEW g \in G, h = [g EXCEPT !.open = FALSE]
      PROVE  /\ h \in Gap /\ h.open = FALSE
             /\ h.first = g.first /\ h.last = g.last /\ h.manifest = g.manifest
  BY <1>3 DEF Gap
<1>4. ASSUME NEW r \in RunsOf(missing),
             h = [manifest |-> m, first |-> r[1], last |-> r[2], open |-> TRUE]
      PROVE  /\ h \in Gap /\ h.manifest = m /\ missing # {}
             /\ h.first <= h.last /\ h.first..h.last \subseteq h.manifest
  <2>1. r \in missing \X missing /\ r[1]..r[2] \subseteq missing /\ r[1] <= r[2]
    BY <1>4 DEF RunsOf
  <2>2. r[1] \in Seqs /\ r[2] \in Seqs /\ missing # {}
    BY <2>1, LedgerAssumption DEF Seqs
  <2> QED BY <1>4, <2>1, <2>2 DEF Gap
<1> QED BY <1>1, <1>2, <1>3, <1>4

LEMMA CommitKeeps ==
    ASSUME SyncInv, NEW s \in Askable, NEW p \in Payloads, CommitSampleWork(s, p)
    PROVE  SyncInv'
<1> USE DEF SyncInv
<1>1. PICK w \in claimed :
          LET unit    == w.unit
              asked   == unit.range[1]..unit.range[2]
              rows    == asked \cap source[s].served
              known   == versions[s] \cup (rows \X {p})
              have    == covered[s] \cup rows
              missing == asked \ have
          IN  /\ unit.session = s /\ unit.kind \in {"sample", "audit"}
              /\ versions' = [versions EXCEPT ![s] = known]
              /\ selected' = [selected EXCEPT ![s] = SelectVersion(@, known, rows, p)]
              /\ covered' = [covered EXCEPT ![s] = have]
              /\ gaps' = [gaps EXCEPT ![s] = UpdateGaps(@, unit.manifest, unit.range, missing)]
              /\ work' = AfterRequest(work \ {w}, unit, have, missing)
              /\ audited' = [audited EXCEPT ![s] = @ \/ AuditEnds(unit, missing)]
  BY DEF CommitSampleWork
<1> DEFINE unit    == w.unit
           m       == unit.manifest
           asked   == unit.range[1]..unit.range[2]
           rows    == asked \cap source[s].served
           known   == versions[s] \cup (rows \X {p})
           have    == covered[s] \cup rows
           missing == asked \ have
<1>2. w \in work /\ Fits(unit)
  BY DEF WorkFits
<1>3. /\ unit.session = s /\ unit.kind \in {"sample", "audit"}
      /\ versions' = [versions EXCEPT ![s] = known]
      /\ selected' = [selected EXCEPT ![s] = SelectVersion(selected[s], known, rows, p)]
      /\ covered' = [covered EXCEPT ![s] = have]
      /\ gaps' = [gaps EXCEPT ![s] = UpdateGaps(gaps[s], m, unit.range, missing)]
      /\ work' = AfterRequest(work \ {w}, unit, have, missing)
      /\ audited' = [audited EXCEPT ![s] = @ \/ AuditEnds(unit, missing)]
  BY <1>1 DEF Samples, GapsFit
<1>4. /\ claimed' = {}
      /\ UNCHANGED <<sourceVars, sessions, manifests, failed, discoveryVars, working>>
  BY DEF CommitSampleWork
<1>5. /\ s \in Sessions /\ m \in Manifests /\ unit.range \in Nat \X Nat
      /\ rows \in SUBSET Seqs /\ have \in SUBSET Seqs /\ missing \in SUBSET m
      /\ covered[s] \subseteq have
  <2>1. s \in Sessions /\ source[s].served \in SUBSET Seqs
    <3>1. s \in Sessions /\ source[s].served \in Holdings
      BY DEF Askable, Frame
    <3>2. Holdings \subseteq SUBSET Seqs
      BY LedgerAssumption DEF Seqs
    <3>3. QED
      BY <3>1, <3>2
  <2>2. m \in Manifests /\ unit.range \in Nat \X Nat /\ asked \subseteq m
    BY <1>2, <1>3 DEF Fits, Unit
  <2>3. covered[s] \in SUBSET Seqs
    BY <2>1 DEF Samples
  <2> QED BY <2>1, <2>2, <2>3
<1> DEFINE after == AfterRequest(work \ {w}, unit, have, missing)
<1>6. /\ Extends(work \ {w}, after)
      /\ \A y \in after : y \in work \ {w} \/ (Chain(y.unit, s, m) /\ y.unit.kind = unit.kind)
      /\ missing # {} \/ (unit.kind = "sample" /\ ~(m \subseteq have))
            => \E y \in after : Chain(y.unit, s, m)
  <2> HIDE DEF unit, asked, rows, known, have, missing, after, m
  <2>1. unit.session = s /\ unit.manifest = m /\ missing \in SUBSET unit.manifest
    BY <1>3, <1>5 DEF m
  <2>2. after = AfterRequest(work \ {w}, unit, have, missing)
    BY DEF after
  <2>3. Fits(unit) /\ unit.kind \in {"sample", "audit"} /\ have \in SUBSET Seqs
    BY <1>2, <1>3, <1>5
  <2>4. /\ Extends(work \ {w}, after)
        /\ \A y \in after : y \in work \ {w} \/ (/\ Chain(y.unit, unit.session, unit.manifest)
                                               /\ y.unit.kind = unit.kind)
        /\ missing # {} \/ (unit.kind = "sample" /\ ~(unit.manifest \subseteq have))
              => \E y \in after : Chain(y.unit, unit.session, unit.manifest)
    BY ONLY <2>1, <2>2, <2>3, AfterRequestExtends
  <2> QED BY <2>1, <2>4
<1>7. work' = after
  BY <1>3
<1> HIDE DEF unit, asked, rows, known, have, missing, after, m
<1>8. unit.kind = "audit" => m \subseteq covered[s]
  BY <1>2, <1>3 DEF AuditFollowsCoverage, unit, m
<1>9. Frame'
  <2>1. audited' \in [Sessions -> BOOLEAN]
    <3>1. audited \in [Sessions -> BOOLEAN]
      BY DEF Frame
    <3>2. (audited[s] \/ AuditEnds(unit, missing)) \in BOOLEAN
      OBVIOUS
    <3> QED BY <1>3, <3>1, <3>2
  <2> QED BY <1>4, <2>1 DEF Frame, sourceVars, discoveryVars
<1>10. Samples'
  <2>1. known \in SUBSET (Seqs \X Payloads)
    BY <1>5 DEF known, Samples
  <2>2. SelectVersion(selected[s], known, rows, p) \in [Seqs -> Payloads \cup {NoPayload}]
    BY <1>5 DEF SelectVersion, Samples
  <2> QED BY <1>3, <1>5, <2>1, <2>2 DEF Samples
<1>11. WorkFits'
  <2>1. work' \subseteq Work
    BY <1>6, <1>7 DEF Extends, WorkFits
  <2>2. \A y \in work' : Fits(y.unit)
    BY <1>6, <1>7 DEF Extends, WorkFits
  <2> QED BY <1>4, <2>1, <2>2 DEF WorkFits
<1>12. /\ \A t \in Sessions : covered[t] \subseteq covered'[t]
       /\ covered'[s] = have
  BY <1>3, <1>5 DEF Samples
<1>13. \A h \in gaps'[s] :
          /\ h \in Gap /\ h.first <= h.last /\ h.first..h.last \subseteq h.manifest
          /\ h.open => h \in gaps[s] \/ (h.manifest = m /\ missing # {})
  <2>1. gaps'[s] = UpdateGaps(gaps[s], m, unit.range, missing)
    BY <1>3, <1>5 DEF GapsFit
  <2>2. /\ gaps[s] \in SUBSET Gap
        /\ \A g \in gaps[s] : g.first <= g.last /\ g.first..g.last \subseteq g.manifest
    BY <1>5 DEF GapsFit
  <2>3. ASSUME NEW h \in gaps'[s]
        PROVE  /\ h \in Gap
               /\ h.first <= h.last /\ h.first..h.last \subseteq h.manifest
               /\ h.open => h \in gaps[s] \/ (h.manifest = m /\ missing # {})
    <3>1. h \in UpdateGaps(gaps[s], m, unit.range, missing)
      BY <2>1, <2>3
    <3> QED BY <1>5, <2>2, <3>1, UpdatedGapsFit
  <2> QED BY <2>3
<1>14. \A t \in Sessions : t # s => gaps'[t] = gaps[t]
  BY <1>3 DEF GapsFit
<1>15. GapsFit'
  <2>1. gaps' = [gaps EXCEPT ![s] = gaps'[s]]
    BY <1>3, <1>5 DEF GapsFit
  <2>2. gaps' \in [Sessions -> SUBSET Gap]
    BY <1>13, <2>1 DEF GapsFit
  <2> QED BY <1>13, <1>14, <2>2 DEF GapsFit
<1>16. SessionsStayScheduled'
  <2> SUFFICES ASSUME NEW t \in sessions
               PROVE  Active(work', ManifestUnit(t)) \/ ManifestUnit(t) \in failed'
    BY <1>4 DEF SessionsStayScheduled
  <2>1. CASE ManifestUnit(t) \in failed
    BY <1>4, <2>1
  <2>2. CASE Active(work, ManifestUnit(t))
    <3>1. PICK v \in work : v.unit = ManifestUnit(t)
      BY <2>2 DEF Active
    <3>2. v # w
      BY <1>3, <3>1 DEF ManifestUnit, unit
    <3>3. v \in work'
      BY <1>6, <1>7, <3>2 DEF Extends
    <3> QED BY <3>1, <3>3 DEF Active
  <2> QED BY <2>1, <2>2 DEF SessionsStayScheduled
<1>17. AllGapsRetried'
  <2> SUFFICES ASSUME NEW t \in Sessions, NEW h \in gaps'[t], h.open, Absent(h, t)' # {}
               PROVE  Retried(t, h.manifest)'
    BY DEF AllGapsRetried, Open
  <2>1. Absent(h, t) # {}
    BY <1>12 DEF Absent
  <2>2. CASE t = s /\ h.manifest = m /\ missing # {}
    BY <1>6, <1>7, <2>2 DEF Retried
  <2>3. CASE h \in gaps[t]
    <3>1. Retried(t, h.manifest)
      BY <2>1, <2>3 DEF AllGapsRetried, Open
    <3>2. CASE \E u \in failed : Chain(u, t, h.manifest)
      BY <1>4, <3>2 DEF Retried, Chain
    <3>3. ASSUME NEW v \in work, Chain(v.unit, t, h.manifest), v # w
          PROVE  Retried(t, h.manifest)'
      <4>1. v \in work'
        BY <1>6, <1>7, <3>3 DEF Extends
      <4> QED BY <3>3, <4>1 DEF Retried, Chain
    <3>4. ASSUME Chain(w.unit, t, h.manifest)
          PROVE  Retried(t, h.manifest)'
      <4>1. t = s /\ h.manifest = m
        BY <1>3, <3>4 DEF Chain, unit, m
      <4>2. ~(m \subseteq have)
        BY <1>12, <1>13, <4>1 DEF Absent
      <4>3. unit.kind = "sample"
        BY <1>3, <1>5, <1>8, <4>2
      <4> QED BY <1>6, <1>7, <4>1, <4>2, <4>3 DEF Retried, Chain
    <3> QED BY <3>1, <3>2, <3>3, <3>4 DEF Retried
  <2> QED BY <1>13, <1>14, <2>2, <2>3
<1>18. AuditFollowsCoverage'
  <2> SUFFICES ASSUME NEW y \in work', y.unit.kind = "audit"
               PROVE  y.unit.manifest \subseteq covered'[y.unit.session]
    BY DEF AuditFollowsCoverage
  <2>1. CASE y \in work
    <3>1. y.unit.session \in Sessions
      BY <2>1 DEF WorkFits, Fits, Unit
    <3> QED BY <1>12, <2>1, <3>1 DEF AuditFollowsCoverage
  <2>2. CASE Chain(y.unit, s, m) /\ y.unit.kind = unit.kind
    BY <1>5, <1>8, <1>12, <2>2 DEF Chain
  <2> QED BY <1>6, <1>7, <2>1, <2>2
<1>19. SelectedIsUnrivalled'
  <2> SUFFICES ASSUME NEW t \in Sessions, NEW n \in Seqs, NEW c \in Payloads,
                      selected'[t][n] = c, NEW q \in Payloads, <<n, q>> \in versions'[t]
               PROVE  q = c
    BY DEF SelectedIsUnrivalled
  <2>1. CASE t # s
    BY <1>3, <2>1 DEF SelectedIsUnrivalled, Samples
  <2>2. CASE t = s
    <3>1. /\ selected'[t][n] = IF n \notin rows THEN selected[s][n]
                              ELSE IF \A r \in Payloads : <<n, r>> \in known => r = p THEN p
                              ELSE NoPayload
          /\ versions'[t] = known
      BY <1>3, <1>5, <2>2 DEF SelectVersion, Samples
    <3>2. CASE n \notin rows
      BY <1>5, <3>1, <3>2 DEF known, SelectedIsUnrivalled
    <3>3. CASE n \in rows
      <4>1. c # NoPayload
        BY LedgerAssumption
      <4> QED BY <3>1, <3>3, <4>1
    <3> QED BY <3>2, <3>3
  <2> QED BY <2>1, <2>2
<1> QED BY <1>9, <1>10, <1>11, <1>15, <1>16, <1>17, <1>18, <1>19

-----------------------------------------------------------------------------
LEMMA SyncNext == SyncInv /\ [Next]_vars => SyncInv'
<1> SUFFICES ASSUME SyncInv, [Next]_vars PROVE SyncInv'
  OBVIOUS
<1>1. CASE RecoverInterruptedWork \/ Interrupted
  BY <1>1, SupervisorKeeps
<1>2. CASE Discover
  BY <1>2, DiscoverKeeps
<1>3. CASE Claim
  BY <1>3, ClaimKeeps
<1>4. CASE Process
  <2>1. ASSUME NEW s \in Askable, Complete(s) PROVE SyncInv'
    BY <2>1, CompleteManifestKeeps, CommitKeeps DEF Complete
  <2> QED BY <1>4, <2>1, FailWorkKeeps, ClockKeeps DEF Process
<1>5. CASE \/ Elapse
           \/ \E unit \in Units : BecomesDue(unit)
           \/ \E s \in Askable : SourceChanges(s)
  BY <1>5, ClockKeeps
<1>6. CASE UNCHANGED vars
  <2>1. /\ work' = work /\ claimed' = claimed /\ working' = working
        /\ UNCHANGED <<versions, selected, covered, gaps, sessions, failed>>
    BY <1>6 DEF vars, sampleVars
  <2>2. Frame'
    BY <1>6 DEF SyncInv, Frame, vars, sourceVars, sampleVars, discoveryVars
  <2> QED BY <2>1, <2>2, LedgerKeeps DEF SyncInv, WorkFits
<1> QED BY <1>1, <1>2, <1>3, <1>4, <1>5, <1>6 DEF Next

LEMMA SyncInvGives == SyncInv => TypeOK /\ GapsAreRetried
<1> SUFFICES ASSUME SyncInv PROVE TypeOK /\ GapsAreRetried
  OBVIOUS
<1> USE DEF SyncInv
<1>1. TypeOK
  <2>1. \A s \in Sessions : \A g \in gaps[s] : IsGap(g)
    <3>1. ASSUME NEW s \in Sessions, NEW g \in gaps[s] PROVE g \in Gap /\ g.first <= g.last
      BY DEF GapsFit
    <3> QED BY <3>1 DEF Gap, IsGap
  <2>2. /\ \A w \in work : w.unit.range[2] - w.unit.range[1] < ChunkSize
        /\ claimed \subseteq work
    BY DEF WorkFits, Fits
  <2> QED BY <2>1, <2>2 DEF TypeOK, Frame, Samples
<1>2. GapsAreRetried
  <2> SUFFICES ASSUME NEW s \in sessions, NEW g \in Open(s), Absent(g, s) # {}
               PROVE  \E u \in Units \cup failed : Chain(u, s, g.manifest)
    BY DEF GapsAreRetried, Chain
  <2>1. Retried(s, g.manifest)
    BY DEF AllGapsRetried, Frame
  <2> QED BY <2>1 DEF Retried, Units
<1> QED BY <1>1, <1>2

LEMMA SyncInvHolds == Spec => []SyncInv
BY SyncInit, SyncNext, PTL DEF Spec

(* The ledger is well typed, and no unit of work asks for more than CHUNK_SIZE *)
(* numbers.                                                                    *)
THEOREM LedgerTypeCorrect == Spec => []TypeOK
BY SyncInvHolds, SyncInvGives, PTL

(* Whatever fails, is interrupted or is refused, a discovered session keeps a   *)
(* check of its manifest scheduled, or it failed for good                      *)
(* (complete_manifest_work, fail_work, recover_interrupted_work).              *)
THEOREM SessionsRemainScheduled == Spec => []SessionsStayScheduled
BY SyncInvHolds, PTL DEF SyncInv

(* No open gap with absent numbers is forgotten: its manifest's chain of        *)
(* requests is alive or was given up (commit_sample_work).                      *)
THEOREM GapsRemainRetried == Spec => []GapsAreRetried
BY SyncInvHolds, SyncInvGives, PTL

(* A manifest is audited only after it is archived in full, also when it        *)
(* changes in between (complete_manifest_work, commit_sample_work).             *)
THEOREM AuditsFollowCoverage == Spec => []AuditFollowsCoverage
BY SyncInvHolds, PTL DEF SyncInv

(* A sample with two versions has none selected (commit_sample_work).           *)
THEOREM SelectionIsUnrivalled == Spec => []SelectedIsUnrivalled
BY SyncInvHolds, PTL DEF SyncInv

=============================================================================
