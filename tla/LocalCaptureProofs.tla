------------------------- MODULE LocalCaptureProofs -------------------------
(***************************************************************************)
(* Proofs about LocalCapture for every value of its constants: the bounded  *)
(* queue and its gaps lose nothing, the type invariant, at most one open    *)
(* run, the promise of a clean run (CleanRunAccounted), and what gives way  *)
(* in a full queue.  CaptureLedgerProofs goes on to the ledger of runs and  *)
(* to what an interrupted run leaves uncertain.                             *)
(***************************************************************************)
EXTENDS LocalCapture, SequenceTheorems, WellFoundedInduction, TLAPS

-----------------------------------------------------------------------------
(* The inductive invariant of the control state *)

\* what the phase of the supervisor says about the control state
Control ==
    /\ status = "opening" => run < MaxRuns /\ op.kind = "recover"
    /\ status = "starting" => run \in Runs /\ op.kind = "begin"
    /\ attached => /\ run \in Runs /\ status = "ready" /\ ~failed /\ ~stopping
                   /\ stopPc = "none" /\ writer \in {"run", "wait", "gap", "commit"}
    /\ status = "ready" => stopPc = "none"
    /\ writer \in {"gap", "commit"} => op.kind = writer
    /\ writer # "none" => op.kind \notin {"recover", "begin"}
    /\ writer # "gap" => writing = {}

\* nothing of a supervisor exists before it is started
Idle ==
    status \in {"down", "opening", "unavailable", "starting"} =>
        /\ ~stopping /\ ~failed /\ pending = {} /\ writer = "none" /\ stopPc = "none"
        /\ buf.queue = <<>> /\ buf.gaps = {}

\* what the memory holds belongs to the present run
Ownership ==
    /\ \A i \in DOMAIN buf.queue : buf.queue[i].run = run
    /\ \A g \in buf.gaps : g.run = run
    /\ \A p \in pending : p.obs.run = run

Base == TypeOK /\ Control /\ Idle /\ Ownership

\* at most one run is open, and none while a supervisor is being created
OpenRuns ==
    /\ OneOpenRun
    /\ op.kind = "recover" /\ op.state = "ok" => Stale = {}
    /\ op.kind = "begin" /\ op.state = "queued" => Stale = {}

Queued(q, r) == \E i \in DOMAIN q : q[i] = r
Noted(gaps, r) == \E g \in gaps : Covers(g, r)

-----------------------------------------------------------------------------
(* Sequences and minima *)

LEMMA MinIsMember ==
    ASSUME NEW S \in SUBSET Nat, S # {}
    PROVE  Min(S) \in S /\ \A y \in S : Min(S) <= y
<1>1. PICK x \in S : \A y \in S : ~(<<y, x>> \in OpToRel(<, Nat))
  BY NatLessThanWellFounded, WFMin
<1>2. \A y \in S : ~(y < x)
  BY <1>1, Zenon DEF OpToRel
<1>3. \A y \in S : x <= y
  BY <1>2
<1>4. QED
  BY <1>3 DEF Min

LEMMA RemoveAtProperties ==
    ASSUME NEW S, NEW q \in Seq(S), NEW i \in 1..Len(q)
    PROVE  /\ RemoveAt(q, i) \in Seq(S)
           /\ Len(RemoveAt(q, i)) = Len(q) - 1
           /\ \A j \in 1..Len(RemoveAt(q, i)) :
                 RemoveAt(q, i)[j] = IF j < i THEN q[j] ELSE q[j + 1]
<1> DEFINE front == SubSeq(q, 1, i - 1)
           back  == SubSeq(q, i + 1, Len(q))
<1>1. Len(q) \in Nat /\ \A j \in 1..Len(q) : q[j] \in S
  BY LenProperties, ElementOfSeq
<1>2. /\ front \in Seq(S) /\ Len(front) = i - 1
      /\ \A j \in 1..(i - 1) : front[j] = q[j]
  <2>1. \A j \in 1..(i - 1) : q[j] \in S
    BY <1>1
  <2>2. QED
    BY <1>1, <2>1, SubSeqProperties
<1>3. /\ back \in Seq(S) /\ Len(back) = Len(q) - i
      /\ \A j \in 1..(Len(q) - i) : back[j] = q[i + j]
  <2>1. \A j \in (i + 1)..Len(q) : q[j] \in S
    BY <1>1
  <2>2. QED
    BY <1>1, <2>1, SubSeqProperties
<1>4. /\ front \o back \in Seq(S)
      /\ Len(front \o back) = Len(front) + Len(back)
      /\ \A j \in 1..(Len(front) + Len(back)) :
            (front \o back)[j] = IF j <= Len(front) THEN front[j]
                                 ELSE back[j - Len(front)]
  BY <1>2, <1>3, ConcatProperties
<1> HIDE DEF front, back
<1>5. RemoveAt(q, i) = front \o back
  BY DEF RemoveAt, front, back
<1>6. i \in Nat /\ Len(front) + Len(back) = Len(q) - 1
  BY <1>1, <1>2, <1>3
<1>7. ASSUME NEW j \in 1..(Len(q) - 1)
      PROVE  RemoveAt(q, i)[j] = IF j < i THEN q[j] ELSE q[j + 1]
  <2>1. CASE j < i
    BY <1>1, <1>2, <1>4, <1>5, <1>6, <2>1
  <2>2. CASE j >= i
    BY <1>1, <1>2, <1>3, <1>4, <1>5, <1>6, <2>2
  <2>3. QED
    BY <1>1, <2>1, <2>2
<1>8. QED
  BY <1>4, <1>5, <1>6, <1>7

LEMMA MaxIsMember ==
    ASSUME NEW m \in Nat, NEW S \in SUBSET (0..m), S # {}
    PROVE  Max(S) \in S /\ \A y \in S : Max(S) >= y
<1> DEFINE T == {m - x : x \in S}
<1>1. T \in SUBSET Nat /\ T # {}
  <2>1. \A x \in S : m - x \in Nat
    OBVIOUS
  <2>2. QED
    BY <2>1
<1>2. Min(T) \in T /\ \A y \in T : Min(T) <= y
  BY <1>1, MinIsMember
<1>3. PICK x \in S : Min(T) = m - x
  BY <1>2
<1>4. ASSUME NEW y \in S
      PROVE  x >= y
  <2>1. m - y \in T
    OBVIOUS
  <2>2. Min(T) <= m - y
    BY <1>2, <2>1
  <2>3. x \in Nat /\ y \in Nat
    OBVIOUS
  <2>4. QED
    BY <1>3, <2>2, <2>3
<1>5. QED
  BY <1>4 DEF Max

-----------------------------------------------------------------------------
(* The bounded queue *)

\* A drop is covered by the gaps afterwards, and what they covered stays covered.
LEMMA NoteDropCovers ==
    ASSUME NEW gaps \in SUBSET Gap, NEW r \in Observation,
           \A g \in gaps : g.run = r.run
    PROVE  /\ NoteDrop(gaps, r) \in SUBSET Gap
           /\ \A g \in NoteDrop(gaps, r) : g.run = r.run
           /\ Noted(NoteDrop(gaps, r), r)
           /\ \A x : Noted(gaps, x) /\ x \in Observation => Noted(NoteDrop(gaps, r), x)
<1> USE DEF Times
<1>1. /\ r.at \in Int /\ r.key[1] \in Sources /\ r.class \in Classes
      /\ r.run \in Runs /\ r.ord \in Nat
  BY LocalCaptureAssumption DEF Observation, Keys
<1>2. ASSUME NEW g \in Gap
      PROVE  /\ Widen(g, r) \in Gap
             /\ Widen(g, r).run = g.run
             /\ Widen(g, r).source = g.source /\ Widen(g, r).scope = g.scope
             /\ Widen(g, r).first <= g.first /\ Widen(g, r).first <= r.at
             /\ Widen(g, r).last >= g.last /\ Widen(g, r).last >= r.at
  <2>1. g.first \in Int /\ g.last \in Int /\ g.count \in Nat /\ r.at \in Times
    BY LocalCaptureAssumption DEF Gap, Observation
  <2> DEFINE f == IF r.at < g.first THEN r.at ELSE g.first
             l == IF r.at > g.last THEN r.at ELSE g.last
  <2>3. Widen(g, r) = [g EXCEPT !.first = f, !.last = l, !.count = g.count + 1]
    BY DEF Widen
  <2>4. f \in Times /\ l \in Times /\ f <= g.first /\ f <= r.at /\ l >= g.last /\ l >= r.at
    BY <1>1, <2>1 DEF Gap
  <2> DEFINE w == [run |-> g.run, id |-> g.id, source |-> g.source, scope |-> g.scope,
                   first |-> f, last |-> l, count |-> g.count + 1]
  <2>5. Widen(g, r) = w
    BY <2>3 DEF Gap
  <2>6. g.count + 1 \in Nat
    BY <2>1
  <2> HIDE DEF f, l
  <2>7. w \in Gap
    BY <2>4, <2>6 DEF Gap
  <2>8. QED
    BY <2>4, <2>5, <2>7
<1>3. CASE \E g \in gaps : SameGap(g, r)
  <2> DEFINE W(g) == IF SameGap(g, r) THEN Widen(g, r) ELSE g
  <2>1. NoteDrop(gaps, r) = {W(g) : g \in gaps}
    BY <1>3 DEF NoteDrop
  <2>2. \A g \in gaps : W(g) \in Gap /\ W(g).run = r.run
    BY <1>2
  <2>3. Noted(NoteDrop(gaps, r), r)
    <3>1. PICK g \in gaps : SameGap(g, r)
      BY <1>3
    <3>2. W(g) = Widen(g, r) /\ W(g) \in NoteDrop(gaps, r)
      BY <2>1, <3>1
    <3>3. Covers(Widen(g, r), r)
      BY <1>1, <1>2, <3>1 DEF Covers, SameGap
    <3>4. QED
      BY <3>2, <3>3 DEF Noted
  <2>4. ASSUME NEW x \in Observation, NEW g \in gaps, Covers(g, x)
        PROVE  Noted(NoteDrop(gaps, r), x)
    <3>1. W(g) \in NoteDrop(gaps, r)
      BY <2>1
    <3>2. g \in Gap /\ x.at \in Int /\ g.first \in Int /\ g.last \in Int
      BY LocalCaptureAssumption DEF Gap, Observation
    <3>3. Covers(W(g), x)
      <4>1. CASE SameGap(g, r)
        <5>1. /\ Widen(g, r).first \in Int /\ Widen(g, r).last \in Int
          BY <1>2, <3>2 DEF Gap
        <5>2. QED
          BY <1>2, <2>4, <3>2, <4>1, <5>1 DEF Covers, SameGap
      <4>2. CASE ~SameGap(g, r)
        BY <2>4, <4>2
      <4>3. QED
        BY <4>1, <4>2
    <3>4. QED
      BY <3>1, <3>3 DEF Noted
  <2>5. QED
    BY <2>1, <2>2, <2>3, <2>4 DEF Noted
<1>4. CASE ~\E g \in gaps : SameGap(g, r)
  <2>1. NoteDrop(gaps, r) = gaps \cup {NewGap(r)}
    BY <1>4 DEF NoteDrop
  <2>2. NewGap(r) \in Gap /\ NewGap(r).run = r.run /\ Covers(NewGap(r), r)
    BY <1>1 DEF NewGap, Gap, Covers, SameGap, Observation
  <2>3. QED
    BY <2>1, <2>2 DEF Noted
<1>5. QED
  BY <1>3, <1>4

\* What is known of a buffer whose records and gaps are all of run t.
Holds(b, t) ==
    /\ b \in Buffer
    /\ Len(b.queue) <= MaxQueueItems
    /\ \A i \in DOMAIN b.queue : b.queue[i].run = t
    /\ \A g \in b.gaps : g.run = t

\* x is in the buffer, or its drop is
InBuffer(b, x) == Queued(b.queue, x) \/ Noted(b.gaps, x)

\* What displacing leaves of the queue, item by item: the record is the last one.
LEMMA DisplaceQueue ==
    ASSUME NEW b, b.queue \in Seq(Observation), NEW r \in Observation,
           NEW i \in 1..Len(b.queue)
    PROVE  LET q == b.queue
               d == Displace(b, i, r).queue
           IN  /\ d \in Seq(Observation) /\ Len(d) = Len(q) /\ DOMAIN d = 1..Len(q)
               /\ \A j \in 1..(Len(q) - 1) : d[j] = IF j < i THEN q[j] ELSE q[j + 1]
               /\ d[Len(q)] = r
<1> DEFINE q == b.queue
           rest == RemoveAt(q, i)
<1>1. Len(q) \in Nat
  BY LenProperties
<1>2. /\ rest \in Seq(Observation)
      /\ Len(rest) = Len(q) - 1
      /\ \A j \in 1..(Len(q) - 1) : rest[j] = IF j < i THEN q[j] ELSE q[j + 1]
  BY RemoveAtProperties
<1>3. Displace(b, i, r).queue = Append(rest, r)
  BY DEF Displace
<1> HIDE DEF rest
<1>4. /\ Append(rest, r) \in Seq(Observation)
      /\ Len(Append(rest, r)) = Len(rest) + 1
      /\ \A j \in 1..Len(rest) : Append(rest, r)[j] = rest[j]
      /\ Append(rest, r)[Len(rest) + 1] = r
  BY <1>2, AppendProperties
<1>5. DOMAIN Append(rest, r) = 1..Len(Append(rest, r))
  BY <1>4, LenProperties
<1>6. QED
  BY <1>1, <1>2, <1>3, <1>4, <1>5

\* Displacing an item keeps the buffer full and accounts for both records.
LEMMA DisplaceKeeps ==
    ASSUME NEW t, NEW b, Holds(b, t), NEW r \in Observation, r.run = t,
           NEW i \in DOMAIN b.queue
    PROVE  /\ Holds(Displace(b, i, r), t)
           /\ InBuffer(Displace(b, i, r), r)
           /\ \A x \in Observation : InBuffer(b, x) => InBuffer(Displace(b, i, r), x)
           /\ \A x : Queued(Displace(b, i, r).queue, x) => Queued(b.queue, x) \/ x = r
<1> DEFINE q == b.queue
           d == Displace(b, i, r)
<1>1. /\ q \in Seq(Observation) /\ Len(q) \in Nat /\ DOMAIN q = 1..Len(q)
      /\ \A j \in 1..Len(q) : q[j] \in Observation
      /\ b.gaps \in SUBSET Gap
  BY LenProperties, ElementOfSeq DEF Holds, Buffer
<1>2. i \in 1..Len(q) /\ q[i] \in Observation /\ q[i].run = t
  BY <1>1 DEF Holds
<1>4. /\ d.gaps = NoteDrop(b.gaps, q[i]) /\ d.event = TRUE
      /\ d.dropped = b.dropped \cup {q[i]}
      /\ d = [queue |-> d.queue, gaps |-> d.gaps, event |-> d.event,
              dropped |-> d.dropped]
  BY DEF Displace
<1>5. /\ d.queue \in Seq(Observation) /\ Len(d.queue) = Len(q)
      /\ \A j \in 1..(Len(q) - 1) : d.queue[j] = IF j < i THEN q[j] ELSE q[j + 1]
      /\ d.queue[Len(q)] = r
      /\ DOMAIN d.queue = 1..Len(q)
  BY <1>1, <1>2, DisplaceQueue
<1>6. /\ d.gaps \in SUBSET Gap
      /\ \A g \in d.gaps : g.run = t
      /\ Noted(d.gaps, q[i])
      /\ \A x \in Observation : Noted(b.gaps, x) => Noted(d.gaps, x)
  <2>1. \A g \in b.gaps : g.run = q[i].run
    BY <1>2 DEF Holds
  <2>2. /\ NoteDrop(b.gaps, q[i]) \in SUBSET Gap
        /\ \A g \in NoteDrop(b.gaps, q[i]) : g.run = q[i].run
        /\ Noted(NoteDrop(b.gaps, q[i]), q[i])
        /\ \A x : Noted(b.gaps, x) /\ x \in Observation
                   => Noted(NoteDrop(b.gaps, q[i]), x)
    BY <1>1, <1>2, <2>1, NoteDropCovers
  <2>3. QED
    BY <1>2, <1>4, <2>2
<1> HIDE DEF d, q
<1>7. \A j \in 1..(Len(q) - 1) :
         \E k \in 1..Len(q) : k # i /\ d.queue[j] = q[k]
  <2>1. TAKE j \in 1..(Len(q) - 1)
  <2>2. CASE j < i
    BY <1>1, <1>2, <1>5, <2>2
  <2>3. CASE j >= i
    <3>1. j + 1 \in 1..Len(q) /\ j + 1 # i /\ d.queue[j] = q[j + 1]
      BY <1>1, <1>2, <1>5, <2>3
    <3>2. QED
      BY <3>1
  <2>4. QED
    BY <1>1, <1>2, <2>2, <2>3
<1>8. \A k \in 1..Len(q) : k # i => \E j \in 1..(Len(q) - 1) : d.queue[j] = q[k]
  <2>1. SUFFICES ASSUME NEW k \in 1..Len(q), k # i
                 PROVE  \E j \in 1..(Len(q) - 1) : d.queue[j] = q[k]
    OBVIOUS
  <2>2. CASE k < i
    BY <1>1, <1>2, <1>5, <2>2
  <2>3. CASE k > i
    <3>1. k - 1 \in 1..(Len(q) - 1) /\ d.queue[k - 1] = q[k]
      BY <1>1, <1>2, <1>5, <2>3
    <3>2. QED
      BY <3>1
  <2>4. QED
    BY <1>1, <1>2, <2>1, <2>2, <2>3
<1>9. Holds(d, t)
  <2>1. \A j \in DOMAIN d.queue : d.queue[j].run = t
    <3>1. SUFFICES ASSUME NEW j \in 1..Len(q) PROVE d.queue[j].run = t
      BY <1>5
    <3>2. CASE j = Len(q)
      BY <1>5, <3>2
    <3>3. CASE j # Len(q)
      BY <1>1, <1>7, <3>3 DEF Holds, q
    <3>4. QED
      BY <3>2, <3>3
  <2>2. b.dropped \in SUBSET Observation
    BY DEF Holds, Buffer
  <2>3. d.dropped \in SUBSET Observation
    BY <1>2, <1>4, <2>2
  <2>4. d \in Buffer
    BY <1>4, <1>5, <1>6, <2>3 DEF Buffer
  <2>5. QED
    BY <1>5, <1>6, <2>1, <2>4 DEF Holds, q
<1>10. Queued(d.queue, r)
  BY <1>1, <1>2, <1>5 DEF Queued
<1>11. ASSUME NEW x \in Observation, InBuffer(b, x)
       PROVE  InBuffer(d, x)
  <2>1. CASE Noted(b.gaps, x)
    BY <1>6, <2>1 DEF InBuffer
  <2>2. CASE Queued(b.queue, x)
    <3>1. PICK k \in 1..Len(q) : q[k] = x
      BY <1>1, <2>2 DEF Queued, q
    <3>2. CASE k = i
      BY <1>6, <3>1, <3>2 DEF InBuffer
    <3>3. CASE k # i
      <4>1. PICK j \in 1..(Len(q) - 1) : d.queue[j] = q[k]
        BY <1>8, <3>3
      <4>2. j \in DOMAIN d.queue
        BY <1>1, <1>5
      <4>3. QED
        BY <3>1, <4>1, <4>2 DEF InBuffer, Queued
    <3>4. QED
      BY <3>2, <3>3
  <2>3. QED
    BY <1>11, <2>1, <2>2 DEF InBuffer
<1>12. ASSUME NEW x, Queued(d.queue, x)
       PROVE  Queued(b.queue, x) \/ x = r
  <2>1. PICK j \in 1..Len(q) : d.queue[j] = x
    BY <1>5, <1>12 DEF Queued
  <2>2. CASE j = Len(q)
    BY <1>5, <2>1, <2>2
  <2>3. CASE j # Len(q)
    <3>1. j \in 1..(Len(q) - 1)
      <4>1. Len(q) \in Nat /\ j \in 1..Len(q)
        BY <1>1
      <4>2. QED
        BY <4>1, <2>3
    <3>2. PICK k \in 1..Len(q) : d.queue[j] = q[k]
      BY <1>7, <3>1
    <3>3. QED
      BY <1>1, <2>1, <3>2 DEF Queued, q
  <2>4. QED
    BY <2>2, <2>3
<1>13. QED
  BY <1>9, <1>10, <1>11, <1>12 DEF InBuffer, d

\* Enqueue keeps the buffer bounded and, while the supervisor works, loses
\* neither the new record nor one it held.
LEMMA EnqueueKeeps ==
    ASSUME NEW t, NEW b, Holds(b, t), NEW r \in Observation, r.run = t,
           ~stopping, ~failed
    PROVE  /\ Holds(Enqueue(b, r), t)
           /\ InBuffer(Enqueue(b, r), r)
           /\ \A x \in Observation : InBuffer(b, x) => InBuffer(Enqueue(b, r), x)
           /\ \A x : Queued(Enqueue(b, r).queue, x) => Queued(b.queue, x) \/ x = r
<1>1. /\ b.queue \in Seq(Observation) /\ Len(b.queue) \in Nat
      /\ DOMAIN b.queue = 1..Len(b.queue) /\ b.gaps \in SUBSET Gap /\ b.event \in BOOLEAN
      /\ b.dropped \in SUBSET Observation
      /\ b = [queue |-> b.queue, gaps |-> b.gaps, event |-> b.event,
              dropped |-> b.dropped]
  BY LenProperties DEF Holds, Buffer
<1>2. CASE Len(b.queue) < MaxQueueItems
  <2> DEFINE q == Append(b.queue, r)
  <2>1. Enqueue(b, r) = [queue |-> q, gaps |-> b.gaps, event |-> TRUE,
                         dropped |-> b.dropped]
    BY <1>1, <1>2 DEF Enqueue, Accept
  <2>2. /\ q \in Seq(Observation) /\ Len(q) = Len(b.queue) + 1
        /\ \A j \in 1..Len(b.queue) : q[j] = b.queue[j]
        /\ q[Len(b.queue) + 1] = r
    BY <1>1, AppendProperties
  <2>3. DOMAIN q = 1..(Len(b.queue) + 1)
    BY <2>2, LenProperties
  <2> HIDE DEF q
  <2>4. [queue |-> q, gaps |-> b.gaps, event |-> TRUE, dropped |-> b.dropped] \in Buffer
    BY <1>1, <2>2 DEF Buffer
  <2>5. Len(q) <= MaxQueueItems
    BY <1>1, <1>2, <2>2, LocalCaptureAssumption
  <2>6. \A x : Queued(q, x) <=> Queued(b.queue, x) \/ x = r
    BY <1>1, <2>2, <2>3 DEF Queued
  <2>7. \A j \in DOMAIN q : q[j].run = t
    BY <1>1, <2>2, <2>3 DEF Holds
  <2>8. QED
    BY <2>1, <2>4, <2>5, <2>6, <2>7 DEF Holds, InBuffer
<1>3. CASE ~(Len(b.queue) < MaxQueueItems) /\ Regulars(b.queue) # {}
  <2>1. Regulars(b.queue) \in SUBSET Nat /\ Regulars(b.queue) \subseteq DOMAIN b.queue
    BY <1>1 DEF Regulars
  <2>2. Min(Regulars(b.queue)) \in DOMAIN b.queue
    BY <1>3, <2>1, MinIsMember
  <2>3. Enqueue(b, r) = Displace(b, Min(Regulars(b.queue)), r)
    BY <1>3 DEF Enqueue, Overflow
  <2>4. QED
    BY <2>2, <2>3, DisplaceKeeps
<1>4. CASE /\ ~(Len(b.queue) < MaxQueueItems) /\ Regulars(b.queue) = {}
           /\ r.class = "regular"
  <2> DEFINE gaps == NoteDrop(b.gaps, r)
  <2>1. Enqueue(b, r) = [queue |-> b.queue, gaps |-> gaps, event |-> b.event,
                         dropped |-> b.dropped \cup {r}]
    BY <1>1, <1>4 DEF Enqueue, Overflow
  <2>2. /\ gaps \in SUBSET Gap
        /\ \A g \in gaps : g.run = t
        /\ Noted(gaps, r)
        /\ \A x \in Observation : Noted(b.gaps, x) => Noted(gaps, x)
    BY <1>1, NoteDropCovers DEF Holds
  <2> HIDE DEF gaps
  <2>3. [queue |-> b.queue, gaps |-> gaps, event |-> b.event,
         dropped |-> b.dropped \cup {r}] \in Buffer
    BY <1>1, <2>2 DEF Buffer
  <2>4. QED
    BY <2>1, <2>2, <2>3 DEF Holds, InBuffer
<1>5. CASE /\ ~(Len(b.queue) < MaxQueueItems) /\ Regulars(b.queue) = {}
           /\ r.class # "regular"
  <2>1. 1 \in DOMAIN b.queue
    BY <1>1, <1>5, LocalCaptureAssumption
  <2>2. Enqueue(b, r) = Displace(b, 1, r)
    BY <1>5 DEF Enqueue, Overflow
  <2>3. QED
    BY <2>1, <2>2, DisplaceKeeps
<1>6. QED
  BY <1>2, <1>3, <1>4, <1>5

\* Nothing enters the buffer of a supervisor that stops or has failed.
LEMMA EnqueueRefused ==
    ASSUME NEW b, NEW r, stopping \/ failed
    PROVE  Enqueue(b, r) = b
BY DEF Enqueue

-----------------------------------------------------------------------------
(* Types, control and ownership *)

LEMMA TimesFacts == Times \subseteq Nat /\ 0 \in Times
BY LocalCaptureAssumption DEF Times

LEMMA NoOpType == NoOp \in Operation
BY TimesFacts DEF NoOp, Operation

LEMMA CommandType ==
    ASSUME TypeOK,
           NEW kind \in {"recover", "begin", "gap", "commit", "finish"},
           NEW rows \in SUBSET Observation, NEW gaps \in SUBSET Gap
    PROVE  Command(kind, rows, gaps) \in Operation
BY DEF TypeOK, Command, Operation

LEMMA RecordType ==
    ASSUME TypeOK, run \in Runs,
           NEW k \in Keys, NEW c \in Classes
    PROVE  NewRecord(k, c) \in Observation /\ NewRecord(k, c).run = run
BY DEF TypeOK, NewRecord, Observation

LEMMA BufferHolds ==
    Base => Holds(buf, run)
BY DEF Base, TypeOK, Ownership, Holds

LEMMA EmptyBuffer ==
    ASSUME NEW e \in BOOLEAN, NEW D \in SUBSET Observation, NEW t
    PROVE  Holds([queue |-> <<>>, gaps |-> {}, event |-> e, dropped |-> D], t)
BY EmptySeq, LocalCaptureAssumption DEF Holds, Buffer

LEMMA BaseInit == Init => Base
<1> SUFFICES ASSUME Init PROVE Base
  OBVIOUS
<1>1. Holds(buf, run)
  BY EmptyBuffer DEF Init, NoMemory
<1>2. lastEmitted \in [Streams -> Nat \cup {Never}]
  BY DEF Init, NoMemory
<1>3. runStatus \in [Runs -> {"none", "running", "clean", "interrupted"}]
      /\ startedAt \in [Runs -> Times]
  BY TimesFacts DEF Init
<1>4. now \in Times /\ run \in 0..MaxRuns
  BY TimesFacts, LocalCaptureAssumption DEF Init
<1>5. TypeOK
  BY <1>1, <1>2, <1>3, <1>4, NoOpType DEF Init, NoMemory, TypeOK, Holds
<1>6. QED
  BY <1>1, <1>5 DEF Init, NoMemory, Base, Control, Idle, Ownership, Holds, NoOp

LEMMA EnqueueHolds ==
    ASSUME NEW b, Holds(b, run), NEW r \in Observation, r.run = run
    PROVE  Holds(Enqueue(b, r), run)
<1>1. CASE stopping \/ failed
  BY <1>1, EnqueueRefused
<1>2. CASE ~stopping /\ ~failed
  BY <1>2, EnqueueKeeps
<1>3. QED
  BY <1>1, <1>2

LEMMA PendingType ==
    ASSUME Base, NEW p \in pending
    PROVE  /\ p.obs \in Observation /\ p.obs.run = run
           /\ p.obs.at \in Nat /\ p.due \in Nat
           /\ \A k : [lastEmitted EXCEPT ![k] = p.obs.at] \in [Streams -> Nat \cup {Never}]
<1>1. p \in [obs : Observation, due : Nat]
  BY DEF Base, TypeOK
<1>2. p.obs \in Observation /\ p.due \in Nat /\ p.obs.run = run
  BY <1>1 DEF Base, Ownership
<1>3. p.obs.at \in Nat
  BY <1>2, TimesFacts DEF Observation
<1>4. \A k : [lastEmitted EXCEPT ![k] = p.obs.at] \in [Streams -> Nat \cup {Never}]
  BY <1>3 DEF Base, TypeOK
<1>5. QED
  BY <1>2, <1>3, <1>4

\* Emitting a record after the pending point of its stream.
LEMMA EmitType ==
    ASSUME Base, NEW k, NEW r \in Observation, r.run = run, EmitAfterPending(k, r)
    PROVE  /\ Holds(buf', run) /\ pending' \subseteq pending
           /\ lastEmitted' \in [Streams -> Nat \cup {Never}]
<1>1. CASE PendingOf(k) = {} /\ buf' = Enqueue(buf, r) /\ UNCHANGED <<pending, lastEmitted>>
  BY <1>1, BufferHolds, EnqueueHolds DEF Base, TypeOK
<1>2. CASE \E p \in PendingOf(k) :
             /\ buf' = Enqueue(Enqueue(buf, p.obs), r)
             /\ pending' = pending \ {p}
             /\ lastEmitted' = [lastEmitted EXCEPT ![k] = p.obs.at]
  <2>1. PICK p \in PendingOf(k) :
               /\ buf' = Enqueue(Enqueue(buf, p.obs), r)
               /\ pending' = pending \ {p}
               /\ lastEmitted' = [lastEmitted EXCEPT ![k] = p.obs.at]
    BY <1>2
  <2>2. p \in pending
    BY DEF PendingOf
  <2>3. Holds(Enqueue(buf, p.obs), run)
    BY <2>2, PendingType, BufferHolds, EnqueueHolds
  <2>4. QED
    BY <2>1, <2>2, <2>3, PendingType, EnqueueHolds
<1>3. QED
  BY <1>1, <1>2 DEF EmitAfterPending

LEMMA FlushType ==
    ASSUME Base, NEW p \in pending, Flush(p)
    PROVE  /\ Holds(buf', run) /\ pending' \subseteq pending
           /\ lastEmitted' \in [Streams -> Nat \cup {Never}]
BY PendingType, BufferHolds, EnqueueHolds DEF Flush

\* The head of the queue and what is left of it.
LEMMA SplitQueue ==
    ASSUME NEW t, NEW b, Holds(b, t), NEW n \in 0..Len(b.queue)
    PROVE  LET rows == ToSet(SubSeq(b.queue, 1, n))
               rest == [b EXCEPT !.queue = SubSeq(@, n + 1, Len(@))]
           IN  /\ rows \in SUBSET Observation
               /\ Holds(rest, t) /\ rest.gaps = b.gaps
               /\ \A x : Queued(b.queue, x) <=> x \in rows \/ Queued(rest.queue, x)
<1> DEFINE q == b.queue
           head == SubSeq(q, 1, n)
           tail == SubSeq(q, n + 1, Len(q))
           rest == [b EXCEPT !.queue = tail]
<1>1. /\ q \in Seq(Observation) /\ Len(q) \in Nat /\ DOMAIN q = 1..Len(q)
      /\ \A j \in 1..Len(q) : q[j] \in Observation
  BY LenProperties, ElementOfSeq DEF Holds, Buffer
<1>2. /\ head \in Seq(Observation) /\ Len(head) = n
      /\ \A j \in 1..n : head[j] = q[j]
  <2>1. \A j \in 1..n : q[j] \in Observation
    BY <1>1
  <2>2. QED
    BY <1>1, <2>1, SubSeqProperties
<1>3. /\ tail \in Seq(Observation) /\ Len(tail) = Len(q) - n
      /\ \A j \in 1..(Len(q) - n) : tail[j] = q[n + j]
  <2>1. \A j \in (n + 1)..Len(q) : q[j] \in Observation
    BY <1>1
  <2>2. QED
    BY <1>1, <2>1, SubSeqProperties
<1>4. DOMAIN head = 1..n /\ DOMAIN tail = 1..(Len(q) - n)
  BY <1>2, <1>3, LenProperties
<1>5. /\ rest = [queue |-> tail, gaps |-> b.gaps, event |-> b.event,
                 dropped |-> b.dropped]
      /\ rest.queue = tail /\ rest.gaps = b.gaps
  <2>1. b \in Buffer
    BY DEF Holds
  <2> HIDE DEF tail
  <2>2. rest = [queue |-> tail, gaps |-> b.gaps, event |-> b.event,
                dropped |-> b.dropped]
    BY <2>1 DEF Buffer
  <2>3. QED
    BY <2>2
<1>6. ToSet(head) = {q[j] : j \in 1..n}
  BY <1>2, <1>4 DEF ToSet
<1> HIDE DEF head, tail, rest, q
<1>7. ToSet(head) \in SUBSET Observation
  <2>1. \A j \in 1..n : j \in 1..Len(q)
    BY <1>1 DEF q
  <2>2. QED
    BY <1>1, <1>6, <2>1
<1>8. Holds(rest, t)
  <2>1. rest \in Buffer
    BY <1>3, <1>5 DEF Buffer, Holds
  <2>2. Len(tail) <= MaxQueueItems
    BY <1>1, <1>3, LocalCaptureAssumption DEF Holds, q
  <2>3. \A j \in 1..(Len(q) - n) : tail[j].run = t
    <3>1. TAKE j \in 1..(Len(q) - n)
    <3>2. n + j \in 1..Len(q)
      BY <1>1 DEF q
    <3>3. q[n + j].run = t
      BY <1>1, <3>2 DEF Holds, q
    <3>4. QED
      BY <1>3, <3>3
  <2>4. QED
    BY <1>4, <1>5, <2>1, <2>2, <2>3 DEF Holds
<1>9. ASSUME NEW x, Queued(q, x)
      PROVE  x \in ToSet(head) \/ Queued(tail, x)
  <2>1. PICK j \in 1..Len(q) : q[j] = x
    BY <1>1, <1>9 DEF Queued
  <2>2. CASE j <= n
    <3>1. j \in 1..n
      BY <1>1, <2>1, <2>2
    <3>2. QED
      BY <1>6, <2>1, <3>1
  <2>3. CASE j > n
    <3>1. j - n \in 1..(Len(q) - n) /\ n + (j - n) = j
      BY <1>1, <2>1, <2>3
    <3>2. tail[j - n] = x
      BY <1>3, <2>1, <3>1
    <3>3. QED
      BY <1>4, <3>1, <3>2 DEF Queued
  <2>4. QED
    BY <1>1, <2>1, <2>2, <2>3
<1>10. ASSUME NEW x, x \in ToSet(head) \/ Queued(tail, x)
       PROVE  Queued(q, x)
  <2>1. CASE x \in ToSet(head)
    <3>1. PICK j \in 1..n : q[j] = x
      BY <1>6, <2>1
    <3>2. j \in DOMAIN q
      BY <1>1, <3>1 DEF q
    <3>3. QED
      BY <3>1, <3>2 DEF Queued
  <2>2. CASE Queued(tail, x)
    <3>1. PICK j \in 1..(Len(q) - n) : tail[j] = x
      BY <1>4, <2>2 DEF Queued
    <3>2. n + j \in DOMAIN q /\ q[n + j] = x
      BY <1>1, <1>3, <3>1 DEF q
    <3>3. QED
      BY <3>2 DEF Queued
  <2>3. QED
    BY <1>10, <2>1, <2>2
<1>11. QED
  BY <1>5, <1>7, <1>8, <1>9, <1>10 DEF head, tail, rest, q

\* Taking gaps or a batch for the archive.
\* The writer takes no more than the queue holds.
LEMMA BatchSize ==
    ASSUME Base
    PROVE  /\ Len(buf.queue) \in Nat
           /\ Min({WriteBatchSize, Len(buf.queue)}) \in 0..Len(buf.queue)
<1>1. Len(buf.queue) \in Nat
  BY BufferHolds, LenProperties DEF Holds, Buffer
<1>2. {WriteBatchSize, Len(buf.queue)} \in SUBSET Nat
  BY <1>1, LocalCaptureAssumption
<1>3. Min({WriteBatchSize, Len(buf.queue)}) \in {WriteBatchSize, Len(buf.queue)}
  BY <1>2, MinIsMember
<1>4. Min({WriteBatchSize, Len(buf.queue)}) <= Len(buf.queue)
  BY <1>2, MinIsMember
<1>5. Min({WriteBatchSize, Len(buf.queue)}) \in Nat
  BY <1>2, <1>3
<1>6. QED
  BY <1>1, <1>4, <1>5

LEMMA TakeBatchType ==
    ASSUME Base, TakeBatch(buf)
    PROVE  /\ Holds(buf', run)
           /\ op' \in Operation /\ writing' = {} /\ writer' \in {"run", "commit"}
           /\ op'.kind = IF writer' = "commit" THEN "commit" ELSE "none"
<1> DEFINE n == Min({WriteBatchSize, Len(buf.queue)})
<1>1. n \in 0..Len(buf.queue)
  BY BatchSize
<1>2. Holds([buf EXCEPT !.queue = SubSeq(@, n + 1, Len(@))], run)
  BY <1>1, BufferHolds, SplitQueue
<1>3. ToSet(SubSeq(buf.queue, 1, n)) \in SUBSET Observation
  BY <1>1, BufferHolds, SplitQueue
<1>4. Command("commit", ToSet(SubSeq(buf.queue, 1, n)), {}) \in Operation
  BY <1>3, CommandType DEF Base
<1>5. /\ buf' = [buf EXCEPT !.queue = SubSeq(@, n + 1, Len(@))]
      /\ writing' = {}
      /\ \/ writer' = "run" /\ op' = NoOp
         \/ /\ writer' = "commit"
            /\ op' = Command("commit", ToSet(SubSeq(buf.queue, 1, n)), {})
  BY Zenon DEF TakeBatch
<1> HIDE DEF n
<1>6. CASE writer' = "run" /\ op' = NoOp
  BY <1>2, <1>5, <1>6, NoOpType DEF NoOp
<1>7. CASE /\ writer' = "commit"
           /\ op' = Command("commit", ToSet(SubSeq(buf.queue, 1, n)), {})
  <2>1. op'.kind = "commit"
    BY <1>7 DEF Command
  <2>2. QED
    BY <1>2, <1>4, <1>5, <1>7, <2>1
<1>8. QED
  BY <1>5, <1>6, <1>7

LEMMA RecordGapType ==
    ASSUME Base, NEW gaps \in SUBSET Gap, RecordGap(gaps)
    PROVE  /\ op' \in Operation /\ op'.kind = "gap"
           /\ writing' \in SUBSET Gap /\ writer' = "gap"
<1>1. PICK g \in gaps : /\ op' = Command("gap", {}, {g})
                        /\ writing' = gaps \ {g} /\ writer' = "gap"
  BY DEF RecordGap
<1>2. Command("gap", {}, {g}) \in Operation
  BY CommandType DEF Base
<1>3. QED
  BY <1>1, <1>2 DEF Command

LEMMA LastEvidenceType ==
    ASSUME TypeOK, NEW r \in Runs
    PROVE  LastEvidence(r) \in Times
<1> DEFINE times == {o.at : o \in {x \in archived : x.run = r}}
<1>1. times \in SUBSET Times
  BY DEF TypeOK, Observation
<1>2. CASE times = {}
  BY <1>2 DEF LastEvidence, TypeOK
<1>3. CASE times # {}
  <2>1. Max(times) \in times
    BY <1>1, <1>3, MaxIsMember, LocalCaptureAssumption DEF Times
  <2>2. QED
    BY <1>1, <1>3, <2>1 DEF LastEvidence
<1>4. QED
  BY <1>2, <1>3

\* What a command may change in the archive.
LEMMA ExecuteType ==
    ASSUME Base, Execute
    PROVE  /\ op' \in Operation /\ op'.kind = op.kind
           /\ runStatus' \in [Runs -> {"none", "running", "clean", "interrupted"}]
           /\ startedAt' \in [Runs -> Times]
           /\ archived' \in SUBSET Observation /\ gapRows' \in SUBSET Gap
           /\ lossWindows' \in SUBSET [run : Runs, first : Times, last : Times]
<1>1. /\ op \in Operation /\ op.at \in Times
      /\ op.rows \in SUBSET Observation /\ op.gaps \in SUBSET Gap
  BY DEF Base, TypeOK, Operation
<1>2. op' \in Operation /\ op'.kind = op.kind
  <2>1. PICK s \in {"ok", "error"} : op' = [op EXCEPT !.state = s]
    BY DEF Execute
  <2>2. QED
    BY <1>1, <2>1 DEF Operation
<1>3. CASE RecoverEffect
  <2>1. \A r \in Stale : [run |-> r, first |-> LastEvidence(r), last |-> op.at]
                            \in [run : Runs, first : Times, last : Times]
    BY <1>1, LastEvidenceType DEF Stale, Base
  <2>2. lossWindows' \in SUBSET [run : Runs, first : Times, last : Times]
    BY <1>3, <2>1 DEF RecoverEffect, Base, TypeOK
  <2>3. runStatus' \in [Runs -> {"none", "running", "clean", "interrupted"}]
    BY <1>3 DEF RecoverEffect, Base, TypeOK
  <2>4. QED
    BY <1>2, <1>3, <2>2, <2>3 DEF RecoverEffect, Base, TypeOK
<1>4. CASE BeginEffect
  BY <1>1, <1>2, <1>4 DEF BeginEffect, Base, TypeOK
<1>5. CASE GapEffect
  BY <1>1, <1>2, <1>5 DEF GapEffect, Base, TypeOK
<1>6. CASE CommitEffect
  BY <1>1, <1>2, <1>6 DEF CommitEffect, Base, TypeOK
<1>7. CASE FinishEffect
  BY <1>1, <1>2, <1>7 DEF FinishEffect, Base, TypeOK
<1>8. QED
  BY <1>3, <1>4, <1>5, <1>6, <1>7 DEF Execute

LEMMA BaseNext ==
    ASSUME Base, [Next]_vars
    PROVE  Base'
<1> USE DEF clockVars, intakeVars, policyVars, writerVars, stopVars, archiveVars, memoryVars
<1>a. Holds(buf, run)
  BY BufferHolds
<1>1. CASE Open
  BY <1>1, CommandType DEF Open, Base, TypeOK, Control, Idle, Ownership, Command
<1>2. CASE CreateSupervisor
  <2>1. run' \in Runs
    BY <1>2, LocalCaptureAssumption
       DEF CreateSupervisor, Base, TypeOK, Control, Runs
  <2>2. run' \in 0..MaxRuns
    BY <2>1, LocalCaptureAssumption DEF Runs
  <2>3. Command("begin", {}, {}) \in Operation
    BY CommandType DEF Base
  <2>4. DOMAIN buf.queue = {} /\ buf.gaps = {} /\ pending = {}
    BY <1>2 DEF CreateSupervisor, Base, Idle
  <2>5. Ownership'
    BY <1>2, <2>4 DEF CreateSupervisor, Ownership
  <2>6. QED
    BY <1>2, <2>1, <2>2, <2>3, <2>5
       DEF CreateSupervisor, Base, TypeOK, Control, Idle, Command
<1>3. CASE ArchiveUnavailable
  BY <1>3 DEF ArchiveUnavailable, Base, TypeOK, Control, Idle, Ownership
<1>4. CASE Started
  BY <1>4, NoOpType DEF Started, Base, TypeOK, Control, Idle, Ownership, NoOp
<1>5. CASE StartFails
  BY <1>5 DEF StartFails, Base, TypeOK, Control, Idle, Ownership
<1>6. CASE WriterIdle
  BY <1>6 DEF WriterIdle, Base, TypeOK, Control, Idle, Ownership, Buffer
<1>7. CASE WriterWakes
  BY <1>7 DEF WriterWakes, Base, TypeOK, Control, Idle, Ownership
<1>8. CASE BatchCommitted
  BY <1>8, NoOpType DEF BatchCommitted, Base, TypeOK, Control, Idle, Ownership, NoOp
<1>9. CASE WriterFails
  BY <1>9, NoOpType DEF WriterFails, Base, TypeOK, Control, Idle, Ownership, NoOp
<1>10. CASE StopBegins
  BY <1>10 DEF StopBegins, Base, TypeOK, Control, Idle, Ownership
<1>11. CASE StopFlushed
  BY <1>11 DEF StopFlushed, Base, TypeOK, Control, Idle, Ownership, Buffer
<1>12. CASE StopDrained
  BY <1>12, CommandType DEF StopDrained, Base, TypeOK, Control, Idle, Ownership, Command, Operation
<1>13. CASE StopTimesOut
  BY <1>13 DEF StopTimesOut, Base, TypeOK, Control, Idle, Ownership
<1>14. CASE StopFinishes
  BY <1>14 DEF StopFinishes, Base, TypeOK, Control, Idle, Ownership
<1>15. CASE StopDuringStart
  BY <1>15 DEF StopDuringStart, Base, TypeOK, Control, Idle, Ownership
<1>16. CASE RollBack
  BY <1>16 DEF RollBack, Base, TypeOK, Control, Idle, Ownership, Operation
<1>17. CASE Tick
  <2>1. now' \in Times
    BY <1>17, LocalCaptureAssumption DEF Tick, Base, TypeOK, Times
  <2>2. QED
    BY <1>17, <2>1 DEF Tick, Base, TypeOK, Control, Idle, Ownership
<1>18. CASE \E k \in Streams : ObserveTransition(k)
  <2>1. PICK k \in Streams : ObserveTransition(k)
    BY <1>18
  <2>2. run \in Runs /\ k \in Keys
    BY <2>1 DEF ObserveTransition, Receives, Base, Control, Streams, Keys
  <2> DEFINE r == NewRecord(k, "transition")
  <2>3. r \in Observation /\ r.run = run
    BY <2>2, RecordType DEF Base, Classes
  <2> HIDE DEF r
  <2>4. /\ Holds(buf', run) /\ pending' \subseteq pending
        /\ lastEmitted' \in [Streams -> Nat \cup {Never}]
    BY <2>1, <2>3, EmitType DEF ObserveTransition, r
  <2>5. QED
    BY <2>1, <2>3, <2>4
       DEF ObserveTransition, Receives, Admit, r, Base, TypeOK, Control, Idle, Ownership, Holds
<1>19. CASE \E k \in Streams : ObserveRegular(k)
  <2>1. PICK k \in Streams : ObserveRegular(k)
    BY <1>19
  <2>2. run \in Runs /\ k \in Keys
    BY <2>1 DEF ObserveRegular, Receives, Base, Control, Streams, Keys
  <2> DEFINE r == NewRecord(k, "regular")
  <2>3. r \in Observation /\ r.run = run
    BY <2>2, RecordType DEF Base, Classes
  <2> HIDE DEF r
  <2>4. Receives /\ Admit(r) /\ UNCHANGED known
    BY <2>1 DEF ObserveRegular, r
  <2>5. CASE /\ lastEmitted' = [lastEmitted EXCEPT ![k] = now]
             /\ buf' = Enqueue(buf, r)
             /\ UNCHANGED <<pending, coalesced>>
    <3>1. Holds(buf', run)
      BY <1>a, <2>3, <2>5, EnqueueHolds
    <3>2. lastEmitted' \in [Streams -> Nat \cup {Never}]
      BY <2>5, TimesFacts DEF Base, TypeOK
    <3>3. QED
      BY <2>3, <2>4, <2>5, <3>1, <3>2 DEF Receives, Admit, Base, TypeOK, Control, Idle, Ownership, Holds
  <2>6. CASE /\ ~IntervalElapsed(k)
             /\ pending' = pending \cup {[obs |-> r, due |-> lastEmitted[k] + Interval]}
             /\ UNCHANGED <<lastEmitted, buf, coalesced>>
    <3>1. lastEmitted[k] + Interval \in Nat
      BY <2>6, LocalCaptureAssumption DEF IntervalElapsed, Base, TypeOK
    <3>2. [obs |-> r, due |-> lastEmitted[k] + Interval] \in [obs : Observation, due : Nat]
      BY <2>3, <3>1
    <3>3. QED
      BY <2>3, <2>4, <2>6, <3>2 DEF Receives, Admit, Base, TypeOK, Control, Idle, Ownership
  <2>7. CASE \E p \in PendingOf(k) :
                /\ pending' = (pending \ {p}) \cup {[p EXCEPT !.obs = r]}
                /\ coalesced' = coalesced + 1
                /\ UNCHANGED <<lastEmitted, buf>>
    <3>1. PICK p \in PendingOf(k) :
                /\ pending' = (pending \ {p}) \cup {[p EXCEPT !.obs = r]}
                /\ coalesced' = coalesced + 1
                /\ UNCHANGED <<lastEmitted, buf>>
      BY <2>7
    <3>2. p \in [obs : Observation, due : Nat]
      BY DEF PendingOf, Base, TypeOK
    <3>3. [p EXCEPT !.obs = r] \in [obs : Observation, due : Nat] /\ [p EXCEPT !.obs = r].obs = r
      BY <2>3, <3>2
    <3>4. QED
      BY <2>3, <2>4, <3>1, <3>3 DEF Receives, Admit, Base, TypeOK, Control, Idle, Ownership
  <2>8. QED
    BY <2>1, <2>5, <2>6, <2>7 DEF ObserveRegular, r
<1>20. CASE \E s \in Sources : ObservePrediction(s)
  <2>1. PICK s \in Sources : ObservePrediction(s)
    BY <1>20
  <2>2. run \in Runs /\ <<s, "prediction">> \in Keys
    BY <2>1 DEF ObservePrediction, Receives, Base, Control, Keys
  <2> DEFINE r == NewRecord(<<s, "prediction">>, "prediction")
  <2>3. r \in Observation /\ r.run = run
    BY <2>2, RecordType DEF Base, Classes
  <2> HIDE DEF r
  <2>4. Holds(buf', run)
    BY <1>a, <2>1, <2>3, EnqueueHolds DEF ObservePrediction, r
  <2>5. QED
    BY <2>1, <2>3, <2>4
       DEF ObservePrediction, Receives, Admit, r, Base, TypeOK, Control, Idle, Ownership, Holds
<1>21. CASE TimerFires \/ StopFlushes
  <2>1. PICK p \in pending : Flush(p)
    BY <1>21 DEF TimerFires, StopFlushes
  <2>2. /\ Holds(buf', run) /\ pending' \subseteq pending
        /\ lastEmitted' \in [Streams -> Nat \cup {Never}]
    BY <2>1, FlushType
  <2>3. pending # {}
    BY <2>1
  <2>4. QED
    BY <1>21, <2>2, <2>3 DEF TimerFires, StopFlushes, Base, TypeOK, Control, Idle, Ownership, Holds
<1>22. CASE WriterTakes \/ GapRecorded
  <2>1. CASE TakeBatch(buf)
    BY <1>22, <2>1, TakeBatchType DEF WriterTakes, GapRecorded, Base, TypeOK, Control, Idle, Ownership, Holds
  <2>2. CASE RecordGap(buf.gaps) /\ buf' = [buf EXCEPT !.gaps = {}]
    <3>1. buf.gaps \in SUBSET Gap /\ buf.queue \in Seq(Observation)
      BY <1>a DEF Holds, Buffer
    <3>2. buf' \in Buffer /\ buf'.queue = buf.queue /\ buf'.gaps = {}
      BY <1>a, <2>2, <3>1 DEF Holds, Buffer
    <3>3. QED
      BY <1>22, <2>2, <3>1, <3>2, RecordGapType DEF WriterTakes, GapRecorded, Base, TypeOK, Control, Idle, Ownership
  <2>3. CASE RecordGap(writing) /\ UNCHANGED buf
    <3>1. writing \in SUBSET Gap
      BY DEF Base, TypeOK
    <3>2. QED
      BY <1>22, <2>3, <3>1, RecordGapType DEF WriterTakes, GapRecorded, Base, TypeOK, Control, Idle, Ownership
  <2>4. QED
    BY <1>22, <2>1, <2>2, <2>3 DEF WriterTakes, GapRecorded
<1>23. CASE Unloaded \/ Crash
  <2>1. ForgetMemory
    BY <1>23 DEF Unloaded, Crash
  <2>2. Holds(buf', run')
    <3>1. buf.dropped \in SUBSET Observation
      BY DEF Base, TypeOK, Buffer
    <3>2. QED
      BY <2>1, <3>1, EmptyBuffer DEF ForgetMemory
  <2>3. now' \in Times
    BY <1>23, LocalCaptureAssumption DEF Unloaded, Crash, Base, TypeOK, Times
  <2>4. lastEmitted' \in [Streams -> Nat \cup {Never}]
    BY <2>1 DEF ForgetMemory
  <2>5. TypeOK'
    BY <2>1, <2>2, <2>3, <2>4, NoOpType DEF ForgetMemory, Base, TypeOK, Holds
  <2>6. QED
    BY <2>1, <2>2, <2>5 DEF ForgetMemory, Base, Control, Idle, Ownership, Holds, NoOp
<1>24. CASE Execute
  BY <1>24, ExecuteType DEF Execute, Base, TypeOK, Control, Idle, Ownership
<1>25. CASE NormalizationFails \/ UNCHANGED vars
  BY <1>25 DEF NormalizationFails, vars, recordVars, Base, TypeOK, Control, Idle, Ownership
<1>26. QED
  BY <1>1, <1>2, <1>3, <1>4, <1>5, <1>6, <1>7, <1>8, <1>9, <1>10, <1>11, <1>12, <1>13,
     <1>14, <1>15, <1>16, <1>17, <1>18, <1>19, <1>20, <1>21, <1>22, <1>23, <1>24, <1>25
     DEF Next, Start, Observe, Write, Stop, Archive

\* Every behaviour of the capture pipeline keeps its variables in their types:
\* above all the queue never exceeds MAX_QUEUE_ITEMS (_enqueue).
THEOREM TypeCorrect == Spec => []TypeOK
<1>1. Spec => []Base
  BY BaseInit, BaseNext, PTL DEF Spec
<1>2. Base => TypeOK
  BY DEF Base
<1>3. QED
  BY <1>1, <1>2, PTL

-----------------------------------------------------------------------------
(* Open runs *)

LEMMA OpenRunsInit == Init => OpenRuns
BY DEF Init, NoOp, OpenRuns, OneOpenRun, Stale

LEMMA OpenRunsNext ==
    ASSUME Base, OpenRuns, [Next]_vars
    PROVE  OpenRuns'
<1> USE DEF clockVars, intakeVars, policyVars, writerVars, stopVars, archiveVars, memoryVars
<1>1. CASE Execute
  <2>1. op.state = "queued" /\ op'.kind = op.kind /\ op'.state \in {"ok", "error"}
    BY <1>1 DEF Execute, Base, TypeOK, Operation
  <2>2. CASE RecoverEffect
    <3>1. Stale' = {}
      BY <2>2 DEF RecoverEffect, Stale, Base, TypeOK
    <3>2. QED
      BY <2>1, <2>2, <3>1 DEF RecoverEffect, OpenRuns, OneOpenRun, Stale
  <2>3. CASE BeginEffect
    <3>1. Stale = {}
      BY <2>1, <2>3 DEF BeginEffect, OpenRuns
    <3>2. \A r \in Runs : runStatus'[r] = "running" => r = run
      BY <2>3, <3>1 DEF BeginEffect, Stale, Base, TypeOK
    <3>3. QED
      BY <2>1, <2>3, <3>2 DEF BeginEffect, OpenRuns, OneOpenRun
  <2>4. CASE GapEffect \/ CommitEffect
    BY <2>1, <2>4 DEF GapEffect, CommitEffect, OpenRuns, OneOpenRun
  <2>5. CASE FinishEffect
    <3>1. \A r \in Runs : runStatus'[r] = "running" => runStatus[r] = "running"
      BY <2>5 DEF FinishEffect, Base, TypeOK
    <3>2. QED
      BY <2>1, <2>5, <3>1 DEF FinishEffect, OpenRuns, OneOpenRun
  <2>6. QED
    BY <1>1, <2>2, <2>3, <2>4, <2>5 DEF Execute
<1>2. CASE Open
  BY <1>2 DEF Open, Command, OpenRuns, OneOpenRun, Stale
<1>3. CASE CreateSupervisor
  <2>1. Stale = {}
    BY <1>3 DEF CreateSupervisor, OpenRuns, Base, Control
  <2>2. QED
    BY <1>3, <2>1 DEF CreateSupervisor, Command, OpenRuns, OneOpenRun, Stale
<1>4. CASE RollBack
  BY <1>4 DEF RollBack, OpenRuns, OneOpenRun, Stale, Base, TypeOK, Operation
<1>5. CASE Unloaded \/ Crash \/ Started \/ BatchCommitted \/ WriterFails
  BY <1>5 DEF Unloaded, Crash, ForgetMemory, Started, BatchCommitted, WriterFails, NoOp,
              OpenRuns, OneOpenRun, Stale
<1>6. CASE WriterTakes \/ GapRecorded
  <2>1. op'.kind \in {"none", "commit", "gap"}
    <3>1. buf.gaps \in SUBSET Gap /\ writing \in SUBSET Gap
      BY BufferHolds DEF Holds, Buffer, Base, TypeOK
    <3>2. QED
      BY <1>6, <3>1, TakeBatchType, RecordGapType DEF WriterTakes, GapRecorded
  <2>2. UNCHANGED runStatus
    BY <1>6 DEF WriterTakes, GapRecorded
  <2>3. QED
    BY <2>1, <2>2 DEF OpenRuns, OneOpenRun, Stale
<1>7. CASE StopDrained
  BY <1>7 DEF StopDrained, Command, OpenRuns, OneOpenRun, Stale
<1>8. CASE UNCHANGED <<op, runStatus>>
  BY <1>8 DEF OpenRuns, OneOpenRun, Stale
<1>9. CASE Observe
  BY <1>8, <1>9 DEF Observe, ObserveTransition, ObserveRegular, ObservePrediction, Admit
<1>10. CASE TimerFires \/ Tick \/ UNCHANGED recordVars
  BY <1>8, <1>10 DEF TimerFires, Tick, recordVars
<1>11. CASE ArchiveUnavailable \/ StartFails \/ WriterIdle \/ WriterWakes
  BY <1>8, <1>11 DEF ArchiveUnavailable, StartFails, WriterIdle, WriterWakes
<1>12. CASE \/ StopBegins \/ StopFlushes \/ StopFlushed \/ StopTimesOut
            \/ StopFinishes \/ StopDuringStart
  BY <1>8, <1>12 DEF StopBegins, StopFlushes, StopFlushed, StopTimesOut,
                     StopFinishes, StopDuringStart
<1>13. QED
  BY <1>1, <1>2, <1>3, <1>4, <1>5, <1>6, <1>7, <1>9, <1>10, <1>11, <1>12
     DEF Next, NormalizationFails, vars, Start, Write, Stop, Archive

\* The archive never holds two open runs: opening the archive closes what a
\* crash left open before async_start begins another run
\* (async_recover_interrupted_local_captures).
THEOREM AtMostOneOpenRun == Spec => []OneOpenRun
<1>1. Spec => [](Base /\ OpenRuns)
  BY BaseInit, BaseNext, OpenRunsInit, OpenRunsNext, PTL DEF Spec
<1>2. OpenRuns => OneOpenRun
  BY DEF OpenRuns
<1>3. QED
  BY <1>1, <1>2, PTL

-----------------------------------------------------------------------------
(* The promise of a clean run: its inductive invariant *)

\* the supervisor works and still owns its run
Live == status \in {"ready", "stopping"} /\ ~failed

\* a stop that may close the run has emptied the memory before
Draining ==
    /\ stopping => pending = {}
    /\ stopPc \in {"drain", "finish"} => stopping
    /\ stopPc \in {"none", "flush"} => ~stopping
    /\ stopPc \in {"none", "flush"} /\ Live => writer # "done"
    /\ stopPc \in {"flush", "drain"} => status = "stopping" \/ failed
    /\ status \in {"ready", "stopping"} => writer # "none" \/ failed
    /\ status = "degraded" /\ stopPc = "none" => failed
    /\ writer = "done" /\ ~failed => buf.queue = <<>> /\ buf.gaps = {} /\ stopping
    /\ stopPc = "finish" => Live /\ writer = "done"
    /\ op.kind = "finish" /\ op.state = "queued" => stopPc = "finish"
    /\ status = "starting" /\ op.state = "ok" => runStatus[run] = "running"
    /\ attached => runStatus[run] = "running"

\* observations belong to the runs so far, those in the queue were received
Succession ==
    /\ \A r \in admitted : r.run <= run
    /\ status = "starting" => \A r \in admitted : r.run # run
    /\ \A i \in DOMAIN buf.queue : buf.queue[i] \in admitted

\* the interval policy
Policy ==
    /\ \A k \in Streams : lastEmitted[k] <= now
    /\ \A p \in pending :
          /\ p.obs \in admitted /\ p.obs.class = "regular"
          /\ p.obs.at <= now /\ p.obs.ord < ordinal
          /\ p.due <= p.obs.at + Interval
          /\ now <= p.due + MaxTimerDelay
    /\ Live => \A r \in admitted : r.run = run => r.ord < ordinal

\* a successful command has had its effect
Durable ==
    op.state = "ok" =>
        /\ op.kind = "commit" => op.rows \subseteq archived
        /\ op.kind = "gap" => op.gaps \subseteq gapRows

InFlightRows == IF writer = "commit" THEN op.rows ELSE {}
InFlightGaps == IF writer = "gap" THEN op.gaps ELSE {}

\* r is evident or on its way to the archive, or its drop is
Kept(r) ==
    \/ Evident(r)
    \/ Queued(buf.queue, r)
    \/ r \in InFlightRows
    \/ Noted(buf.gaps, r) \/ Noted(writing, r) \/ Noted(InFlightGaps, r)

\* the pending point p is r, or a newer point that replaces it when it is emitted
StandsFor(p, r) ==
    \/ p.obs = r
    \/ /\ p.obs.run = r.run /\ p.obs.key = r.key /\ p.obs.ord > r.ord
       /\ r.class = "regular" /\ p.due <= r.at + Interval

Accounted(r) ==
    \/ Kept(r)
    \/ \E n \in admitted : Replaces(n, r) /\ Kept(n)
    \/ \E p \in pending : StandsFor(p, r)

NothingLost == Live => \A r \in admitted : r.run = run => Accounted(r)

CaptureInv ==
    /\ Base /\ Draining /\ Succession /\ Policy /\ Durable
    /\ NothingLost /\ CleanRunAccounted

-----------------------------------------------------------------------------
(* Draining *)

LEMMA DrainingInit == Init => Draining
BY DEF Init, NoMemory, NoOp, Draining

\* A buffer that refuses everything, or into which nothing can be flushed, stays.
LEMMA DrainingNext ==
    ASSUME Base, Draining, [Next]_vars
    PROVE  Draining'
<1> USE DEF clockVars, intakeVars, policyVars, writerVars, stopVars, archiveVars, memoryVars
<1>1. CASE Open
  BY <1>1 DEF Open, Command, Base, Draining, Live, Control, Idle
<1>2. CASE CreateSupervisor
  BY <1>2 DEF CreateSupervisor, Command, Base, Draining, Live, Control, Idle
<1>3. CASE ArchiveUnavailable
  BY <1>3 DEF ArchiveUnavailable, Base, Draining, Live, Control, Idle
<1>4. CASE Started
  BY <1>4 DEF Started, NoOp, Base, Draining, Live, Control, Idle
<1>5. CASE StartFails
  BY <1>5 DEF StartFails, Base, Draining, Live, Control, Idle
<1>6. CASE WriterIdle
  BY <1>6 DEF WriterIdle, Base, Draining, Live, Control, Idle
<1>7. CASE WriterWakes
  BY <1>7 DEF WriterWakes, Base, Draining, Live, Control, Idle
<1>8. CASE BatchCommitted
  BY <1>8 DEF BatchCommitted, NoOp, Base, Draining, Live, Control, Idle
<1>9. CASE WriterFails
  BY <1>9 DEF WriterFails, NoOp, Base, Draining, Live, Control, Idle
<1>10. CASE StopBegins
  BY <1>10 DEF StopBegins, Base, Draining, Live, Control, Idle
<1>11. CASE StopFlushed
  BY <1>11 DEF StopFlushed, Base, Draining, Live, Control, Idle
<1>12. CASE StopDrained
  BY <1>12 DEF StopDrained, Command, Base, Draining, Live, Control, Idle
<1>13. CASE StopTimesOut
  BY <1>13 DEF StopTimesOut, Base, Draining, Live, Control, Idle
<1>14. CASE StopFinishes
  BY <1>14 DEF StopFinishes, Base, Draining, Live, Control, Idle
<1>15. CASE StopDuringStart
  BY <1>15 DEF StopDuringStart, Base, Draining, Live, Control, Idle
<1>16. CASE RollBack
  BY <1>16 DEF RollBack, TypeOK, Operation, Base, Draining, Live, Control, Idle
<1>17. CASE Tick
  BY <1>17 DEF Tick, Base, Draining, Live, Control, Idle
<1>18. CASE Unloaded \/ Crash
  BY <1>18 DEF Unloaded, Crash, ForgetMemory, NoOp, Base, Draining, Live, Control, Idle
<1>19. CASE Observe
  <2>1. Receives /\ UNCHANGED <<status, attached, failed, stopping, stopPc, writer, op, runStatus, run>>
    BY <1>19 DEF Observe, ObserveTransition, ObserveRegular, ObservePrediction, Admit
  <2>2. writer # "done" \/ failed
    BY <2>1 DEF Receives, Base, Draining, Live, Control, Idle
  <2>3. QED
    BY <2>1, <2>2 DEF Receives, Base, Draining, Live, Control, Idle
<1>20. CASE TimerFires \/ StopFlushes
  <2>1. PICK p \in pending : Flush(p)
    BY <1>20 DEF TimerFires, StopFlushes
  <2>2. ~stopping /\ pending' \subseteq pending
    BY <2>1 DEF Draining, Flush
  <2>3. QED
    BY <1>20, <2>2 DEF TimerFires, StopFlushes, Base, Draining, Live, Control, Idle
<1>21. CASE WriterTakes \/ GapRecorded
  <2>1. op'.kind \in {"none", "commit", "gap"} /\ writer' \in {"run", "commit", "gap"}
    <3>1. buf.gaps \in SUBSET Gap /\ writing \in SUBSET Gap
      BY BufferHolds DEF Holds, Buffer, Base, TypeOK
    <3>2. QED
      BY <1>21, <3>1, TakeBatchType, RecordGapType DEF WriterTakes, GapRecorded
  <2>2. status # "starting" /\ writer \in {"run", "gap"}
    BY <1>21 DEF WriterTakes, GapRecorded, Base, Draining, Live, Control, Idle
  <2>3. UNCHANGED <<status, attached, failed, stopping, stopPc, pending, runStatus, run>>
    BY <1>21 DEF WriterTakes, GapRecorded
  <2>4. QED
    BY <2>1, <2>2, <2>3 DEF Base, Draining, Live, Control, Idle
<1>22. CASE Execute
  <2>1. op.state = "queued" /\ op'.kind = op.kind /\ op'.state \in {"ok", "error"}
    BY <1>22 DEF Execute, Base, TypeOK, Operation
  <2>2. UNCHANGED <<clockVars, memoryVars>>
    BY <1>22 DEF Execute
  <2>3. CASE RecoverEffect \/ FinishEffect
    <3>1. ~attached /\ status # "starting"
      BY <2>1, <2>3 DEF RecoverEffect, FinishEffect, Base, Draining, Live, Control, Idle
    <3>2. QED
      BY <2>1, <2>2, <3>1 DEF Base, Draining, Live, Control, Idle
  <2>4. CASE BeginEffect
    <3>1. status = "starting" => runStatus'[run] = "running"
      BY <2>4 DEF BeginEffect, Base, Draining, Live, Control, Idle, TypeOK
    <3>2. ~attached
      BY <2>4 DEF BeginEffect, Base, Draining, Live, Control, Idle
    <3>3. QED
      BY <2>1, <2>2, <3>1, <3>2 DEF Base, Draining, Live, Control, Idle
  <2>5. CASE GapEffect \/ CommitEffect
    <3>1. status # "starting" /\ UNCHANGED runStatus
      BY <2>5 DEF GapEffect, CommitEffect, Base, Draining, Live, Control, Idle
    <3>2. QED
      BY <2>1, <2>2, <3>1 DEF Base, Draining, Live, Control, Idle
  <2>6. QED
    BY <1>22, <2>3, <2>4, <2>5 DEF Execute
<1>23. CASE UNCHANGED recordVars
  BY <1>23 DEF recordVars, Base, Draining, Live, Control, Idle
<1>24. QED
  BY <1>1, <1>2, <1>3, <1>4, <1>5, <1>6, <1>7, <1>8, <1>9, <1>10, <1>11, <1>12, <1>13, <1>14, <1>15, <1>16, <1>17, <1>18, <1>19, <1>20, <1>21, <1>22, <1>23
     DEF Next, NormalizationFails, vars, Start, Write, Stop, Archive

-----------------------------------------------------------------------------
(* What an emission does to the buffer *)

LEMMA EnqueueFrom ==
    ASSUME NEW b, Holds(b, run), NEW r \in Observation, r.run = run
    PROVE  \A x : Queued(Enqueue(b, r).queue, x) => Queued(b.queue, x) \/ x = r
<1>1. CASE stopping \/ failed
  BY <1>1, EnqueueRefused
<1>2. CASE ~stopping /\ ~failed
  BY <1>2, EnqueueKeeps
<1>3. QED
  BY <1>1, <1>2

\* The step emitted pending points, and perhaps the record r, and lost nothing.
Emits(S) ==
    /\ pending' \subseteq pending
    /\ \A x : Queued(buf'.queue, x) =>
          Queued(buf.queue, x) \/ x \in S \/ \E p \in pending : x = p.obs
    /\ \A k \in Streams :
          \/ lastEmitted'[k] \in {lastEmitted[k], now}
          \/ \E p \in pending : lastEmitted'[k] = p.obs.at
    /\ ~stopping /\ ~failed =>
          /\ \A x \in Observation : InBuffer(buf, x) \/ x \in S => InBuffer(buf', x)
          /\ \A p \in pending : p \notin pending' => InBuffer(buf', p.obs)

LEMMA FlushEmits ==
    ASSUME Base, NEW p \in pending, Flush(p)
    PROVE  Emits({})
<1>1. /\ p.obs \in Observation /\ p.obs.run = run
  BY PendingType
<1>2. /\ pending' = pending \ {p} /\ buf' = Enqueue(buf, p.obs)
      /\ lastEmitted' = [lastEmitted EXCEPT ![p.obs.key] = p.obs.at]
  BY DEF Flush
<1>3. \A x : Queued(buf'.queue, x) => Queued(buf.queue, x) \/ x = p.obs
  BY <1>1, <1>2, BufferHolds, EnqueueFrom
<1>4. \A k \in Streams : lastEmitted'[k] = lastEmitted[k] \/ lastEmitted'[k] = p.obs.at
  BY <1>2 DEF Base, TypeOK
<1>5. ASSUME ~stopping, ~failed
      PROVE  /\ InBuffer(buf', p.obs)
             /\ \A x \in Observation : InBuffer(buf, x) => InBuffer(buf', x)
  BY <1>1, <1>2, <1>5, BufferHolds, EnqueueKeeps
<1>6. QED
  BY <1>2, <1>3, <1>4, <1>5 DEF Emits

LEMMA EmitEmits ==
    ASSUME Base, NEW k, NEW r \in Observation, r.run = run, EmitAfterPending(k, r)
    PROVE  Emits({r})
<1>1. CASE PendingOf(k) = {} /\ buf' = Enqueue(buf, r) /\ UNCHANGED <<pending, lastEmitted>>
  <2>1. \A x : Queued(buf'.queue, x) => Queued(buf.queue, x) \/ x = r
    BY <1>1, BufferHolds, EnqueueFrom
  <2>2. ASSUME ~stopping, ~failed
        PROVE  /\ InBuffer(buf', r)
               /\ \A x \in Observation : InBuffer(buf, x) => InBuffer(buf', x)
    BY <1>1, <2>2, BufferHolds, EnqueueKeeps
  <2>3. QED
    BY <1>1, <2>1, <2>2 DEF Emits
<1>2. CASE \E p \in PendingOf(k) :
             /\ buf' = Enqueue(Enqueue(buf, p.obs), r)
             /\ pending' = pending \ {p}
             /\ lastEmitted' = [lastEmitted EXCEPT ![k] = p.obs.at]
  <2>1. PICK p \in PendingOf(k) :
               /\ buf' = Enqueue(Enqueue(buf, p.obs), r)
               /\ pending' = pending \ {p}
               /\ lastEmitted' = [lastEmitted EXCEPT ![k] = p.obs.at]
    BY <1>2
  <2>2. p \in pending
    BY DEF PendingOf
  <2>3. p.obs \in Observation /\ p.obs.run = run
    BY <2>2, PendingType
  <2> DEFINE b == Enqueue(buf, p.obs)
  <2>4. Holds(buf, run) /\ Holds(b, run)
    BY <2>3, BufferHolds, EnqueueHolds
  <2>5. \A x : Queued(b.queue, x) => Queued(buf.queue, x) \/ x = p.obs
    BY <2>3, <2>4, EnqueueFrom
  <2>6. ASSUME ~stopping, ~failed
        PROVE  /\ InBuffer(b, p.obs)
               /\ \A x \in Observation : InBuffer(buf, x) => InBuffer(b, x)
    BY <2>3, <2>4, <2>6, EnqueueKeeps
  <2> HIDE DEF b
  <2>7. buf' = Enqueue(b, r)
    BY <2>1 DEF b
  <2>8. \A x : Queued(buf'.queue, x) => Queued(b.queue, x) \/ x = r
    BY <2>4, <2>7, EnqueueFrom
  <2>9. ASSUME ~stopping, ~failed
        PROVE  /\ InBuffer(buf', r)
               /\ \A x \in Observation : InBuffer(b, x) => InBuffer(buf', x)
    BY <2>4, <2>7, <2>9, EnqueueKeeps
  <2>10. \A s \in Streams : lastEmitted'[s] = lastEmitted[s] \/ lastEmitted'[s] = p.obs.at
    BY <2>1 DEF Base, TypeOK
  <2>11. \A x : Queued(buf'.queue, x) => Queued(buf.queue, x) \/ x \in {r} \/ x = p.obs
    BY <2>5, <2>8
  <2>12. ASSUME ~stopping, ~failed
         PROVE  /\ \A x \in Observation : InBuffer(buf, x) \/ x \in {r} => InBuffer(buf', x)
                /\ InBuffer(buf', p.obs)
    BY <2>3, <2>6, <2>9, <2>12
  <2>13. QED
    BY <2>1, <2>2, <2>10, <2>11, <2>12 DEF Emits
<1>3. QED
  BY <1>1, <1>2 DEF EmitAfterPending

\* The record became the pending point of its stream.
Postpones(r) ==
    /\ UNCHANGED <<buf, lastEmitted>>
    /\ r.class = "regular"
    /\ \E due \in Nat :
          /\ pending' = pending \cup {[obs |-> r, due |-> due]}
          /\ now <= due /\ due <= now + Interval

\* The record replaced the pending point of its stream.
Coalesces(r) ==
    /\ UNCHANGED <<buf, lastEmitted>>
    /\ r.class = "regular"
    /\ \E p \in pending :
          /\ p.obs.key = r.key
          /\ pending' = (pending \ {p}) \cup {[p EXCEPT !.obs = r]}

\* The three ways an observation is received, with what they have in common.
LEMMA ReceivedRecord ==
    ASSUME Base, Policy, Observe
    PROVE  \E r \in Observation :
              /\ Receives /\ Admit(r)
              /\ r.run = run /\ r.at = now /\ r.ord = ordinal /\ UNCHANGED now
              /\ Emits({r}) \/ Postpones(r) \/ Coalesces(r)
<1>1. ASSUME NEW k \in Keys, NEW c \in Classes, Receives
      PROVE  /\ NewRecord(k, c) \in Observation /\ NewRecord(k, c).run = run
             /\ NewRecord(k, c).at = now /\ NewRecord(k, c).ord = ordinal
  <2>1. run \in Runs
    BY <1>1 DEF Receives, Base, Control
  <2>2. QED
    BY <2>1, RecordType DEF Base, NewRecord
<1>2. Streams \subseteq Keys /\ \A s \in Sources : <<s, "prediction">> \in Keys
  BY DEF Streams, Keys
<1>3. ASSUME NEW k \in Streams, ObserveTransition(k)
      PROVE  \E r \in Observation :
                /\ Receives /\ Admit(r) /\ Emits({r})
                /\ r.run = run /\ r.at = now /\ r.ord = ordinal /\ UNCHANGED now
  <2> DEFINE r == NewRecord(k, "transition")
  <2>1. Receives /\ Admit(r) /\ EmitAfterPending(k, r) /\ UNCHANGED now
    BY <1>3 DEF ObserveTransition, Admit, clockVars
  <2>2. r \in Observation /\ r.run = run /\ r.at = now /\ r.ord = ordinal
    BY <1>1, <1>2, <2>1 DEF Classes
  <2> HIDE DEF r
  <2>3. QED
    BY <2>1, <2>2, EmitEmits
<1>4. ASSUME NEW s \in Sources, ObservePrediction(s)
      PROVE  \E r \in Observation :
                /\ Receives /\ Admit(r) /\ Emits({r})
                /\ r.run = run /\ r.at = now /\ r.ord = ordinal /\ UNCHANGED now
  <2> DEFINE r == NewRecord(<<s, "prediction">>, "prediction")
  <2>1. /\ Receives /\ Admit(r) /\ buf' = Enqueue(buf, r)
        /\ UNCHANGED <<pending, lastEmitted, now>>
    BY <1>4 DEF ObservePrediction, Admit, clockVars, policyVars
  <2>2. r \in Observation /\ r.run = run /\ r.at = now /\ r.ord = ordinal
    BY <1>1, <1>2, <2>1 DEF Classes
  <2> HIDE DEF r
  <2>3. \A x : Queued(buf'.queue, x) => Queued(buf.queue, x) \/ x = r
    BY <2>1, <2>2, BufferHolds, EnqueueFrom
  <2>4. ASSUME ~stopping, ~failed
        PROVE  /\ InBuffer(buf', r)
               /\ \A x \in Observation : InBuffer(buf, x) => InBuffer(buf', x)
    BY <2>1, <2>2, <2>4, BufferHolds, EnqueueKeeps
  <2>5. Emits({r})
    BY <2>1, <2>3, <2>4 DEF Emits
  <2>6. QED
    BY <2>1, <2>2, <2>5
<1>5. ASSUME NEW k \in Streams, ObserveRegular(k)
      PROVE  \E r \in Observation :
                /\ Receives /\ Admit(r)
                /\ r.run = run /\ r.at = now /\ r.ord = ordinal /\ UNCHANGED now
                /\ Emits({r}) \/ Postpones(r) \/ Coalesces(r)
  <2> DEFINE r == NewRecord(k, "regular")
  <2>1. Receives /\ Admit(r) /\ UNCHANGED now
    BY <1>5 DEF ObserveRegular, Admit, clockVars
  <2>2. /\ r \in Observation /\ r.run = run /\ r.at = now /\ r.ord = ordinal
        /\ r.class = "regular" /\ r.key = k
    BY <1>1, <1>2, <2>1 DEF Classes, NewRecord
  <2>3. \/ /\ lastEmitted' = [lastEmitted EXCEPT ![k] = now]
           /\ buf' = Enqueue(buf, r)
           /\ UNCHANGED <<pending, coalesced>>
        \/ /\ ~IntervalElapsed(k)
           /\ pending' = pending \cup {[obs |-> r, due |-> lastEmitted[k] + Interval]}
           /\ UNCHANGED <<lastEmitted, buf, coalesced>>
        \/ /\ \E p \in PendingOf(k) :
                 pending' = (pending \ {p}) \cup {[p EXCEPT !.obs = r]}
           /\ UNCHANGED <<lastEmitted, buf>>
    BY <1>5 DEF ObserveRegular
  <2> HIDE DEF r
  <2>4. CASE /\ lastEmitted' = [lastEmitted EXCEPT ![k] = now]
             /\ buf' = Enqueue(buf, r)
             /\ UNCHANGED <<pending, coalesced>>
    <3>1. \A x : Queued(buf'.queue, x) => Queued(buf.queue, x) \/ x = r
      BY <2>2, <2>4, BufferHolds, EnqueueFrom
    <3>2. ASSUME ~stopping, ~failed
          PROVE  /\ InBuffer(buf', r)
                 /\ \A x \in Observation : InBuffer(buf, x) => InBuffer(buf', x)
      BY <2>2, <2>4, <3>2, BufferHolds, EnqueueKeeps
    <3>3. \A s \in Streams : lastEmitted'[s] \in {lastEmitted[s], now}
      BY <2>4 DEF Base, TypeOK
    <3>4. Emits({r})
      BY <2>4, <3>1, <3>2, <3>3 DEF Emits
    <3>5. QED
      BY <2>1, <2>2, <3>4
  <2>5. CASE /\ ~IntervalElapsed(k)
             /\ pending' = pending \cup {[obs |-> r, due |-> lastEmitted[k] + Interval]}
             /\ UNCHANGED <<lastEmitted, buf, coalesced>>
    <3>1. lastEmitted[k] \in Nat /\ lastEmitted[k] <= now /\ now - lastEmitted[k] < Interval
      BY <2>5, LocalCaptureAssumption, TimesFacts DEF IntervalElapsed, Base, TypeOK, Policy
    <3>2. /\ lastEmitted[k] + Interval \in Nat
          /\ now <= lastEmitted[k] + Interval /\ lastEmitted[k] + Interval <= now + Interval
      BY <3>1, LocalCaptureAssumption, TimesFacts DEF Base, TypeOK
    <3>3. Postpones(r)
      BY <2>2, <2>5, <3>2 DEF Postpones
    <3>4. QED
      BY <2>1, <2>2, <3>3
  <2>6. CASE /\ \E p \in PendingOf(k) :
                   pending' = (pending \ {p}) \cup {[p EXCEPT !.obs = r]}
             /\ UNCHANGED <<lastEmitted, buf>>
    <3>1. Coalesces(r)
      BY <2>2, <2>6 DEF Coalesces, PendingOf
    <3>2. QED
      BY <2>1, <2>2, <3>1
  <2>7. QED
    BY <2>3, <2>4, <2>5, <2>6
<1>6. QED
  BY <1>3, <1>4, <1>5 DEF Observe

-----------------------------------------------------------------------------
(* The interval policy *)

LEMMA SuccessionInit == Init => Succession /\ Policy /\ Durable
BY LocalCaptureAssumption
   DEF Init, NoMemory, NoOp, Never, Succession, Policy, Durable

LEMMA PolicyNext ==
    ASSUME Base, Draining, Succession, Policy, [Next]_vars
    PROVE  Policy'
<1> USE DEF clockVars, intakeVars, policyVars, writerVars, stopVars, archiveVars, memoryVars
<1>t. /\ now \in Nat /\ ordinal \in Nat /\ Interval \in Nat /\ MaxTimerDelay \in Nat
      /\ \A p \in pending : p.obs \in Observation /\ p.obs.at \in Nat /\ p.due \in Nat
  BY PendingType, TimesFacts, LocalCaptureAssumption DEF Base, TypeOK
<1>1. CASE Observe
  <2>1. PICK r \in Observation :
              /\ Receives /\ Admit(r)
              /\ r.run = run /\ r.at = now /\ r.ord = ordinal /\ UNCHANGED now
              /\ Emits({r}) \/ Postpones(r) \/ Coalesces(r)
    BY <1>1, ReceivedRecord
  <2>2. /\ admitted' = admitted \cup {r} /\ ordinal' = ordinal + 1
        /\ UNCHANGED <<now, run, status, failed>>
    BY <2>1 DEF Admit
  <2>3. Live /\ \A x \in admitted : x.run = run => x.ord < ordinal
    BY <2>1 DEF Receives, Base, Control, Live, Policy
  <2>4. Live' => \A x \in admitted' : x.run = run' => x.ord < ordinal'
    <3>1. \A x \in admitted : x.ord \in Nat
      BY DEF Base, TypeOK, Observation
    <3>2. QED
      BY <1>t, <2>1, <2>2, <2>3, <3>1
  <2>5. \A p \in pending : p.obs.ord \in Nat
    BY <1>t DEF Observation
  <2>6. CASE Emits({r})
    <3>1. \A k \in Streams : lastEmitted'[k] <= now
      BY <1>t, <2>6 DEF Emits, Policy
    <3>2. QED
      BY <1>t, <2>2, <2>4, <2>5, <2>6, <3>1 DEF Emits, Policy
  <2>7. CASE Postpones(r)
    <3>1. PICK due \in Nat :
             /\ pending' = pending \cup {[obs |-> r, due |-> due]}
             /\ now <= due /\ due <= now + Interval
      BY <2>7 DEF Postpones
    <3>2. r.class = "regular" /\ UNCHANGED lastEmitted
      BY <2>7 DEF Postpones
    <3>3. QED
      BY <1>t, <2>1, <2>2, <2>4, <2>5, <3>1, <3>2 DEF Policy
  <2>8. CASE Coalesces(r)
    <3>1. PICK p \in pending : pending' = (pending \ {p}) \cup {[p EXCEPT !.obs = r]}
      BY <2>8 DEF Coalesces
    <3>2. r.class = "regular" /\ UNCHANGED lastEmitted
      BY <2>8 DEF Coalesces
    <3>3. [p EXCEPT !.obs = r].obs = r /\ [p EXCEPT !.obs = r].due = p.due
      BY DEF Base, TypeOK
    <3>4. p.due <= now + Interval /\ now <= p.due + MaxTimerDelay
      BY <1>t DEF Policy
    <3> DEFINE Fine(y) ==
                 /\ y.obs \in admitted' /\ y.obs.class = "regular"
                 /\ y.obs.at <= now /\ y.obs.ord < ordinal'
                 /\ y.due <= y.obs.at + Interval
                 /\ now <= y.due + MaxTimerDelay
    <3>5. Fine([p EXCEPT !.obs = r])
      BY <1>t, <2>1, <2>2, <3>2, <3>3, <3>4
    <3>6. \A y \in pending : Fine(y)
      BY <1>t, <2>2, <2>5 DEF Policy
    <3>7. \A y \in pending' : Fine(y)
      BY <3>1, <3>5, <3>6
    <3>8. QED
      BY <2>2, <2>4, <3>2, <3>7 DEF Policy
  <2>9. QED
    BY <2>1, <2>6, <2>7, <2>8
<1>2. CASE TimerFires \/ StopFlushes
  <2>1. PICK p \in pending : Flush(p)
    BY <1>2 DEF TimerFires, StopFlushes
  <2>2. Emits({})
    BY <2>1, FlushEmits
  <2>3. \A k \in Streams : lastEmitted'[k] <= now
    BY <1>t, <2>2 DEF Emits, Policy
  <2>4. UNCHANGED <<now, run, status, failed, ordinal, admitted>>
    BY <1>2 DEF TimerFires, StopFlushes
  <2>5. QED
    BY <1>t, <2>2, <2>3, <2>4 DEF Emits, Policy, Live
<1>3. CASE Tick
  <2>1. \A k \in Streams : lastEmitted[k] \in Int
    BY LocalCaptureAssumption DEF Base, TypeOK, Never
  <2>2. QED
    BY <1>t, <1>3, <2>1 DEF Tick, Policy, Live
<1>4. CASE Unloaded \/ Crash
  <2>1. now' \in Nat
    BY <1>t, <1>4 DEF Unloaded, Crash
  <2>2. pending' = {} /\ status' = "down" /\ lastEmitted' = [k \in Streams |-> Never]
    BY <1>4 DEF Unloaded, Crash, ForgetMemory
  <2>3. QED
    BY <2>1, <2>2 DEF Policy, Live, Never
<1>5. CASE Started \/ CreateSupervisor
  BY <1>5 DEF Started, CreateSupervisor, Policy, Succession, Live, Base, Idle
<1>6. CASE UNCHANGED <<now, run, pending, lastEmitted, ordinal, admitted>> /\ (Live' => Live)
  BY <1>6 DEF Policy
<1>7. CASE Open \/ ArchiveUnavailable \/ StartFails
  BY <1>6, <1>7 DEF Open, ArchiveUnavailable, StartFails, Live
<1>8. CASE WriterIdle \/ WriterWakes \/ WriterTakes \/ GapRecorded \/ BatchCommitted \/ WriterFails
  BY <1>6, <1>8
     DEF WriterIdle, WriterWakes, WriterTakes, GapRecorded, BatchCommitted, WriterFails, Live
<1>9. CASE \/ StopBegins \/ StopFlushed \/ StopDrained \/ StopTimesOut
           \/ StopFinishes \/ StopDuringStart
  BY <1>6, <1>9 DEF StopBegins, StopFlushed, StopDrained, StopTimesOut,
                    StopFinishes, StopDuringStart, Live, Draining
<1>10. CASE Execute \/ RollBack \/ UNCHANGED recordVars
  BY <1>6, <1>10 DEF Execute, RollBack, recordVars, Live
<1>11. QED
  BY <1>1, <1>2, <1>3, <1>4, <1>5, <1>7, <1>8, <1>9, <1>10
     DEF Next, NormalizationFails, vars, Start, Write, Stop, Archive

-----------------------------------------------------------------------------
(* The archive *)

LEMMA ArchiveGrows ==
    ASSUME Base, [Next]_vars
    PROVE  archived \subseteq archived' /\ gapRows \subseteq gapRows'
<1> USE DEF clockVars, intakeVars, policyVars, writerVars, stopVars, archiveVars, memoryVars
<1>1. CASE Execute
  BY <1>1 DEF Execute, RecoverEffect, BeginEffect, GapEffect, CommitEffect, FinishEffect
<1>2. CASE Observe
  BY <1>2 DEF Observe, ObserveTransition, ObserveRegular, ObservePrediction, Admit
<1>3. CASE Start \/ TimerFires \/ Write \/ RollBack \/ Tick \/ Crash \/ UNCHANGED recordVars
  BY <1>3 DEF Start, Open, CreateSupervisor, ArchiveUnavailable, Started, StartFails,
              TimerFires, Write, WriterIdle, WriterWakes, WriterTakes, GapRecorded,
              BatchCommitted, WriterFails, RollBack, Tick, Crash, ForgetMemory, recordVars
<1>4. CASE Stop
  BY <1>4 DEF Stop, StopBegins, StopFlushes, StopFlushed, StopDrained, StopTimesOut,
              StopFinishes, StopDuringStart, Unloaded, ForgetMemory
<1>5. QED
  BY <1>1, <1>2, <1>3, <1>4 DEF Next, NormalizationFails, vars, Archive

LEMMA DurableNext ==
    ASSUME Base, Durable, [Next]_vars
    PROVE  Durable'
<1> USE DEF clockVars, intakeVars, policyVars, writerVars, stopVars, archiveVars, memoryVars
<1>1. CASE Execute
  <2>1. op'.kind = op.kind /\ op'.rows = op.rows /\ op'.gaps = op.gaps
    BY <1>1 DEF Execute, Base, TypeOK, Operation
  <2>2. CASE CommitEffect
    BY <2>1, <2>2 DEF CommitEffect, Durable
  <2>3. CASE GapEffect
    BY <2>1, <2>3 DEF GapEffect, Durable
  <2>4. CASE RecoverEffect \/ BeginEffect \/ FinishEffect
    BY <2>1, <2>4 DEF RecoverEffect, BeginEffect, FinishEffect, Durable
  <2>5. QED
    BY <1>1, <2>2, <2>3, <2>4 DEF Execute
<1>2. CASE op'.state # "ok"
  BY <1>2 DEF Durable
<1>3. CASE UNCHANGED op
  BY <1>3, ArchiveGrows DEF Durable
<1>4. CASE Open \/ CreateSupervisor \/ Started \/ BatchCommitted \/ WriterFails \/ StopDrained
  BY <1>2, <1>3, <1>4 DEF Open, CreateSupervisor, Started, BatchCommitted, WriterFails,
                          StopDrained, Command, NoOp
<1>5. CASE RollBack
  BY <1>2, <1>5 DEF RollBack, Base, TypeOK, Operation
<1>6. CASE Unloaded \/ Crash
  BY <1>2, <1>6 DEF Unloaded, Crash, ForgetMemory, NoOp
<1>7. CASE WriterTakes \/ GapRecorded
  BY <1>2, <1>7 DEF WriterTakes, GapRecorded, TakeBatch, RecordGap, Command, NoOp
<1>8. CASE Observe
  BY <1>3, <1>8 DEF Observe, ObserveTransition, ObserveRegular, ObservePrediction, Admit
<1>9. CASE \/ ArchiveUnavailable \/ StartFails \/ TimerFires \/ WriterIdle \/ WriterWakes
           \/ Tick \/ UNCHANGED recordVars
  BY <1>3, <1>9 DEF ArchiveUnavailable, StartFails, TimerFires, WriterIdle, WriterWakes,
                    Tick, recordVars
<1>10. CASE \/ StopBegins \/ StopFlushes \/ StopFlushed \/ StopTimesOut
            \/ StopFinishes \/ StopDuringStart
  BY <1>3, <1>10 DEF StopBegins, StopFlushes, StopFlushed, StopTimesOut,
                     StopFinishes, StopDuringStart
<1>11. QED
  BY <1>1, <1>4, <1>5, <1>6, <1>7, <1>8, <1>9, <1>10
     DEF Next, NormalizationFails, vars, Start, Write, Stop, Archive

\* What a batch taken from the queue leaves there.
LEMMA TakeBatchKeeps ==
    ASSUME Base, TakeBatch(buf)
    PROVE  /\ \A x : Queued(buf.queue, x) =>
                 Queued(buf'.queue, x) \/ (writer' = "commit" /\ x \in op'.rows)
           /\ \A x : Queued(buf'.queue, x) => Queued(buf.queue, x)
           /\ buf'.gaps = buf.gaps
<1> DEFINE n == Min({WriteBatchSize, Len(buf.queue)})
           head == ToSet(SubSeq(buf.queue, 1, n))
           rest == [buf EXCEPT !.queue = SubSeq(@, n + 1, Len(@))]
<1>1. Len(buf.queue) \in Nat /\ n \in 0..Len(buf.queue)
  BY BatchSize
<1>2. /\ rest.gaps = buf.gaps
      /\ \A x : Queued(buf.queue, x) <=> x \in head \/ Queued(rest.queue, x)
  BY <1>1, BufferHolds, SplitQueue
<1>3. /\ buf' = rest
      /\ \/ n = 0
         \/ writer' = "commit" /\ op' = Command("commit", head, {})
  BY Zenon DEF TakeBatch
<1>4. n = 0 => head = {}
  <2>1. SUFFICES ASSUME n = 0 PROVE head = {}
    OBVIOUS
  <2>2. SubSeq(buf.queue, 1, n) = << >>
    BY <2>1, SubSeqEmpty
  <2>3. ToSet(<< >>) = {}
    BY DEF ToSet
  <2>4. QED
    BY <2>2, <2>3
<1> HIDE DEF n, head, rest
<1>5. writer' = "commit" /\ op' = Command("commit", head, {}) => op'.rows = head
  BY DEF Command
<1>6. QED
  BY <1>2, <1>3, <1>4, <1>5

LEMMA SuccessionNext ==
    ASSUME Base, Draining, Succession, Policy, [Next]_vars
    PROVE  Succession'
<1> USE DEF clockVars, intakeVars, policyVars, writerVars, stopVars, archiveVars, memoryVars
<1>q. Succession <=> /\ \A r \in admitted : r.run <= run
                     /\ status = "starting" => \A r \in admitted : r.run # run
                     /\ \A x : Queued(buf.queue, x) => x \in admitted
  BY DEF Succession, Queued
<1>p. Succession' <=> /\ \A r \in admitted' : r.run <= run'
                      /\ status' = "starting" => \A r \in admitted' : r.run # run'
                      /\ \A x : Queued(buf'.queue, x) => x \in admitted'
  BY DEF Succession, Queued
<1>e. buf'.queue = <<>> => \A x : ~Queued(buf'.queue, x)
  BY DEF Queued
<1>i. run \in Nat /\ \A r \in admitted : r.run \in Nat
  BY LocalCaptureAssumption DEF Base, TypeOK, Observation, Runs
<1>1. CASE Observe
  <2>1. PICK r \in Observation :
              /\ Receives /\ Admit(r)
              /\ r.run = run /\ r.at = now /\ r.ord = ordinal /\ UNCHANGED now
              /\ Emits({r}) \/ Postpones(r) \/ Coalesces(r)
    BY <1>1, ReceivedRecord
  <2>2. /\ admitted' = admitted \cup {r} /\ UNCHANGED <<run, status>>
        /\ status # "starting"
    BY <2>1 DEF Admit, Receives, Base, Control
  <2>3. \A x : Queued(buf'.queue, x) => x \in admitted'
    <3>1. CASE Emits({r})
      BY <1>q, <2>2, <3>1 DEF Emits, Policy
    <3>2. CASE Postpones(r) \/ Coalesces(r)
      BY <1>q, <2>2, <3>2 DEF Postpones, Coalesces
    <3>3. QED
      BY <2>1, <3>1, <3>2
  <2>4. QED
    BY <1>i, <1>p, <1>q, <2>1, <2>2, <2>3
<1>2. CASE TimerFires \/ StopFlushes
  <2>1. PICK p \in pending : Flush(p)
    BY <1>2 DEF TimerFires, StopFlushes
  <2>2. UNCHANGED <<run, status, admitted>>
    BY <1>2 DEF TimerFires, StopFlushes
  <2>3. QED
    BY <1>p, <1>q, <2>1, <2>2, FlushEmits DEF Emits, Policy
<1>3. CASE WriterTakes \/ GapRecorded
  <2>1. UNCHANGED <<run, status, admitted>>
    BY <1>3 DEF WriterTakes, GapRecorded
  <2>2. CASE TakeBatch(buf)
    BY <1>p, <1>q, <2>1, <2>2, TakeBatchKeeps
  <2>3. CASE buf' = [buf EXCEPT !.gaps = {}] \/ UNCHANGED buf
    <3>1. buf'.queue = buf.queue
      BY <2>3, BufferHolds DEF Holds, Buffer
    <3>2. QED
      BY <1>p, <1>q, <2>1, <3>1
  <2>4. QED
    BY <1>3, <2>2, <2>3 DEF WriterTakes, GapRecorded
<1>4. CASE Unloaded \/ Crash
  BY <1>4, <1>p, <1>q, <1>e DEF Unloaded, Crash, ForgetMemory
<1>5. CASE CreateSupervisor
  BY <1>5, <1>i, <1>p, <1>q DEF CreateSupervisor, Base, Idle
<1>6. CASE /\ buf'.queue = buf.queue /\ UNCHANGED <<run, admitted>>
           /\ status' = "starting" => status = "starting"
  BY <1>6, <1>p, <1>q
<1>7. CASE Open \/ ArchiveUnavailable \/ Started \/ StartFails
  BY <1>6, <1>7 DEF Open, ArchiveUnavailable, Started, StartFails
<1>8. CASE WriterIdle \/ WriterWakes \/ BatchCommitted \/ WriterFails
  <2>1. [buf EXCEPT !.event = FALSE].queue = buf.queue
    BY BufferHolds DEF Holds, Buffer
  <2>2. QED
    BY <1>6, <1>8, <2>1 DEF WriterIdle, WriterWakes, BatchCommitted, WriterFails
<1>9. CASE StopBegins \/ StopFlushed \/ StopDrained \/ StopTimesOut \/ StopFinishes \/ StopDuringStart
  <2>1. [buf EXCEPT !.event = TRUE].queue = buf.queue
    BY BufferHolds DEF Holds, Buffer
  <2>2. QED
    BY <1>6, <1>9, <2>1 DEF StopBegins, StopFlushed, StopDrained, StopTimesOut,
                            StopFinishes, StopDuringStart
<1>10. CASE Execute \/ RollBack \/ Tick \/ UNCHANGED recordVars
  BY <1>6, <1>10 DEF Execute, RollBack, Tick, recordVars
<1>11. QED
  BY <1>1, <1>2, <1>3, <1>4, <1>5, <1>7, <1>8, <1>9, <1>10
     DEF Next, NormalizationFails, vars, Start, Write, Stop, Archive

-----------------------------------------------------------------------------
(* Nothing is lost while the supervisor works *)

\* Whatever is kept stays kept until it is evident.
LEMMA KeptStays ==
    ASSUME Base, Draining, Policy, Durable, [Next]_vars, Live, Live',
           NEW x \in Observation, Kept(x)
    PROVE  Kept(x)'
<1> USE DEF clockVars, intakeVars, policyVars, writerVars, stopVars, archiveVars, memoryVars
<1>a. Evident(x) => Kept(x)'
  BY ArchiveGrows DEF Evident, Kept
<1>b. Kept(x) <=> \/ Evident(x) \/ InBuffer(buf, x) \/ x \in InFlightRows
                  \/ Noted(writing, x) \/ Noted(InFlightGaps, x)
  BY DEF Kept, InBuffer
<1>c. Kept(x)' <=> \/ Evident(x)' \/ InBuffer(buf', x) \/ x \in InFlightRows'
                   \/ Noted(writing', x) \/ Noted(InFlightGaps', x)
  BY DEF Kept, InBuffer, Noted, Queued, Covers, SameGap
<1>d. CASE /\ InBuffer(buf, x) => InBuffer(buf', x)
           /\ writing' = writing /\ InFlightRows' = InFlightRows /\ InFlightGaps' = InFlightGaps
  BY <1>a, <1>b, <1>c, <1>d
<1>1. CASE Observe
  <2>1. PICK r \in Observation :
              /\ Receives /\ Admit(r)
              /\ r.run = run /\ r.at = now /\ r.ord = ordinal /\ UNCHANGED now
              /\ Emits({r}) \/ Postpones(r) \/ Coalesces(r)
    BY <1>1, ReceivedRecord
  <2>2. UNCHANGED <<writing, writer, op>> /\ ~stopping /\ ~failed
    BY <2>1 DEF Admit, Receives
  <2>3. InBuffer(buf, x) => InBuffer(buf', x)
    BY <2>1, <2>2 DEF Emits, Postpones, Coalesces
  <2>4. QED
    BY <1>d, <2>2, <2>3 DEF InFlightRows, InFlightGaps
<1>2. CASE TimerFires \/ StopFlushes
  <2>1. PICK p \in pending : Flush(p)
    BY <1>2 DEF TimerFires, StopFlushes
  <2>2. UNCHANGED <<writing, writer, op>> /\ ~stopping /\ ~failed
    BY <1>2, <2>1 DEF TimerFires, StopFlushes, Draining, Live
  <2>3. InBuffer(buf, x) => InBuffer(buf', x)
    BY <2>1, <2>2, FlushEmits DEF Emits
  <2>4. QED
    BY <1>d, <2>2, <2>3 DEF InFlightRows, InFlightGaps
<1>3. CASE WriterTakes \/ GapRecorded
  <2>1. InFlightRows = {}
    BY <1>3 DEF WriterTakes, GapRecorded, InFlightRows
  <2>2. Noted(InFlightGaps, x) => Evident(x)
    <3>1. CASE writer = "gap" /\ op.state = "ok"
      <4>1. op.gaps \subseteq gapRows
        BY <3>1 DEF Base, Control, Durable
      <4>2. QED
        BY <3>1, <4>1 DEF InFlightGaps, Noted, Evident
    <3>2. CASE writer = "run"
      BY <3>2 DEF InFlightGaps, Noted
    <3>3. QED
      BY <1>3, <3>1, <3>2 DEF WriterTakes, GapRecorded
  <2>3. CASE TakeBatch(buf)
    <3>1. Noted(writing, x) => Evident(x)
      <4>1. CASE writing = {}
        BY <4>1 DEF Noted
      <4>2. CASE writing # {}
        <5>1. writer = "gap"
          BY <4>2 DEF Base, Control
        <5>2. RecordGap(writing)
          BY <1>3, <4>2, <5>1 DEF WriterTakes, GapRecorded
        <5>3. writer' = "gap"
          BY <5>2 DEF RecordGap
        <5>4. writer' # "gap"
          BY <2>3, TakeBatchType
        <5>5. QED
          BY <5>3, <5>4
      <4>3. QED
        BY <4>1, <4>2
    <3>2. InBuffer(buf, x) => InBuffer(buf', x) \/ x \in InFlightRows'
      BY <2>3, TakeBatchKeeps DEF InBuffer, InFlightRows
    <3>3. QED
      BY <1>a, <1>b, <1>c, <2>1, <2>2, <3>1, <3>2
  <2>4. CASE RecordGap(buf.gaps) /\ buf' = [buf EXCEPT !.gaps = {}] /\ writer = "run"
    <3>1. buf'.queue = buf.queue
      BY <2>4, BufferHolds DEF Holds, Buffer
    <3>2. PICK g \in buf.gaps : /\ op' = Command("gap", {}, {g})
                                /\ writing' = buf.gaps \ {g} /\ writer' = "gap"
      BY <2>4 DEF RecordGap
    <3>3. InFlightGaps' = {g}
      BY <3>2 DEF InFlightGaps, Command
    <3>4. Noted(buf.gaps, x) => Noted(writing', x) \/ Noted(InFlightGaps', x)
      BY <3>2, <3>3 DEF Noted
    <3>5. ~Noted(writing, x)
      BY <2>4 DEF Base, Control, Noted
    <3>6. QED
      BY <1>a, <1>b, <1>c, <2>1, <2>2, <3>1, <3>4, <3>5 DEF InBuffer
  <2>5. CASE RecordGap(writing) /\ UNCHANGED buf
    <3>1. PICK g \in writing : /\ op' = Command("gap", {}, {g})
                               /\ writing' = writing \ {g} /\ writer' = "gap"
      BY <2>5 DEF RecordGap
    <3>2. InFlightGaps' = {g}
      BY <3>1 DEF InFlightGaps, Command
    <3>3. Noted(writing, x) => Noted(writing', x) \/ Noted(InFlightGaps', x)
      BY <3>1, <3>2 DEF Noted
    <3>4. QED
      BY <1>a, <1>b, <1>c, <2>1, <2>2, <2>5, <3>3
  <2>6. QED
    BY <1>3, <2>3, <2>4, <2>5 DEF WriterTakes, GapRecorded
<1>4. CASE BatchCommitted
  <2>1. op.rows \subseteq archived
    BY <1>4 DEF BatchCommitted, Base, Control, Durable
  <2>2. x \in InFlightRows => Evident(x)
    BY <2>1 DEF InFlightRows, Evident
  <2>3. ~Noted(InFlightGaps, x) /\ UNCHANGED <<buf, writing>>
    BY <1>4 DEF BatchCommitted, InFlightGaps, Noted
  <2>4. QED
    BY <1>a, <1>b, <1>c, <2>2, <2>3
<1>5. CASE WriterIdle \/ WriterWakes
  <2>1. [buf EXCEPT !.event = FALSE].queue = buf.queue /\ [buf EXCEPT !.event = FALSE].gaps = buf.gaps
    BY BufferHolds DEF Holds, Buffer
  <2>2. InBuffer(buf, x) => InBuffer(buf', x)
    BY <1>5, <2>1 DEF WriterIdle, WriterWakes, InBuffer
  <2>3. QED
    BY <1>5, <1>d, <2>2 DEF WriterIdle, WriterWakes, InFlightRows, InFlightGaps
<1>6. CASE StopFlushed
  <2>1. [buf EXCEPT !.event = TRUE].queue = buf.queue /\ [buf EXCEPT !.event = TRUE].gaps = buf.gaps
    BY BufferHolds DEF Holds, Buffer
  <2>2. InBuffer(buf, x) => InBuffer(buf', x)
    BY <1>6, <2>1 DEF StopFlushed, InBuffer
  <2>3. QED
    BY <1>6, <1>d, <2>2 DEF StopFlushed, InFlightRows, InFlightGaps
<1>7. CASE StopDrained
  BY <1>7, <1>d DEF StopDrained, InFlightRows, InFlightGaps
<1>8. CASE StopBegins \/ Tick \/ UNCHANGED recordVars
  BY <1>8, <1>d DEF StopBegins, Tick, recordVars, InFlightRows, InFlightGaps
<1>9. CASE Execute \/ RollBack
  <2>1. op'.rows = op.rows /\ op'.gaps = op.gaps
    BY <1>9 DEF Execute, RollBack, Base, TypeOK, Operation
  <2>2. QED
    BY <1>9, <1>d, <2>1 DEF Execute, RollBack, InFlightRows, InFlightGaps
<1>10. CASE Start \/ WriterFails \/ StopTimesOut \/ StopFinishes \/ StopDuringStart \/ Unloaded \/ Crash
  BY <1>10 DEF Start, Open, CreateSupervisor, ArchiveUnavailable, Started, StartFails,
               WriterFails, StopTimesOut, StopFinishes, StopDuringStart, Unloaded, Crash,
               ForgetMemory, Live
<1>11. QED
  BY <1>1, <1>2, <1>3, <1>4, <1>5, <1>6, <1>7, <1>8, <1>9, <1>10
     DEF Next, NormalizationFails, vars, Write, Stop, Archive

\* A pending point leaves only into the buffer, or to a newer point of its stream.
LEMMA PendingLeaves ==
    ASSUME Base, Draining, Policy, [Next]_vars, Live, Live',
           NEW p \in pending, p \notin pending'
    PROVE  \/ Kept(p.obs)'
           \/ \E y \in pending' :
                 /\ y.due = p.due /\ y.obs.run = p.obs.run /\ y.obs.key = p.obs.key
                 /\ y.obs.ord > p.obs.ord
<1> USE DEF clockVars, intakeVars, policyVars, writerVars, stopVars, archiveVars, memoryVars
<1>1. /\ p.obs \in Observation /\ p.obs.run = run /\ p.obs.ord \in Nat
      /\ p.obs.ord < ordinal /\ ordinal \in Nat
  BY PendingType DEF Observation, Policy, Base, TypeOK
<1>2. InBuffer(buf', p.obs) => Kept(p.obs)'
  BY DEF Kept, InBuffer, Noted, Queued, Covers, SameGap
<1>3. CASE Observe
  <2>1. PICK r \in Observation :
              /\ Receives /\ Admit(r)
              /\ r.run = run /\ r.at = now /\ r.ord = ordinal /\ UNCHANGED now
              /\ Emits({r}) \/ Postpones(r) \/ Coalesces(r)
    BY <1>3, ReceivedRecord
  <2>2. CASE Emits({r})
    BY <1>2, <2>1, <2>2 DEF Emits, Receives
  <2>3. CASE Postpones(r)
    BY <2>3 DEF Postpones
  <2>4. CASE Coalesces(r)
    <3>1. PICK y \in pending :
             y.obs.key = r.key /\ pending' = (pending \ {y}) \cup {[y EXCEPT !.obs = r]}
      BY <2>4 DEF Coalesces
    <3>2. y = p
      BY <3>1
    <3>3. [y EXCEPT !.obs = r].obs = r /\ [y EXCEPT !.obs = r].due = y.due
      BY DEF Base, TypeOK
    <3>4. QED
      BY <1>1, <2>1, <3>1, <3>2, <3>3
  <2>5. QED
    BY <2>1, <2>2, <2>3, <2>4
<1>4. CASE TimerFires \/ StopFlushes
  <2>1. PICK y \in pending : Flush(y)
    BY <1>4 DEF TimerFires, StopFlushes
  <2>2. ~stopping /\ ~failed
    BY <2>1 DEF Draining, Live
  <2>3. QED
    BY <1>2, <2>1, <2>2, FlushEmits DEF Emits
<1>5. CASE UNCHANGED pending
  BY <1>5
<1>6. CASE Write \/ StopBegins \/ StopFlushed \/ StopDrained \/ StopTimesOut \/ StopFinishes
             \/ StopDuringStart \/ Archive \/ Tick \/ Start \/ UNCHANGED recordVars
  BY <1>5, <1>6 DEF Write, WriterIdle, WriterWakes, WriterTakes, GapRecorded, BatchCommitted,
       WriterFails, StopBegins, StopFlushed, StopDrained, StopTimesOut, StopFinishes,
       StopDuringStart, Archive, Execute, RollBack, Tick, Start, Open, CreateSupervisor,
       ArchiveUnavailable, Started, StartFails, recordVars
<1>7. CASE Unloaded \/ Crash
  BY <1>7 DEF Unloaded, Crash, ForgetMemory, Live
<1>8. QED
  BY <1>3, <1>4, <1>6, <1>7 DEF Next, NormalizationFails, vars, Stop

\* A point that is emitted in the place of r replaces r.
LEMMA StandInReplaces ==
    ASSUME Base, Policy, NEW p \in pending, NEW r \in Observation,
           StandsFor(p, r), p.obs # r
    PROVE  Replaces(p.obs, r)
<1>1. /\ p.obs.at \in Nat /\ p.due \in Nat /\ r.at \in Nat /\ now \in Nat
      /\ Interval \in Nat /\ MaxTimerDelay \in Nat
  BY PendingType, TimesFacts, LocalCaptureAssumption DEF Base, TypeOK, Observation
<1>2. /\ p.obs.class = "regular" /\ p.obs.at <= now /\ now <= p.due + MaxTimerDelay
  BY DEF Policy
<1>3. p.due <= r.at + Interval
  BY DEF StandsFor
<1>4. p.obs.at <= r.at + Interval + MaxTimerDelay
  BY <1>1, <1>2, <1>3
<1>5. QED
  BY <1>2, <1>4 DEF StandsFor, Replaces

\* What was accounted for stays accounted for.
LEMMA AccountedStays ==
    ASSUME Base, Draining, Policy, Durable, [Next]_vars, Live, Live',
           admitted \subseteq admitted',
           NEW r \in admitted, Accounted(r)
    PROVE  Accounted(r)'
<1>1. admitted \subseteq Observation /\ r \in Observation
  BY DEF Base, TypeOK
<1>2. CASE Kept(r)
  BY <1>1, <1>2, KeptStays DEF Accounted
<1>3. CASE \E n \in admitted : Replaces(n, r) /\ Kept(n)
  <2>1. PICK n \in admitted : Replaces(n, r) /\ Kept(n)
    BY <1>3
  <2>2. Kept(n)'
    BY <1>1, <2>1, KeptStays
  <2>3. Replaces(n, r)'
    BY <2>1 DEF Replaces
  <2>4. QED
    BY <2>2, <2>3 DEF Accounted
<1>4. CASE \E p \in pending : StandsFor(p, r)
  <2>1. PICK p \in pending : StandsFor(p, r)
    BY <1>4
  <2>2. CASE p \in pending'
    BY <2>1, <2>2 DEF Accounted, StandsFor
  <2>3. CASE p \notin pending' /\ Kept(p.obs)'
    <3>1. CASE p.obs = r
      BY <2>3, <3>1 DEF Accounted
    <3>2. CASE p.obs # r
      <4>1. Replaces(p.obs, r)
        BY <1>1, <2>1, <3>2, StandInReplaces
      <4>2. Replaces(p.obs, r)'
        BY <4>1 DEF Replaces
      <4>3. p.obs \in admitted'
        BY DEF Policy
      <4>4. QED
        BY <2>3, <4>2, <4>3 DEF Accounted
    <3>3. QED
      BY <3>1, <3>2
  <2>4. CASE \E y \in pending' :
                /\ y.due = p.due /\ y.obs.run = p.obs.run /\ y.obs.key = p.obs.key
                /\ y.obs.ord > p.obs.ord
    <3>1. PICK y \in pending' :
                /\ y.due = p.due /\ y.obs.run = p.obs.run /\ y.obs.key = p.obs.key
                /\ y.obs.ord > p.obs.ord
      BY <2>4
    <3>2. p.obs.class = "regular" /\ p.due <= p.obs.at + Interval
      BY DEF Policy
    <3>3. y.obs.ord > r.ord
      <4>1. p.obs.ord \in Nat /\ r.ord \in Nat
        BY <1>1, PendingType DEF Observation
      <4>2. y \in [obs : Observation, due : Nat]
        BY BaseNext DEF Base, TypeOK
      <4>3. y.obs.ord \in Nat
        BY <4>2 DEF Observation
      <4>4. QED
        BY <2>1, <3>1, <4>1, <4>3 DEF StandsFor
    <3>4. StandsFor(y, r)'
      BY <2>1, <3>1, <3>2, <3>3 DEF StandsFor
    <3>5. QED
      BY <3>4 DEF Accounted
  <2>5. QED
    BY <2>2, <2>3, <2>4, PendingLeaves
<1>5. QED
  BY <1>2, <1>3, <1>4 DEF Accounted

LEMMA AdmittedGrows ==
    ASSUME [Next]_vars
    PROVE  admitted \subseteq admitted' /\ (admitted' = admitted \/ Observe)
<1> USE DEF clockVars, intakeVars, policyVars, writerVars, stopVars, archiveVars, memoryVars
<1>1. CASE Observe
  BY <1>1 DEF Observe, ObserveTransition, ObserveRegular, ObservePrediction, Admit
<1>2. CASE Start \/ TimerFires \/ Write \/ Archive \/ Tick \/ Crash \/ UNCHANGED recordVars
  BY <1>2 DEF Start, Open, CreateSupervisor, ArchiveUnavailable, Started, StartFails,
              TimerFires, Write, WriterIdle, WriterWakes, WriterTakes, GapRecorded,
              BatchCommitted, WriterFails, Archive, Execute, RollBack, Tick, Crash,
              ForgetMemory, recordVars
<1>3. CASE Stop
  BY <1>3 DEF Stop, StopBegins, StopFlushes, StopFlushed, StopDrained, StopTimesOut,
              StopFinishes, StopDuringStart, Unloaded, ForgetMemory
<1>4. QED
  BY <1>1, <1>2, <1>3 DEF Next, NormalizationFails, vars

\* A supervisor starts to work with nothing received.
LEMMA LiveBegins ==
    ASSUME Base, Draining, Succession, [Next]_vars, ~Live, Live'
    PROVE  run' = run /\ \A r \in admitted' : r.run # run
<1> USE DEF clockVars, intakeVars, policyVars, writerVars, stopVars, archiveVars, memoryVars
<1>1. CASE Started
  BY <1>1 DEF Started, Succession
<1>2. CASE UNCHANGED <<status, failed>>
  BY <1>2 DEF Live
<1>3. CASE Open \/ CreateSupervisor \/ ArchiveUnavailable \/ StartFails
  BY <1>3 DEF Open, CreateSupervisor, ArchiveUnavailable, StartFails, Live
<1>4. CASE Observe \/ TimerFires \/ Archive \/ Tick \/ UNCHANGED recordVars
  BY <1>2, <1>4 DEF Observe, ObserveTransition, ObserveRegular, ObservePrediction, Admit,
                    TimerFires, Archive, Execute, RollBack, Tick, recordVars
<1>5. CASE Write
  BY <1>2, <1>5 DEF Write, WriterIdle, WriterWakes, WriterTakes, GapRecorded, BatchCommitted,
                    WriterFails, Live
<1>6. CASE StopBegins
  BY <1>6 DEF StopBegins, Live, Draining
<1>7. CASE Unloaded \/ Crash
  BY <1>7 DEF Unloaded, Crash, ForgetMemory, Live
<1>8. CASE StopFlushes \/ StopFlushed \/ StopDrained \/ StopTimesOut \/ StopFinishes \/ StopDuringStart
  BY <1>2, <1>8 DEF StopFlushes, StopFlushed, StopDrained, StopTimesOut, StopFinishes,
                    StopDuringStart, Live
<1>9. QED
  BY <1>1, <1>3, <1>4, <1>5, <1>6, <1>7, <1>8 DEF Next, NormalizationFails, vars, Start, Stop

LEMMA RunKept ==
    ASSUME [Next]_vars, ~CreateSupervisor
    PROVE  run' = run
<1> USE DEF clockVars, intakeVars, policyVars, writerVars, stopVars, archiveVars, memoryVars
<1>1. CASE Start
  BY <1>1 DEF Start, Open, ArchiveUnavailable, Started, StartFails
<1>2. CASE Observe \/ TimerFires \/ Archive \/ Tick \/ Crash \/ UNCHANGED recordVars
  BY <1>2 DEF Observe, ObserveTransition, ObserveRegular, ObservePrediction, Admit,
              TimerFires, Archive, Execute, RollBack, Tick, Crash, ForgetMemory, recordVars
<1>3. CASE Write \/ Stop
  BY <1>3 DEF Write, WriterIdle, WriterWakes, WriterTakes, GapRecorded, BatchCommitted,
              WriterFails, Stop, StopBegins, StopFlushes, StopFlushed, StopDrained,
              StopTimesOut, StopFinishes, StopDuringStart, Unloaded, ForgetMemory
<1>4. QED
  BY <1>1, <1>2, <1>3 DEF Next, NormalizationFails, vars

LEMMA NothingLostNext ==
    ASSUME Base, Draining, Succession, Policy, Durable, NothingLost, [Next]_vars
    PROVE  NothingLost'
<1>1. SUFFICES ASSUME Live', NEW r \in admitted', r.run = run'
               PROVE  Accounted(r)'
  BY DEF NothingLost
<1>2. CASE ~Live
  BY <1>1, <1>2, LiveBegins
<1>3. CASE Live /\ r \in admitted
  <2>1. run' = run
    <3>1. ~CreateSupervisor
      BY <1>3 DEF CreateSupervisor, Live
    <3>2. QED
      BY <3>1, RunKept
  <2>2. Accounted(r)
    BY <1>1, <1>3, <2>1 DEF NothingLost
  <2>3. QED
    BY <1>1, <1>3, <2>2, AccountedStays, AdmittedGrows
<1>4. CASE Live /\ r \notin admitted
  <2>1. Observe
    BY <1>4, AdmittedGrows
  <2>2. PICK n \in Observation :
              /\ Receives /\ Admit(n)
              /\ n.run = run /\ n.at = now /\ n.ord = ordinal /\ UNCHANGED now
              /\ Emits({n}) \/ Postpones(n) \/ Coalesces(n)
    BY <2>1, ReceivedRecord
  <2>3. r = n
    BY <1>4, <2>2 DEF Admit
  <2>4. CASE Emits({n})
    <3>1. InBuffer(buf', n)
      BY <2>2, <2>4 DEF Emits, Receives
    <3>2. Kept(n)'
      BY <3>1 DEF Kept, InBuffer, Noted, Queued, Covers, SameGap
    <3>3. QED
      BY <2>3, <3>2 DEF Accounted
  <2>5. CASE Postpones(n) \/ Coalesces(n)
    <3>1. \E p \in pending' : p.obs = n
      <4>1. CASE Postpones(n)
        <5>1. PICK due \in Nat : pending' = pending \cup {[obs |-> n, due |-> due]}
          BY <4>1 DEF Postpones
        <5>2. [obs |-> n, due |-> due].obs = n
          OBVIOUS
        <5>3. QED
          BY <5>1, <5>2
      <4>2. CASE Coalesces(n)
        <5>1. PICK y \in pending : pending' = (pending \ {y}) \cup {[y EXCEPT !.obs = n]}
          BY <4>2 DEF Coalesces
        <5>2. [y EXCEPT !.obs = n].obs = n
          BY DEF Base, TypeOK
        <5>3. QED
          BY <5>1, <5>2
      <4>3. QED
        BY <2>5, <4>1, <4>2
    <3>2. QED
      BY <2>3, <3>1 DEF Accounted, StandsFor
  <2>6. QED
    BY <2>2, <2>4, <2>5
<1>5. QED
  BY <1>2, <1>3, <1>4

-----------------------------------------------------------------------------
(* The promise of a clean run *)

\* Only the final write of a drained supervisor makes a run clean.
LEMMA CleanKept ==
    ASSUME Base, [Next]_vars, ~(Execute /\ FinishEffect),
           NEW t \in Runs, runStatus'[t] = "clean"
    PROVE  runStatus[t] = "clean"
<1> USE DEF clockVars, intakeVars, policyVars, writerVars, stopVars, archiveVars, memoryVars
<1>1. CASE Execute
  BY <1>1 DEF Execute, RecoverEffect, BeginEffect, GapEffect, CommitEffect, Base, TypeOK
<1>2. CASE UNCHANGED runStatus
  BY <1>2
<1>3. CASE Start \/ Observe \/ TimerFires \/ RollBack \/ Tick \/ Crash \/ UNCHANGED recordVars
  BY <1>2, <1>3 DEF Start, Open, CreateSupervisor, ArchiveUnavailable, Started, StartFails,
              Observe, ObserveTransition, ObserveRegular, ObservePrediction, Admit,
              TimerFires, RollBack, Tick, Crash, ForgetMemory, recordVars
<1>4. CASE Write \/ Stop
  BY <1>2, <1>4 DEF Write, WriterIdle, WriterWakes, WriterTakes, GapRecorded, BatchCommitted,
              WriterFails, Stop, StopBegins, StopFlushes, StopFlushed, StopDrained,
              StopTimesOut, StopFinishes, StopDuringStart, Unloaded, ForgetMemory
<1>5. QED
  BY <1>1, <1>3, <1>4 DEF Next, NormalizationFails, vars, Archive

\* When the run is finished, what is kept is evident.
LEMMA DrainedIsEvident ==
    ASSUME Base, Draining, stopPc = "finish", NEW x, Kept(x)
    PROVE  Evident(x)
<1>1. /\ writer = "done" /\ ~failed /\ buf.queue = <<>> /\ buf.gaps = {}
      /\ writing = {}
  BY DEF Draining, Live, Base, Control
<1>2. DOMAIN buf.queue = {}
  BY <1>1
<1>3. QED
  BY <1>1, <1>2 DEF Kept, Queued, Noted, InFlightRows, InFlightGaps

LEMMA CleanNext ==
    ASSUME Base, Draining, Succession, Policy, NothingLost, CleanRunAccounted, [Next]_vars
    PROVE  CleanRunAccounted'
<1>1. ASSUME NEW x, Evident(x)
      PROVE  Evident(x)'
  BY <1>1, ArchiveGrows DEF Evident
<1>2. SUFFICES ASSUME NEW r \in admitted', runStatus'[r.run] = "clean"
               PROVE  Evident(r)' \/ \E n \in admitted' : Replaces(n, r) /\ Evident(n)'
  BY DEF CleanRunAccounted, Replaces
<1>3. r.run \in Runs
  BY BaseNext DEF Base, TypeOK, Observation
<1>4. CASE r \in admitted /\ runStatus[r.run] = "clean"
  BY <1>1, <1>4, AdmittedGrows DEF CleanRunAccounted
<1>5. CASE r \notin admitted
  <2>1. Observe
    BY <1>5, AdmittedGrows
  <2>2. r.run = run /\ runStatus[run] = "running" /\ UNCHANGED runStatus
    <3>1. PICK n \in Observation : Receives /\ Admit(n) /\ n.run = run
      BY <2>1, ReceivedRecord
    <3>2. QED
      BY <1>5, <3>1 DEF Admit, Receives, Draining, archiveVars
  <2>3. QED
    BY <1>2, <2>2
<1>6. CASE r \in admitted /\ runStatus[r.run] # "clean"
  <2>1. Execute /\ FinishEffect
    BY <1>2, <1>3, <1>6, CleanKept
  <2>2. r.run = run /\ stopPc = "finish" /\ Live
    BY <1>2, <1>3, <1>6, <2>1 DEF Execute, FinishEffect, Draining, Base, TypeOK
  <2>3. pending = {}
    BY <2>2 DEF Draining
  <2>4. Accounted(r)
    BY <1>6, <2>2 DEF NothingLost
  <2>5. Evident(r) \/ \E n \in admitted : Replaces(n, r) /\ Evident(n)
    BY <2>2, <2>3, <2>4, DrainedIsEvident DEF Accounted
  <2>6. QED
    BY <1>1, <2>5, AdmittedGrows
<1>7. QED
  BY <1>4, <1>5, <1>6

LEMMA CaptureInit == Init => CaptureInv
<1>1. Init => NothingLost /\ CleanRunAccounted
  BY DEF Init, NothingLost, CleanRunAccounted, Live
<1>2. QED
  BY <1>1, BaseInit, DrainingInit, SuccessionInit DEF CaptureInv

LEMMA CaptureNext ==
    ASSUME CaptureInv, [Next]_vars
    PROVE  CaptureInv'
BY BaseNext, DrainingNext, SuccessionNext, PolicyNext, DurableNext, NothingLostNext, CleanNext
   DEF CaptureInv

\* A run that the archive calls clean has no silent loss of a record, whatever the
\* sizes of queue and batch, the interval, and the crashes and failures before it:
\* what async_stop flushes and drains is all that became a record (an observation
\* that cannot be normalized never does, and is counted in memory only).
THEOREM CleanRunsAreAccounted == Spec => []CleanRunAccounted
<1>1. Spec => []CaptureInv
  BY CaptureInit, CaptureNext, PTL DEF Spec
<1>2. CaptureInv => CleanRunAccounted
  BY DEF CaptureInv
<1>3. QED
  BY <1>1, <1>2, PTL

-----------------------------------------------------------------------------
(* What gives way in a full queue *)

\* The queue consists of transitions and predictions, and its head makes room for r.
HeadGivesWay(b, r) ==
    /\ Enqueue(b, r) = Displace(b, 1, r)
    /\ Regulars(b.queue) = {} /\ Len(b.queue) = MaxQueueItems
    /\ r.class # "regular" /\ ~stopping /\ ~failed

\* A transition or prediction leaves the queue by an emission only at its head,
\* and only when nothing regular is queued or emitted.
LEMMA EnqueueSpares ==
    ASSUME NEW t, NEW b, Holds(b, t), NEW r \in Observation,
           NEW x, Queued(b.queue, x), x.class # "regular"
    PROVE  \/ Queued(Enqueue(b, r).queue, x)
           \/ HeadGivesWay(b, r) /\ x = b.queue[1]
<1> DEFINE q == b.queue
<1>1. /\ q \in Seq(Observation) /\ Len(q) \in Nat /\ DOMAIN q = 1..Len(q)
      /\ Len(q) <= MaxQueueItems /\ b \in Buffer
  BY LenProperties DEF Holds, Buffer
<1>2. PICK k \in 1..Len(q) : q[k] = x
  BY <1>1 DEF Queued
<1>3. ASSUME NEW i \in 1..Len(q), i # k
      PROVE  Queued(Displace(b, i, r).queue, x)
  <2> DEFINE d == Displace(b, i, r).queue
  <2>1. /\ DOMAIN d = 1..Len(q)
        /\ \A j \in 1..(Len(q) - 1) : d[j] = IF j < i THEN q[j] ELSE q[j + 1]
    BY <1>1, DisplaceQueue
  <2> HIDE DEF d, q
  <2>2. CASE k < i
    BY <1>1, <1>2, <2>1, <2>2 DEF Queued, d
  <2>3. CASE k > i
    <3>1. k - 1 \in 1..(Len(q) - 1) /\ ~(k - 1 < i) /\ (k - 1) + 1 = k
      BY <1>1, <2>3
    <3>2. d[k - 1] = x /\ k - 1 \in DOMAIN d
      BY <1>1, <1>2, <2>1, <3>1
    <3>3. QED
      BY <3>2 DEF Queued, d
  <2>4. QED
    BY <1>1, <1>3, <2>2, <2>3
<1>4. CASE stopping \/ failed
  BY <1>4, EnqueueRefused
<1>5. CASE ~stopping /\ ~failed /\ Len(q) < MaxQueueItems
  <2>1. Enqueue(b, r).queue = Append(q, r)
    BY <1>1, <1>5 DEF Enqueue, Accept, Buffer
  <2>2. /\ Append(q, r) \in Seq(Observation) /\ Len(Append(q, r)) = Len(q) + 1
        /\ \A j \in 1..Len(q) : Append(q, r)[j] = q[j]
    BY <1>1, AppendProperties
  <2>3. DOMAIN Append(q, r) = 1..(Len(q) + 1)
    BY <2>2, LenProperties
  <2>4. k \in DOMAIN Append(q, r) /\ Append(q, r)[k] = x
    BY <1>1, <1>2, <2>2, <2>3
  <2>5. QED
    BY <2>1, <2>4 DEF Queued
<1>6. CASE /\ ~stopping /\ ~failed /\ ~(Len(q) < MaxQueueItems)
           /\ Regulars(q) # {}
  <2> DEFINE i == Min(Regulars(q))
  <2>1. Regulars(q) \in SUBSET Nat
    BY <1>1 DEF Regulars
  <2>2. i \in Regulars(q)
    BY <1>6, <2>1, MinIsMember
  <2>3. i \in 1..Len(q) /\ i # k
    BY <1>1, <1>2, <2>2 DEF Regulars
  <2>4. Enqueue(b, r) = Displace(b, i, r)
    BY <1>6 DEF Enqueue, Overflow
  <2> HIDE DEF i
  <2>5. QED
    BY <1>3, <2>3, <2>4
<1>7. CASE /\ ~stopping /\ ~failed /\ ~(Len(q) < MaxQueueItems)
           /\ Regulars(q) = {} /\ r.class = "regular"
  <2>1. Enqueue(b, r) = [b EXCEPT !.gaps = NoteDrop(@, r), !.dropped = @ \cup {r}]
    BY <1>7 DEF Enqueue, Overflow
  <2>2. Enqueue(b, r).queue = q
    BY <1>1, <2>1 DEF Buffer
  <2>3. QED
    BY <2>2
<1>8. CASE /\ ~stopping /\ ~failed /\ ~(Len(q) < MaxQueueItems)
           /\ Regulars(q) = {} /\ r.class # "regular"
  <2>1. HeadGivesWay(b, r) /\ Enqueue(b, r) = Displace(b, 1, r)
    BY <1>1, <1>8, LocalCaptureAssumption DEF HeadGivesWay, Enqueue, Overflow
  <2>2. 1 \in 1..Len(q)
    BY <1>1, <1>2
  <2>3. QED
    BY <1>2, <1>3, <2>1, <2>2
<1>9. QED
  BY <1>4, <1>5, <1>6, <1>7, <1>8

\* Where something regular is queued, an emission leaves the new record queued.
LEMMA EnqueueAdds ==
    ASSUME NEW t, NEW b, Holds(b, t), NEW r \in Observation, ~stopping, ~failed,
           r.class # "regular" \/ Regulars(b.queue) # {}
    PROVE  Queued(Enqueue(b, r).queue, r)
<1> DEFINE q == b.queue
<1>1. /\ q \in Seq(Observation) /\ Len(q) \in Nat /\ DOMAIN q = 1..Len(q)
      /\ Len(q) <= MaxQueueItems /\ b \in Buffer
  BY LenProperties DEF Holds, Buffer
<1>2. ASSUME NEW i \in 1..Len(q)
      PROVE  Queued(Displace(b, i, r).queue, r)
  <2>1. Len(q) \in DOMAIN Displace(b, i, r).queue /\ Displace(b, i, r).queue[Len(q)] = r
    BY <1>1, DisplaceQueue
  <2>2. QED
    BY <2>1 DEF Queued
<1>3. CASE Len(q) < MaxQueueItems
  <2>1. Enqueue(b, r).queue = Append(q, r)
    BY <1>1, <1>3 DEF Enqueue, Accept, Buffer
  <2>2. /\ Append(q, r) \in Seq(Observation) /\ Len(Append(q, r)) = Len(q) + 1
        /\ Append(q, r)[Len(q) + 1] = r
    BY <1>1, AppendProperties
  <2>3. DOMAIN Append(q, r) = 1..(Len(q) + 1)
    BY <2>2, LenProperties
  <2>4. Len(q) + 1 \in DOMAIN Append(q, r)
    BY <1>1, <2>3
  <2>5. QED
    BY <2>1, <2>2, <2>4 DEF Queued
<1>4. CASE ~(Len(q) < MaxQueueItems) /\ Regulars(q) # {}
  <2> DEFINE i == Min(Regulars(q))
  <2>1. Regulars(q) \in SUBSET Nat
    BY <1>1 DEF Regulars
  <2>2. i \in Regulars(q)
    BY <1>4, <2>1, MinIsMember
  <2>3. i \in 1..Len(q)
    BY <1>1, <2>2 DEF Regulars
  <2>4. Enqueue(b, r) = Displace(b, i, r)
    BY <1>4 DEF Enqueue, Overflow
  <2> HIDE DEF i
  <2>5. QED
    BY <1>2, <2>3, <2>4
<1>5. CASE ~(Len(q) < MaxQueueItems) /\ Regulars(q) = {}
  <2>1. Enqueue(b, r) = Displace(b, 1, r) /\ 1 \in 1..Len(q)
    BY <1>1, <1>5, LocalCaptureAssumption DEF Enqueue, Overflow
  <2>2. QED
    BY <1>2, <2>1
<1>6. QED
  BY <1>3, <1>4, <1>5

\* The three ways a received record meets the buffer.
LEMMA ReceivedInto ==
    ASSUME Base, Observe
    PROVE  \E r \in Observation :
              /\ Receives /\ Admit(r)
              /\ r.run = run /\ r.at = now /\ r.ord = ordinal /\ UNCHANGED now
              /\ \/ buf' = buf /\ r.class = "regular"
                 \/ buf' = Enqueue(buf, r)
                 \/ \E p \in pending : buf' = Enqueue(Enqueue(buf, p.obs), r)
<1>1. ASSUME NEW k \in Keys, NEW c \in Classes, Receives, Admit(NewRecord(k, c)),
             \/ buf' = buf /\ c = "regular"
             \/ buf' = Enqueue(buf, NewRecord(k, c))
             \/ \E p \in pending : buf' = Enqueue(Enqueue(buf, p.obs), NewRecord(k, c))
      PROVE  \E r \in Observation :
                /\ Receives /\ Admit(r)
                /\ r.run = run /\ r.at = now /\ r.ord = ordinal /\ UNCHANGED now
                /\ \/ buf' = buf /\ r.class = "regular"
                   \/ buf' = Enqueue(buf, r)
                   \/ \E p \in pending : buf' = Enqueue(Enqueue(buf, p.obs), r)
  <2> DEFINE r == NewRecord(k, c)
  <2>1. run \in Runs
    BY <1>1 DEF Receives, Base, Control
  <2>2. r \in Observation /\ r.run = run /\ r.at = now /\ r.ord = ordinal /\ r.class = c
    BY <2>1, RecordType DEF Base, NewRecord
  <2>3. UNCHANGED now
    BY <1>1 DEF Admit, clockVars
  <2> HIDE DEF r
  <2>4. QED
    BY <1>1, <2>2, <2>3 DEF r
<1>2. Streams \subseteq Keys /\ \A s \in Sources : <<s, "prediction">> \in Keys
  BY DEF Streams, Keys
<1>3. CASE \E k \in Streams : ObserveTransition(k)
  BY <1>1, <1>2, <1>3 DEF ObserveTransition, EmitAfterPending, PendingOf, Classes
<1>4. CASE \E k \in Streams : ObserveRegular(k)
  BY <1>1, <1>2, <1>4 DEF ObserveRegular, Classes
<1>5. CASE \E s \in Sources : ObservePrediction(s)
  BY <1>1, <1>2, <1>5 DEF ObservePrediction, Classes
<1>6. QED
  BY <1>3, <1>4, <1>5 DEF Observe

\* A pending point makes no transition or prediction give way, and what is
\* regular in the queue gives way to one that is.
LEMMA PendingSpares ==
    ASSUME Base, Policy, NEW p \in pending, ~stopping, ~failed
    PROVE  LET b == Enqueue(buf, p.obs)
           IN  /\ Holds(b, run)
               /\ \A x : Queued(buf.queue, x) /\ x.class # "regular" => Queued(b.queue, x)
               /\ Regulars(buf.queue) # {} => Regulars(b.queue) # {}
<1>1. p.obs \in Observation /\ p.obs.run = run /\ p.obs.class = "regular"
  BY PendingType DEF Policy
<1>2. Holds(buf, run) /\ Holds(Enqueue(buf, p.obs), run)
  BY <1>1, BufferHolds, EnqueueHolds
<1>3. \A x : Queued(buf.queue, x) /\ x.class # "regular" => Queued(Enqueue(buf, p.obs).queue, x)
  BY <1>1, <1>2, EnqueueSpares DEF HeadGivesWay
<1>4. ASSUME Regulars(buf.queue) # {}
      PROVE  Regulars(Enqueue(buf, p.obs).queue) # {}
  <2>1. Queued(Enqueue(buf, p.obs).queue, p.obs)
    BY <1>1, <1>2, <1>4, EnqueueAdds
  <2>2. QED
    BY <1>1, <2>1 DEF Queued, Regulars
<1>5. QED
  BY <1>2, <1>3, <1>4

\* Transitions and predictions stay queued, or are written, as long as something
\* regular is queued.
LEMMA TransitionsSpared ==
    ASSUME Base, Policy, [Next]_vars, Regulars(buf.queue) # {}, status' # "down",
           NEW x, Queued(buf.queue, x), x.class # "regular"
    PROVE  Queued(buf'.queue, x) \/ x \in op'.rows
<1> USE DEF clockVars, intakeVars, policyVars, writerVars, stopVars, archiveVars, memoryVars
<1>1. CASE Observe
  <2>1. PICK r \in Observation :
              /\ Receives /\ r.run = run
              /\ \/ buf' = buf /\ r.class = "regular"
                 \/ buf' = Enqueue(buf, r)
                 \/ \E p \in pending : buf' = Enqueue(Enqueue(buf, p.obs), r)
    BY <1>1, ReceivedInto
  <2>2. CASE buf' = buf
    BY <2>2
  <2>3. CASE buf' = Enqueue(buf, r)
    BY <2>3, BufferHolds, EnqueueSpares DEF HeadGivesWay
  <2>4. CASE \E p \in pending : buf' = Enqueue(Enqueue(buf, p.obs), r)
    <3>1. PICK p \in pending : buf' = Enqueue(Enqueue(buf, p.obs), r)
      BY <2>4
    <3> DEFINE b == Enqueue(buf, p.obs)
    <3>2. Holds(b, run) /\ Queued(b.queue, x) /\ Regulars(b.queue) # {}
      BY <2>1, PendingSpares DEF Receives
    <3> HIDE DEF b
    <3>3. buf' = Enqueue(b, r)
      BY <3>1 DEF b
    <3>4. QED
      BY <3>2, <3>3, EnqueueSpares DEF HeadGivesWay
  <2>5. QED
    BY <2>1, <2>2, <2>3, <2>4
<1>2. CASE TimerFires \/ StopFlushes
  <2>1. PICK p \in pending : buf' = Enqueue(buf, p.obs)
    BY <1>2 DEF TimerFires, StopFlushes, Flush
  <2>2. QED
    BY <2>1, PendingType, BufferHolds, EnqueueSpares DEF HeadGivesWay
<1>3. CASE WriterTakes \/ GapRecorded
  <2>1. CASE TakeBatch(buf)
    BY <2>1, TakeBatchKeeps DEF InFlightRows
  <2>2. CASE buf'.queue = buf.queue
    BY <2>2
  <2>3. QED
    BY <1>3, <2>1, <2>2 DEF WriterTakes, GapRecorded, Base, TypeOK, Buffer
<1>4. CASE buf'.queue = buf.queue
  BY <1>4
<1>5. CASE Start \/ Archive \/ Tick \/ UNCHANGED recordVars
  BY <1>4, <1>5 DEF Start, Open, CreateSupervisor, ArchiveUnavailable, Started, StartFails,
              Archive, Execute, RollBack, Tick, recordVars
<1>6. CASE WriterIdle \/ WriterWakes \/ BatchCommitted \/ WriterFails
  BY <1>4, <1>6 DEF WriterIdle, WriterWakes, BatchCommitted, WriterFails, Base, TypeOK, Buffer
<1>7. CASE StopBegins \/ StopFlushed \/ StopDrained \/ StopTimesOut \/ StopFinishes
             \/ StopDuringStart
  BY <1>4, <1>7 DEF StopBegins, StopFlushed, StopDrained, StopTimesOut, StopFinishes,
              StopDuringStart, Base, TypeOK, Buffer
<1>8. CASE Unloaded \/ Crash
  BY <1>8 DEF Unloaded, Crash, ForgetMemory
<1>9. QED
  BY <1>1, <1>2, <1>3, <1>5, <1>6, <1>7, <1>8 DEF Next, NormalizationFails, vars, Write, Stop

\* The bounded queue gives up transitions and predictions last: as long as it holds
\* something regular, every transition and prediction in it stays or is handed to
\* the archive (_enqueue of local_capture.py, for every limit of the queue).
THEOREM OverflowSpares == Spec => OverflowSparesTransitions
<1>1. Spec => []CaptureInv
  BY CaptureInit, CaptureNext, PTL DEF Spec
<1> DEFINE Step == \A i \in DOMAIN buf.queue :
          (/\ buf.queue[i].class # "regular"
           /\ \A j \in DOMAIN buf'.queue : buf'.queue[j] # buf.queue[i]
           /\ buf.queue[i] \notin op'.rows
           /\ status' # "down")
          => Regulars(buf.queue) = {}
<1>2. CaptureInv /\ [Next]_vars => Step
  BY TransitionsSpared DEF CaptureInv, Queued
<1> HIDE DEF Step
<1>3. CaptureInv /\ [Next]_vars => [Step]_vars
  BY <1>2
<1>4. Spec => [][Step]_vars
  BY <1>1, <1>3, PTL DEF Spec
<1>5. QED
  BY <1>4 DEF OverflowSparesTransitions, Step

=============================================================================
