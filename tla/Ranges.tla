------------------------------- MODULE Ranges -------------------------------
(***************************************************************************)
(* Sequence-number arithmetic of the cloud archive: the union of advertised *)
(* ranges (cloud/models.py), the coverage table, the gaps in it and the     *)
(* request chunks (storage/repository.py, cloud/sessions.py).  The program  *)
(* never expands a range into its numbers; the properties compare what it   *)
(* computes on interval ends with plain sets of numbers.                    *)
(*                                                                          *)
(* An interval is a pair <<first, last>>, both inclusive.  The coverage     *)
(* table and the advertised ranges are sets of intervals, which the program *)
(* reads in order; its results are sequences.                               *)
(***************************************************************************)
EXTENDS Integers, SequencesExt

CONSTANTS
    MaxSeq,      \* bound: last sequence number
    MaxRanges,   \* bound: ranges one manifest advertises
    ChunkSize    \* CHUNK_SIZE

ASSUME RangesAssumption ==
    MaxSeq \in Nat /\ MaxRanges \in Nat /\ ChunkSize \in Nat \ {0}

VARIABLES
    advertised,  \* sequence_number_ranges of the manifest, as received
    present,     \* sequences of cloud_samples of the session
    coverage,    \* its coverage_ranges
    request      \* the work range committed last

vars == <<advertised, present, coverage, request>>

Seqs      == 0..MaxSeq
Intervals == {i \in Seqs \X Seqs : i[1] <= i[2]}
Numbers(intervals) == UNION {i[1]..i[2] : i \in intervals}

Smaller(a, b) == IF a < b THEN a ELSE b
Larger(a, b)  == IF a > b THEN a ELSE b

\* the elements of S in order: at place i the one that i - 1 others precede
InOrderOf(S, Before(_, _)) ==
    [i \in 1..Cardinality(S) |->
        CHOOSE x \in S : Cardinality({y \in S : Before(y, x)}) = i - 1]

\* rows in the order of "ORDER BY start_seq" (and Python's order of pairs)
Precedes(a, b)     == a[1] < b[1] \/ (a[1] = b[1] /\ a[2] < b[2])
InOrder(intervals) == InOrderOf(intervals, Precedes)
Ordered(numbers)   == InOrderOf(numbers, <)

-----------------------------------------------------------------------------
\* one range joins the last of the union if it overlaps or touches it
Absorb(merged, r) ==
    IF merged # <<>> /\ r[1] <= Last(merged)[2] + 1
    THEN Append(Front(merged), <<Last(merged)[1], Larger(r[2], Last(merged)[2])>>)
    ELSE Append(merged, r)

NormalizeRanges(ranges) == FoldLeft(Absorb, <<>>, InOrder(ranges))

\* maximal runs of consecutive numbers
Extend(out, n) ==
    IF out # <<>> /\ n = Last(out)[2] + 1
    THEN Append(Front(out), <<Last(out)[1], n>>)
    ELSE Append(out, <<n, n>>)

Contiguous(numbers) == FoldLeft(Extend, <<>>, Ordered(numbers))

\* faulty variant: rows that merely touch the new interval stay apart
MergeOverlapping(table, new) ==
    LET rows == {r \in table : r[2] >= new[1] /\ r[1] <= new[2]}
    IN  (table \ rows) \cup
            {<<Min({new[1]} \cup {r[1] : r \in rows}),
               Max({new[2]} \cup {r[2] : r \in rows})>>}

MergeCoverage(table, new) ==
    LET rows == {r \in table : r[2] >= new[1] - 1 /\ r[1] <= new[2] + 1}
    IN  (table \ rows) \cup
            {<<Min({new[1]} \cup {r[1] : r \in rows}),
               Max({new[2]} \cup {r[2] : r \in rows})>>}

MergeAll(table, news) == FoldLeft(MergeCoverage, table, news)

CoverageFor(table, first, last) ==
    InOrder({r \in table : r[2] >= first /\ r[1] <= last})

\* the loop's two breaks skip every later row too, since rows are in order
Skips(last, acc, c) == c[2] < acc.current \/ c[1] > last \/ acc.current > last

\* faulty variant: resumes at the last covered number
SubtractInclusive(last, acc, c) ==
    IF Skips(last, acc, c) THEN acc
    ELSE [current |-> Larger(acc.current, c[2]),
          missing |-> IF c[1] > acc.current
                      THEN Append(acc.missing, <<acc.current, c[1] - 1>>)
                      ELSE acc.missing]

Subtract(last, acc, c) ==
    IF Skips(last, acc, c) THEN acc
    ELSE [current |-> Larger(acc.current, c[2] + 1),
          missing |-> IF c[1] > acc.current
                      THEN Append(acc.missing,
                                  <<acc.current, Smaller(last, c[1] - 1)>>)
                      ELSE acc.missing]

Remainder(first, last, covered) ==
    FoldLeft(LAMBDA acc, c : Subtract(last, acc, c),
             [current |-> first, missing |-> <<>>], covered)

SubtractCoverage(first, last, covered) ==
    LET end == Remainder(first, last, covered)
    IN  IF end.current <= last
        THEN Append(end.missing, <<end.current, last>>)
        ELSE end.missing

\* the helper of cloud/sessions.py over plain numbers
StepOver(acc, n) ==
    [current |-> n + 1,
     missing |-> IF n > acc.current THEN Append(acc.missing, <<acc.current, n - 1>>)
                 ELSE acc.missing]

Walk(out, r, numbers) ==
    FoldLeft(StepOver, [current |-> r[1], missing |-> out],
             Ordered({n \in numbers : r[1] <= n /\ n <= r[2]}))

MissingOf(out, r, numbers) ==
    LET end == Walk(out, r, numbers)
    IN  IF end.current <= r[2] THEN Append(end.missing, <<end.current, r[2]>>)
        ELSE end.missing

MissingIntervals(expected, numbers) ==
    FoldLeft(LAMBDA out, r : MissingOf(out, r, numbers), <<>>,
             NormalizeRanges(expected))

-----------------------------------------------------------------------------
(* Request chunks.  manifest is the normalized sequence of ranges; no chunk *)
(* is the empty sequence.                                                   *)

\* faulty variant: one number too many
ChunkOneLonger(n, last) == <<n, Smaller(last, n + ChunkSize)>>

ChunkAt(n, last) == <<n, Smaller(last, n + ChunkSize - 1)>>

ChunksOf(r) == [i \in 1..((r[2] - r[1]) \div ChunkSize + 1) |->
                   ChunkAt(r[1] + (i - 1) * ChunkSize, r[2])]

ChunkIntervals(ranges) ==
    FoldLeft(LAMBDA out, r : out \o ChunksOf(r), <<>>, NormalizeRanges(ranges))

FirstMissingChunk(manifest, table) ==
    LET missing(r) == SubtractCoverage(r[1], r[2], CoverageFor(table, r[1], r[2]))
        holes == {i \in DOMAIN manifest : missing(manifest[i]) # <<>>}
    IN  IF holes = {} THEN <<>>
        ELSE LET first == missing(manifest[Min(holes)])[1]
             IN  ChunkAt(first[1], first[2])

\* faulty variant: a range that ends at prior is entered again
NextChunkFromEnd(manifest, prior) ==
    LET ahead == {i \in DOMAIN manifest : prior <= manifest[i][2]}
    IN  IF ahead = {} THEN <<>>
        ELSE LET r == manifest[Min(ahead)]
             IN  ChunkAt(Larger(r[1], prior), r[2])

\* prior is the last number of the chunk before, -1 for none
NextChunkAfter(manifest, prior) ==
    LET ahead == {i \in DOMAIN manifest : prior < manifest[i][2]}
    IN  IF ahead = {} THEN <<>>
        ELSE LET r == manifest[Min(ahead)]
             IN  ChunkAt(Larger(r[1], prior + 1), r[2])

-----------------------------------------------------------------------------
Init ==
    /\ advertised \in UNION {kSubset(n, Intervals) : n \in 0..MaxRanges}
    /\ present = {} /\ coverage = {}
    /\ request = <<0, 0>>

\* one bounded response: its rows join the table of samples, then coverage
CommitRows(first, last, rows) ==
    /\ present' = present \cup rows
    /\ coverage' = MergeAll(coverage, Contiguous(present' \cap (first..last)))
    /\ request' = <<first, last>>
    /\ UNCHANGED advertised

Next ==
    \E i \in Intervals : \E rows \in SUBSET (i[1]..i[2]) :
        i[2] - i[1] < ChunkSize /\ CommitRows(i[1], i[2], rows)

Spec == Init /\ [][Next]_vars

-----------------------------------------------------------------------------
\* pairwise disjoint with at least one number between them
Separated(intervals) ==
    \A a, b \in intervals : a # b => a[2] + 1 < b[1] \/ b[2] + 1 < a[1]

Ascending(s) == \A i \in 1..(Len(s) - 1) : s[i][2] + 1 < s[i + 1][1]

(* Whatever responses arrive in whatever order, the coverage table is the    *)
(* canonical form of the numbers in cloud_samples: it claims no number that  *)
(* is not stored, misses none, and never splits a run (_merge_coverage).     *)
CoverageIsExact == Numbers(coverage) = present /\ Separated(coverage)

(* What is reported missing from the last request is exactly what it asked   *)
(* for and the archive does not hold, in ascending maximal runs              *)
(* (_subtract_coverage); the number-by-number helper of cloud/sessions.py    *)
(* agrees on it.                                                             *)
MissingIsExact ==
    LET missing == SubtractCoverage(request[1], request[2],
                                    CoverageFor(coverage, request[1], request[2]))
    IN  /\ Numbers(ToSet(missing)) = (request[1]..request[2]) \ present
        /\ Ascending(missing)
        /\ missing = MissingIntervals({request}, present)

(* The next sample request starts at the first advertised number that is not *)
(* archived, asks for nothing the archive holds or the manifest lacks, and   *)
(* ends only at the chunk size or at such a number; there is none when the   *)
(* manifest is archived.                                                     *)
FirstMissingIsFirst ==
    LET lacking == Numbers(advertised) \ present
        chunk   == FirstMissingChunk(NormalizeRanges(advertised), coverage)
    IN  IF lacking = {} THEN chunk = <<>>
        ELSE /\ chunk[1] = Min(lacking)
             /\ chunk[1]..chunk[2] \subseteq lacking
             /\ chunk[2] - chunk[1] < ChunkSize
             /\ chunk[2] - chunk[1] = ChunkSize - 1 \/ chunk[2] + 1 \notin lacking

(* Stepping an audit from any chunk end leaves no advertised number out and  *)
(* never steps back (_next_manifest_chunk_after).                            *)
AuditStepsForward ==
    LET manifest == NormalizeRanges(advertised)
        walk == ChunkIntervals(advertised)
    IN  /\ Numbers(ToSet(walk)) = Numbers(advertised)
        /\ \A prior \in {-1} \cup Numbers(advertised) :
              LET rest  == {n \in Numbers(advertised) : n > prior}
                  chunk == NextChunkAfter(manifest, prior)
              IN  IF rest = {} THEN chunk = <<>>
                  ELSE /\ chunk[1] = Min(rest)
                       /\ chunk[1]..chunk[2] \subseteq rest
                       /\ chunk[2] - chunk[1] < ChunkSize
                       /\ \/ chunk[2] - chunk[1] = ChunkSize - 1
                          \/ chunk[2] + 1 \notin rest
        /\ \A i \in DOMAIN walk :
              NextChunkAfter(manifest, IF i = 1 THEN -1 ELSE walk[i - 1][2]) = walk[i]

=============================================================================
