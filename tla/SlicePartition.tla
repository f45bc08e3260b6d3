--------------------------- MODULE SlicePartition ---------------------------
(***************************************************************************)
(* How the rows of a plane are shared out among its slices, and how the    *)
(* slices are shared out among the scoped worker threads.  The decoder and *)
(* the encoder use the same two formulas; every module that walks slices   *)
(* takes them from here.                                                   *)
(***************************************************************************)
EXTENDS Integers

\* First row of slice s of a plane of ph rows cut into n slices.
RowStart(ph, n, s) == (ph * s) \div n

\* One past the last row of slice s.
RowEnd(ph, n, s) == (ph * (s + 1)) \div n

RowCount(ph, n, s) == RowEnd(ph, n, s) - RowStart(ph, n, s)

SliceRows(ph, n, s) == RowStart(ph, n, s) .. RowEnd(ph, n, s) - 1

AtLeastOne(x) == IF x < 1 THEN 1 ELSE x

Lesser(x, y) == IF x <= y THEN x ELSE y

\* Mutant: more threads than work units.
ParallelDegreeUnclamped(workers, n) == AtLeastOne(workers)

\* Threads spawned for n work units under a budget of `workers`.
ParallelDegree(workers, n) == AtLeastOne(Lesser(workers, n))

ChunkSize(n, par) == (n + par - 1) \div par

\* The thread whose chunk receives work unit i.
BucketOf(i, n, par) == Lesser(i \div AtLeastOne(ChunkSize(n, par)), par - 1)
=============================================================================
