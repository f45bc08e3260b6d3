---------------------------- MODULE PlaneEncoder ----------------------------
(***************************************************************************)
(* One plane of src/encoder.rs::encode_frame_parallel: forward prediction  *)
(* on a scoped thread pool, the Huffman table of the whole plane on the    *)
(* calling thread, and bit packing on a second thread pool.                *)
(*                                                                         *)
(* The residuals of a slice are abstracted to the set of symbols they use: *)
(* that is all the table and the success of packing depend on.  A packed   *)
(* slice is abstracted to the residuals and the table it was packed with.  *)
(***************************************************************************)
EXTENDS SlicePartition, FiniteSets

CONSTANTS NumSlices,    \* frame.num_slices; prepare_planes: no slice is empty
          Contents,     \* the sets of residual values a slice may use
          Budgets       \* the worker budgets a caller may grant

ASSUME EncoderAssumption ==
  /\ NumSlices \in Nat \ {0}
  /\ {} \notin Contents
  /\ Budgets \subseteq Nat

VARIABLES content,      \* content[s]: the symbols predicting slice s yields
          workers,      \* the budget of this call
          stage,        \* which part of the plane's encode is running
          bucket,       \* loop index of the spawn loop
          start,        \* first slice not yet given to a bucket
          chunk,        \* chunk[t]: the slots thread t has still to fill
          thread,       \* where thread t is
          residuals,    \* out slots of forward_parallel
          table,        \* what build_plane_huffman made
          blobs,        \* out slots of encode_plane_parallel
          errors,       \* Mutex<Option<(usize, Error)>>
          result        \* the plane blob, an error, or Pending

vars == <<content, workers, stage, bucket, start, chunk, thread, residuals,
          table, blobs, errors, result>>

Slices == 0 .. NumSlices - 1
Threads == Slices
Par == ParallelDegree(workers, NumSlices)
Degenerate == Par <= 1 \/ NumSlices <= 1

Pending == [kind |-> "Pending"]
NoError == NumSlices            \* Option::None; else the failing slice
Unbuilt == [kind |-> "Unbuilt", symbols |-> {}]
EmptySlot == << >>              \* Vec::new()
Unfilled == [s \in Slices |-> EmptySlot]

\* build_plane_huffman: the three shapes of descriptor, by symbols used.
TableOf(used) ==
  [kind |-> CASE used = {} -> "Empty"
              [] Cardinality(used) = 1 -> "Single"
              [] OTHER -> "General",
   symbols |-> used]

\* Mutant: only the first slice is counted.
UsedFirstSlice(res) == IF res[0] = EmptySlot THEN {} ELSE res[0][1]

\* The histogram runs over the residuals of all slices.
Used(res) == UNION {IF res[s] = EmptySlot THEN {} ELSE res[s][1] : s \in Slices}

\* Mutant: a single-symbol plane is packed like any other.
NoDataForEmptyOnly(tbl, res) == res = EmptySlot

\* pack_slice: no data for a single-symbol plane or an empty stream, and an
\* error if a residual has no code.
NoData(tbl, res) == tbl.kind = "Single" \/ res = EmptySlot
Packs(tbl, res) == NoData(tbl, res) \/ res[1] \subseteq tbl.symbols
Pack(tbl, res) ==
  IF NoData(tbl, res) THEN EmptySlot ELSE <<res[1], tbl.symbols>>

\* What the serial path makes of the same plane.
SerialResult ==
  LET res == [s \in Slices |-> <<content[s]>>]
      tbl == TableOf(Used(res))
  IN  [kind |-> "Blob", table |-> tbl,
       data |-> [s \in Slices |-> Pack(tbl, res[s])]]

Init ==
  /\ content \in [Slices -> Contents]
  /\ workers \in Budgets
  /\ stage = "forward"
  /\ bucket = 0
  /\ start = 0
  /\ chunk = [t \in Threads |-> {}]
  /\ thread = [t \in Threads |-> "unborn"]
  /\ residuals = Unfilled
  /\ table = Unbuilt
  /\ blobs = Unfilled
  /\ errors = NoError
  /\ result = Pending

-----------------------------------------------------------------------------
(* The calling thread *)

ForwardSerial ==
  /\ stage = "forward" /\ Degenerate
  /\ residuals' = [s \in Slices |-> <<content[s]>>]
  /\ stage' = "huffman"
  /\ UNCHANGED <<content, workers, bucket, start, chunk, thread, table, blobs,
                 errors, result>>

\* The slices of the next bucket: what is left, but at most one chunk.
Take == Lesser(ChunkSize(NumSlices, Par), NumSlices - start)

\* One iteration of the spawn loop; an empty bucket gets no thread.
SpawnBucket ==
  /\ stage \in {"forward", "pack"} /\ ~Degenerate
  /\ bucket < Par
  /\ IF Take = 0
     THEN UNCHANGED <<chunk, thread>>
     ELSE /\ chunk' = [chunk EXCEPT ![bucket] = start .. start + Take - 1]
          /\ thread' = [thread EXCEPT ![bucket] = "run"]
  /\ start' = start + Take
  /\ bucket' = bucket + 1
  /\ UNCHANGED <<content, workers, stage, residuals, table, blobs, errors, result>>

\* Mutant: every bucket is expected to have a thread.
JoinedAllBuckets == bucket = Par /\ \A t \in 0 .. Par - 1 : thread[t] = "ended"

\* Mutant: the scope is left as soon as the last thread is spawned.
JoinedEarly == bucket = Par

\* The end of a scope: every thread spawned in it has ended.
Joined == bucket = Par /\ \A t \in Threads : thread[t] # "run"

JoinForward ==
  /\ stage = "forward" /\ ~Degenerate /\ Joined
  /\ stage' = "huffman"
  /\ bucket' = 0 /\ start' = 0
  /\ thread' = [t \in Threads |-> "unborn"]
  /\ UNCHANGED <<content, workers, chunk, residuals, table, blobs, errors, result>>

BuildPlaneHuffman ==
  /\ stage = "huffman"
  /\ table' = TableOf(Used(residuals))
  /\ stage' = "pack"
  /\ UNCHANGED <<content, workers, bucket, start, chunk, thread, residuals,
                 blobs, errors, result>>

\* build_plane_blob, or the recorded error.
Returned(slots, err) ==
  IF err = NoError THEN [kind |-> "Blob", table |-> table, data |-> slots]
  ELSE [kind |-> "HuffmanDecodeFailure"]

PackSerial ==
  /\ stage = "pack" /\ Degenerate
  /\ LET bad == {s \in Slices : ~Packs(table, residuals[s])} IN
       result' = Returned([s \in Slices |-> Pack(table, residuals[s])],
                          IF bad = {} THEN NoError
                          ELSE CHOOSE s \in bad : \A q \in bad : s <= q)
  /\ stage' = "done"
  /\ UNCHANGED <<content, workers, bucket, start, chunk, thread, residuals,
                 table, blobs, errors>>

JoinPack ==
  /\ stage = "pack" /\ ~Degenerate /\ Joined
  /\ result' = Returned(blobs, errors)
  /\ stage' = "done"
  /\ UNCHANGED <<content, workers, bucket, start, chunk, thread, residuals,
                 table, blobs, errors>>

-----------------------------------------------------------------------------
(* Thread t of the current scope *)

Front(t) == CHOOSE s \in chunk[t] : \A q \in chunk[t] : s <= q

ForwardSlice(t) ==
  /\ stage = "forward" /\ thread[t] = "run" /\ chunk[t] # {}
  /\ residuals' = [residuals EXCEPT ![Front(t)] = <<content[Front(t)]>>]
  /\ chunk' = [chunk EXCEPT ![t] = @ \ {Front(t)}]
  /\ UNCHANGED <<content, workers, stage, bucket, start, thread, table, blobs,
                 errors, result>>

\* Packing a slice; an error is recorded under the mutex in the same step.
PackSlice(t) ==
  /\ stage = "pack" /\ thread[t] = "run" /\ chunk[t] # {}
  /\ LET s == Front(t) IN
       IF Packs(table, residuals[s])
       THEN /\ blobs' = [blobs EXCEPT ![s] = Pack(table, residuals[s])]
            /\ UNCHANGED errors
       ELSE /\ errors' = Lesser(s, errors)
            /\ UNCHANGED blobs
  /\ chunk' = [chunk EXCEPT ![t] = @ \ {Front(t)}]
  /\ UNCHANGED <<content, workers, stage, bucket, start, thread, residuals,
                 table, result>>

End(t) ==
  /\ thread[t] = "run" /\ chunk[t] = {}
  /\ thread' = [thread EXCEPT ![t] = "ended"]
  /\ UNCHANGED <<content, workers, stage, bucket, start, chunk, residuals,
                 table, blobs, errors, result>>

-----------------------------------------------------------------------------
CallerStep ==
  \/ ForwardSerial \/ SpawnBucket \/ JoinForward \/ BuildPlaneHuffman
  \/ PackSerial \/ JoinPack

ThreadStep(t) == ForwardSlice(t) \/ PackSlice(t) \/ End(t)

Finished == stage = "done" /\ UNCHANGED vars

Next == CallerStep \/ (\E t \in Threads : ThreadStep(t)) \/ Finished

Fairness == WF_vars(CallerStep) /\ \A t \in Threads : WF_vars(ThreadStep(t))

Spec == Init /\ [][Next]_vars /\ Fairness

-----------------------------------------------------------------------------
(* Properties *)

TypeOK ==
  /\ content \in [Slices -> Contents]
  /\ workers \in Budgets
  /\ stage \in {"forward", "huffman", "pack", "done"}
  /\ bucket \in 0 .. NumSlices
  /\ start \in 0 .. NumSlices
  /\ chunk \in [Threads -> SUBSET Slices]
  /\ thread \in [Threads -> {"unborn", "run", "ended"}]
  /\ residuals \in [Slices -> {EmptySlot} \cup {<<u>> : u \in Contents}]
  /\ table.kind \in {"Unbuilt", "Empty", "Single", "General"}
  /\ table.symbols \subseteq UNION Contents
  /\ errors \in 0 .. NumSlices
  /\ result.kind \in {"Pending", "Blob", "HuffmanDecodeFailure"}

\* "Output bytes are identical for every budget": the plane blob is the one
\* the serial path makes (encode_frame_with_workers).
BytesIndependentOfBudget == stage = "done" => result = SerialResult

\* The table is built from every slice's residuals, so packing never meets a
\* symbol without a code, on any thread.
PackingNeverFails == errors = NoError /\ result.kind # "HuffmanDecodeFailure"

\* A plane announces slice data exactly when it has more than one symbol: the
\* decoder refuses data in a single-symbol plane, and needs it elsewhere.
DataMatchesDescriptor ==
  result.kind = "Blob" =>
    \A s \in Slices :
      (result.data[s] = EmptySlot) <=> (result.table.kind = "Single")

\* The encode ends.
Terminates == <>(stage = "done")
=============================================================================
