------------------------- MODULE PlaneEncoderProofs -------------------------
(***************************************************************************)
(* For every slice count, every budget, every content of the slices and    *)
(* every schedule of the two thread pools: the plane encoder is type       *)
(* correct, packing never meets a residual without a code, and the plane   *)
(* blob is the one the serial path makes.  And its first stage loses       *)
(* nothing: for every plane, slice count, sample depth and interleaving of *)
(* the slices, the decoder's predictors give the samples back.             *)
(***************************************************************************)
EXTENDS PlaneEncoder, PlanePredict, SlicePartitionProofs

USE EncoderAssumption

-----------------------------------------------------------------------------
(* The inductive invariant *)

\* The residuals of a plane whose forward pass is complete.
Predicted == [s \in Slices |-> <<content[s]>>]

PlaneTable == TableOf(Used(Predicted))

\* How far the spawn loop of the current scope has come.
Spawning ==
  /\ stage = "huffman" \/ Degenerate => bucket = 0 /\ start = 0
  /\ stage \in {"forward", "pack"} =>
       /\ bucket <= Par
       /\ start = Lesser(bucket * ChunkSize(NumSlices, Par), NumSlices)

\* A thread ends with an empty chunk, and none runs before it was spawned.
Threading ==
  \A t \in Threads :
    /\ thread[t] # "run" => chunk[t] = {}
    /\ t >= bucket => thread[t] = "unborn"

Waiting(s) == \E t \in Threads : s \in chunk[t]

\* No slice is lost between its spawn and the end of the scope.
ForwardAccounted ==
  stage = "forward" =>
    \A s \in Slices : s < start => residuals[s] = <<content[s]>> \/ Waiting(s)
PackAccounted ==
  stage = "pack" =>
    \A s \in Slices : s < start =>
      blobs[s] = Pack(PlaneTable, Predicted[s]) \/ Waiting(s)

\* What the stages behind the current one have left.
StagesDone ==
  /\ stage # "forward" => residuals = Predicted
  /\ stage \in {"pack", "done"} => table = PlaneTable
  /\ stage # "done" => result = Pending

BlobValues ==
  {EmptySlot} \cup ((SUBSET UNION Contents) \X (SUBSET UNION Contents))

IInv ==
  /\ Spawning /\ Threading /\ ForwardAccounted /\ PackAccounted /\ StagesDone
  /\ blobs \in [Slices -> BlobValues]
  /\ errors = NoError
  /\ BytesIndependentOfBudget

-----------------------------------------------------------------------------
(* Facts about one plane *)

\* There is at least one thread and at most one per slice, and the chunks of
\* all threads together hold every slice.
LEMMA ParRange ==
  ASSUME TypeOK
  PROVE  /\ Par \in 1 .. NumSlices
         /\ ChunkSize(NumSlices, Par) \in Nat
         /\ NumSlices <= Par * ChunkSize(NumSlices, Par)
<1>1. workers \in Nat
  BY DEF TypeOK
<1>2. Par \in 1 .. NumSlices
  BY <1>1, ParallelDegreeBounds DEF Par
<1>3. NumSlices + Par - 1 \in Nat /\ Par \in Nat \ {0}
  BY <1>2
<1>4. /\ ChunkSize(NumSlices, Par) \in Nat
      /\ NumSlices + Par - 1 < Par * ChunkSize(NumSlices, Par) + Par
  BY <1>3, DivDef DEF ChunkSize
<1>5. Par * ChunkSize(NumSlices, Par) \in Nat
  BY <1>3, <1>4, MulNat
<1> QED
  BY <1>2, <1>3, <1>4, <1>5

\* A thread takes a slice of its own chunk.
LEMMA FrontInChunk ==
  ASSUME TypeOK, NEW t \in Threads, chunk[t] # {}
  PROVE  Front(t) \in chunk[t] /\ Front(t) \in Slices
<1>1. chunk[t] \in SUBSET Slices
  BY DEF TypeOK
<1>2. chunk[t] \in SUBSET Nat
  BY <1>1 DEF Slices
<1>3. \E m \in chunk[t] : \A k \in chunk[t] : m <= k
  BY <1>2, LeastNat
<1> QED
  BY <1>1, <1>3 DEF Front

\* The histogram of the complete plane counts the symbols of every slice, so
\* the table has a code for each of them and packing succeeds.
LEMMA EverySymbolCounted ==
  ASSUME TypeOK, NEW s \in Slices
  PROVE  /\ content[s] \subseteq PlaneTable.symbols
         /\ PlaneTable.symbols \subseteq UNION Contents
         /\ content[s] \in SUBSET UNION Contents
         /\ PlaneTable.kind \in {"Empty", "Single", "General"}
         /\ Packs(PlaneTable, Predicted[s])
<1>1. \A q \in Slices : Predicted[q] = <<content[q]>> /\ Predicted[q] # EmptySlot
  BY DEF Predicted, EmptySlot
<1>2. Used(Predicted) = UNION {content[q] : q \in Slices}
  BY <1>1 DEF Used
<1>3. PlaneTable.symbols = UNION {content[q] : q \in Slices}
  BY <1>2 DEF PlaneTable, TableOf
<1>4. PlaneTable.kind \in {"Empty", "Single", "General"}
  BY DEF PlaneTable, TableOf
<1>5. \A q \in Slices : content[q] \in Contents
  BY DEF TypeOK
<1>6. content[s] \subseteq PlaneTable.symbols
  BY <1>3
<1> QED
  BY <1>1, <1>3, <1>4, <1>5, <1>6 DEF Packs

\* A packed slice is a slot value.
LEMMA PackedIsBlob ==
  ASSUME TypeOK, NEW s \in Slices
  PROVE  Pack(PlaneTable, Predicted[s]) \in BlobValues
<1>1. Predicted[s][1] = content[s]
  BY DEF Predicted
<1> QED
  BY <1>1, EverySymbolCounted DEF Pack, BlobValues

\* The serial path packs the residuals of the complete plane with its table.
LEMMA SerialIsPlane ==
  SerialResult = [kind |-> "Blob", table |-> PlaneTable,
                  data |-> [s \in Slices |-> Pack(PlaneTable, Predicted[s])]]
BY DEF SerialResult, PlaneTable, Predicted

\* The plane and the budget of a call never change.
LEMMA InputsFixed ==
  [Next]_vars => /\ content' = content /\ workers' = workers
                 /\ Predicted' = Predicted /\ PlaneTable' = PlaneTable
                 /\ SerialResult' = SerialResult
                 /\ Par' = Par /\ (Degenerate' <=> Degenerate)
<1> SUFFICES ASSUME [Next]_vars
             PROVE  /\ content' = content /\ workers' = workers
                    /\ Predicted' = Predicted /\ PlaneTable' = PlaneTable
                    /\ SerialResult' = SerialResult
                    /\ Par' = Par /\ (Degenerate' <=> Degenerate)
  OBVIOUS
<1>1. content' = content /\ workers' = workers
  BY DEF Next, CallerStep, ThreadStep, Finished, vars, ForwardSerial,
     SpawnBucket, JoinForward, BuildPlaneHuffman, PackSerial, JoinPack,
     ForwardSlice, PackSlice, End
<1>2. Predicted' = Predicted /\ Par' = Par /\ (Degenerate' <=> Degenerate)
  BY <1>1 DEF Predicted, Par, Degenerate
<1>3. PlaneTable' = PlaneTable
  BY <1>2 DEF PlaneTable, Used, TableOf
<1>4. SerialResult' = SerialResult
  BY <1>1 DEF SerialResult, TableOf, Used, Pack, NoData
<1> QED
  BY <1>1, <1>2, <1>3, <1>4

-----------------------------------------------------------------------------
(* Type correctness *)

\* The initial states are typed.
LEMMA TypeInit == Init => TypeOK
BY DEF Init, TypeOK, Unbuilt, Unfilled, NoError, Pending, Threads

\* The chunk the spawn loop hands out is the next run of slices, and no
\* thread holds it yet.
LEMMA NextChunk ==
  ASSUME TypeOK, Spawning, SpawnBucket
  PROVE  /\ Take \in Nat
         /\ start' = start + Take
         /\ start' = Lesser(bucket' * ChunkSize(NumSlices, Par), NumSlices)
         /\ start' \in 0 .. NumSlices
         /\ bucket \in Threads
         /\ bucket' = bucket + 1 /\ bucket' \in 0 .. NumSlices /\ bucket' <= Par
<1> DEFINE c == ChunkSize(NumSlices, Par)
<1>1. c \in Nat /\ Par \in 1 .. NumSlices
  BY ParRange
<1>2. bucket \in Nat /\ bucket < Par /\ bucket' = bucket + 1
  BY DEF SpawnBucket, TypeOK
<1>3. start \in 0 .. NumSlices /\ start = Lesser(bucket * c, NumSlices)
  BY DEF Spawning, SpawnBucket, TypeOK
<1>4. Take = Lesser(c, NumSlices - start) /\ start' = start + Take
  BY DEF Take, SpawnBucket
<1> HIDE DEF c
<1>5. bucket * c \in Nat /\ (bucket + 1) * c = bucket * c + c
  BY <1>1, <1>2
<1>6. start + Take = Lesser((bucket + 1) * c, NumSlices)
  BY <1>1, <1>3, <1>4, <1>5 DEF Lesser
<1>7. Take \in Nat /\ start + Take \in 0 .. NumSlices
  BY <1>1, <1>3, <1>4 DEF Lesser
<1> QED
  BY <1>1, <1>2, <1>4, <1>6, <1>7 DEF c, Threads, Slices

\* A step preserves the types.
LEMMA TypeStep == TypeOK /\ Spawning /\ StagesDone /\ [Next]_vars => TypeOK'
<1> SUFFICES ASSUME TypeOK, Spawning, StagesDone, [Next]_vars PROVE TypeOK'
  OBVIOUS
<1> USE DEF TypeOK
<1>1. CASE ForwardSerial
  BY <1>1 DEF ForwardSerial
<1>2. CASE SpawnBucket
  <2>1. /\ start' \in 0 .. NumSlices /\ bucket' \in 0 .. NumSlices
        /\ bucket \in Threads /\ start .. start + Take - 1 \subseteq Slices
    BY <1>2, NextChunk DEF Slices
  <2>2. /\ chunk' \in [Threads -> SUBSET Slices]
        /\ thread' \in [Threads -> {"unborn", "run", "ended"}]
    BY <1>2, <2>1 DEF SpawnBucket
  <2> QED
    BY <1>2, <2>1, <2>2 DEF SpawnBucket
<1>3. CASE JoinForward
  BY <1>3 DEF JoinForward
<1>4. CASE BuildPlaneHuffman
  <2>1. table' = PlaneTable
    BY <1>4 DEF BuildPlaneHuffman, StagesDone, PlaneTable
  <2>2. /\ table'.kind \in {"Empty", "Single", "General"}
        /\ table'.symbols \subseteq UNION Contents
    <3>1. 0 \in Slices
      BY DEF Slices
    <3> QED
      BY <2>1, <3>1, EverySymbolCounted
  <2> QED
    BY <1>4, <2>2 DEF BuildPlaneHuffman
<1>5. CASE PackSerial
  BY <1>5 DEF PackSerial, Returned
<1>6. CASE JoinPack
  BY <1>6 DEF JoinPack, Returned
<1>7. ASSUME NEW t \in Threads, ForwardSlice(t)
      PROVE  TypeOK'
  <2>1. Front(t) \in Slices
    BY <1>7, FrontInChunk DEF ForwardSlice
  <2>2. content[Front(t)] \in Contents
    BY <2>1
  <2>3. /\ residuals' \in [Slices -> {EmptySlot} \cup {<<u>> : u \in Contents}]
        /\ chunk' \in [Threads -> SUBSET Slices]
    BY <1>7, <2>1, <2>2 DEF ForwardSlice
  <2> QED
    BY <1>7, <2>3 DEF ForwardSlice
<1>8. ASSUME NEW t \in Threads, PackSlice(t)
      PROVE  TypeOK'
  <2>1. Front(t) \in Slices /\ Front(t) \in 0 .. NumSlices
    BY <1>8, FrontInChunk DEF PackSlice, Slices
  <2>2. errors' \in 0 .. NumSlices
    BY <1>8, <2>1 DEF PackSlice, Lesser
  <2>3. chunk' \in [Threads -> SUBSET Slices]
    BY <1>8 DEF PackSlice
  <2> QED
    BY <1>8, <2>2, <2>3 DEF PackSlice
<1>9. ASSUME NEW t \in Threads, End(t)
      PROVE  TypeOK'
  BY <1>9 DEF End
<1>10. CASE Finished \/ UNCHANGED vars
  BY <1>10 DEF Finished, vars
<1> QED
  BY <1>1, <1>2, <1>3, <1>4, <1>5, <1>6, <1>7, <1>8, <1>9, <1>10
  DEF Next, CallerStep, ThreadStep

-----------------------------------------------------------------------------
(* The invariant is inductive *)

\* A plane starts with nothing done and nothing owed.
LEMMA InvInit == Init => IInv
<1> SUFFICES ASSUME Init PROVE IInv
  OBVIOUS
<1>1. TypeOK
  BY TypeInit
<1>2. /\ stage = "forward" /\ bucket = 0 /\ start = 0 /\ result = Pending
      /\ \A t \in Threads : thread[t] = "unborn" /\ chunk[t] = {}
      /\ errors = NoError
  BY DEF Init
<1>3. Spawning
  BY <1>1, <1>2, ParRange DEF Spawning, Lesser
<1>4. blobs \in [Slices -> BlobValues]
  BY DEF Init, Unfilled, BlobValues
<1>5. ForwardAccounted
  BY <1>2 DEF ForwardAccounted, Slices
<1> QED
  BY <1>2, <1>3, <1>4, <1>5 DEF IInv, Threading, PackAccounted, StagesDone,
     BytesIndependentOfBudget

\* The spawn loop keeps to the chunk size, and a scope is left only when every
\* bucket has been dealt with.
LEMMA SpawningStep == TypeOK /\ IInv /\ [Next]_vars => Spawning'
<1> SUFFICES ASSUME TypeOK, IInv, [Next]_vars PROVE Spawning'
  OBVIOUS
<1>0. /\ Par' = Par /\ (Degenerate' <=> Degenerate)
      /\ Par \in 1 .. NumSlices /\ ChunkSize(NumSlices, Par) \in Nat
  BY InputsFixed, ParRange
<1>1. CASE SpawnBucket
  BY <1>0, <1>1, NextChunk DEF IInv, Spawning, SpawnBucket
<1>2. CASE JoinForward
  BY <1>0, <1>2 DEF JoinForward, Spawning, Lesser
<1>3. CASE ForwardSerial
  BY <1>0, <1>3 DEF ForwardSerial, IInv, Spawning
<1>4. CASE BuildPlaneHuffman
  BY <1>0, <1>4 DEF BuildPlaneHuffman, IInv, Spawning, Lesser
<1>5. CASE PackSerial \/ JoinPack
  BY <1>0, <1>5 DEF PackSerial, JoinPack, IInv, Spawning
<1>6. CASE \E t \in Threads : ThreadStep(t)
  BY <1>0, <1>6 DEF ThreadStep, ForwardSlice, PackSlice, End, IInv, Spawning
<1>7. CASE Finished \/ UNCHANGED vars
  BY <1>0, <1>7 DEF Finished, vars, IInv, Spawning
<1> QED
  BY <1>1, <1>2, <1>3, <1>4, <1>5, <1>6, <1>7 DEF Next, CallerStep

\* A thread that has ended, or was not spawned, owes nothing.
LEMMA ThreadingStep == TypeOK /\ IInv /\ [Next]_vars => Threading'
<1> SUFFICES ASSUME TypeOK, IInv, [Next]_vars PROVE Threading'
  OBVIOUS
<1> USE DEF Threading
<1>0. Threading /\ Threads \subseteq Nat /\ bucket \in Nat
  BY DEF IInv, Threads, Slices, TypeOK
<1>1. CASE SpawnBucket
  <2>1. bucket' = bucket + 1 /\ bucket \in Threads
    BY <1>1, NextChunk DEF IInv
  <2> QED
    BY <1>0, <1>1, <2>1 DEF SpawnBucket, TypeOK
<1>2. CASE JoinForward
  BY <1>0, <1>2 DEF JoinForward, Joined
<1>3. CASE ForwardSerial \/ BuildPlaneHuffman \/ PackSerial \/ JoinPack
  BY <1>0, <1>3 DEF ForwardSerial, BuildPlaneHuffman, PackSerial, JoinPack
<1>4. CASE \E t \in Threads : ThreadStep(t)
  BY <1>0, <1>4 DEF ThreadStep, ForwardSlice, PackSlice, End, TypeOK
<1>5. CASE Finished \/ UNCHANGED vars
  BY <1>0, <1>5 DEF Finished, vars
<1> QED
  BY <1>1, <1>2, <1>3, <1>4, <1>5 DEF Next, CallerStep

\* At the end of a scope every slice was spawned and none is waiting.
LEMMA JoinedComplete ==
  ASSUME TypeOK, IInv, stage \in {"forward", "pack"}, Joined
  PROVE  \A s \in Slices : s < start /\ ~Waiting(s)
<1>1. start = Lesser(Par * ChunkSize(NumSlices, Par), NumSlices)
  BY DEF IInv, Spawning, Joined
<1>2. start = NumSlices
  BY <1>1, ParRange DEF Lesser
<1>3. \A t \in Threads : chunk[t] = {}
  BY DEF IInv, Threading, Joined
<1> QED
  BY <1>2, <1>3 DEF Waiting, Slices

\* Spawning a bucket makes its slices wait in its thread and takes none away
\* from another.
LEMMA SpawnedWaits ==
  ASSUME TypeOK, IInv, SpawnBucket, NEW s \in Slices
  PROVE  /\ Waiting(s) => Waiting(s)'
         /\ s < start' => s < start \/ Waiting(s)'
<1>1. /\ Take \in Nat /\ start' = start + Take /\ bucket \in Threads
      /\ start \in Nat /\ s \in Nat
  BY NextChunk DEF IInv, TypeOK, Slices
<1>2. chunk[bucket] = {}
  BY <1>1 DEF IInv, Threading, Threads, Slices
<1>3. CASE Take = 0
  BY <1>1, <1>3 DEF SpawnBucket, Waiting
<1>4. CASE Take # 0
  <2>1. /\ chunk'[bucket] = start .. start + Take - 1
        /\ \A t \in Threads : t # bucket => chunk'[t] = chunk[t]
    BY <1>1, <1>4 DEF SpawnBucket, TypeOK
  <2> QED
    BY <1>1, <1>2, <2>1 DEF Waiting
<1> QED
  BY <1>3, <1>4

\* A thread that deals with its front slice leaves the others waiting.
LEMMA FrontServed ==
  ASSUME TypeOK, NEW t \in Threads, chunk[t] # {},
         chunk' = [chunk EXCEPT ![t] = @ \ {Front(t)}],
         NEW s \in Slices, s # Front(t)
  PROVE  Waiting(s) => Waiting(s)'
<1>1. /\ chunk'[t] = chunk[t] \ {Front(t)}
      /\ \A q \in Threads : q # t => chunk'[q] = chunk[q]
  BY DEF TypeOK
<1> QED
  BY <1>1 DEF Waiting

\* Every spawned slice is predicted or waits for a thread.
LEMMA ForwardStep == TypeOK /\ IInv /\ [Next]_vars => ForwardAccounted'
<1> SUFFICES ASSUME TypeOK, IInv, [Next]_vars PROVE ForwardAccounted'
  OBVIOUS
<1>0. content' = content /\ ForwardAccounted
  BY InputsFixed DEF IInv
<1>1. CASE SpawnBucket
  <2>1. stage' = stage /\ residuals' = residuals
    BY <1>1 DEF SpawnBucket
  <2>2. ASSUME stage = "forward", NEW s \in Slices, s < start'
        PROVE  residuals[s] = <<content[s]>> \/ Waiting(s)'
    BY <1>0, <1>1, <2>2, SpawnedWaits DEF ForwardAccounted
  <2> QED
    BY <1>0, <2>1, <2>2 DEF ForwardAccounted
<1>2. ASSUME NEW t \in Threads, ForwardSlice(t)
      PROVE  ForwardAccounted'
  <2>1. /\ Front(t) \in Slices /\ chunk[t] # {}
        /\ residuals' = [residuals EXCEPT ![Front(t)] = <<content[Front(t)]>>]
        /\ chunk' = [chunk EXCEPT ![t] = @ \ {Front(t)}]
        /\ stage' = stage /\ start' = start
    BY <1>2, FrontInChunk DEF ForwardSlice
  <2>2. ASSUME stage = "forward", NEW s \in Slices, s < start
        PROVE  residuals'[s] = <<content[s]>> \/ Waiting(s)'
    <3>1. CASE s = Front(t)
      BY <2>1, <3>1 DEF TypeOK
    <3>2. CASE s # Front(t)
      <4>1. residuals'[s] = residuals[s]
        BY <2>1, <3>2 DEF TypeOK
      <4>2. Waiting(s) => Waiting(s)'
        BY <2>1, <3>2, FrontServed
      <4> QED
        BY <1>0, <2>2, <4>1, <4>2 DEF ForwardAccounted
    <3> QED
      BY <3>1, <3>2
  <2> QED
    BY <1>0, <2>1, <2>2 DEF ForwardAccounted
<1>3. ASSUME NEW t \in Threads, End(t)
      PROVE  ForwardAccounted'
  BY <1>0, <1>3 DEF End, ForwardAccounted, Waiting
<1>4. ASSUME stage' # "forward"
      PROVE  ForwardAccounted'
  BY <1>4 DEF ForwardAccounted
<1>5. ASSUME NEW t \in Threads, PackSlice(t)
      PROVE  stage' # "forward"
  BY <1>5 DEF PackSlice
<1>6. CASE ForwardSerial \/ JoinForward \/ BuildPlaneHuffman \/ PackSerial \/ JoinPack
  BY <1>4, <1>6
  DEF ForwardSerial, JoinForward, BuildPlaneHuffman, PackSerial, JoinPack
<1>7. CASE Finished \/ UNCHANGED vars
  BY <1>0, <1>7 DEF Finished, vars, ForwardAccounted, Waiting
<1> QED
  BY <1>1, <1>2, <1>3, <1>4, <1>5, <1>6, <1>7 DEF Next, CallerStep, ThreadStep

\* The front slice of a packing thread has a code for all its residuals.
LEMMA PackSliceSucceeds ==
  ASSUME TypeOK, IInv, NEW t \in Threads, PackSlice(t)
  PROVE  /\ Front(t) \in Slices /\ errors' = errors
         /\ blobs' = [blobs EXCEPT ![Front(t)] =
                        Pack(PlaneTable, Predicted[Front(t)])]
<1>1. Front(t) \in Slices
  BY FrontInChunk DEF PackSlice
<1>2. residuals = Predicted /\ table = PlaneTable
  BY DEF IInv, StagesDone, PackSlice
<1>3. Packs(PlaneTable, Predicted[Front(t)])
  BY <1>1, EverySymbolCounted
<1> QED
  BY <1>1, <1>2, <1>3 DEF PackSlice

\* Every spawned slice is packed or waits for a thread.
LEMMA PackStep == TypeOK /\ IInv /\ [Next]_vars => PackAccounted'
<1> SUFFICES ASSUME TypeOK, IInv, [Next]_vars PROVE PackAccounted'
  OBVIOUS
<1>0. PlaneTable' = PlaneTable /\ Predicted' = Predicted /\ PackAccounted
  BY InputsFixed DEF IInv
<1> DEFINE Want(s) == Pack(PlaneTable, Predicted[s])
<1>a. \A s : Want(s)' = Want(s)
  BY <1>0 DEF Pack, NoData
<1> HIDE DEF Want
<1>b. PackAccounted <=>
        (stage = "pack" =>
           \A s \in Slices : s < start => blobs[s] = Want(s) \/ Waiting(s))
  BY DEF PackAccounted, Want
<1>c. PackAccounted' <=>
        (stage' = "pack" =>
           \A s \in Slices : s < start' => blobs'[s] = Want(s) \/ Waiting(s)')
  BY <1>a DEF PackAccounted, Want
<1>1. CASE SpawnBucket
  <2>1. stage' = stage /\ blobs' = blobs
    BY <1>1 DEF SpawnBucket
  <2>2. ASSUME stage = "pack", NEW s \in Slices, s < start'
        PROVE  blobs[s] = Want(s) \/ Waiting(s)'
    BY <1>0, <1>b, <1>1, <2>2, SpawnedWaits
  <2> QED
    BY <1>c, <2>1, <2>2
<1>2. ASSUME NEW t \in Threads, PackSlice(t)
      PROVE  PackAccounted'
  <2>1. /\ chunk[t] # {} /\ stage' = stage /\ start' = start
        /\ chunk' = [chunk EXCEPT ![t] = @ \ {Front(t)}]
    BY <1>2 DEF PackSlice
  <2>2. /\ Front(t) \in Slices
        /\ blobs' = [blobs EXCEPT ![Front(t)] = Want(Front(t))]
        /\ blobs \in [Slices -> BlobValues]
    BY <1>2, PackSliceSucceeds DEF Want, IInv
  <2>3. ASSUME stage = "pack", NEW s \in Slices, s < start
        PROVE  blobs'[s] = Want(s) \/ Waiting(s)'
    <3>1. CASE s = Front(t)
      BY <2>2, <3>1
    <3>2. CASE s # Front(t)
      <4>1. blobs'[s] = blobs[s]
        BY <2>2, <3>2
      <4>2. Waiting(s) => Waiting(s)'
        BY <2>1, <3>2, FrontServed
      <4> QED
        BY <1>0, <1>b, <2>3, <4>1, <4>2
    <3> QED
      BY <3>1, <3>2
  <2> QED
    BY <1>c, <2>1, <2>3
<1>3. ASSUME NEW t \in Threads, End(t)
      PROVE  PackAccounted'
  <2>1. chunk' = chunk /\ stage' = stage /\ start' = start /\ blobs' = blobs
    BY <1>3 DEF End
  <2> QED
    BY <1>0, <1>b, <1>c, <2>1 DEF Waiting
<1>4. ASSUME NEW t \in Threads, ForwardSlice(t)
      PROVE  PackAccounted'
  BY <1>4, <1>c DEF ForwardSlice
<1>5. CASE ForwardSerial \/ JoinForward \/ PackSerial \/ JoinPack
  BY <1>5, <1>c DEF ForwardSerial, JoinForward, PackSerial, JoinPack
<1>6. CASE BuildPlaneHuffman
  <2>1. start' = 0
    BY <1>6 DEF BuildPlaneHuffman, IInv, Spawning
  <2>2. \A s \in Slices : ~(s < start')
    BY <2>1 DEF Slices
  <2> QED
    BY <1>c, <2>2
<1>7. CASE Finished \/ UNCHANGED vars
  <2>1. chunk' = chunk /\ stage' = stage /\ start' = start /\ blobs' = blobs
    BY <1>7 DEF Finished, vars
  <2> QED
    BY <1>0, <1>b, <1>c, <2>1 DEF Waiting
<1> QED
  BY <1>1, <1>2, <1>3, <1>4, <1>5, <1>6, <1>7 DEF Next, CallerStep, ThreadStep

\* A stage is left only when its work is complete, and what it has made stays.
LEMMA StagesStep == TypeOK /\ IInv /\ [Next]_vars => StagesDone'
<1> SUFFICES ASSUME TypeOK, IInv, [Next]_vars PROVE StagesDone'
  OBVIOUS
<1> USE DEF StagesDone
<1>0. Predicted' = Predicted /\ PlaneTable' = PlaneTable /\ StagesDone
  BY InputsFixed DEF IInv
<1>1. CASE ForwardSerial
  BY <1>0, <1>1 DEF ForwardSerial, Predicted
<1>2. CASE SpawnBucket
  BY <1>0, <1>2 DEF SpawnBucket
<1>3. CASE JoinForward
  <2>1. \A s \in Slices : residuals[s] = <<content[s]>>
    BY <1>3, JoinedComplete DEF JoinForward, IInv, ForwardAccounted
  <2>2. residuals = [s \in Slices |-> <<content[s]>>]
    BY <2>1 DEF TypeOK
  <2> QED
    BY <1>0, <1>3, <2>2 DEF JoinForward, Predicted
<1>4. CASE BuildPlaneHuffman
  BY <1>0, <1>4 DEF BuildPlaneHuffman, PlaneTable
<1>5. CASE PackSerial \/ JoinPack
  BY <1>0, <1>5 DEF PackSerial, JoinPack
<1>6. CASE \E t \in Threads : ThreadStep(t)
  BY <1>0, <1>6 DEF ThreadStep, ForwardSlice, PackSlice, End
<1>7. CASE Finished \/ UNCHANGED vars
  BY <1>0, <1>7 DEF Finished, vars
<1> QED
  BY <1>1, <1>2, <1>3, <1>4, <1>5, <1>6, <1>7 DEF Next, CallerStep

\* Slots hold what packing makes, and no thread records an error.
LEMMA SlotsStep ==
  TypeOK /\ IInv /\ [Next]_vars =>
    (blobs \in [Slices -> BlobValues] /\ errors = NoError)'
<1> SUFFICES ASSUME TypeOK, IInv, [Next]_vars
             PROVE  blobs' \in [Slices -> BlobValues] /\ errors' = NoError
  BY DEF BlobValues, NoError, Slices
<1>0. blobs \in [Slices -> BlobValues] /\ errors = NoError
  BY DEF IInv
<1>1. ASSUME NEW t \in Threads, PackSlice(t)
      PROVE  blobs' \in [Slices -> BlobValues] /\ errors' = NoError
  <2>1. Pack(PlaneTable, Predicted[Front(t)]) \in BlobValues
    BY <1>1, PackSliceSucceeds, PackedIsBlob
  <2> QED
    BY <1>0, <1>1, <2>1, PackSliceSucceeds
<1>2. CASE ~ \E t \in Threads : PackSlice(t)
  <2>1. blobs' = blobs /\ errors' = errors
    BY <1>2 DEF Next, CallerStep, ThreadStep, Finished, vars, ForwardSerial,
       SpawnBucket, JoinForward, BuildPlaneHuffman, PackSerial, JoinPack,
       ForwardSlice, End
  <2> QED
    BY <1>0, <2>1
<1> QED
  BY <1>1, <1>2

\* Both returns give the serial path's plane.
LEMMA ResultStep == TypeOK /\ IInv /\ [Next]_vars => BytesIndependentOfBudget'
<1> SUFFICES ASSUME TypeOK, IInv, [Next]_vars PROVE BytesIndependentOfBudget'
  OBVIOUS
<1> USE DEF BytesIndependentOfBudget
<1>0. SerialResult' = SerialResult /\ BytesIndependentOfBudget
  BY InputsFixed DEF IInv
<1>1. CASE PackSerial
  <2>1. residuals = Predicted /\ table = PlaneTable
    BY <1>1 DEF PackSerial, IInv, StagesDone
  <2>2. {s \in Slices : ~Packs(table, residuals[s])} = {}
    BY <2>1, EverySymbolCounted
  <2>3. result' = Returned([s \in Slices |-> Pack(table, residuals[s])], NoError)
    BY <1>1, <2>2 DEF PackSerial
  <2> QED
    BY <1>0, <2>1, <2>3, SerialIsPlane DEF Returned
<1>2. CASE JoinPack
  <2>1. table = PlaneTable /\ errors = NoError /\ blobs \in [Slices -> BlobValues]
    BY <1>2 DEF JoinPack, IInv, StagesDone
  <2>2. \A s \in Slices : blobs[s] = Pack(PlaneTable, Predicted[s])
    BY <1>2, JoinedComplete DEF JoinPack, IInv, PackAccounted
  <2>3. blobs = [s \in Slices |-> Pack(PlaneTable, Predicted[s])]
    BY <2>1, <2>2
  <2>4. result' = Returned(blobs, NoError)
    BY <1>2, <2>1 DEF JoinPack
  <2> QED
    BY <1>0, <2>1, <2>3, <2>4, SerialIsPlane DEF Returned
<1>3. CASE ForwardSerial \/ SpawnBucket \/ JoinForward \/ BuildPlaneHuffman
  BY <1>3 DEF ForwardSerial, SpawnBucket, JoinForward, BuildPlaneHuffman
<1>4. CASE \E t \in Threads : ThreadStep(t)
  BY <1>0, <1>4 DEF ThreadStep, ForwardSlice, PackSlice, End
<1>5. CASE Finished \/ UNCHANGED vars
  BY <1>0, <1>5 DEF Finished, vars
<1> QED
  BY <1>1, <1>2, <1>3, <1>4, <1>5 DEF Next, CallerStep

\* A step preserves the invariant.
LEMMA InvStep == TypeOK /\ IInv /\ [Next]_vars => IInv'
BY SpawningStep, ThreadingStep, ForwardStep, PackStep, StagesStep, SlotsStep,
   ResultStep DEF IInv

-----------------------------------------------------------------------------
(* The theorems *)

\* The types of PlaneEncoder hold in every state, and with them the invariant.
THEOREM Correctness == Spec => [](TypeOK /\ IInv)
<1>1. Init => TypeOK /\ IInv
  BY TypeInit, InvInit
<1>2. TypeOK /\ IInv /\ [Next]_vars => (TypeOK /\ IInv)'
  <2>1. IInv => Spawning /\ StagesDone
    BY DEF IInv
  <2> QED
    BY <2>1, TypeStep, InvStep
<1> QED
  BY <1>1, <1>2, PTL DEF Spec

\* The plane encoder is type correct.
THEOREM TypeCorrect == Spec => []TypeOK
BY Correctness, PTL

\* "Output bytes are identical for every budget": whatever the budget and the
\* order of the threads, the plane blob is that of the serial path
\* (encode_frame_with_workers).
THEOREM OutputIdentical == Spec => []BytesIndependentOfBudget
<1>1. IInv => BytesIndependentOfBudget
  BY DEF IInv
<1> QED
  BY <1>1, Correctness, PTL

\* No thread and no serial loop meets a residual that the table of the plane
\* has no code for (pack_slice's error is unreachable from encode_frame).
THEOREM PackingSucceeds == Spec => []PackingNeverFails
<1>1. IInv => PackingNeverFails
  <2>1. SerialResult.kind = "Blob" /\ Pending.kind = "Pending"
    BY SerialIsPlane DEF Pending
  <2>2. IInv => result = Pending \/ result = SerialResult
    BY DEF IInv, StagesDone, BytesIndependentOfBudget
  <2> QED
    BY <2>1, <2>2 DEF IInv, PackingNeverFails
<1> QED
  BY <1>1, Correctness, PTL

\* A slice of the returned plane has data exactly when the plane has more than
\* one symbol, as the decoder demands of the descriptor.
THEOREM DataAsAnnounced == Spec => []DataMatchesDescriptor
<1>1. TypeOK /\ IInv => DataMatchesDescriptor
  <2> SUFFICES ASSUME TypeOK, IInv, result.kind = "Blob", NEW s \in Slices
               PROVE  (result.data[s] = EmptySlot) <=> (result.table.kind = "Single")
    BY DEF DataMatchesDescriptor
  <2>1. result = SerialResult
    BY DEF IInv, StagesDone, BytesIndependentOfBudget, Pending
  <2>2. /\ result.data[s] = Pack(PlaneTable, Predicted[s])
        /\ result.table = PlaneTable
    BY <2>1, SerialIsPlane
  <2>3. Predicted[s] # EmptySlot
    BY DEF Predicted, EmptySlot
  <2> QED
    BY <2>2, <2>3 DEF Pack, NoData, EmptySlot
<1> QED
  BY <1>1, Correctness, PTL

-----------------------------------------------------------------------------
(* Prediction: where pixels lie *)

\* Pixel k of a slice, by its row and column; the pixels it is predicted from
\* come before it.
LEMMA PixelGeometry ==
  ASSUME NEW k \in Nat
  PROVE  /\ Row(k) \in Nat /\ Column(k) \in 0 .. Width - 1
         /\ Row(k) = 0 \/ k >= Width
         /\ Row(k) = 0 \/ Row(k) = 1 \/ k >= 2 * Width
         /\ Row(k) = 0 \/ Column(k) = 0 \/ k >= Width + 1
         /\ Column(k) = 0 => /\ Row(k) * Width - 1 = k - 1
                            /\ (Row(k) - 1) * Width - 1 = k - Width - 1
<1> DEFINE r == k \div Width
           c == k % Width
<1>1. Width \in Nat \ {0}
  BY PredictAssumption
<1>2. r \in Nat /\ c \in 0 .. Width - 1 /\ k = Width * r + c
  BY <1>1
<1> HIDE DEF r, c
<1>3. r = 0 \/ (r >= 1 /\ Width * r >= Width)
  <2>1. CASE r >= 1
    <3>1. Width * r >= Width * 1
      BY <1>1, <1>2, <2>1, MulMono
    <3> QED
      BY <1>1, <2>1, <3>1
  <2> QED
    BY <1>2, <2>1
<1>4. r = 0 \/ r = 1 \/ Width * r >= Width * 2
  <2>1. CASE r >= 2
    BY <1>1, <1>2, <2>1, MulMono
  <2> QED
    BY <1>2, <2>1
<1>5. Width * r \in Nat /\ Width * r = r * Width /\ (r - 1) * Width = r * Width - Width
  BY <1>1, <1>2
<1>6. Row(k) = r /\ Column(k) = c
  BY DEF Row, Column, r, c
<1> QED
  BY <1>1, <1>2, <1>3, <1>4, <1>5, <1>6

\* The pixels of a slice are pixels of the plane.
LEMMA SliceInPlane ==
  ASSUME NEW s \in SliceIds
  PROVE  /\ StripSize(s) \in Nat
         /\ First(s) * Width \in Nat
         /\ \A k \in Strip(s) : First(s) * Width + k \in Pixels
<1>1. /\ Width \in Nat \ {0} /\ PlaneHeight \in Nat /\ SliceCount \in Nat \ {0}
      /\ s \in Nat /\ s + 1 \in Nat /\ s + 1 <= SliceCount
  BY PredictAssumption DEF SliceIds
<1>2. /\ First(s) \in Nat /\ Rows(s) \in Nat
      /\ First(s) + Rows(s) = RowStart(PlaneHeight, SliceCount, s + 1)
  BY <1>1, RowCountNat, RowStartMonotone DEF First, Rows
<1>3. RowStart(PlaneHeight, SliceCount, s + 1) <= PlaneHeight
  BY <1>1, RowStartMonotone, SlicesSpanPlane
<1> DEFINE f == First(s)
           n == Rows(s)
<1> HIDE DEF f, n
<1>4. f \in Nat /\ n \in Nat /\ f + n <= PlaneHeight
  BY <1>2, <1>3 DEF f, n
<1>5. Width * (f + n) <= Width * PlaneHeight
  BY <1>1, <1>4, MulMono
<1>6. /\ n * Width \in Nat /\ f * Width \in Nat /\ Width * PlaneHeight \in Nat
      /\ Width * (f + n) = f * Width + n * Width
  BY <1>1, <1>4
<1>7. ASSUME NEW k \in 0 .. n * Width - 1
      PROVE  f * Width + k \in 0 .. Width * PlaneHeight - 1
  BY <1>5, <1>6, <1>7
<1> QED
  BY <1>6, <1>7 DEF f, n, StripSize, Strip, Pixels

-----------------------------------------------------------------------------
(* The invariant *)

Shape == /\ strips = [s \in SliceIds |-> strips[s]]
         /\ filled \in [SliceIds -> Nat]

PredictInv ==
  /\ Shape
  /\ PredictTypeOK
  /\ Lossless
  /\ \A s \in SliceIds : left[s] = Before(s, filled[s])

\* The seed is a sample.
LEMMA SeedIsSample == Seed \in Samples /\ 0 \in Samples
  BY PredictAssumption DEF Seed, Samples

LEMMA PredictInvInit == PredictInit => PredictInv
<1> SUFFICES ASSUME PredictInit PROVE PredictInv
  OBVIOUS
<1>1. Shape
  BY DEF PredictInit, Shape
<1>2. PredictTypeOK
  BY SeedIsSample, SliceInPlane DEF PredictInit, PredictTypeOK
<1>3. Lossless
  BY DEF PredictInit, Lossless, Strip
<1>4. \A s \in SliceIds : left[s] = Before(s, filled[s])
  BY DEF PredictInit, Before
<1> QED
  BY <1>1, <1>2, <1>3, <1>4 DEF PredictInv

\* The decoder predicts a pixel as the encoder did: all it reads is written,
\* and the register holds the pixel before.
LEMMA SamePrediction ==
  ASSUME PredictInv, NEW s \in SliceIds, filled[s] < StripSize(s)
  PROVE  /\ InversePrediction(s, filled[s]) = ForwardPrediction(s, filled[s])
         /\ ForwardPrediction(s, filled[s]) \in Int
<1> DEFINE k == filled[s]
<1>1. k \in Nat /\ k \in Strip(s) /\ Width \in Nat \ {0}
  BY SliceInPlane, PredictAssumption DEF PredictInv, Shape, Strip
<1>2. /\ predictor \in Predictors
      /\ Depth \in Nat \ {0} /\ Samples \subseteq Int
  BY PredictAssumption DEF PredictInv, PredictTypeOK, Samples
<1>3. ASSUME NEW i \in Nat, i < k
      PROVE  strips[s][i] = Sample(s, i) /\ Sample(s, i) \in Int
  <2>1. i \in Strip(s)
    BY <1>1, <1>3, SliceInPlane DEF Strip
  <2>2. strips[s][i] = Sample(s, i)
    BY <1>3, <2>1 DEF PredictInv, Lossless
  <2>3. strips[s][i] \in Samples
    BY <2>1 DEF PredictInv, PredictTypeOK
  <2> QED
    BY <1>2, <2>2, <2>3
<1>4. left[s] = Before(s, k) /\ left[s] \in Int
  BY <1>2 DEF PredictInv, PredictTypeOK
<1> HIDE DEF k
<1>5. k # 0 => Before(s, k) = Sample(s, k - 1)
  BY DEF Before
<1>6. /\ Row(k) \in Nat /\ Column(k) \in 0 .. Width - 1
      /\ Row(k) = 0 \/ k >= Width
      /\ Row(k) = 0 \/ Row(k) = 1 \/ k >= 2 * Width
      /\ Row(k) = 0 \/ Column(k) = 0 \/ k >= Width + 1
      /\ Column(k) = 0 => /\ Row(k) * Width - 1 = k - 1
                         /\ (Row(k) - 1) * Width - 1 = k - Width - 1
  BY <1>1, PixelGeometry
<1>7. Row(k) # 0 =>
        /\ strips[s][k - Width] = Above(s, k) /\ Above(s, k) \in Int
        /\ left[s] = Sample(s, k - 1) /\ strips[s][k - 1] = Sample(s, k - 1)
        /\ Sample(s, k - 1) \in Int
  <2> SUFFICES ASSUME Row(k) # 0
               PROVE  /\ strips[s][k - Width] = Above(s, k) /\ Above(s, k) \in Int
                      /\ left[s] = Sample(s, k - 1) /\ strips[s][k - 1] = Sample(s, k - 1)
                      /\ Sample(s, k - 1) \in Int
    OBVIOUS
  <2>1. /\ k - Width \in Nat /\ k - Width < k
        /\ k - 1 \in Nat /\ k - 1 < k /\ k # 0
    BY <1>1, <1>6
  <2> QED
    BY <1>3, <1>4, <1>5, <2>1 DEF Above
<1>8. Row(k) # 0 /\ (Row(k) # 1 \/ Column(k) # 0) =>
        strips[s][k - Width - 1] = Corner(s, k) /\ Corner(s, k) \in Int
  <2> SUFFICES ASSUME Row(k) # 0, Row(k) # 1 \/ Column(k) # 0
               PROVE  strips[s][k - Width - 1] = Corner(s, k) /\ Corner(s, k) \in Int
    OBVIOUS
  <2>1. k - Width - 1 \in Nat /\ k - Width - 1 < k
    BY <1>1, <1>6
  <2> QED
    BY <1>3, <2>1 DEF Corner
<1>9. ASSUME NEW a \in Int, NEW b \in Int, NEW c \in Int
      PROVE  Gradient(a, b, c) \in Int /\ Med(a, b, c) \in Int
  <2>1. Add(a, b) \in Int
    BY <1>2 DEF Add
  <2>2. Gradient(a, b, c) \in Int
    BY <1>2, <2>1 DEF Gradient, Sub
  <2> QED
    BY <2>2 DEF Med, Median3, Larger, Lesser
<1>10. CASE predictor = "None"
  BY <1>10 DEF InversePrediction, ForwardPrediction, k
<1>11. CASE predictor = "Left"
  BY <1>4, <1>11 DEF InversePrediction, ForwardPrediction, k
<1>12. CASE predictor = "Gradient"
  <2>1. CASE Row(k) = 0
    BY <1>4, <1>12, <2>1 DEF InversePrediction, ForwardPrediction, k
  <2>2. CASE Row(k) # 0 /\ Column(k) = 0
    BY <1>7, <1>12, <2>2 DEF InversePrediction, ForwardPrediction, k
  <2>3. CASE Row(k) # 0 /\ Column(k) # 0
    BY <1>7, <1>8, <1>9, <1>12, <2>3 DEF InversePrediction, ForwardPrediction, k
  <2> QED
    BY <2>1, <2>2, <2>3
<1>13. CASE predictor = "Median"
  <2>1. CASE Row(k) = 0
    BY <1>4, <1>13, <2>1 DEF InversePrediction, ForwardPrediction, k
  <2>2. CASE Row(k) = 1 /\ Column(k) = 0
    BY <1>7, <1>13, <2>2 DEF InversePrediction, ForwardPrediction, k
  <2>3. CASE Row(k) # 0 /\ Row(k) # 1 /\ Column(k) = 0
    BY <1>6, <1>7, <1>8, <1>9, <1>13, <2>3 DEF InversePrediction, ForwardPrediction, k
  <2>4. CASE Row(k) # 0 /\ Column(k) # 0
    BY <1>7, <1>8, <1>9, <1>13, <2>4 DEF InversePrediction, ForwardPrediction, k
  <2> QED
    BY <2>1, <2>2, <2>3, <2>4
<1> QED
  BY <1>2, <1>10, <1>11, <1>12, <1>13 DEF Predictors, k

\* One pixel of one slice keeps the invariant.
LEMMA ApplyKeeps ==
  ASSUME PredictInv, NEW t \in SliceIds, Apply(t)
  PROVE  PredictInv'
<1> DEFINE n == filled[t]
           sample == Add(Residual(t, n), InversePrediction(t, n))
<1>1. /\ n \in Nat /\ n < StripSize(t) /\ n \in Strip(t) /\ StripSize(t) \in Nat
      /\ UNCHANGED <<predictor, plane>>
  BY SliceInPlane DEF Apply, PredictInv, Shape, Strip
<1>2. Sample(t, n) \in Samples
  BY <1>1, SliceInPlane DEF PredictInv, PredictTypeOK, Sample
<1>3. sample = Sample(t, n)
  <2>1. /\ Depth \in Nat \ {0} /\ Sample(t, n) \in 0 .. Depth - 1
        /\ InversePrediction(t, n) = ForwardPrediction(t, n)
        /\ ForwardPrediction(t, n) \in Int
    BY <1>1, <1>2, SamePrediction, PredictAssumption DEF Samples
  <2>2. sample = (((Sample(t, n) - ForwardPrediction(t, n)) % Depth)
                   + ForwardPrediction(t, n)) % Depth
    BY <2>1 DEF Residual, Add, Sub
  <2> HIDE DEF sample
  <2> QED
    BY <2>1, <2>2, WrapCancel
<1>4. /\ strips' = [strips EXCEPT ![t][n] = sample]
      /\ left' = [left EXCEPT ![t] = sample]
      /\ filled' = [filled EXCEPT ![t] = n + 1]
  BY DEF Apply
<1> HIDE DEF n, sample
<1>5. ASSUME NEW u \in SliceIds
      PROVE  /\ strips'[u] = IF u = t THEN [strips[t] EXCEPT ![n] = Sample(t, n)]
                            ELSE strips[u]
             /\ left'[u] = IF u = t THEN Sample(t, n) ELSE left[u]
             /\ filled'[u] = IF u = t THEN n + 1 ELSE filled[u]
  BY <1>3, <1>4 DEF PredictInv, Shape, PredictTypeOK
<1>6. ASSUME NEW u \in SliceIds, NEW i
      PROVE  Sample(u, i)' = Sample(u, i)
  BY <1>1 DEF Sample
<1>7. Shape'
  <2>1. filled' \in [SliceIds -> Nat]
    BY <1>1, <1>4 DEF PredictInv, Shape
  <2>2. strips' = [s \in SliceIds |-> strips'[s]]
    <3> DEFINE new == [strips[t] EXCEPT ![n] = sample]
    <3>1. strips' = [strips EXCEPT ![t] = new]
      BY <1>4
    <3> HIDE DEF new
    <3>2. strips = [s \in SliceIds |-> strips[s]]
      BY DEF PredictInv, Shape
    <3> QED
      BY <3>1, <3>2
  <2> QED
    BY <2>1, <2>2 DEF Shape
<1>8. PredictTypeOK'
  <2>1. ASSUME NEW u \in SliceIds
        PROVE  strips'[u] \in [Strip(u) -> Samples] /\ filled'[u] \in 0 .. StripSize(u)
    <3>1. CASE u = t
      BY <1>1, <1>2, <1>5, <3>1 DEF PredictInv, PredictTypeOK
    <3>2. CASE u # t
      BY <1>5, <3>2 DEF PredictInv, PredictTypeOK
    <3> QED
      BY <3>1, <3>2
  <2>2. left' \in [SliceIds -> Samples]
    BY <1>2, <1>3, <1>4 DEF PredictInv, PredictTypeOK
  <2> QED
    BY <1>1, <2>1, <2>2 DEF PredictInv, PredictTypeOK
<1>9. Lossless'
  <2> SUFFICES ASSUME NEW u \in SliceIds, NEW i \in Strip(u)
               PROVE  strips'[u][i] = IF i < filled'[u] THEN Sample(u, i)' ELSE 0
    BY DEF Lossless
  <2>1. /\ strips[u][i] = IF i < filled[u] THEN Sample(u, i) ELSE 0
        /\ i \in Nat /\ strips[u] \in [Strip(u) -> Samples]
    BY SliceInPlane DEF PredictInv, Lossless, PredictTypeOK, Strip
  <2>2. CASE u = t
    <3>1. filled[t] = n /\ filled'[u] = n + 1
      BY <1>5, <2>2 DEF n
    <3>2. CASE i = n
      BY <1>1, <1>5, <1>6, <2>1, <2>2, <3>1, <3>2
    <3>3. CASE i # n
      BY <1>1, <1>5, <1>6, <2>1, <2>2, <3>1, <3>3
    <3> QED
      BY <3>2, <3>3
  <2>3. CASE u # t
    BY <1>5, <1>6, <2>1, <2>3
  <2> QED
    BY <2>2, <2>3
<1>10. \A u \in SliceIds : left'[u] = Before(u, filled[u])'
  <2> SUFFICES ASSUME NEW u \in SliceIds
               PROVE  left'[u] = Before(u, filled[u])'
    OBVIOUS
  <2>1. CASE u = t
    <3>1. filled'[u] = n + 1 /\ n + 1 # 0 /\ (n + 1) - 1 = n
      BY <1>1, <1>5, <2>1
    <3> QED
      BY <1>5, <1>6, <2>1, <3>1 DEF Before
  <2>2. CASE u # t
    BY <1>5, <1>6, <2>2 DEF Before, PredictInv
  <2> QED
    BY <2>1, <2>2
<1> QED
  BY <1>7, <1>8, <1>9, <1>10 DEF PredictInv

LEMMA PredictInvariance == PredictSpec => []PredictInv
<1>1. PredictInv /\ [PredictNext]_predictVars => PredictInv'
  <2> SUFFICES ASSUME PredictInv, [PredictNext]_predictVars PROVE PredictInv'
    OBVIOUS
  <2>1. CASE UNCHANGED predictVars
    BY <2>1 DEF PredictInv, Shape, PredictTypeOK, Lossless, Before, Sample, predictVars
  <2>2. ASSUME NEW s \in SliceIds, Apply(s) PROVE PredictInv'
    BY <2>2, ApplyKeeps
  <2> QED
    BY <2>1, <2>2 DEF PredictNext, Done
<1> QED
  BY <1>1, PredictInvInit, PTL DEF PredictSpec

\* Every state of the model has its type: no strip is written outside its
\* rows, and every sample stays a byte (PredictTypeOK).
THEOREM PredictTypeCorrect == PredictSpec => []PredictTypeOK
<1>1. PredictInv => PredictTypeOK
  BY DEF PredictInv
<1> QED
  BY <1>1, PredictInvariance, PTL

\* Prediction is lossless and in place at every moment, for every width,
\* height, slice count and sample depth, and however the slices interleave
\* (Lossless).
THEOREM LosslessPrediction == PredictSpec => []Lossless
<1>1. PredictInv => Lossless
  BY DEF PredictInv
<1> QED
  BY <1>1, PredictInvariance, PTL
=============================================================================
