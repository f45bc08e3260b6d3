# A verification development for oxideav-utvideo

TLA+ models of the Ut Video codec crate, TLC configurations that check them on
small instances, and proofs that TLAPS checks for every value of the constants.
The repository is in `src/`, so its crate's modules are `src/src/*.rs` here and in
`PROJECT.json`; the comments in the TLA+ modules give paths inside the repository.

To check a run: `tlc -config X.cfg M`. To check a proof module: `tlapm M.tla`.
`PROJECT.json` lists the runs, the source lines every definition models, for
every property a mutation of the code that breaks it, the hazards the properties
are aimed at, and the theorems.


## 1. The system

The crate encodes and decodes Ut Video 8-bit frames. A frame has 3 or 4 planes;
a plane is cut into 1 to 256 slices, horizontal bands that are predicted and
packed independently; one canonical Huffman table serves a whole plane.

    encode:  frame -> RGB decorrelation -> per plane: predict (threads)
             -> histogram -> build_lengths -> HuffmanTable::build
             -> pack_slice (threads) -> payload
    decode:  payload -> parse_payload (tables, slice extents) -> per plane:
             decode_slice + apply_slice (threads) -> RGB recorrelation -> frame
    inspect: payload -> peek_frame (layout, no codebook)
    trait:   send_frame / receive_packet,  send_packet / receive_frame

| component | source | state | operations |
|---|---|---|---|
| plane decoding | `src/src/decoder.rs` 447-625 | output buffer cut into strips, chunks of work, `Mutex<Option<(usize, Error)>>`, a thread per chunk | `decode_plane_serial`, `decode_plane_parallel`, `decode_plane_serial_strict` |
| payload parsing | `src/src/decoder.rs` 219-343 | cursor, plane slices | `parse_payload` |
| frame decoding | `src/src/decoder.rs` 82-199, 345-458 | the planes decoded so far | `decode_frame`, `decode_frame_with_workers`, `decode_frame_strict` |
| frame encoding | `src/src/encoder.rs` 89-238, 488-506 | none | `encode_frame`, `prepare_planes`, `apply_rgb_decorrelate`, `assemble_payload` |
| plane encoding | `src/src/encoder.rs` 243-352, 471-590 | residual and packed slots, dealt to threads | `forward_parallel`, `build_plane_huffman`, `encode_plane_parallel` |
| code lengths | `src/src/encoder.rs` 356-468 | none (pure) | `build_lengths` (package-merge) |
| Huffman table | `src/src/huffman.rs` 85-190, 460-512 | codes, lookup table, tiers | `HuffmanTable::build` |
| slice stream | `src/src/huffman.rs` 191-448, 514-650 | `acc`, `acc_len`, next word, bit cursor, pixels | `decode_slice`, `decode_slice_strict` |
| packer | `src/src/encoder.rs` 471-486, `src/src/huffman.rs` 655-727 | pending word, bits in it | `pack_slice`, `BitWriter::write_code`, `finish` |
| prediction | `src/src/predict.rs` | a strip being filled, the sample to the left | `forward_slice`, `apply_slice`, `choose_predictor` |
| inspector | `src/src/inspect.rs` | cursor, counts of a descriptor, layout | `peek_frame`, `peek_frame_info`, `kraft_numerator`, `is_kraft_complete`, `total_size`, `total_pixels`, ... |
| registry | `src/src/registry.rs` | one pending packet each, `eof`, configuration, pinned predictor | `make_encoder`, `make_decoder`, `send_*`, `receive_*`, `flush`, `configure`, `set_predictor` |
| identification | `src/src/fourcc.rs` | none | parsing and validation of FourCC, extradata, stream configuration |
| errors | `src/src/error.rs` | none | `category` |

**How they interact.** Everything is a call with owned data, with three
exceptions. The scoped thread pools share a mutex (the decoder's error slot) and
disjoint `&mut` strips of one buffer. The trait objects keep a packet between
two calls. The inspector repeats `parse_payload` by hand, so two pieces of code
have to agree with nothing but tests between them.

**What is hard here**, and which property each part has to have:

- *Threads.* Several slices may fail on different threads in any order; the
  caller must get the outcome the serial loop gives, and a plane is returned only
  if every row was written by its own slice. The encoder's bytes must not depend
  on the budget, although the histogram sits between two pools.
- *Rounding.* Row boundaries `ph * s / n`, chunk sizes rounded up, empty last
  chunks, slices without rows: no row and no slice may be lost or shared.
- *The bit register.* A fast loop reads through a two-word register, a slow loop
  takes over at a bit position, a scan follows in strict mode; together they must
  read one code after another and nothing else.
- *Codes.* Descriptors come from the payload: what `build` accepts must decode
  every stream in one way, and the shortcuts of the inspector must agree with it.
- *Code lengths.* Package-merge is right only if the merge orders, the pairing and
  the number of nodes taken all fit together; a slip costs bits or a refused frame
  for some histograms only.
- *Two ends of a stream.* What the encoder publishes must make the same
  configuration again, and every frame must come back through it, colours included.
- *Cursors.* A payload names its own lengths; every byte must be used once.
- *Two walks.* Decoder and inspector check the same things in another order.
- *Prediction.* Encoder and decoder compute it from different buffers, with wraps.
- *One-slot protocols.* Calls in any order, refused calls, failing packets,
  reconfiguration, a flush while a packet waits: every frame must be answered for once,
  and decoded as the stream configured at that moment.


## 2. What models what

### Planes and threads

`SlicePartition` holds the row formula and the dealing of work units to
threads (`chunk_size = ceil(units / threads)`), used by every other module here.

`PlaneDecode` is the abstract specification of decoding one plane: within one
call, either all rows of the plane become what their own slice decodes to, or
the error of the lowest-numbered failing slice is the answer. `verdict[s]`, what
`decode_slice` says of slice `s`'s bytes, is the input.

`PlaneDecoder` is `finish_decode`'s choice for a plane, the serial loop and
the pool. The calling thread's program counter goes through the cutting of the
strips (`split_at_mut`, one slice per step), the dealing into chunks, the
spawning (one thread per step), the join at the end of the scope, and the read
of the error slot. Each worker takes the next slice of its chunk, decodes, and on
an error takes the mutex, keeps the lower index and goes on. The property
`ImplementsPlaneDecode` is the refinement.

`PlaneEncoder` is one plane of `encode_frame_parallel`: pool one (prediction),
the histogram and the descriptor's three shapes on the calling thread, pool two
(packing). A slice's residuals are the set of symbols they use.

`PlanePredict` is `forward_slice` against `apply_slice` for None, Left,
Gradient and Median, one pixel a step, the slices interleaved. The encoder's side
is a function of the whole plane; the decoder's side reads its own strip and the
`left` register, as the code does.

### Streams and frames

`StreamSetup` is `src/src/fourcc.rs` as operators (planes and their sizes, the
constraints, extradata, the predictor bits) and the two factories of the registry
from a container's parameters to a configuration, and back to the parameters that the
encoder publishes.

`FrameEncoder` is `send_frame`'s repacking of padded planes and `encode_frame`:
the checks of `prepare_planes` in their order, the colour transform, the rows each
slice gets, `frame_info`. `FrameDecoder` is the other direction, an action per plane:
the payload is parsed first, planes follow one another, the first slice with an
error ends the call, the colours come last; `strict` tells the two entries apart.
Each plane takes one step to the outcome that `PlaneDecode` promises, so the choice
`decode_frame_with_workers` makes between the paths by the frame's size is already
answered by `PlaneDecoder`. `Category` is `Error::category`.

`FrameCodec` composes them: both factories, a frame through the trait object or handed
over directly, a container that damages the payload in up to `MaxProblems` places, one
decode. It also takes payloads of an encoder without this crate's cap on slices, the
only source of slices without rows. A plane of samples is one `shade`: the colour
transform works pixel by pixel, and prediction is `PlanePredict`'s matter. What the
parser says of a damaged payload is an input here and `PayloadParser`'s there.

### Codes and bits

`PackageMerge` is `build_plane_huffman` and `build_lengths`: the histogram is the
initial state, each level of the merge is a step. `Taken` counts how many of the first
m nodes of a merged list are packages, as the two-pointer loop does. The references are all
the complete codes over the alphabet, which TLC enumerates.

`HuffmanTable` gives `build` as an operator: the single-symbol sentinel (length 0),
the unused one, the length limit, the Kraft check in its order, the canonical
numbering from the longest code up, and the tiers. The lookup table and the tier
search are modelled by what they find. `OneCodeFirst` is what a codebook has to be:
codes are made of bits, and whatever the bits, exactly one code comes first. `HuffmanDescriptor` enumerates descriptors and
runs beside `build` the two arithmetics of the inspector, step by step:
`kraft_numerator` with its saturation, `is_kraft_complete` with its merge. Both work on
what the one pass of `peek_frame` over the descriptor keeps (`SeeByte`), counts and all.

`SymbolStream` is the abstract specification of a slice: one code after another
until there are enough pixels or no code fits. `SliceDecoder` is
`decode_slice_inner`: entry checks, load of the register, lookup, tiers, hand-over
to the bit reader, strict scan of the tail by bits and then by words.
`SliceDecoderMC` supplies codebooks and slices and states the refinement.

`SlicePacker` is `pack_slice` over `BitWriter`. `SliceRoundTrip` extends `SliceDecoder`
with an instance of it whose words are the stream that is then decoded, by either
entry.

### Payloads

`ChunkWalk` is the part that `parse_payload` and `peek_frame` have in common, over the
sizes in `ChunkFormat`. `PayloadParser` and `FramePeek` each add where they look
at the descriptor, and `FramePeek` what a caller can ask of the layout: rows and pixels
per slice, sums of sizes. `ChunkInspect` runs both walks on the same payload.

### Trait objects

`TraitEncoder` and `TraitDecoder` are the two objects, an action per call and
outcome; what a frame or packet holds is left to `FrameCodec`. `CodecSession` drives
both through a container that may damage packets. The encoder has one stream for life
(`Own`); the decoder's `config` is one of `Streams` or `NoStream`, and each `configure()`
that succeeds replaces it, also while a packet waits in the slot. A packet is compared
with the configuration when `receive_frame` decodes it. Nothing in a payload names its
stream: under another one it may be refused, or give a frame of that other
stream (4:4:4 read as RGB, or at a smaller size), so `Decoded` allows both.
The caller flushes the encoder after its last frame, whether or not the packet of that frame
has been fetched, and the decoder once the encoder has said Eof and the
container is empty, whether or not a packet waits in its slot. A caller that flushed the decoder
earlier would be told Eof with packets still to come; the framework asks for none of that.

### Proofs

A module `XProofs` holds the invariant, the lemmas and the theorems about `X`
(`SliceProofs` those about `SliceDecoderMC` and `SliceRoundTrip`, `PlaneEncoderProofs` also
those about `PlanePredict`, its first stage, and `FrameCodecProofs` also those about
`CodecSession`, a session of such frames). `SlicePartitionProofs`
also has what the others cite: division, remainders, least elements, the rows of a
slice, the bucket of a work unit, and the mathematics of codes: induction, powers of
two, recursive functions, sums over finite sets.


## 3. The runs

| run | question | result |
|---|---|---|
| `plane_decoder` | Is the result of a plane the same under every budget, schedule and pattern of failing slices? Does the call end? | yes; both paths implement `PlaneDecode` |
| `plane_encoder` | Are a plane's bytes the same under every budget and schedule? | yes; packing never meets a symbol without a code |
| `codec_session` | Is every frame answered for once and in order, and decoded as the stream configured at that moment, whatever the calls? Does the answer come in the end, and Eof after a flush? | yes |
| `huffman_descriptor` | Is what `build` accepts a complete prefix code? Do the inspector's two arithmetics agree with it, and do its counts describe the descriptor? | yes, in the way `CompletenessDecided` and `StatsDescribe` say |
| `huffman_descriptor_doc` | Does a false `is_kraft_complete` mean that the decoder refuses, as the comment says? | no (finding 1) |
| `slice_decoder` | Do the register, the loops and the scan implement `SymbolStream` on every slice? | yes |
| `slice_round_trip` | Do both entries of the decoder read back what the packer writes? | yes, without a spare word |
| `chunk_inspect` | Is every byte of an accepted payload used once, do both walks accept the same payloads, and do the layout's sums come out? | yes; they also agree on the error but for the case of finding 2 |
| `chunk_inspect_doc` | Do both walks give the same error, as the comment says? | no (finding 2) |
| `plane_predict` | Does inverse prediction restore the samples? | yes |
| `code_lengths` | Is the code of every histogram complete, within the cap, and the best there is? | yes |
| `frame_codec` | Do the two ends agree on a stream, do frames come back, and does an error name the first problem and the right side? | yes |

**Bounds, and why they are enough.**

- `plane_decoder`: 4 slices over 3 rows, so slice 0 has no rows. The budgets 0
  and 1 are serial, 2 gives two chunks of two, 3 gives chunks of two and an
  empty third, 4 a slice per thread, 6 is clamped. Two errors tell the lower one
  from the other. All verdict patterns and schedules.
- `plane_encoder`: 4 slices and the same budgets. A slice uses {a}, {c} or {a, b}: a
  plane can have one symbol, or several that no single slice has all of.
- `codec_session`: 3 frames, so that one can be in the encoder, one in
  the container and one in the decoder; 2 predictors tell a pinned one from the
  heuristic's; the decoder starts without a stream, with the encoder's or with
  another one. The caller may call anything any number of times, refused or not.
- `huffman_descriptor`: all descriptors over 5 symbols with lengths 0 to 5 and
  unused (6). Words of 3 bits and a numerator of 4 make every overflow happen:
  a code longer than a word, a term too wide, a sum too wide.
- `slice_decoder`: words of 4 bits, a lookup of 2, up to 3 words (two fill the
  register, the third is loaded over what is left). Six descriptors, five of which `build`
  accepts: lengths 1 to 4, from inside the lookup to a whole word; 2 and 3; two codes of
  one bit; a single symbol; no symbol. The sixth leaves code space free and is refused. Every
  bit pattern, so every damaged slice, for 0 and for 5 pixels.
- `slice_round_trip`: the same words, 8 codebooks, every sequence of up to 4
  residuals: codes end at, before and across word boundaries.
- `chunk_inspect`: 2 planes of 2 slices, table entries 0, 4, 6 and 8 in any
  order (rising, falling, equal, unaligned), 5 kinds of descriptor, every size
  from 0 to one past the largest payload these can describe. The planes are those of
  4:2:0 at 10 by 6, with 4-bit pixel counts: the luma's overflow, the chroma's do not.
- `plane_predict`: 2 columns and 5 rows in 2 slices: a first, a second and a
  third row, in a slice that does not start the plane. One-bit samples wrap at
  every addition; the proof covers every depth.

The parameters stand for numbers in the code: words of 32 bits, a lookup of 12,
256 symbols, 255 as the unused length, a 128-bit numerator, 256-byte
descriptors. The code's text does not depend on them except through these names.

- `code_lengths`: 5 symbols with counts 0 to 5, so ties and skewed histograms; caps of 2, too
  small for the whole alphabet, 3, which binds, and 4, which does not. The references are all complete codes over the 5 symbols.
- `frame_codec`: for the factories, every combination of tag, pixel format,
  sides 0 to 2 or none, and 8 extradata blocks (each check failing, too short, too
  long, none, 1, 2 and 256 slices). Eight streams are followed to a frame: all five
  FourCCs, slices that fit, that fit the luma only, and that do not. Samples wrap at
  3, so that adding and subtracting differ. Two problems in one payload, so that the
  order of planes and of slices shows. Strides one short, tight and one over;
  planes a byte short, exact and a byte over; a plane missing.

**Fairness.** `PlaneDecoder` and `PlaneEncoder` assume weak fairness of the calling
thread and of every worker: these are OS threads that wait only for a join or for
the mutex, each step is finite computation, and the mutex is held for
a comparison and an assignment, so a thread that can run eventually does. Weak
fairness of the whole worker is enough because no lock is fought over forever:
each worker takes it at most once per slice. `CodecSession` assumes weak
fairness only of what the caller does to pull and push frames, since the
framework's pump retries; nothing is assumed of configuration, damage, or
calls that are refused. The other specifications are checked for safety only;
they are sequential loops over finite data.

`CodecSession` may stop: a caller that has ended the stream need not call again,
so deadlock is not checked there. It is in every other run: terminated states have
an explicit self-loop.


## 4. Findings

Both are disagreements between a comment and the code, met while
modelling. Neither makes the decoder accept a wrong payload.

1. `src/src/inspect.rs:507-518` says that `HuffmanTable::build` rejects every
   plane whose `is_kraft_complete` is false, and names the descriptor of 256 unused
   symbols. `build` returns `Ok` with an empty table for that one
   (`src/src/huffman.rs:125-137`). Run `huffman_descriptor_doc`.
2. `src/src/inspect.rs:46-47` promises the error the decoder would give at
   the same point of the walk. For a single-symbol plane whose announced data is
   also cut off, `peek_frame` says `SingleSymbolPlaneHasSliceData` and
   `parse_payload` says `ChunkTooShort`, because they test the two in opposite order.
   Run `chunk_inspect_doc`; `WalksAgree` in `chunk_inspect` shows that this is the
   only kind of case, but for codebooks, which the inspector does not build.

Further comments the code does not bear out, noted here without a run of their own:

- `src/src/inspect.rs:387-391` says that `total_pixels` equals width times height for
  every well-formed plane. The counts it sums are 32-bit products
  (`src/src/inspect.rs:870`) of dimensions that nothing bounds: a release build
  wraps them (a debug build panics). `LayoutAddsUp` states the equality with that
  condition.
- `src/src/inspect.rs:398-403` says that `unused_symbol_count` mirrors the count of 255
  entries. A descriptor with a 0 beside other lengths, or with several, has
  fewer. The decoder refuses those, and `StatsDescribe` states the equality for
  descriptors it accepts.
- `src/src/inspect.rs:618-626` repeats finding 1 for `all_planes_kraft_complete`.
- `src/src/error.rs:280-284` counts a zero width or height as API misuse;
  `category` says `StreamShape` for it, as for every dimension constraint
  (`src/src/error.rs:340`).
- `src/src/registry.rs:274-276` says that an extradata block comes back byte for byte.
  Anything after its sixteenth byte is dropped (`Parse`).


## 5. What is proved

All proofs are complete. The only assumptions are on the constants, named beside
their declarations, and TLC evaluates them in the runs:

| assumption | says | because |
|---|---|---|
| `PlaneAssumption`, `EncoderAssumption`, `FormatAssumption` | at least one slice (and plane, and descriptor byte); a natural height; a slice's residuals are not none; `Ok` is no error | extradata stores the slice count less one; a slice without rows is packed as an empty one elsewhere (`FrameCodec`) |
| `BudgetAssumption`, `SessionAssumption`, `InspectAssumption`, `DecoderAssumption`, `CodecAssumption` | budgets, frame counts, sizes, dimensions, slice ends and pixel counts are naturals; the inputs tried are inputs; the encoder's stream is a stream, and none is not | they are `usize` and `u32` in the code |
| `PredictAssumption`, `DepthAssumption`, `PicturesAssumption` | at least one column and slice; a positive depth; samples below it | 256 values in the code |
| `CapAssumption` | the caps are lengths the table takes; a natural number of occurrences | 16 in the code, where the table takes 32 |
| `ParamsAssumption`, `AbsentAssumption` | sides are numbers or absent, an extradata block has its fields, "absent" is no FourCC | the types of `CodecParameters` |
| `TableAssumption` | words and lookups of at least a bit, the lookup within a word, the unused length above a word | 32, 12 and 255 |
| `LengthsAssumption`, `ResidualsAssumption` | the descriptors are arrays of lengths; a natural number of residuals | `[u8; 256]`, `usize` |

| module | theorem | says, for every value of the constants |
|---|---|---|
| `SlicePartitionProofs` | `SlicesPartitionPlane` | the slices' row ranges make up the plane's rows and no two overlap, also with more slices than rows |
| | `BucketExists` | every work unit goes to exactly one thread that is spawned |
| `PlaneDecoderProofs` | `TypeCorrect` | type correctness |
| | `BudgetIndependence` | the result is that of the first failing slice, or Ok |
| | `PlaneCompleteness` | a returned plane has each row from its own slice |
| | `SingleOwnership`, `StripsSerial` | no slice in two chunks; strips are the serial ranges |
| | `LowestErrorIsKept` | the recorded index only falls (an action property) |
| | `Refinement` | both paths implement the safety part of `PlaneDecode` |
| `PlaneEncoderProofs` | `TypeCorrect` | type correctness |
| | `OutputIdentical` | the plane's bytes are the serial path's, for every budget, schedule and content |
| | `PackingSucceeds` | no residual lacks a code |
| | `DataAsAnnounced` | a plane has slice data exactly if its descriptor is not the single-symbol one |
| | `PredictTypeCorrect`, `LosslessPrediction` | prediction loses nothing, for every depth and interleaving |
| `FrameCodecProofs` | `EndsAgree` | the decoder made from what the encoder publishes has its configuration |
| | `EverySliceHasRows` | an encoded plane's slices have rows and tile it |
| | `LosslessFrames` | an undamaged payload gives the frame back, for every stream, picture, predictor and depth |
| | `FirstError`, `RightBlame` | the error is that of the first slice with a reason; its category names the side at fault |
| | `TypeCorrect` | type correctness of both trait objects and the container |
| | `NoFrameLost` | for any number of frames and any calls, what was accepted is answered for or in flight, in order |
| | `OwnOutcome`, `DecodesAsConfigured`, `EofAfterLast` | a packet's outcome is its own and a refusal has a reason; a packet is decoded as the stream configured last; Eof comes last |
| `ChunkInspectProofs` | `TheWalksAgree` | decoder and inspector agree on every payload, but for codebooks and finding 2 |
| | `EveryByteHasOnePart` | each byte of an accepted payload has one use |
| | `SumsComeOut` | the layout's sums of bytes, rows and pixels are those of the payload and the planes |
| `HuffmanDescriptorProofs` | `StreamsReadOneWay` | the codes of an accepted descriptor read every stream in exactly one way |
| | `TiersAreSorted` | within a length code numbers ascend, and each fits its length |
| | `MergeAccounts`, `CompletenessIsDecided` | the node merge and the numerator answer what exact arithmetic and `build` answer |
| | `StatsAreDescribed` | the counts, the histogram and its ends are those of the descriptor |
| `PackageMergeProofs` | `CheapestAtEveryLevel` | the first nodes of every level are the cheapest lengths that fill as much |
| | `CodesAreOptimal` | no complete code under the cap packs the plane into fewer bits; the defensive Kraft test never fires |
| | `ResidualsAreCoded` | the residuals that occur have codes within the cap, and no others; a refusal means that no such code exists |
| `SliceProofs` | `RegisterMirrored` | the register is the slice from the cursor on, then zeros |
| | `BitsOnlyRunOut` | decoding fails only by truncation or without codes |
| | `SlicesDecodeAsStreams` | both loops and the scan implement `SymbolStream` |
| | `SlicesComeBack` | what `pack_slice` writes, both entries read back as it was |
| | `NoWordToSpare` | a packed slice has no word more than its codes need |

**The argument for the plane decoder.** `BudgetIndependent` speaks of the moment the call
returns and is not inductive: nothing in it says that the slices were all looked
at, or that the slot holds the least failure. The invariant `IInv` adds what links
them. `Cut`: the strips cut so far are the serial ranges, ending where the next one
starts. `SerialDone`: the slices behind the serial loop's index are written, and
none of them fails. `OneOwner`: chunks are disjoint. `Threading`: which threads
exist at which point of the caller, that an ended one has an empty chunk, and that
one on its way to the mutex has a failing slice in front. `Accounted`: every
slice is settled or still in the chunk of a thread that is or will be spawned;
settled means written or, if it fails, that the slot holds its error or
that of a lower slice. `SlotValid`: the slot holds a slice that really fails, with
its own error. `Quiet`: after the return no thread moves. At the join all chunks
are empty, so `Accounted` and `SlotValid` give the least failure over all
slices, which is what the serial loop returns.
`Refinement` follows from the same invariant: the step that returns
maps to `PlaneDecode`'s, every other one stutters.

**The argument for prediction.** `Lossless` is strengthened by what the register
holds: `left[s]` is the sample before the next one in scan order
(`Before(s, filled[s])`). Each predictor then reads the same neighbours on both sides, and
what remains is that adding modulo the depth undoes subtracting.

**The argument for the plane encoder.** `BytesIndependentOfBudget` speaks of the
returned plane; `IInv` follows it through two pools. `Spawning` ties the loop
index to the slices dealt so far, `Threading` says that an ended thread has an empty
chunk, and `ForwardAccounted` and `PackAccounted` that every dealt slice has its
value or waits in somebody's chunk. At the join nobody waits, so `StagesDone`
gives the complete residuals, hence the histogram of the whole plane
(`EverySymbolCounted`), hence a table with a code for every residual: the encode
error slot stays empty, which is part of the invariant.

**The argument for the session.** `NothingLost` compares sums of sequences; it does not
say where a frame is. `Counted` counts the places and `InPlace` says that the frame in
each is the one its position says: handed over, on the wire, in a slot. A call then
moves one frame from a place to the next. `DecodedAsConfigured` compares what the decoder
did with what its caller was told: `asked` is the stream of the last `configure()` that
said Ok, noted with every answer. `HoldsWhatWasAsked` says that the two never part,
which is what a failed `configure` could break, and `EofStands` relates the two
`eof` flags to empty slots behind them.

**The argument for frames.** `Setup`, `Sending`, `Packing` and `Decoding` say what each
stage of `FrameCodec` has established: the decoder's configuration is the encoder's, the
sent planes fit it, the payload is their decorrelated shades cut into the slices that
`SlicePartition` gives, and the planes decoded so far are those of the payload
whenever no slice before them is bad. `FramesComeBack` is then that adding the green
plane undoes subtracting it, modulo the depth.

**The argument for the two walks.** The properties compare two programs that stand at
different places, so no invariant over both at once would be readable. Instead
`Walk(payload, x, early)` says of one walk, wherever it stands, what it has established
about the payload, without mentioning how: the layout so far is the one the
payload's slice ends prescribe (`Laid`), which checks the current plane has passed
(`Underway`), or why the answer is what it is (`Stopped`). Both walks satisfy it,
the inspector's with `early`, since it asks for stray data before it looks for the data.
When both are done, two such statements about the same payload are compared
(`SameVerdict`), and `EveryByteOnce` follows from `Laid` alone. So do the sums of
`LayoutAddsUp`: each is a sum of differences between places that follow one another
(`Telescopes`), of plane starts, slice ends or first rows, and the places it starts and ends at
are known. A pixel count that overflows loses something, and no other makes up for it
(`SumBelow`).

**The argument for codebooks.** `OneCodeFirst` says of an accepted codebook that codes are
bits and that, whatever the bits, exactly one code comes first. Order the symbols as
`build` numbers them, longest code and highest symbol first, and give each `Weight`,
2^(longest - length), of the 2^longest strings of bits. A symbol starts where those before
it end (`StartOf`). Those not before it have codes no longer than its own, so their weights are
multiples of its weight; the Kraft equality makes all weights add up to 2^longest, so
its start is a multiple, too (`StartAligned`), and the quotient is the code number that
`build` computes by incrementing and shifting down (`CodeNumbersAre`). Two symbols start at
least a weight apart (`StartsApart`), and the Kraft equality makes the last end at 2^longest,
so every number below that lies in one interval and no other (`IntervalOf`). A code comes first
exactly if the number its bits begin lies in its interval (`MatchesNumber`). `TiersAreSorted`
reads the same facts within one length.

**The argument for the inspector's arithmetic.** `is_kraft_complete` never computes a power
of two: it pairs up nodes from the deepest level to the root. `DInv` says that `nodes`
nodes at depth `depth` weigh as much as all codes below: the sum over the longer
codes of 2^(longest - length) is `nodes` times 2^(longest - depth). With an odd count the
sum so far is an odd multiple of that power, the shorter codes add even ones, and 2^longest
is an even one (`LeafAlone`); at the root what is left is the Kraft sum itself (`AtTheRoot`). `ExactAtAnyScale` carries the answer from the
scale of the longest length to those of `build`'s word and of the exact sum;
`NumeratorTells` says that a sum that saturates is not 2^longest, because
that still fits. `StatsDescribed` is the loop invariant of the one pass: after
n bytes, every count is the cardinality of the positions below n that it is about.

**The argument for package-merge.** `Optimal` speaks of the end; what has to hold on the way
is a statement about every level at once. Let lengths up to k fill the sum of
2^k - 2^(k - length) over the symbols that occur (`Filled`); a symbol without a length
fills nothing. The lengths of n symbols are a complete code's exactly if they fill
(n - 1) 2^k. `LevelOk` says of the list of level k: it ascends; a node that holds a symbol
weighs at least the symbol's count; for every m, the first m nodes hold lengths up to k that
fill m/2 times 2^k and weigh what these lengths cost; and no lengths up to k that fill at
least as much cost less, of which there are none if the list has fewer nodes. That is stronger
than what is needed at the end, where m is 2n - 2, because the next level needs it for every m.
For the step (`LevelStep`), the first m nodes of the merged list are a packages and b leaves,
the first 2a nodes of the old list and the b rarest symbols. They hold lengths
(`PrefixStep`): a symbol held by a package that is taken has its leaf taken, too, since the
package weighs more than the leaf (`NotYetTaken`), so that no symbol gets a length by way
of packages alone. And they are the cheapest (`BestStep`): take one bit from every
length of a rival; the symbols that had one are some b' in number and weigh no less than
the b' rarest (`LightestFirst`), what remains is a rival one level below, which costs no less than
the first 2a' nodes there, and of all ways to take a' packages and b' leaves with a' + b' = m
the merge takes the cheapest (`SplitIsLeast`). The leaves are a list of the first level because merging them
with nothing leaves them as they are (`LevelZero`, `LevelOne`); that they are in the order of
their counts, although `Leaves` picks each by how many come before it, is `Ranks`. At the
cap, m = 2n - 2 nodes fill (n - 1) 2^cap exactly; a symbol of length 0 would leave room for no
other (`NoneIsFree`), so that the lengths are a complete code's, the descriptor passes
`build`, and every other code is a rival (`CodeIsFilled`). A refusal means that n exceeds 2^cap, while every code takes
at least one part of it (`RoomForAll`).

**Induction.** The library's induction theorems take an operator, which no prover here can
instantiate. `SlicePartitionProofs` states them for sets instead: a set of numbers
that has 0 and with n also n + 1 has all of them, and a family of subsets closed under adding
an element has all finite ones. A hypothesis is then the set of those arguments for
which it holds, and a recursive function or a sum is taken one argument at a time.
From there come the values of recursive functions (`HuffmanTable`'s numbering, the
pass, the histogram), 2^(a+b), sums of disjoint unions, sums scaled, and sums compared.

**The argument for the slice decoder.** `Mirrors` adds to `RegisterMirrorsStream` that
the loaded words are words of the slice, so a hit in the register is a code that
fits in the slice (`FastHitsAreNext`); `Scanned` says that what is behind the scan is
zero, which makes the bit it stops at the first dirty one. Each action is then a step of
`SymbolStream` or invisible to it. That some code always comes first is what
`GoodCodebooks` takes from the proofs about `build`: without it the theorems would be false,
since an incomplete code can fail on bits that are there. `RegisterMirrored` does not need it.

**The argument for the round trip.** `RoundTrip` relates residuals to pixels; between
them lies a stream in which nothing marks where a code ends. `RInv` says that there are
such marks: a function `pos` with `pos[0] = 0` and `pos[i]` after `pos[i - 1]` by the length of
the code of residual `i` (`Marks`). While the packer runs (`Writing`), the bits given to
it so far, those in words, in the pending word and in the code being written
(`Given`), carry the codes of the first `index` residuals between these marks (`Carries`),
and the rest of the pending word is zero. Moving bits from a code to a word leaves `Given`
as it is (`BitsMoved`), whatever word boundary the code crosses; the next code adds a mark.
While the decoder runs (`Reading`), the stream carries all codes and then zeros, the
pixels are the first residuals, and the cursor is at the mark behind them. That the
decoder takes the next residual and no other is `OneNext`: two codes that both
fit at the cursor would both come first for some bits, which `OneCodeFirst` forbids. The
steps of the register, the loops and the scan need not be looked at again:
`SlicesDecodeAsStreams` has shown each to be a step of `SymbolStream` or invisible to it.
The last mark is the sum of the code lengths, and the packer ends less than a word behind
it: `NoSpareWord`.

**Only model-checked.**

- Liveness and fairness (`Terminates`, `FramesComeOut`, `FlushEnds`, and the fair
  part of the refinement of `PlaneDecode`): the prover has no rule for them.
- The references that TLC enumerates are definitions in the proofs: `CompleteCodes` ranges
  over all arrays of lengths there. `LevelOk` quantifies over all lengths and all m, so
  it is proved and not checked; the properties that follow from it are both.


## 6. What is not modelled

- *What a packet gives under another stream's configuration*: an error or a frame of that
  other stream, without saying which or what it holds (`TraitDecoder.Decoded`).
- *Every parse error at the frame level*: `FrameCodec` has one, `ChunkTooShort`, for all of
  them; `PayloadParser` has each at its place.
- *`choose_predictor`*: a floating-point entropy estimate; its choice is an
  input of `TraitEncoder` and `FrameCodec`, and every choice is lossless
  (`PlanePredict`).
- *The choice of a path by the frame's size* and `set_execution_context`: they pick a
  thread budget, and `PlaneDecoder` and `PlaneEncoder` range over all of them.
- *The cast of slice ends to 32 bits* (`src/src/encoder.rs:493`): it needs 4 GiB of
  packed data in a plane; listed as a hazard without a property.
- *`build_lengths`' own answer for at most one symbol*: its only caller answers first.
- *`predict::apply`*, the whole-plane form that only tests call.
- *Messages of errors, vectors, allocation, I/O, benches, fuzz targets, tests*: no
  behaviour of their own; the tests were read for what they expect.


## 7. Plan

Done, in this order: `SlicePartition`, `PlaneDecode` and `PlaneDecoder` with
proofs; `PlaneEncoder`; the trait objects; the Huffman table and the slice stream;
the packer and the round trip; the two walks; prediction with its proofs; then
`PackageMerge`, the frame level (`StreamSetup`, `FrameEncoder`, `FrameDecoder`,
`FrameCodec`), the inspector's counts and sums. Shallower properties made room for
the new ones: most type invariants that no proof needs, and `EverySlotOnce`, which
`BytesIndependentOfBudget` implies in what matters.

Proved, in this order: the plane decoder and prediction; the plane encoder, the
session, the frame level, the two walks, the slice decoder, the round trip of a slice,
then codebooks and the inspector's arithmetic, which freed the slice theorems of the one
hypothesis they had, then the sums of the layout, the packer's last word, and package-merge.
Every safety property that a passing run checks now has a theorem.

Next:

1. `SetupAgrees` and `LosslessPrediction` hold for all sizes, but `FrameCodec` takes a
   plane as one shade: a theorem that puts prediction, the slice round trip and the frame
   level together would need a module that composes all three.
2. As deeper properties are found they replace shallower ones (`NoSpareWord`), so
   that the set of runs stays small.
