---------------------------- MODULE PlanePredict ----------------------------
(***************************************************************************)
(* The four predictors of src/predict.rs over one plane, from samples to   *)
(* residuals (forward_slice, which reads the plane) and back (apply_slice, *)
(* which fills a strip of its own, carrying the sample to the left in a    *)
(* register).  The slices' strips are filled by different threads, a pixel *)
(* at a time and in any order between slices.                              *)
(***************************************************************************)
EXTENDS SlicePartition

CONSTANTS Width,        \* of the plane
          PlaneHeight, SliceCount,
          Depth         \* 256; bytes wrap at it

ASSUME PredictAssumption ==
  /\ Width \in Nat \ {0} /\ PlaneHeight \in Nat /\ SliceCount \in Nat \ {0}
  /\ Depth \in Nat \ {0}

VARIABLES predictor,    \* one for the whole frame
          plane,        \* the encoder's samples, row after row
          strips,       \* strips[s]: the decoder's rows of slice s
          left,         \* left[s]: the sample written last, or the seed
          filled        \* filled[s]: pixels of strip s written so far

predictVars == <<predictor, plane, strips, left, filled>>

Predictors == {"None", "Left", "Gradient", "Median"}
SliceIds == 0 .. SliceCount - 1
Samples == 0 .. Depth - 1
Seed == Depth \div 2
Pixels == 0 .. Width * PlaneHeight - 1

First(s) == RowStart(PlaneHeight, SliceCount, s)
Rows(s) == RowCount(PlaneHeight, SliceCount, s)
StripSize(s) == Rows(s) * Width
Strip(s) == 0 .. StripSize(s) - 1

Row(k) == k \div Width
Column(k) == k % Width

\* Mutant of Add: the sum does not wrap.
AddNoWrap(x, y) == x + y

\* wrapping_add and wrapping_sub.
Add(x, y) == (x + y) % Depth
Sub(x, y) == (x - y) % Depth

Larger(x, y) == IF x >= y THEN x ELSE y

\* The sum of the three less the largest and the smallest.
Median3(a, b, c) ==
  a + b + c - Larger(Larger(a, b), c) - Lesser(Lesser(a, b), c)

\* The third argument is the gradient modulo Depth, not the corner.
Gradient(a, b, c) == Sub(Add(a, b), c)
Med(a, b, c) == Median3(a, b, Gradient(a, b, c))

-----------------------------------------------------------------------------
(* The encoder: what pixel k of slice s is predicted to be *)

Sample(s, k) == plane[First(s) * Width + k]

Before(s, k) == IF k = 0 THEN Seed ELSE Sample(s, k - 1)
Above(s, k) == Sample(s, k - Width)
\* Left of the pixel above; for the first column, the last but one row's end.
Corner(s, k) == Sample(s, k - Width - 1)

ForwardPrediction(s, k) ==
  CASE predictor = "None" -> 0
    [] predictor = "Left" -> Before(s, k)
    [] predictor = "Gradient" ->
         IF Row(k) = 0 THEN Before(s, k)
         ELSE IF Column(k) = 0 THEN Above(s, k)
         ELSE Gradient(Sample(s, k - 1), Above(s, k), Corner(s, k))
    [] predictor = "Median" ->
         IF Row(k) = 0 THEN Before(s, k)
         ELSE IF Row(k) = 1 /\ Column(k) = 0 THEN Above(s, k)
         ELSE Med(Sample(s, k - 1), Above(s, k), Corner(s, k))

Residual(s, k) == Sub(Sample(s, k), ForwardPrediction(s, k))

-----------------------------------------------------------------------------
(* The decoder: the same from the strip and the register *)

\* Mutant of InversePrediction: Left starts every row from the seed.
InversePredictionRowSeed(s, k) ==
  IF predictor = "Left" /\ Column(k) = 0 THEN Seed ELSE ForwardPrediction(s, k)

InversePrediction(s, k) ==
  CASE predictor = "None" -> 0
    [] predictor = "Left" -> left[s]
    [] predictor = "Gradient" ->
         IF Row(k) = 0 THEN left[s]
         ELSE IF Column(k) = 0 THEN strips[s][k - Width]
         ELSE Gradient(left[s], strips[s][k - Width], strips[s][k - Width - 1])
    [] predictor = "Median" ->
         IF Row(k) = 0 THEN left[s]
         ELSE IF Column(k) # 0
         THEN Med(left[s], strips[s][k - Width], strips[s][k - Width - 1])
         ELSE IF Row(k) = 1 THEN strips[s][k - Width]
         ELSE Med(strips[s][Row(k) * Width - 1], strips[s][k - Width],
                  strips[s][(Row(k) - 1) * Width - 1])

PredictInit ==
  /\ predictor \in Predictors
  /\ plane \in [Pixels -> Samples]
  /\ strips = [s \in SliceIds |-> [k \in Strip(s) |-> 0]]
  /\ left = [s \in SliceIds |-> Seed]
  /\ filled = [s \in SliceIds |-> 0]

\* One pixel of slice s; its residual is what the bit stream gave back.
Apply(s) ==
  /\ filled[s] < StripSize(s)
  /\ LET k == filled[s]
         sample == Add(Residual(s, k), InversePrediction(s, k))
     IN  /\ strips' = [strips EXCEPT ![s][k] = sample]
         /\ left' = [left EXCEPT ![s] = sample]
  /\ filled' = [filled EXCEPT ![s] = @ + 1]
  /\ UNCHANGED <<predictor, plane>>

AllFilled == \A s \in SliceIds : filled[s] = StripSize(s)

Done == AllFilled /\ UNCHANGED predictVars

PredictNext == (\E s \in SliceIds : Apply(s)) \/ Done

PredictSpec == PredictInit /\ [][PredictNext]_predictVars

-----------------------------------------------------------------------------
(* Properties *)

PredictTypeOK ==
  /\ predictor \in Predictors
  /\ plane \in [Pixels -> Samples]
  /\ \A s \in SliceIds :
       /\ strips[s] \in [Strip(s) -> Samples]
       /\ filled[s] \in 0 .. StripSize(s)
  /\ left \in [SliceIds -> Samples]

\* Lossless and in place, however far each slice has come: what is written is
\* the encoder's sample, what is not is untouched.  No pixel is predicted from
\* one that the encoder saw and the decoder does not have yet, or from another
\* slice.
Lossless ==
  \A s \in SliceIds : \A k \in Strip(s) :
    strips[s][k] = IF k < filled[s] THEN Sample(s, k) ELSE 0
=============================================================================
