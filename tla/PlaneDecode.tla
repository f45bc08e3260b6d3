---------------------------- MODULE PlaneDecode -----------------------------
(***************************************************************************)
(* What decoding one plane promises, whatever path and whatever thread     *)
(* budget is used: every row of the output holds the row its own slice     *)
(* decodes to, or else the caller gets the error of the lowest-numbered    *)
(* slice that cannot be decoded.                                           *)
(*                                                                         *)
(* A payload is abstracted to `verdict`: what decode_slice returns for the *)
(* bytes of each slice, which is a function of those bytes alone.  A row   *)
(* of samples is abstracted to <<s, k>>, the k-th row slice s decodes to   *)
(* (the predictor never reads outside its slice).                          *)
(***************************************************************************)
EXTENDS SlicePartition

CONSTANTS NumSlices,    \* cfg.num_slices(), 1..256
          PlaneHeight,  \* rows of the plane; may be less than NumSlices
          Errors        \* what decode_slice may fail with

Ok == "Ok"
Pending == "Pending"

ASSUME PlaneAssumption ==
  /\ NumSlices \in Nat \ {0}
  /\ PlaneHeight \in Nat
  /\ {Ok, Pending} \cap Errors = {}

VARIABLES verdict,  \* verdict[s]: Ok or the error decode_slice gives for s
          out,      \* out[r]: the row of samples at row r of the plane
          result    \* what the plane decoder returned, or Pending

abstractVars == <<verdict, out, result>>

Slices == 0 .. NumSlices - 1
Rows == 0 .. PlaneHeight - 1
Blank == << >>

Start(s) == RowStart(PlaneHeight, NumSlices, s)
Height(s) == RowCount(PlaneHeight, NumSlices, s)
RowsOf(s) == SliceRows(PlaneHeight, NumSlices, s)

\* The slices whose decode fails.  A slice without rows is never decoded.
Failing == {s \in Slices : Height(s) > 0 /\ verdict[s] # Ok}

FirstFailing == CHOOSE s \in Failing : \A q \in Failing : s <= q

\* What the caller must be told.
Outcome == IF Failing = {} THEN Ok ELSE verdict[FirstFailing]

\* The plane o after slice s was decoded into the rows from `from` on.
Painted(o, s, from) ==
  [r \in Rows |-> IF r \in from .. from + Height(s) - 1
                  THEN <<s, r - from>> ELSE o[r]]

\* Every row of slice s holds what slice s decodes to.
Holds(s) == \A r \in RowsOf(s) : out[r] = <<s, r - Start(s)>>

PlaneInit ==
  /\ verdict \in [Slices -> Errors \cup {Ok}]
  /\ out = [r \in Rows |-> Blank]
  /\ result = Pending

Paint(s) ==
  /\ result = Pending
  /\ verdict[s] = Ok
  /\ out' = Painted(out, s, Start(s))
  /\ UNCHANGED <<verdict, result>>

Finish ==
  /\ result = Pending
  /\ Failing = {} => \A s \in Slices : Holds(s)
  /\ result' = Outcome
  /\ UNCHANGED <<verdict, out>>

PlaneNext == Finish \/ \E s \in Slices : Paint(s)

PlaneSafety == PlaneInit /\ [][PlaneNext]_abstractVars

PlaneSpec == PlaneInit /\ [][PlaneNext]_abstractVars /\ WF_abstractVars(PlaneNext)
=============================================================================
