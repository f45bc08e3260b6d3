------------------------- MODULE PlaneDecoderProofs -------------------------
(***************************************************************************)
(* For every slice count, plane height, thread budget and payload, and for *)
(* every schedule: the plane decoder is type correct, tells the caller the *)
(* outcome of the first failing slice, and returns only planes all of      *)
(* whose rows were written by their own slice.                             *)
(***************************************************************************)
EXTENDS PlaneDecoder, SlicePartitionProofs

USE PlaneAssumption, BudgetAssumption

-----------------------------------------------------------------------------
(* The inductive invariant *)

\* How far the walk of split_at_mut has come, as row numbers of the plane.
Cut ==
  /\ phase = "dispatch" => next = 0 /\ remaining = 0
  /\ phase = "serial" => remaining = 0
  /\ phase = "split" => /\ remaining = Start(next)
                        /\ \A s \in Slices : s < next => strip[s] = Start(s)
  /\ phase = "scope" => /\ remaining = PlaneHeight
                        /\ next <= Par
                        /\ \A s \in Slices : strip[s] = Start(s)

\* The serial loop leaves nothing undone behind it.
SerialDone ==
  phase = "serial" =>
    \A s \in Slices : s < next => Holds(s) /\ s \notin Failing

\* Which threads exist, and what a thread with an error in hand is holding.
Threading ==
  \A t \in Threads :
    /\ thread[t] # "unborn" <=> phase = "scope" /\ t < next
    /\ thread[t] = "ended" => chunk[t] = {}
    /\ thread[t] \in {"want", "hold"} => chunk[t] # {} /\ Front(t) \in Failing

\* Slice s has been dealt with: written, or outranked by the recorded error.
Settled(s) ==
  IF s \in Failing THEN errors # NoError /\ errors.slice <= s ELSE Holds(s)

\* No slice is lost between Deal and the end of the scope.
Accounted ==
  phase = "scope" =>
    \A s \in Slices : Settled(s) \/ \E t \in Spawned : s \in chunk[t]

\* The slot holds the error of the slice it names.
SlotValid ==
  errors # NoError =>
    errors.slice \in Failing /\ errors.error = verdict[errors.slice]

\* After the return nothing moves any more.
Quiet ==
  result # Pending =>
    \/ phase = "serial"
    \/ /\ phase = "scope"
       /\ next = Par
       /\ \A t \in Threads : thread[t] \notin Active

IInv ==
  /\ Cut /\ SerialDone /\ OneOwner /\ Threading /\ Accounted /\ SlotValid
  /\ Quiet /\ BudgetIndependent /\ PlaneComplete

-----------------------------------------------------------------------------
(* The slices of this plane *)

\* SlicePartition's lemmas for this plane.
LEMMA Geometry ==
  /\ Start(0) = 0
  /\ Start(NumSlices) = PlaneHeight
  /\ \A s \in Slices : /\ Start(s) \in Nat
                      /\ Height(s) \in Nat
                      /\ Start(s) + Height(s) = Start(s + 1)
                      /\ Start(s + 1) <= PlaneHeight
                      /\ RowsOf(s) = Start(s) .. Start(s) + Height(s) - 1
                      /\ RowsOf(s) \subseteq Rows
<1>1. Start(0) = 0 /\ Start(NumSlices) = PlaneHeight
  BY SlicesSpanPlane DEF Start
<1>2. ASSUME NEW s \in Slices
      PROVE  /\ Start(s) \in Nat
             /\ Height(s) \in Nat
             /\ Start(s) + Height(s) = Start(s + 1)
             /\ RowsOf(s) = Start(s) .. Start(s) + Height(s) - 1
             /\ Start(s + 1) <= PlaneHeight
  <2>1. s \in Nat /\ s + 1 \in Nat /\ s + 1 <= NumSlices /\ s <= s + 1
    BY DEF Slices
  <2>2. /\ RowStart(PlaneHeight, NumSlices, s) \in Nat
        /\ RowStart(PlaneHeight, NumSlices, s + 1)
             <= RowStart(PlaneHeight, NumSlices, NumSlices)
    BY <2>1, RowStartMonotone
  <2> QED
    BY <1>1, <2>1, <2>2, RowCountNat DEF Start, Height, RowsOf
<1>3. ASSUME NEW s \in Slices
      PROVE  RowsOf(s) \subseteq Rows
  BY <1>2 DEF Rows
<1> QED
  BY <1>1, <1>2, <1>3

\* A row is in the rows of one slice only.
LEMMA OneSlicePerRow ==
  ASSUME NEW s \in Slices, NEW q \in Slices,
         NEW r, r \in RowsOf(s), r \in RowsOf(q)
  PROVE  s = q
<1>1. s \in Nat /\ q \in Nat
  BY DEF Slices
<1> QED
  BY <1>1, SlicesDisjoint DEF RowsOf

RowValues == {Blank} \cup (Slices \X Nat)

\* Writing slice s into its rows makes it hold, and disturbs no other slice.
LEMMA PaintedHolds ==
  ASSUME NEW o \in [Rows -> RowValues], NEW s \in Slices,
         NEW p, p = Painted(o, s, Start(s))
  PROVE  /\ p \in [Rows -> RowValues]
         /\ \A r \in RowsOf(s) : p[r] = <<s, r - Start(s)>>
         /\ \A q \in Slices :
              (\A r \in RowsOf(q) : o[r] = <<q, r - Start(q)>>)
                => \A r \in RowsOf(q) : p[r] = <<q, r - Start(q)>>
<1>1. /\ Start(s) \in Nat /\ Height(s) \in Nat
      /\ RowsOf(s) = Start(s) .. Start(s) + Height(s) - 1
      /\ RowsOf(s) \subseteq Rows
  BY Geometry
<1>2. p = [r \in Rows |-> IF r \in RowsOf(s) THEN <<s, r - Start(s)>> ELSE o[r]]
  BY <1>1 DEF Painted
<1>3. ASSUME NEW r \in RowsOf(s)
      PROVE  r - Start(s) \in Nat
  BY <1>1
<1>4. p \in [Rows -> RowValues]
  BY <1>2, <1>3 DEF RowValues
<1>5. \A r \in RowsOf(s) : p[r] = <<s, r - Start(s)>>
  BY <1>1, <1>2
<1>6. ASSUME NEW q \in Slices,
             \A r \in RowsOf(q) : o[r] = <<q, r - Start(q)>>,
             NEW r \in RowsOf(q)
      PROVE  p[r] = <<q, r - Start(q)>>
  <2>1. r \in Rows
    BY Geometry
  <2>2. CASE r \in RowsOf(s)
    BY <2>2, <1>5, OneSlicePerRow
  <2>3. CASE r \notin RowsOf(s)
    BY <2>1, <2>3, <1>2, <1>6
  <2> QED
    BY <2>2, <2>3
<1> QED
  BY <1>4, <1>5, <1>6

\* A thread takes a slice of its own chunk.
LEMMA FrontInChunk ==
  ASSUME TypeOK, NEW t \in Threads, chunk[t] # {}
  PROVE  Front(t) \in chunk[t] /\ Front(t) \in Slices
<1>1. chunk[t] \in SUBSET Slices
  BY DEF TypeOK
<1>2. chunk[t] \in SUBSET Nat
  BY <1>1 DEF Slices
<1>3. \E m \in chunk[t] : \A k \in chunk[t] : m <= k
  BY <1>2, LeastNat
<1> QED
  BY <1>1, <1>3 DEF Front

\* The outcome is the verdict of a failing slice no other one precedes.
LEMMA OutcomeIsFirst ==
  ASSUME NEW f \in Failing, \A q \in Failing : f <= q
  PROVE  Outcome = verdict[f]
<1>1. FirstFailing \in Failing /\ \A q \in Failing : FirstFailing <= q
  BY DEF FirstFailing
<1>2. FirstFailing \in Slices /\ f \in Slices
  BY <1>1 DEF Failing
<1>3. FirstFailing = f
  BY <1>1, <1>2 DEF Slices
<1> QED
  BY <1>3 DEF Outcome

\* There is at least one thread and at most one per slice.
LEMMA ParRange ==
  ASSUME TypeOK
  PROVE  Par \in 1 .. NumSlices
<1>1. workers \in Nat
  BY DEF TypeOK
<1> QED
  BY <1>1, ParallelDegreeBounds DEF Par

-----------------------------------------------------------------------------
(* Type correctness *)

\* The initial states are typed.
LEMMA TypeInit == Init => TypeOK
<1> SUFFICES ASSUME Init PROVE TypeOK
  OBVIOUS
<1>1. 0 \in Nat /\ 0 \in 0 .. NumSlices /\ NumSlices \in 0 .. NumSlices
  OBVIOUS
<1> QED
  BY <1>1 DEF Init, PlaneInit, TypeOK, Unlocked, NoError, Threads, Active

\* A step preserves the types.  Record needs to know that a thread in the
\* mutex still has the failed slice at the front of its chunk.
LEMMA TypeStep == TypeOK /\ Threading /\ [Next]_vars => TypeOK'
<1> SUFFICES ASSUME TypeOK, Threading, [Next]_vars PROVE TypeOK'
  OBVIOUS
<1> USE DEF TypeOK
<1>1. CASE Dispatch
  BY <1>1 DEF Dispatch
<1>2. CASE SerialSlice
  <2>1. next \in Slices /\ next + 1 \in 0 .. NumSlices
    BY <1>2 DEF SerialSlice, Slices
  <2>2. CASE Height(next) > 0 /\ verdict[next] # Ok
    <3>1. verdict[next] \in Errors \cup {Ok}
      BY <2>1
    <3>2. result' \in Errors \cup {Ok, Pending}
      BY <1>2, <2>2, <3>1 DEF SerialSlice
    <3> QED
      BY <1>2, <2>2, <3>2 DEF SerialSlice
  <2>3. CASE ~(Height(next) > 0 /\ verdict[next] # Ok)
    <3>1. out' = Painted(out, next, Start(next)) /\ next' = next + 1
      BY <1>2, <2>3 DEF SerialSlice
    <3>2. out' \in [Rows -> RowValues]
      BY <2>1, <3>1, PaintedHolds DEF RowValues
    <3> QED
      BY <1>2, <2>1, <2>3, <3>1, <3>2 DEF SerialSlice, RowValues
  <2> QED
    BY <2>2, <2>3
<1>3. CASE SerialReturn
  BY <1>3 DEF SerialReturn, main
<1>4. CASE Split
  <2>1. next \in Slices /\ next + 1 \in 0 .. NumSlices
    BY <1>4 DEF Split, Slices
  <2>2. remaining + Height(next) \in Nat
    BY <2>1, Geometry
  <2> QED
    BY <1>4, <2>1, <2>2 DEF Split
<1>5. CASE Deal
  <2>1. chunk' \in [Threads -> SUBSET Slices]
    BY <1>5 DEF Deal
  <2>2. 0 \in 0 .. NumSlices
    OBVIOUS
  <2> QED
    BY <1>5, <2>1, <2>2 DEF Deal
<1>6. CASE Spawn
  <2>1. Par \in 1 .. NumSlices
    BY ParRange
  <2>2. next + 1 \in 0 .. NumSlices
    BY <1>6, <2>1 DEF Spawn
  <2> QED
    BY <1>6, <2>2 DEF Spawn, Active
<1>7. CASE ScopeReturn
  <2>1. errors.error \in Errors \cup {Ok}
    OBVIOUS
  <2> QED
    BY <1>7, <2>1 DEF ScopeReturn, main
<1>8. ASSUME NEW t \in Threads, Drain(t)
      PROVE  TypeOK'
  <2>1. Front(t) \in Slices
    BY <1>8, FrontInChunk DEF Drain
  <2>2. out' \in [Rows -> {Blank} \cup (Slices \X Nat)]
    <3> DEFINE s == Front(t)
               from == strip[s]
    <3>1. from \in Nat /\ s \in Slices
      BY <2>1
    <3>2. out' = [r \in Rows |-> IF r \in from .. from + Height(s) - 1
                                 THEN <<s, r - from>> ELSE out[r]]
      BY <1>8 DEF Drain, Painted
    <3> HIDE DEF s, from
    <3>3. ASSUME NEW r \in Rows, r \in from .. from + Height(s) - 1
          PROVE  r - from \in Nat
      BY <3>1, <3>3, Geometry
    <3> QED
      BY <3>1, <3>2, <3>3
  <2>3. chunk' \in [Threads -> SUBSET Slices]
    BY <1>8 DEF Drain
  <2> QED
    BY <1>8, <2>2, <2>3 DEF Drain, main
<1>9. ASSUME NEW t \in Threads, Fail(t)
      PROVE  TypeOK'
  BY <1>9 DEF Fail, main, Active
<1>10. ASSUME NEW t \in Threads, Acquire(t)
       PROVE  TypeOK'
  BY <1>10 DEF Acquire, main, Active
<1>11. ASSUME NEW t \in Threads, Record(t)
       PROVE  TypeOK'
  <2>0. chunk[t] # {}
    BY <1>11 DEF Record, Threading
  <2>1. Front(t) \in Slices /\ Front(t) \in 0 .. NumSlices
    BY <1>11, <2>0, FrontInChunk DEF Slices
  <2>2. verdict[Front(t)] \in Errors \cup {Ok}
    BY <2>1
  <2>3. errors' \in [slice : 0 .. NumSlices, error : Errors \cup {Ok}]
    BY <1>11, <2>1, <2>2 DEF Record
  <2>4. chunk' \in [Threads -> SUBSET Slices]
    BY <1>11 DEF Record
  <2> QED
    BY <1>11, <2>3, <2>4 DEF Record, main, Active, Unlocked
<1>12. ASSUME NEW t \in Threads, End(t)
       PROVE  TypeOK'
  BY <1>12 DEF End, main, Active
<1>13. CASE Returned \/ UNCHANGED vars
  BY <1>13 DEF Returned, vars
<1> QED
  BY <1>1, <1>2, <1>3, <1>4, <1>5, <1>6, <1>7, <1>8, <1>9, <1>10, <1>11,
     <1>12, <1>13 DEF Next, CallerStep, ThreadStep

-----------------------------------------------------------------------------
(* The invariant is inductive *)

\* The payload and the budget of a call never change.
LEMMA InputsFixed ==
  [Next]_vars => /\ verdict' = verdict /\ workers' = workers
                 /\ Failing' = Failing /\ Outcome' = Outcome /\ Par' = Par
<1> SUFFICES ASSUME [Next]_vars
             PROVE  /\ verdict' = verdict /\ workers' = workers
                    /\ Failing' = Failing /\ Outcome' = Outcome /\ Par' = Par
  OBVIOUS
<1>1. verdict' = verdict /\ workers' = workers
  BY DEF Next, CallerStep, ThreadStep, Returned, vars, main, Dispatch,
     SerialSlice, SerialReturn, Split, Deal, Spawn, ScopeReturn, Drain, Fail,
     Acquire, Record, End
<1>2. Failing' = Failing /\ Par' = Par
  BY <1>1 DEF Failing, Par
<1>3. Outcome' = Outcome
  BY <1>1, <1>2 DEF Outcome, FirstFailing
<1> QED
  BY <1>1, <1>2, <1>3

\* A call starts with nothing done and nothing owed.
LEMMA InvInit == Init => IInv
<1> SUFFICES ASSUME Init PROVE IInv
  OBVIOUS
<1> QED
  BY DEF Init, PlaneInit, IInv, Cut, SerialDone, OneOwner, Threading,
     Accounted, SlotValid, Quiet, BudgetIndependent, PlaneComplete, Ok,
     Pending, Threads

\* The calling thread's steps before the scope.
LEMMA InvCaller ==
  ASSUME TypeOK, IInv, Dispatch \/ SerialSlice \/ SerialReturn \/ Split
  PROVE  IInv'
<1> USE DEF IInv
<1>0. Failing' = Failing /\ Outcome' = Outcome /\ Par' = Par
      /\ verdict' = verdict /\ Par \in 1 .. NumSlices
  BY InputsFixed, ParRange DEF Next, CallerStep
<1>1. CASE Dispatch
  <2>1. next = 0 /\ Start(0) = 0 /\ remaining = 0
    BY <1>1, Geometry DEF Dispatch, Cut
  <2>2. Cut' /\ SerialDone'
    BY <1>1, <2>1 DEF Dispatch, Cut, SerialDone, Slices
  <2>3. Threading' /\ Accounted' /\ OneOwner' /\ SlotValid'
    BY <1>0, <1>1 DEF Dispatch, Threading, Accounted, OneOwner, SlotValid, Front
  <2>4. Quiet' /\ BudgetIndependent' /\ PlaneComplete'
    BY <1>0, <1>1 DEF Dispatch, Quiet, BudgetIndependent, PlaneComplete, Holds
  <2> QED
    BY <2>2, <2>3, <2>4
<1>2. CASE SerialSlice
  <2>1. next \in Slices /\ next \in Nat /\ phase = "serial" /\ phase' = phase
    BY <1>2 DEF SerialSlice, Slices, TypeOK
  <2>2. OneOwner' /\ Threading' /\ Accounted' /\ SlotValid' /\ Quiet'
    BY <1>0, <1>2, <2>1
       DEF SerialSlice, OneOwner, Threading, Accounted, SlotValid, Quiet, Front
  <2>3. CASE Height(next) > 0 /\ verdict[next] # Ok
    <3>1. next \in Failing
      BY <2>1, <2>3 DEF Failing
    <3>2. \A q \in Failing : next <= q
      BY <2>1 DEF SerialDone, Failing, Slices
    <3>3. Outcome = verdict[next]
      BY <3>1, <3>2, OutcomeIsFirst
    <3>4. result' = verdict[next] /\ out' = out /\ next' = next
          /\ remaining' = remaining /\ strip' = strip
      BY <1>2, <2>3 DEF SerialSlice
    <3>5. Cut' /\ SerialDone'
      BY <1>0, <2>1, <3>4 DEF Cut, SerialDone, Holds
    <3>6. BudgetIndependent' /\ PlaneComplete'
      BY <1>0, <2>3, <3>3, <3>4 DEF BudgetIndependent, PlaneComplete
    <3> QED
      BY <2>2, <3>5, <3>6
  <2>4. CASE ~(Height(next) > 0 /\ verdict[next] # Ok)
    <3>1. /\ out' = Painted(out, next, Start(next)) /\ next' = next + 1
          /\ result' = result /\ result = Pending
          /\ remaining' = remaining /\ strip' = strip
      BY <1>2, <2>4 DEF SerialSlice
    <3>2. out \in [Rows -> RowValues]
      BY DEF TypeOK, RowValues
    <3>3. /\ \A r \in RowsOf(next) : out'[r] = <<next, r - Start(next)>>
          /\ \A q \in Slices : Holds(q) => Holds(q)'
      BY <2>1, <3>1, <3>2, PaintedHolds DEF Holds
    <3>4. next \notin Failing
      BY <2>4 DEF Failing
    <3>5. ASSUME NEW s \in Slices, s < next + 1
          PROVE  Holds(s)' /\ s \notin Failing
      <4>1. s < next \/ s = next
        BY <2>1, <3>5 DEF Slices
      <4> QED
        BY <2>1, <3>3, <3>4, <4>1 DEF SerialDone, Holds
    <3>6. Cut' /\ SerialDone'
      BY <1>0, <2>1, <3>1, <3>5 DEF Cut, SerialDone
    <3>7. BudgetIndependent' /\ PlaneComplete'
      BY <3>1 DEF BudgetIndependent, PlaneComplete, Ok, Pending
    <3> QED
      BY <2>2, <3>6, <3>7
  <2> QED
    BY <2>3, <2>4
<1>3. CASE SerialReturn
  <2>1. \A s \in Slices : Holds(s) /\ s \notin Failing
    BY <1>3 DEF SerialReturn, SerialDone, Slices
  <2>2. Failing = {}
    BY <2>1 DEF Failing
  <2>3. BudgetIndependent' /\ PlaneComplete'
    BY <1>0, <1>3, <2>1, <2>2
       DEF SerialReturn, BudgetIndependent, PlaneComplete, Outcome, Holds
  <2> QED
    BY <1>0, <1>3, <2>3
       DEF SerialReturn, main, Cut, SerialDone, OneOwner, Threading,
           Accounted, SlotValid, Quiet, Holds, Front
<1>4. CASE Split
  <2>1. next \in Slices /\ next \in Nat /\ phase = "split" /\ phase' = phase
        /\ result = Pending /\ result' = result
    BY <1>4 DEF Split, Slices, TypeOK, Quiet
  <2>2. remaining' = Start(next + 1)
    BY <1>4, <2>1, Geometry DEF Split, Cut
  <2>3. \A s \in Slices : s < next + 1 => strip'[s] = Start(s)
    <3>1. strip' = [strip EXCEPT ![next] = Start(next)]
      BY <1>4, <2>1 DEF Split, Cut
    <3>2. ASSUME NEW s \in Slices, s < next + 1
          PROVE  strip'[s] = Start(s)
      <4>1. s < next \/ s = next
        BY <2>1, <3>2 DEF Slices
      <4> QED
        BY <2>1, <3>1, <4>1 DEF Cut, TypeOK
    <3> QED
      BY <3>2
  <2>4. Cut' /\ SerialDone'
    BY <1>4, <2>1, <2>2, <2>3 DEF Split, Cut, SerialDone
  <2>5. OneOwner' /\ Threading' /\ Accounted' /\ SlotValid'
    BY <1>0, <1>4, <2>1
       DEF Split, OneOwner, Threading, Accounted, SlotValid, Front
  <2>6. Quiet' /\ BudgetIndependent' /\ PlaneComplete'
    BY <2>1 DEF Quiet, BudgetIndependent, PlaneComplete, Ok, Pending
  <2> QED
    BY <2>4, <2>5, <2>6
<1> QED
  BY <1>1, <1>2, <1>3, <1>4

\* Dealing the chunks, spawning the threads, and the end of the scope.
LEMMA InvScope ==
  ASSUME TypeOK, IInv, Deal \/ Spawn \/ ScopeReturn
  PROVE  IInv'
<1> USE DEF IInv
<1>0. Failing' = Failing /\ Outcome' = Outcome /\ Par' = Par
      /\ verdict' = verdict /\ Par \in 1 .. NumSlices
  BY InputsFixed, ParRange DEF Next, CallerStep
<1>1. CASE Deal
  <2>1. /\ phase = "split" /\ phase' = "scope" /\ next = NumSlices /\ next' = 0
        /\ result = Pending /\ result' = result /\ errors' = errors
        /\ thread' = thread /\ strip' = strip /\ remaining' = remaining
        /\ chunk' = [t \in Threads |->
                       {s \in Slices : BucketOf(s, NumSlices, Par) = t}]
    BY <1>1 DEF Deal, Quiet
  <2>2. Cut' /\ SerialDone'
    BY <1>0, <2>1, Geometry DEF Cut, SerialDone, Slices
  <2>3. OneOwner'
    BY <2>1 DEF OneOwner
  <2>4. Threading'
    BY <2>1 DEF Threading, Threads, Slices
  <2>5. ASSUME NEW s \in Slices
        PROVE  \E t \in Spawned' : s \in chunk'[t]
    <3>1. BucketOf(s, NumSlices, Par) \in 0 .. Par - 1
      BY <1>0, BucketExists DEF Slices
    <3>2. BucketOf(s, NumSlices, Par) \in Threads
      BY <1>0, <3>1 DEF Threads, Slices
    <3> QED
      BY <1>0, <2>1, <3>1, <3>2 DEF Spawned
  <2>6. Accounted'
    BY <2>5 DEF Accounted
  <2>7. SlotValid' /\ Quiet' /\ BudgetIndependent' /\ PlaneComplete'
    BY <1>0, <2>1
       DEF SlotValid, Quiet, BudgetIndependent, PlaneComplete, Ok, Pending
  <2> QED
    BY <2>2, <2>3, <2>4, <2>6, <2>7
<1>2. CASE Spawn
  <2>1. /\ phase = "scope" /\ phase' = phase /\ next' = next + 1 /\ next < Par
        /\ next \in Threads /\ next \in Nat
        /\ result = Pending /\ result' = result /\ errors' = errors
        /\ thread' = [thread EXCEPT ![next] = "run"] /\ strip' = strip
        /\ chunk' = chunk /\ remaining' = remaining /\ out' = out
    BY <1>0, <1>2 DEF Spawn, Quiet, TypeOK, Threads, Slices
  <2>2. Cut' /\ SerialDone'
    BY <1>0, <2>1 DEF Cut, SerialDone
  <2>3. ASSUME NEW t \in Threads
        PROVE  /\ thread'[t] # "unborn" <=> t < next + 1
               /\ thread'[t] = "ended" => chunk[t] = {}
               /\ thread'[t] \in {"want", "hold"} =>
                    chunk[t] # {} /\ Front(t) \in Failing
    <3>1. t \in Nat
      BY DEF Threads, Slices
    <3>2. CASE t = next
      BY <2>1, <3>1, <3>2 DEF TypeOK
    <3>3. CASE t # next
      BY <2>1, <3>1, <3>3 DEF TypeOK, Threading
    <3> QED
      BY <3>2, <3>3
  <2>4. Threading'
    BY <1>0, <2>1, <2>3 DEF Threading, Front
  <2>5. OneOwner' /\ Accounted' /\ SlotValid'
    BY <1>0, <2>1
       DEF OneOwner, Accounted, SlotValid, Settled, Holds, Spawned
  <2>6. Quiet' /\ BudgetIndependent' /\ PlaneComplete'
    BY <2>1 DEF Quiet, BudgetIndependent, PlaneComplete, Ok, Pending
  <2> QED
    BY <2>2, <2>4, <2>5, <2>6
<1>3. CASE ScopeReturn
  <2>1. /\ phase = "scope" /\ next = Par
        /\ \A t \in Spawned : thread[t] = "ended"
        /\ result' = IF errors = NoError THEN Ok ELSE errors.error
        /\ out' = out /\ chunk' = chunk /\ thread' = thread /\ errors' = errors
        /\ phase' = phase /\ next' = next /\ strip' = strip
        /\ remaining' = remaining
    BY <1>3 DEF ScopeReturn, main
  <2>2. \A s \in Slices : Settled(s)
    <3>1. Spawned \subseteq Threads
      BY <1>0 DEF Spawned, Threads, Slices
    <3>2. \A t \in Spawned : chunk[t] = {}
      BY <2>1, <3>1 DEF Threading
    <3> QED
      BY <2>1, <3>2 DEF Accounted
  <2>3. result' = Outcome /\ (result' = Ok => \A s \in Slices : Holds(s))
    <3>1. CASE errors = NoError
      <4>1. Failing = {}
        BY <2>2, <3>1 DEF Settled, Failing
      <4> QED
        BY <2>1, <2>2, <3>1, <4>1 DEF Settled, Outcome
    <3>2. CASE errors # NoError
      <4>1. errors.slice \in Failing /\ errors.error = verdict[errors.slice]
        BY <3>2 DEF SlotValid
      <4>2. \A q \in Failing : errors.slice <= q
        BY <2>2 DEF Settled, Failing
      <4>3. Outcome = verdict[errors.slice]
        BY <4>1, <4>2, OutcomeIsFirst
      <4>4. verdict[errors.slice] # Ok
        BY <4>1 DEF Failing
      <4> QED
        BY <2>1, <3>2, <4>1, <4>3, <4>4
    <3> QED
      BY <3>1, <3>2
  <2>4. BudgetIndependent' /\ PlaneComplete'
    BY <1>0, <2>1, <2>3 DEF BudgetIndependent, PlaneComplete, Holds
  <2>5. Quiet'
    <3>1. ASSUME NEW t \in Threads
          PROVE  thread[t] \notin Active
      <4>1. CASE t \in Spawned
        BY <2>1, <4>1 DEF Active
      <4>2. CASE t \notin Spawned
        <5>1. ~(t < next)
          BY <1>0, <2>1, <4>2 DEF Spawned, Threads, Slices
        <5> QED
          BY <5>1 DEF Threading, Active
      <4> QED
        BY <4>1, <4>2
    <3> QED
      BY <1>0, <2>1, <3>1 DEF Quiet
  <2>6. Cut' /\ SerialDone' /\ OneOwner' /\ SlotValid'
    BY <1>0, <2>1 DEF Cut, SerialDone, OneOwner, SlotValid
  <2>7. Threading' /\ Accounted'
    BY <1>0, <2>1 DEF Threading, Accounted, Settled, Holds, Spawned, Front
  <2> QED
    BY <2>4, <2>5, <2>6, <2>7
<1> QED
  BY <1>1, <1>2, <1>3

\* What a thread's step leaves alone, and that it is taken before the return.
LEMMA InvThreadFrame ==
  ASSUME TypeOK, IInv, NEW t \in Threads, ThreadStep(t)
  PROVE  /\ phase = "scope" /\ t < next
         /\ result = Pending /\ result' = result
         /\ Cut' /\ SerialDone' /\ Quiet' /\ BudgetIndependent' /\ PlaneComplete'
         /\ Failing' = Failing /\ verdict' = verdict /\ Par' = Par
         /\ Spawned' = Spawned /\ phase' = phase /\ next' = next
<1> USE DEF IInv
<1>1. thread[t] \in Active
  BY DEF ThreadStep, Drain, Fail, Acquire, Record, End, Active
<1>2. phase = "scope" /\ t < next
  BY <1>1 DEF Threading, Active
<1>3. result = Pending
  BY <1>1, <1>2 DEF Quiet
<1>4. UNCHANGED <<result, workers, phase, next, strip, remaining>>
  BY DEF ThreadStep, Drain, Fail, Acquire, Record, End, main
<1>5. Failing' = Failing /\ verdict' = verdict /\ Par' = Par
  BY InputsFixed DEF Next
<1>6. Cut' /\ SerialDone'
  BY <1>2, <1>4, <1>5 DEF Cut, SerialDone
<1>7. Quiet' /\ BudgetIndependent' /\ PlaneComplete'
  BY <1>3, <1>4 DEF Quiet, BudgetIndependent, PlaneComplete, Ok, Pending
<1> QED
  BY <1>2, <1>3, <1>4, <1>5, <1>6, <1>7 DEF Spawned

\* The steps of a thread.
LEMMA InvThread ==
  ASSUME TypeOK, IInv, NEW t \in Threads, ThreadStep(t)
  PROVE  IInv'
<1> USE DEF IInv
<1>0. /\ phase = "scope" /\ t < next /\ phase' = phase /\ next' = next
      /\ Cut' /\ SerialDone' /\ Quiet' /\ BudgetIndependent' /\ PlaneComplete'
      /\ Failing' = Failing /\ verdict' = verdict /\ Spawned' = Spawned
  BY InvThreadFrame
<1>1. CASE Drain(t)
  <2>0. PICK s \in Slices : s = Front(t)
    BY <1>1, FrontInChunk DEF Drain
  <2>1. /\ s \in chunk[t] /\ s \in Slices /\ thread' = thread /\ errors' = errors
        /\ thread[t] = "run" /\ chunk' = [chunk EXCEPT ![t] = @ \ {s}]
        /\ s \notin Failing
    BY <1>1, <2>0, FrontInChunk DEF Drain, Failing
  <2>2. out' = Painted(out, s, Start(s))
    BY <1>0, <1>1, <2>0, <2>1 DEF Drain, Cut
  <2>3. out \in [Rows -> RowValues]
    BY DEF TypeOK, RowValues
  <2>4. Holds(s)' /\ \A q \in Slices : Holds(q) => Holds(q)'
    BY <2>1, <2>2, <2>3, PaintedHolds DEF Holds
  <2>5. \A q \in Slices : Settled(q) => Settled(q)'
    BY <1>0, <2>1, <2>4 DEF Settled
  <2>6. Settled(s)'
    BY <1>0, <2>1, <2>4 DEF Settled
  <2>7. \A u \in Threads : chunk'[u] = IF u = t THEN chunk[t] \ {s} ELSE chunk[u]
    BY <2>1 DEF TypeOK
  <2>8. Accounted'
    <3>1. Spawned \subseteq Threads
      BY ParRange DEF Spawned, Threads, Slices
    <3>2. ASSUME NEW q \in Slices
          PROVE  Settled(q)' \/ \E u \in Spawned : q \in chunk'[u]
      BY <1>0, <2>5, <2>6, <2>7, <3>1 DEF Accounted
    <3> QED
      BY <1>0, <3>2 DEF Accounted
  <2>9. OneOwner' /\ SlotValid'
    BY <1>0, <2>1, <2>7 DEF OneOwner, SlotValid
  <2>t. ASSUME NEW u \in Threads
        PROVE  /\ thread'[u] # "unborn" <=> u < next
               /\ thread'[u] = "ended" => chunk'[u] = {}
               /\ thread'[u] \in {"want", "hold"} =>
                    chunk'[u] # {} /\ Front(u)' \in Failing
    <3>1. CASE u = t
      BY <1>0, <2>1, <2>7, <3>1 DEF Threading, Front, TypeOK
    <3>2. CASE u # t
      BY <1>0, <2>1, <2>7, <3>2 DEF Threading, Front, TypeOK
    <3> QED
      BY <3>1, <3>2
  <2>10. Threading'
    BY <1>0, <2>t DEF Threading
  <2> QED
    BY <1>0, <2>8, <2>9, <2>10
<1>2. CASE Fail(t)
  <2>1. /\ chunk' = chunk /\ errors' = errors /\ out' = out /\ chunk[t] # {}
        /\ thread' = [thread EXCEPT ![t] = "want"] /\ Front(t) \in Failing
    BY <1>2, FrontInChunk DEF Fail, Failing
  <2>t. ASSUME NEW u \in Threads
        PROVE  /\ thread'[u] # "unborn" <=> u < next
               /\ thread'[u] = "ended" => chunk'[u] = {}
               /\ thread'[u] \in {"want", "hold"} =>
                    chunk'[u] # {} /\ Front(u)' \in Failing
    <3>1. CASE u = t
      BY <1>0, <2>1, <3>1 DEF Threading, Front, TypeOK
    <3>2. CASE u # t
      BY <1>0, <2>1, <3>2 DEF Threading, Front, TypeOK
    <3> QED
      BY <3>1, <3>2
  <2>2. Threading'
    BY <1>0, <2>t DEF Threading
  <2>3. OneOwner' /\ SlotValid' /\ Accounted'
    BY <1>0, <2>1 DEF OneOwner, SlotValid, Accounted, Settled, Holds
  <2> QED
    BY <1>0, <2>2, <2>3
<1>3. CASE Acquire(t)
  <2>1. /\ chunk' = chunk /\ errors' = errors /\ out' = out
        /\ thread[t] = "want" /\ thread' = [thread EXCEPT ![t] = "hold"]
    BY <1>3 DEF Acquire
  <2>t. ASSUME NEW u \in Threads
        PROVE  /\ thread'[u] # "unborn" <=> u < next
               /\ thread'[u] = "ended" => chunk'[u] = {}
               /\ thread'[u] \in {"want", "hold"} =>
                    chunk'[u] # {} /\ Front(u)' \in Failing
    <3>1. CASE u = t
      BY <1>0, <2>1, <3>1 DEF Threading, Front, TypeOK
    <3>2. CASE u # t
      BY <1>0, <2>1, <3>2 DEF Threading, Front, TypeOK
    <3> QED
      BY <3>1, <3>2
  <2>2. Threading'
    BY <1>0, <2>t DEF Threading
  <2>3. OneOwner' /\ SlotValid' /\ Accounted'
    BY <1>0, <2>1 DEF OneOwner, SlotValid, Accounted, Settled, Holds
  <2> QED
    BY <1>0, <2>2, <2>3
<1>4. CASE Record(t)
  <2>0. PICK s \in Slices : s = Front(t)
    BY <1>4, FrontInChunk DEF Record, Threading
  <2>1. /\ s \in chunk[t] /\ s \in Slices /\ s \in Failing /\ out' = out
        /\ chunk' = [chunk EXCEPT ![t] = @ \ {s}]
        /\ thread' = [thread EXCEPT ![t] = "run"]
        /\ errors' = IF Takes(s) THEN [slice |-> s, error |-> verdict[s]]
                     ELSE errors
    BY <1>4, <2>0, FrontInChunk DEF Record, Threading
  <2>2. s \in Nat /\ s < NumSlices /\ errors.slice \in Nat
    BY <2>1 DEF Slices, TypeOK
  <2>3. errors' # NoError /\ errors'.slice <= s
    <3>1. CASE Takes(s)
      BY <2>1, <2>2, <3>1 DEF NoError
    <3>2. CASE ~Takes(s)
      BY <2>1, <2>2, <3>2 DEF Takes
    <3> QED
      BY <3>1, <3>2
  <2>4. errors # NoError => errors'.slice <= errors.slice
    BY <2>1, <2>2 DEF Takes
  <2>5. SlotValid'
    <3>1. CASE Takes(s)
      BY <1>0, <2>1, <3>1 DEF SlotValid
    <3>2. CASE ~Takes(s)
      BY <1>0, <2>1, <3>2 DEF SlotValid
    <3> QED
      BY <3>1, <3>2
  <2>6. errors'.slice \in Nat
    BY <1>0, <2>3, <2>5 DEF SlotValid, Failing, Slices
  <2>7. \A q \in Slices : Settled(q) => Settled(q)'
    BY <1>0, <2>1, <2>2, <2>3, <2>4, <2>6 DEF Settled, Holds, Slices
  <2>8. Settled(s)'
    BY <1>0, <2>1, <2>3 DEF Settled
  <2>9. \A u \in Threads : chunk'[u] = IF u = t THEN chunk[t] \ {s} ELSE chunk[u]
    BY <2>1 DEF TypeOK
  <2>10. Accounted'
    <3>1. Spawned \subseteq Threads
      BY ParRange DEF Spawned, Threads, Slices
    <3>2. ASSUME NEW q \in Slices
          PROVE  Settled(q)' \/ \E u \in Spawned : q \in chunk'[u]
      BY <1>0, <2>7, <2>8, <2>9, <3>1 DEF Accounted
    <3> QED
      BY <1>0, <3>2 DEF Accounted
  <2>11. OneOwner'
    BY <2>9 DEF OneOwner
  <2>t. ASSUME NEW u \in Threads
        PROVE  /\ thread'[u] # "unborn" <=> u < next
               /\ thread'[u] = "ended" => chunk'[u] = {}
               /\ thread'[u] \in {"want", "hold"} =>
                    chunk'[u] # {} /\ Front(u)' \in Failing
    <3>1. CASE u = t
      BY <1>0, <2>1, <2>9, <3>1 DEF Threading, Front, TypeOK
    <3>2. CASE u # t
      BY <1>0, <2>1, <2>9, <3>2 DEF Threading, Front, TypeOK
    <3> QED
      BY <3>1, <3>2
  <2>12. Threading'
    BY <1>0, <2>t DEF Threading
  <2> QED
    BY <1>0, <2>5, <2>10, <2>11, <2>12
<1>5. CASE End(t)
  <2>1. /\ chunk' = chunk /\ errors' = errors /\ out' = out /\ chunk[t] = {}
        /\ thread' = [thread EXCEPT ![t] = "ended"]
    BY <1>5 DEF End
  <2>t. ASSUME NEW u \in Threads
        PROVE  /\ thread'[u] # "unborn" <=> u < next
               /\ thread'[u] = "ended" => chunk'[u] = {}
               /\ thread'[u] \in {"want", "hold"} =>
                    chunk'[u] # {} /\ Front(u)' \in Failing
    <3>1. CASE u = t
      BY <1>0, <2>1, <3>1 DEF Threading, Front, TypeOK
    <3>2. CASE u # t
      BY <1>0, <2>1, <3>2 DEF Threading, Front, TypeOK
    <3> QED
      BY <3>1, <3>2
  <2>2. Threading'
    BY <1>0, <2>t DEF Threading
  <2>3. OneOwner' /\ SlotValid' /\ Accounted'
    BY <1>0, <2>1 DEF OneOwner, SlotValid, Accounted, Settled, Holds
  <2> QED
    BY <1>0, <2>2, <2>3
<1> QED
  BY <1>1, <1>2, <1>3, <1>4, <1>5 DEF ThreadStep

\* The invariant survives every step.
LEMMA InvStep == TypeOK /\ IInv /\ [Next]_vars => IInv'
<1> SUFFICES ASSUME TypeOK, IInv, [Next]_vars PROVE IInv'
  OBVIOUS
<1>1. CASE Returned \/ UNCHANGED vars
  <2>1. UNCHANGED <<out, result, phase, next, strip, remaining, chunk, thread,
                    errors>>
    BY <1>1 DEF Returned, vars
  <2>2. /\ verdict' = verdict /\ Failing' = Failing /\ Outcome' = Outcome
        /\ Par' = Par /\ Spawned' = Spawned
    BY InputsFixed DEF Spawned
  <2>3. Cut' /\ SerialDone' /\ OneOwner' /\ SlotValid' /\ Quiet'
    BY <2>1, <2>2 DEF IInv, Cut, SerialDone, OneOwner, SlotValid, Quiet, Holds
  <2>4. Threading'
    BY <2>1, <2>2 DEF IInv, Threading, Front
  <2>5. Accounted'
    BY <2>1, <2>2 DEF IInv, Accounted, Settled, Holds
  <2>6. BudgetIndependent' /\ PlaneComplete'
    BY <2>1, <2>2 DEF IInv, BudgetIndependent, PlaneComplete, Holds
  <2> QED
    BY <2>3, <2>4, <2>5, <2>6 DEF IInv
<1> QED
  BY <1>1, InvCaller, InvScope, InvThread DEF Next, CallerStep

-----------------------------------------------------------------------------
(* Theorems *)

\* The state is typed and the invariant holds in every reachable state.
LEMMA Invariance == Spec => [](TypeOK /\ IInv)
<1>1. Init => TypeOK /\ IInv
  BY TypeInit, InvInit
<1>2. TypeOK /\ IInv /\ [Next]_vars => (TypeOK /\ IInv)'
  BY TypeStep, InvStep DEF IInv
<1> QED
  BY <1>1, <1>2, PTL DEF Spec

\* Every variable keeps its type: no strip starts outside the naturals and no
\* thread beyond the slice count is ever spawned (decode_plane_parallel).
THEOREM TypeCorrect == Spec => []TypeOK
  BY Invariance, PTL

\* What the caller is told does not depend on the budget or the schedule: it
\* is the outcome of the serial loop (decode_frame_with_workers).
THEOREM BudgetIndependence == Spec => []BudgetIndependent
<1>1. IInv => BudgetIndependent
  BY DEF IInv
<1> QED
  BY <1>1, Invariance, PTL

\* A plane returned as decoded is complete (decode_plane_parallel).
THEOREM PlaneCompleteness == Spec => []PlaneComplete
<1>1. IInv => PlaneComplete
  BY DEF IInv
<1> QED
  BY <1>1, Invariance, PTL

\* Work units are never shared between threads (decode_plane_parallel).
THEOREM SingleOwnership == Spec => []OneOwner
<1>1. IInv => OneOwner
  BY DEF IInv
<1> QED
  BY <1>1, Invariance, PTL

\* split_at_mut never runs past the plane, and the strips it cuts are the
\* ranges of the serial loop.
THEOREM StripsSerial == Spec => []StripsAreSerialRanges
<1>1. TypeOK /\ IInv => StripsAreSerialRanges
  <2> SUFFICES ASSUME TypeOK, IInv PROVE StripsAreSerialRanges
    OBVIOUS
  <2>1. phase = "split" => remaining <= PlaneHeight
    <3>1. ASSUME phase = "split"
          PROVE  Start(next) <= PlaneHeight
      <4>1. next \in Nat /\ next <= NumSlices
        BY DEF TypeOK
      <4> QED
        BY <4>1, RowStartMonotone, Geometry DEF Start
    <3> QED
      BY <3>1 DEF IInv, Cut
  <2> QED
    BY <2>1 DEF IInv, Cut, StripsAreSerialRanges, TypeOK
<1> QED
  BY <1>1, Invariance, PTL

\* The error slot only ever moves to a lower slice (the mutex section).
THEOREM LowestErrorIsKept == Spec => LowestErrorKept
<1>1. TypeOK /\ IInv /\ [Next]_vars =>
        [errors # NoError => errors' # NoError /\ errors'.slice <= errors.slice]_vars
  <2> SUFFICES ASSUME TypeOK, IInv, [Next]_vars, errors # NoError, vars' # vars
               PROVE  errors' # NoError /\ errors'.slice <= errors.slice
    OBVIOUS
  <2>1. errors.slice \in Nat
    BY DEF TypeOK
  <2>2. CASE errors' = errors
    BY <2>1, <2>2
  <2>3. ASSUME NEW t \in Threads, Record(t)
        PROVE  errors' # NoError /\ errors'.slice <= errors.slice
    <3>1. Front(t) \in Slices
      BY <2>3, FrontInChunk DEF Record, Threading, IInv
    <3>2. CASE Takes(Front(t))
      BY <2>1, <2>3, <3>1, <3>2 DEF Record, Takes, NoError, Slices
    <3>3. CASE ~Takes(Front(t))
      BY <2>1, <2>3, <3>3 DEF Record
    <3> QED
      BY <3>2, <3>3
  <2> QED
    BY <2>2, <2>3
       DEF Next, CallerStep, ThreadStep, Returned, vars, main, Dispatch,
           SerialSlice, SerialReturn, Split, Deal, Spawn, ScopeReturn, Drain,
           Fail, Acquire, End
<1> QED
  BY <1>1, Invariance, PTL DEF Spec, LowestErrorKept

-----------------------------------------------------------------------------
(* Refinement *)

\* Decoding slice s in place is a step of the promise, or no step at all when
\* the slice has no rows.
LEMMA PaintRefines ==
  ASSUME TypeOK, NEW s \in Slices, Height(s) = 0 \/ verdict[s] = Ok,
         result = Pending, UNCHANGED <<verdict, result>>,
         out' = Painted(out, s, Start(s))
  PROVE  [PlaneNext]_abstractVars
<1>1. CASE verdict[s] = Ok
  BY <1>1 DEF PlaneNext, Paint
<1>2. CASE Height(s) = 0
  <2>1. Start(s) \in Nat
    BY Geometry
  <2>2. Start(s) .. Start(s) + Height(s) - 1 = {}
    BY <1>2, <2>1
  <2>3. out' = out
    BY <2>2 DEF Painted, TypeOK
  <2> QED
    BY <2>3 DEF abstractVars
<1> QED
  BY <1>1, <1>2

\* A step that gives the caller a result gives it the promised one.
LEMMA ReturnRefines ==
  ASSUME TypeOK, IInv, IInv', [Next]_vars, result = Pending,
         result' # Pending, out' = out
  PROVE  [PlaneNext]_abstractVars
<1>1. verdict' = verdict /\ Outcome' = Outcome
  BY InputsFixed
<1>2. result' = Outcome
  BY <1>1 DEF IInv, BudgetIndependent
<1>3. Failing = {} => \A s \in Slices : Holds(s)
  BY <1>1, <1>2 DEF IInv, PlaneComplete, Outcome, Holds
<1> QED
  BY <1>1, <1>2, <1>3 DEF PlaneNext, Finish

\* Both decode paths implement the promise of PlaneDecode: a plane returned as
\* decoded holds every slice's rows, and otherwise the first failing slice's
\* error is returned (finish_decode).
THEOREM Refinement == Spec => PlaneSafety
<1>1. Init => PlaneInit
  BY DEF Init
<1>2. TypeOK /\ IInv /\ (TypeOK /\ IInv)' /\ [Next]_vars => [PlaneNext]_abstractVars
  <2> SUFFICES ASSUME TypeOK, IInv, IInv', [Next]_vars
               PROVE  [PlaneNext]_abstractVars
    OBVIOUS
  <2>1. CASE SerialSlice
    <3>1. next \in Slices /\ result = Pending /\ verdict' = verdict
      BY <2>1 DEF SerialSlice, Slices, TypeOK
    <3>2. CASE Height(next) > 0 /\ verdict[next] # Ok
      <4>1. result' = verdict[next] /\ out' = out
        BY <2>1, <3>2 DEF SerialSlice
      <4>2. result' # Pending
        BY <3>1, <4>1 DEF TypeOK, Ok, Pending
      <4> QED
        BY <3>1, <4>1, <4>2, ReturnRefines
    <3>3. CASE ~(Height(next) > 0 /\ verdict[next] # Ok)
      <4>1. out' = Painted(out, next, Start(next)) /\ result' = result
        BY <2>1, <3>3 DEF SerialSlice
      <4>2. Height(next) = 0 \/ verdict[next] = Ok
        BY <3>1, <3>3, Geometry
      <4> QED
        BY <3>1, <4>1, <4>2, PaintRefines
    <3> QED
      BY <3>2, <3>3
  <2>2. CASE SerialReturn
    BY <2>2, ReturnRefines DEF SerialReturn, Ok, Pending
  <2>3. CASE ScopeReturn
    <3>1. errors.error \in Errors \cup {Ok}
      BY DEF TypeOK
    <3> QED
      BY <2>3, <3>1, ReturnRefines DEF ScopeReturn, Ok, Pending
  <2>4. ASSUME NEW t \in Threads, Drain(t)
        PROVE  [PlaneNext]_abstractVars
    <3>1. Front(t) \in Slices
      BY <2>4, FrontInChunk DEF Drain
    <3>2. phase = "scope" /\ result = Pending
      BY <2>4, InvThreadFrame DEF ThreadStep
    <3>3. strip[Front(t)] = Start(Front(t))
      BY <3>1, <3>2 DEF IInv, Cut
    <3> QED
      BY <2>4, <3>1, <3>2, <3>3, PaintRefines DEF Drain
  <2> QED
    BY <2>1, <2>2, <2>3, <2>4
       DEF abstractVars, Next, CallerStep, ThreadStep, Returned, vars, main,
           Dispatch, Split, Deal, Spawn, Fail, Acquire, Record, End
<1> QED
  BY <1>1, <1>2, Invariance, PTL DEF Spec, PlaneSafety
=============================================================================
