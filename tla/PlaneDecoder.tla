---------------------------- MODULE PlaneDecoder ----------------------------
(***************************************************************************)
(* One plane of src/decoder.rs::finish_decode: the choice between the      *)
(* serial loop (decode_plane_serial) and the scoped thread pool            *)
(* (decode_plane_parallel), and both of them.                              *)
(*                                                                         *)
(* In the pool the calling thread cuts the output into one strip per       *)
(* slice, deals the slices into chunks, spawns one thread per chunk, and   *)
(* leaves the scope when all of them have ended.  Each thread drains its   *)
(* chunk front to back; an error goes into a mutex-protected slot and the  *)
(* thread goes on with the next slice.                                     *)
(***************************************************************************)
EXTENDS PlaneDecode

CONSTANT Budgets        \* the worker budgets a caller may grant

ASSUME BudgetAssumption == Budgets \subseteq Nat

VARIABLES workers,      \* the budget of this call
          phase,        \* where the calling thread is
          next,         \* its loop index
          strip,        \* strip[s]: first row of the strip handed to slice s
          remaining,    \* first row not yet split off (split_at_mut's tail)
          chunk,        \* chunk[t]: the slices thread t has still to drain
          thread,       \* where thread t is
          lock,         \* the thread in the mutex, or Unlocked
          errors        \* Mutex<Option<(usize, Error)>>

vars == <<verdict, out, result, workers, phase, next, strip, remaining,
          chunk, thread, lock, errors>>

main == <<workers, phase, next, strip, remaining>>

Threads == Slices       \* there are never more threads than slices
Unlocked == -1
NoError == [slice |-> NumSlices, error |-> Ok]    \* Option::None
Par == ParallelDegree(workers, NumSlices)
Spawned == 0 .. Par - 1
Active == {"run", "want", "hold"}

Init ==
  /\ PlaneInit
  /\ workers \in Budgets
  /\ phase = "dispatch"
  /\ next = 0
  /\ strip = [s \in Slices |-> 0]
  /\ remaining = 0
  /\ chunk = [t \in Threads |-> {}]
  /\ thread = [t \in Threads |-> "unborn"]
  /\ lock = Unlocked
  /\ errors = NoError

-----------------------------------------------------------------------------
(* The calling thread *)

\* finish_decode: the pool is used only when it can help.
Dispatch ==
  /\ phase = "dispatch"
  /\ phase' = IF workers > 1 /\ NumSlices > 1 THEN "split" ELSE "serial"
  /\ UNCHANGED <<verdict, out, result, workers, next, strip, remaining,
                 chunk, thread, lock, errors>>

\* Mutant: slices without rows are decoded too.
SerialSliceNoSkip ==
  /\ phase = "serial" /\ result = Pending
  /\ next < NumSlices
  /\ IF verdict[next] # Ok
     THEN /\ result' = verdict[next]
          /\ UNCHANGED <<out, next>>
     ELSE /\ out' = Painted(out, next, Start(next))
          /\ next' = next + 1
          /\ UNCHANGED result
  /\ UNCHANGED <<verdict, workers, phase, strip, remaining, chunk, thread,
                 lock, errors>>

\* One iteration of decode_plane_serial; `?` returns the first error.
SerialSlice ==
  /\ phase = "serial" /\ result = Pending
  /\ next < NumSlices
  /\ IF Height(next) > 0 /\ verdict[next] # Ok
     THEN /\ result' = verdict[next]
          /\ UNCHANGED <<out, next>>
     ELSE /\ out' = Painted(out, next, Start(next))
          /\ next' = next + 1
          /\ UNCHANGED result
  /\ UNCHANGED <<verdict, workers, phase, strip, remaining, chunk, thread,
                 lock, errors>>

SerialReturn ==
  /\ phase = "serial" /\ result = Pending
  /\ next = NumSlices
  /\ result' = Ok
  /\ UNCHANGED <<verdict, out, main, chunk, thread, lock, errors>>

\* Mutant: every strip gets the same number of rows.
SplitEvenly ==
  /\ phase = "split"
  /\ next < NumSlices
  /\ strip' = [strip EXCEPT ![next] = remaining]
  /\ remaining' = remaining + PlaneHeight \div NumSlices
  /\ next' = next + 1
  /\ UNCHANGED <<verdict, out, result, workers, phase, chunk, thread, lock,
                 errors>>

\* split_at_mut hands slice `next` the front of what is left of the plane.
Split ==
  /\ phase = "split"
  /\ next < NumSlices
  /\ strip' = [strip EXCEPT ![next] = remaining]
  /\ remaining' = remaining + Height(next)
  /\ next' = next + 1
  /\ UNCHANGED <<verdict, out, result, workers, phase, chunk, thread, lock,
                 errors>>

\* Deal the work units into the chunks of the threads.
Deal ==
  /\ phase = "split"
  /\ next = NumSlices
  /\ chunk' = [t \in Threads |->
                 {s \in Slices : BucketOf(s, NumSlices, Par) = t}]
  /\ phase' = "scope"
  /\ next' = 0
  /\ UNCHANGED <<verdict, out, result, workers, strip, remaining, thread,
                 lock, errors>>

Spawn ==
  /\ phase = "scope"
  /\ next < Par
  /\ thread' = [thread EXCEPT ![next] = "run"]
  /\ next' = next + 1
  /\ UNCHANGED <<verdict, out, result, workers, phase, strip, remaining,
                 chunk, lock, errors>>

\* Mutant: the slot is read without waiting for the threads.
ScopeReturnEarly ==
  /\ phase = "scope" /\ result = Pending
  /\ next = Par
  /\ result' = IF errors = NoError THEN Ok ELSE errors.error
  /\ UNCHANGED <<verdict, out, main, chunk, thread, lock, errors>>

\* The scope ends once every spawned thread has; then the slot is read.
ScopeReturn ==
  /\ phase = "scope" /\ result = Pending
  /\ next = Par
  /\ \A t \in Spawned : thread[t] = "ended"
  /\ result' = IF errors = NoError THEN Ok ELSE errors.error
  /\ UNCHANGED <<verdict, out, main, chunk, thread, lock, errors>>

-----------------------------------------------------------------------------
(* Thread t of the scope *)

\* The slice at the front of t's chunk: slices were pushed in slice order.
Front(t) == CHOOSE s \in chunk[t] : \A q \in chunk[t] : s <= q

\* A slice without rows is skipped, one that decodes is written to its strip.
Drain(t) ==
  /\ thread[t] = "run"
  /\ chunk[t] # {}
  /\ Height(Front(t)) = 0 \/ verdict[Front(t)] = Ok
  /\ out' = Painted(out, Front(t), strip[Front(t)])
  /\ chunk' = [chunk EXCEPT ![t] = @ \ {Front(t)}]
  /\ UNCHANGED <<verdict, result, main, thread, lock, errors>>

Fail(t) ==
  /\ thread[t] = "run"
  /\ chunk[t] # {}
  /\ Height(Front(t)) > 0 /\ verdict[Front(t)] # Ok
  /\ thread' = [thread EXCEPT ![t] = "want"]
  /\ UNCHANGED <<verdict, out, result, main, chunk, lock, errors>>

Acquire(t) ==
  /\ thread[t] = "want"
  /\ lock = Unlocked
  /\ lock' = t
  /\ thread' = [thread EXCEPT ![t] = "hold"]
  /\ UNCHANGED <<verdict, out, result, main, chunk, errors>>

\* Mutant: the first error to arrive is kept.
TakesFirstComer(s) == errors = NoError

\* Mutant: the comparison is turned round.
TakesHighest(s) == errors = NoError \/ s > errors.slice

\* Does the error of slice s replace what the slot holds?
Takes(s) == errors = NoError \/ s < errors.slice

\* Mutant: the guard is never dropped.
RecordKeepsLock(t) ==
  /\ thread[t] = "hold"
  /\ errors' = IF Takes(Front(t))
               THEN [slice |-> Front(t), error |-> verdict[Front(t)]]
               ELSE errors
  /\ chunk' = [chunk EXCEPT ![t] = @ \ {Front(t)}]
  /\ thread' = [thread EXCEPT ![t] = "run"]
  /\ UNCHANGED <<verdict, out, result, main, lock>>

Record(t) ==
  /\ thread[t] = "hold"
  /\ errors' = IF Takes(Front(t))
               THEN [slice |-> Front(t), error |-> verdict[Front(t)]]
               ELSE errors
  /\ chunk' = [chunk EXCEPT ![t] = @ \ {Front(t)}]
  /\ lock' = Unlocked
  /\ thread' = [thread EXCEPT ![t] = "run"]
  /\ UNCHANGED <<verdict, out, result, main>>

End(t) ==
  /\ thread[t] = "run"
  /\ chunk[t] = {}
  /\ thread' = [thread EXCEPT ![t] = "ended"]
  /\ UNCHANGED <<verdict, out, result, main, chunk, lock, errors>>

-----------------------------------------------------------------------------
CallerStep ==
  \/ Dispatch \/ SerialSlice \/ SerialReturn
  \/ Split \/ Deal \/ Spawn \/ ScopeReturn

ThreadStep(t) == Drain(t) \/ Fail(t) \/ Acquire(t) \/ Record(t) \/ End(t)

\* The call has returned and all its threads are gone.
Returned == result # Pending /\ UNCHANGED vars

Next == CallerStep \/ (\E t \in Threads : ThreadStep(t)) \/ Returned

\* The OS runs every runnable thread, and the mutex is handed to a waiter
\* in the end: a waiter competes with at most one other critical section
\* per failing slice, so weak fairness is enough.
Fairness == WF_vars(CallerStep) /\ \A t \in Threads : WF_vars(ThreadStep(t))

Spec == Init /\ [][Next]_vars /\ Fairness

-----------------------------------------------------------------------------
(* Properties *)

TypeOK ==
  /\ verdict \in [Slices -> Errors \cup {Ok}]
  /\ out \in [Rows -> {Blank} \cup (Slices \X Nat)]
  /\ result \in Errors \cup {Ok, Pending}
  /\ workers \in Budgets
  /\ phase \in {"dispatch", "serial", "split", "scope"}
  /\ next \in 0 .. NumSlices
  /\ strip \in [Slices -> Nat]
  /\ remaining \in Nat
  /\ chunk \in [Threads -> SUBSET Slices]
  /\ thread \in [Threads -> {"unborn", "ended"} \cup Active]
  /\ lock \in Threads \cup {Unlocked}
  /\ errors \in [slice : 0 .. NumSlices, error : Errors \cup {Ok}]

\* The thread budget and the schedule never change what the caller is told:
\* the first failing slice wins on every path, as decode_frame_with_workers
\* and the comment over decode_plane_parallel promise.
BudgetIndependent == result # Pending => result = Outcome

\* A plane returned as decoded has every row written, by the slice that owns
\* the row and at its place: no slice is dropped between the chunks, and the
\* scope does not end before the last strip is written.
PlaneComplete == result = Ok => \A s \in Slices : Holds(s)

\* The strips cut by walking split_at_mut are the row ranges the serial loop
\* indexes, and they never run past the plane (split_at_mut would panic).
StripsAreSerialRanges ==
  /\ phase = "scope" => \A s \in Slices : strip[s] = Start(s)
  /\ remaining <= PlaneHeight
  /\ phase = "scope" => remaining = PlaneHeight

\* No slice is in the hands of two threads, so no strip has two writers and
\* no error is recorded twice.
OneOwner ==
  \A t, u \in Threads : t # u => chunk[t] \cap chunk[u] = {}

\* The slot's slice index only ever falls: a later error of a higher slice
\* cannot hide the first failing one.
LowestErrorKept ==
  [][errors # NoError => errors' # NoError /\ errors'.slice <= errors.slice]_vars

\* The call returns, whatever fails and however the threads are scheduled.
Terminates == <>(result # Pending)

\* Both paths implement the promise of PlaneDecode.
ImplementsPlaneDecode == PlaneSpec
=============================================================================
