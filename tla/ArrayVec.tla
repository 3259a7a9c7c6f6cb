------------------------------ MODULE ArrayVec ------------------------------
(***************************************************************************)
(* common::arrayvec::ArrayVec (common/src/arrayvec.rs): a list in an array *)
(* of CAP options that is its own iterator.  push fills the first hole;    *)
(* next reads at an index that belongs to the list and is copied with it.  *)
(*                                                                         *)
(* A `for` over the list consumes a bitwise copy, since the type is Copy.  *)
(* One such copy, `iter`, is kept beside the list.                         *)
(***************************************************************************)
EXTENDS Integers, Sequences

CONSTANTS CAP, T, None

ArgumentsOK == CAP \in Nat /\ None \notin T

VARIABLES
  vec,      \* the list: its array and its index
  iter,     \* the copy a for loop runs over
  pushed,   \* what was pushed successfully, in order
  start,    \* the list's index when the copy was made
  yielded,  \* what the copy has yielded
  last      \* how the last call ended

vars == <<vec, iter, pushed, start, yielded, last>>

Slots == 1 .. CAP

New == [array |-> [s \in Slots |-> None], index |-> 0]

Init ==
  /\ vec = New
  /\ iter = New
  /\ pushed = << >>
  /\ start = 0
  /\ yielded = << >>
  /\ last = "none"

Holes(v) == {s \in Slots : v.array[s] = None}

\* Mutant: the last hole is filled.
FirstHoleLast(v) == CHOOSE s \in Holes(v) : \A t \in Holes(v) : s >= t

FirstHole(v) == CHOOSE s \in Holes(v) : \A t \in Holes(v) : s <= t

Push(x) ==
  /\ last # "panicked"
  /\ IF Holes(vec) = {}
       THEN last' = "capacity" /\ UNCHANGED <<vec, pushed>>
       ELSE /\ vec' = [vec EXCEPT !.array = [vec.array EXCEPT ![FirstHole(vec)] = x]]
            /\ pushed' = Append(pushed, x)
            /\ last' = "ok"
  /\ UNCHANGED <<iter, start, yielded>>

\* self.array[self.index]
At(v) == v.array[v.index + 1]

\* Mutant: the last slot is past the array.
OutcomeEarly(v) ==
  IF v.index + 1 >= CAP THEN "panicked" ELSE IF At(v) = None THEN "end" ELSE "ok"

Outcome(v) ==
  IF v.index >= CAP THEN "panicked" ELSE IF At(v) = None THEN "end" ELSE "ok"

Advanced(v) == IF Outcome(v) = "ok" THEN [v EXCEPT !.index = @ + 1] ELSE v

\* next on the list itself.
NextOfVec ==
  /\ last # "panicked"
  /\ vec' = Advanced(vec)
  /\ last' = Outcome(vec)
  /\ UNCHANGED <<iter, pushed, start, yielded>>

\* Mutant: the loop begins at the first element.
CopyRewound ==
  /\ last # "panicked"
  /\ iter' = [vec EXCEPT !.index = 0]
  /\ start' = vec.index
  /\ yielded' = << >>
  /\ last' = "ok"
  /\ UNCHANGED <<vec, pushed>>

\* A for loop begins: the copy has the list's index too.
Copy ==
  /\ last # "panicked"
  /\ iter' = vec
  /\ start' = vec.index
  /\ yielded' = << >>
  /\ last' = "ok"
  /\ UNCHANGED <<vec, pushed>>

\* An iteration of the for loop.
NextOfIter ==
  /\ last # "panicked"
  /\ iter' = Advanced(iter)
  /\ yielded' = IF Outcome(iter) = "ok" THEN Append(yielded, At(iter)) ELSE yielded
  /\ last' = Outcome(iter)
  /\ UNCHANGED <<vec, pushed, start>>

Halted == last = "panicked" /\ UNCHANGED vars

Next == (\E x \in T : Push(x)) \/ NextOfVec \/ Copy \/ NextOfIter \/ Halted

Spec == Init /\ [][Next]_vars

-----------------------------------------------------------------------------
(***************************************************************************)
(* Properties                                                              *)
(***************************************************************************)

Vec == [array : [Slots -> T \union {None}], index : 0 .. CAP]

HoldsPushed ==
  /\ Len(pushed) <= CAP
  /\ \A s \in Slots : vec.array[s] = IF s <= Len(pushed) THEN pushed[s] ELSE None

\* The array holds what was pushed, in order and without a hole, so an iteration
\* never ends before the last element; a loop yields the elements pushed before
\* it began, each once and in order, starting where the list itself had been read
\* to (arrayvec.rs:22-43).
YieldsInOrder ==
  /\ HoldsPushed
  /\ start + Len(yielded) = iter.index
  /\ iter.index <= Len(pushed)
  /\ \A m \in 1 .. Len(yielded) : yielded[m] = pushed[start + m]

\* The read past the array happens exactly when the list is full and has been
\* read to its end (arrayvec.rs:36-37).
PanicsOnlyPastFull ==
  last = "panicked" => Len(pushed) = CAP /\ CAP \in {vec.index, iter.index}
=============================================================================
