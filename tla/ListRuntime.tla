---------------------------- MODULE ListRuntime ----------------------------
(***************************************************************************)
(* The list of src/uhcr/runtime/list_runtime.py: cells that grow by        *)
(* doubling and a length, under every operation, those that raise too.     *)
(* The variable items says what a list is to its user: a sequence.         *)
(*                                                                         *)
(* Indices are the code's, from 0; cell i is data[i + 1].                  *)
(***************************************************************************)
EXTENDS Integers, Sequences, SequencesExt, Sublists

CONSTANTS
  Values,      (* elements                                                 *)
  Vacant,      (* None, in a cell never written                            *)
  Capacities,  (* what initial_capacity may be                             *)
  MaxLength    (* bound on the length (model only)                         *)

ASSUME ListAssumption ==
  Capacities \subseteq Nat /\ MaxLength \in Nat /\ Vacant \notin Values

VARIABLES
  data,        (* data; its length is the capacity                         *)
  length,      (* length                                                   *)
  items,       (* history: the sequence the operations make                *)
  answer       (* history: [got, want] of the last operation that answers  *)

listVars == <<data, length, items, answer>>

Vacancy(n) == [i \in 1 .. n |-> Vacant]

ListInit ==
  /\ \E n \in Capacities : data = Vacancy(n)
  /\ length = 0
  /\ items = <<>>
  /\ answer = [got |-> Vacant, want |-> Vacant]

(* Mutant: growth takes one cell less along.                               *)
GrownShort == [i \in 1 .. 2 * Len(data) |-> IF i < length THEN data[i] ELSE Vacant]

(* _grow.                                                                  *)
Grown == [i \in 1 .. 2 * Len(data) |-> IF i <= length THEN data[i] ELSE Vacant]

Roomy == IF length >= Len(data) THEN Grown ELSE data

(* A list made with capacity 0 doubles it to 0 and has no cell to write.   *)
NoCell == Len(Roomy) = length

AppendValue(v) ==
  /\ length < MaxLength /\ ~NoCell
  /\ data' = [Roomy EXCEPT ![length + 1] = v]
  /\ length' = length + 1
  /\ items' = Append(items, v)
  /\ UNCHANGED answer

(* append and insert raise IndexError then, and leave the grown data.      *)
AddRaises ==
  /\ NoCell
  /\ data' = Roomy
  /\ UNCHANGED <<length, items, answer>>

Pop ==
  /\ length > 0
  /\ length' = length - 1
  /\ answer' = [got |-> data[length], want |-> Last(items)]
  /\ items' = Front(items)
  /\ UNCHANGED data

Insert(index, v) ==
  /\ length < MaxLength /\ ~NoCell
  /\ index \in 0 .. length
  /\ data' = [i \in DOMAIN Roomy |->
       CASE i = index + 1 -> v
         [] i \in index + 2 .. length + 1 -> Roomy[i - 1]
         [] OTHER -> Roomy[i]]
  /\ length' = length + 1
  /\ items' = InsertAt(items, index + 1, v)
  /\ UNCHANGED answer

(* The first cell with the value goes; the last one keeps what it had.     *)
RemoveValue(v) ==
  /\ \E i \in 1 .. length :
       /\ data[i] = v /\ \A j \in 1 .. i - 1 : data[j] # v
       /\ data' = [j \in DOMAIN data |-> IF j \in i .. length - 1 THEN data[j + 1] ELSE data[j]]
  /\ length' = length - 1
  /\ items' = RemoveFirst(items, v)
  /\ UNCHANGED answer

SetItem(index, v) ==
  /\ index \in 0 .. length - 1
  /\ data' = [data EXCEPT ![index + 1] = v]
  /\ items' = [items EXCEPT ![index + 1] = v]
  /\ UNCHANGED <<length, answer>>

Least(a, b)    == IF a < b THEN a ELSE b
Greatest(a, b) == IF a > b THEN a ELSE b

(* The index slice makes of one it is given.                               *)
Clamped(i) == Greatest(0, Least(IF i < 0 THEN Greatest(0, length + i) ELSE i, length))

(* What a slice of a sequence is, in words: the elements at start and      *)
(* after and before end, either counted from the end when negative.        *)
Sliced(s, start, end) ==
  LET Place(i) == IF i < 0 THEN Len(s) + i ELSE i
      Within(i) == i - 1 >= Place(start) /\ i - 1 < Place(end)
  IN  Kept(s, {i \in DOMAIN s : Within(i)})

Slice(start, end) ==
  /\ answer' = [got |-> SubSeq(data, Clamped(start) + 1, Clamped(end)),
                want |-> Sliced(items, start, end)]
  /\ UNCHANGED <<data, length, items>>

ClearList ==
  /\ length > 0
  /\ length' = 0
  /\ data' = Vacancy(Len(data))
  /\ items' = <<>>
  /\ UNCHANGED answer

Indices == -(MaxLength + 1) .. MaxLength + 1

ListNext ==
  \/ \E v \in Values :
       \/ AppendValue(v) \/ RemoveValue(v)
       \/ \E index \in Indices : Insert(index, v) \/ SetItem(index, v)
  \/ AddRaises \/ Pop \/ ClearList
  \/ \E start, end \in Indices : Slice(start, end)

ListSpec == ListInit /\ [][ListNext]_listVars

-----------------------------------------------------------------------------
(* Properties.                                                             *)

(* The cells below the length are the sequence the operations make,        *)
(* however it grew, moved its elements or failed to, and pop and slice     *)
(* answer what they would of that sequence.                                *)
ListIsSequence ==
  /\ SubSeq(data, 1, length) = items
  /\ answer.got = answer.want
=============================================================================
