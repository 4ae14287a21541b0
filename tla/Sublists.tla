------------------------------- MODULE Sublists -------------------------------
(***************************************************************************)
(* What a Python list comprehension with a condition builds: the entries   *)
(* of a list at some of its places, in the order of the list.              *)
(***************************************************************************)
EXTENDS Integers, Sequences, FiniteSets

(* The k-th of a set of places, counted from 1.                            *)
Nth(places, k) ==
  CHOOSE i \in places : Cardinality({j \in places : j <= i}) = k

(* [x for x in list if ...], for the places whose entries pass the test.   *)
Kept(list, places) == [k \in 1 .. Cardinality(places) |-> list[Nth(places, k)]]
=============================================================================
