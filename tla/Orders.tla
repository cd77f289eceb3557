-------------------------------- MODULE Orders --------------------------------
(***************************************************************************)
(* Sets of numbers in their order, and sequences without some of their     *)
(* elements.  They are what SetToSortSeq and SelectSeq give; but those     *)
(* rest on operators the provers know no definition of.                    *)
(***************************************************************************)
EXTENDS Naturals, FiniteSets

(* The i-th of S is the one with i - 1 smaller ones.                       *)
InOrder(S) ==
  [i \in 1..Cardinality(S) |-> CHOOSE s \in S : Cardinality({t \in S : t < s}) = i - 1]

(* Sequence s without the elements of T.                                   *)
Without(s, T) ==
  LET kept == InOrder({k \in DOMAIN s : s[k] \notin T})
  IN  [i \in DOMAIN kept |-> s[kept[i]]]
=============================================================================
