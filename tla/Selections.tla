----------------------------- MODULE Selections -----------------------------
(***************************************************************************)
(* Members of a set in an order, and elements of a sequence at some of its *)
(* positions.  SelectSeq and SetToSortSeq of the libraries do the same for *)
(* an operator; here the choice and the order are values, and a place is   *)
(* found by its rank, without recursion.                                   *)
(***************************************************************************)
EXTENDS Integers, Sequences, FiniteSets

\* The members of S, given for each the members that do not come after it.
Ranked(S, upto) == [k \in 1..Cardinality(S) |-> CHOOSE i \in S : Cardinality(upto[i]) = k]

\* The same of positions.
Ascending(S) == Ranked(S, [i \in S |-> S \cap 1..i])

\* What s has at the positions in S, in the order of s.
Picked(s, S) ==
    LET order == Ascending(S)
    IN  [k \in DOMAIN order |-> s[order[k]]]
=============================================================================
