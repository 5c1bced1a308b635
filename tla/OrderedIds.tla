----------------------------- MODULE OrderedIds -----------------------------
(***************************************************************************)
(* Rows fetched with ORDER BY id: a result set is a set of natural ids, and *)
(* its order is the order of the ids.                                      *)
(***************************************************************************)
EXTENDS Naturals, FiniteSets

\* The row a loop over the ordered result handles first.
First(S)     == CHOOSE i \in S : \A j \in S : i <= j
\* LIMIT n.
FirstN(S, n) == {i \in S : Cardinality({j \in S : j < i}) < n}
\* rows[n], counted from 0.
Nth(S, n)    == CHOOSE a \in S : Cardinality({b \in S : b < a}) = n
=============================================================================
