------------------------------- MODULE Lists -------------------------------
(***************************************************************************)
(* The methods of Rust's slices and iterators that the ledger, the chain   *)
(* and fork choice are written with.  SequencesExt has the same operators, *)
(* but it also extends Bags, whose definitions every proof obligation would*)
(* carry: the modules that are reasoned about take these instead.          *)
(***************************************************************************)
EXTENDS Naturals, Sequences, FiniteSets, FiniteSetsExt, Folds, Functions

\* iter().fold: the elements in order, each with the result so far.
fold(step(_, _), base, list) ==
    MapThenFoldSet(LAMBDA x, acc : step(acc, x), base, LAMBDA i : list[i], Max, DOMAIN list)

\* last().unwrap() of a list that is not empty.
last(list) == list[Len(list)]

\* iter().rev(): the elements from the last to the first.
rev(list) == [i \in DOMAIN list |-> list[Len(list) - i + 1]]
\* The orders in which a HashMap or a HashSet may hand out its elements.
orders(set) == Injection(1 .. Cardinality(set), set)
=============================================================================
