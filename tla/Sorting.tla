------------------------------- MODULE Sorting -------------------------------
(***************************************************************************)
(* What the sorts of the program do: Go's sort.Sort of the attempts of a   *)
(* check, and JavaScript's of the results and events of a chart.  A sort   *)
(* puts every element at the place where its key belongs.  Elements with   *)
(* equal keys stay in their order, which matters for the events of a       *)
(* chart, and not for the attempts, of which only the keys are looked at.  *)
(***************************************************************************)
EXTENDS Integers, Sequences, FiniteSets

\* The place of the element at position i: what comes before it, and itself.
Place(key, i) ==
    Cardinality({j \in 1..Len(key) : key[j] < key[i] \/ (key[j] = key[i] /\ j <= i)})

SortedBy(s, key) ==
    [k \in 1..Len(s) |-> s[CHOOSE i \in 1..Len(s) : Place(key, i) = k]]

\* A sequence of numbers, which are their own keys.
Sorted(s) == SortedBy(s, s)

\* The elements of a finite set in the order in which upTo[x] is what does
\* not come after x.
Ranked(S, upTo) ==
    [k \in 1..Cardinality(S) |-> CHOOSE x \in S : Cardinality(upTo[x]) = k]
=============================================================================
