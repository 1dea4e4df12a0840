------------------------------- MODULE Links -------------------------------
(***************************************************************************)
(* Lists that are linked in memory: next is the link field of each node,   *)
(* and end the link of the last one.                                       *)
(***************************************************************************)
EXTENDS Integers, Sequences, FiniteSets

\* The nodes linked from first on, followed as far as they go; longer than
\* there are nodes when they are a cycle.
Chain(next, first, end) ==
  LET last == Cardinality(DOMAIN next) + 1
      node[n \in 1 .. last] ==
        IF n = 1 THEN first
        ELSE IF node[n - 1] \in DOMAIN next THEN next[node[n - 1]] ELSE end
  IN  [n \in 1 .. Cardinality({i \in 1 .. last : node[i] # end}) |-> node[n]]
=============================================================================
