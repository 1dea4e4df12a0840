---------------------------- MODULE MCPrcSupport ----------------------------
(* Small instances of PrcSupport. *)
EXTENDS PrcSupport, TLC

CONSTANTS t1, t2, i1, i2

\* The CPU lock masks 2 and 3, the masks of both interrupts; i1 can
\* interrupt the handler of i2.  chg_ipm may mask nothing, i2 alone, or
\* more than the CPU lock.
Priority == [i \in Intno |-> IF i = i1 THEN 2 ELSE 3]
Masks0123 == {0, 1, 3}
Masks03 == {0, 3}

\* No definition tells one task from another.
Alike == Permutations({t1, t2})
=============================================================================
