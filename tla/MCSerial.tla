------------------------------ MODULE MCSerial ------------------------------
(* Small instances of Serial. *)
EXTENDS Serial, TLC

CONSTANTS t1, t2

\* The two tasks are treated alike by every definition.
Alike == Permutations({t1, t2})

Text1 == { << "LF" >> }
Text2 == { << "a", "LF" >> }

Raw   == { {"FCSND"} }
Mixed == { {"FCANY", "FCSND"} }
=============================================================================
