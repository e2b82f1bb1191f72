--------------------------- MODULE MC_DsetRestore ---------------------------
(***************************************************************************)
(* Model-checking instance of DsetRestore: two set names, two elements, a  *)
(* send buffer of two ADT members and a few input lines.                   *)
(***************************************************************************)
EXTENDS DsetRestore, TLC

CONSTANTS s1, s2, e1, e2

MCSets == {s1, s2}
MCElems == {e1, e2}

\* Set names and elements are only compared for equality.
Symmetry == Permutations(MCSets) \cup Permutations(MCElems)
=============================================================================
