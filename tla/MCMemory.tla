------------------------------ MODULE MCMemory ------------------------------
(* Instances of Memory for TLC.                                            *)
EXTENDS Memory, TLC

(* Ranges in one region and across two, that overlap or are apart.         *)
MCRanges == {<<6, 2>>, <<7, 3>>, <<11, 2>>}

(* Which pages the callers have does not matter, nor which pages hold the  *)
(* tables: these are named by their addresses.                             *)
Name(p) == IF p \in PtPages THEN CHOOSE v \in m.sp .. UserBase - 1 : At(m, v) = p ELSE 0

View ==
  <<PagesSound, Len(m.stack), m.sp, m.pts, [n \in DOMAIN m.list |-> Name(m.list[n])],
    [r \in DOMAIN m.table |-> <<Name(m.table[r][1]), m.table[r][2]>>],
    [v \in m.sp .. UserBase - 1 |-> m.ids[At(m, v)]],
    {v \in Address : At(m, v) # NoPage}, spMin, freeNum, pc, i, mine,
    [t \in Thread |-> IF pc[t] = "idle" THEN "idle" ELSE call[t]]>>

Symmetry == Permutations(Thread)
=============================================================================
