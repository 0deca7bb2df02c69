----------------------------- MODULE MC_CacheConn -----------------------------
(* Instantiates CacheConn for TLC: one or two files of two pages, two       *)
(* tasks, a one-page budget.                                                *)
EXTENDS CacheConn

MCOneSize  == {128}
MCTwoSizes == {128, 256}
MCBudget   == {1}
MCBudgets  == {1, 2}

\* States with every list node in use are not expanded: a new page then
\* always finds a free node.
MCConstraint == Len(lru) < NodeBound

\* Tasks are model values; permuting them is sound.
MCSymmetry == Permutations(Tasks)
=============================================================================
