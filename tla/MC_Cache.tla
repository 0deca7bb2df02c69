------------------------------ MODULE MC_Cache ------------------------------
(* Instantiates Cache for TLC: one file of two pages, two or three tasks,  *)
(* a one- or two-page budget, and page sizes in KiB.                        *)
EXTENDS Cache, TLC

\* page sizes (KiB) the IPC may set: a single one, or the default and double
MCOneSize  == {128}
MCTwoSizes == {128, 256}
MCBudget   == {1}
MCBudgets  == {1, 2}
\* a budget large enough that nothing is ever evicted from one file of
\* NumPages <= 2 pages
MCRoomy    == {2}
\* a budget that reaches zero: nothing outside Cache bounds m_max_pages
\* below by one (max_pages = cache size / page size, both user options)
MCBudgetZero == {0, 1}

\* Orphans waiting in m_orphaned or with the host: a bound of the model.
MCOrphanBound == 1
\* States with every list node in use are not expanded: a new page then
\* always finds a free node.
MCConstraint ==
    /\ Len(orphans) + Len(host) <= MCOrphanBound
    /\ Len(lru) < NodeBound

\* Tasks and Ids are sets of model values; permuting them is sound.
MCSymmetry == Permutations(Tasks)
=============================================================================
