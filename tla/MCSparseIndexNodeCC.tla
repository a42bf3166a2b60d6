------------------------ MODULE MCSparseIndexNodeCC ------------------------
(***************************************************************************)
(* Small instances of SparseIndexNodeCC: the threads are model values.     *)
(***************************************************************************)
EXTENDS SparseIndexNodeCC

CONSTANTS a1, a2, s1, i1, g1   \* two adders, a searcher, an iterator, a range search
=============================================================================
